# CallSentry: specifications, model checking and proofs

CallSentry answers a business's phone. Twilio sends webhooks to the API
(`src/app/callsentry`) and streams the audio to the media server
(`src/pipecat`); the media server cuts the audio into utterances, has them
transcribed, posts each to the API as a *turn*, and speaks the answer. The API
keeps the conversation in Redis, the call row, its cost ledger and the
appointments in PostgreSQL, and books at Cal.com. This directory holds TLA+
models of the parts where orders, failures and overlaps matter, the TLC runs
that check them and the TLAPS proofs about them.

    tlc -config MCSettlement.cfg MCCallRecord      # any run of PROJECT.json
    tlapm CallRecordProofs.tla                     # any *Proofs module

`PROJECT.json` lists every run with its properties, the mutated definition that
shows each property can fail, the source lines each definition models, the
hazards with the properties that cover them, and the theorems.

## Inventory

| Component | State | Operations | Hard behaviour | What makes it correct |
|---|---|---|---|---|
| Call record (`api/routes/webhooks.py`, `internal.py`, `core/db.py`) | one `calls` row, sessions with stale copies of it | voice webhook, turn, hangup, status callback | four kinds of request interleave at every await; retries; rollback | one row per call; nothing established is taken back; the verdict of a hangup respects an escalation |
| Cost ledger (`services/costs.py`) | `cost_entries`, `cost_usd` on the row | `record`, `recompute_call_cost` | two settlers sum concurrently; flush and commit are apart | the total equals the ledger; nothing rolled back is charged; minutes billed once |
| Conversation state (`services/callstate.py`) | one Redis key per call, with a TTL | `load`, `save`, `clear` | saved after it was cleared; expires mid-call | is forgotten in the end; expiry never books anything wrong |
| Voice agent (`agents/voice_agent.py`, `intent_detector.py`) | `CallState`: entities, pending slot, questions asked | `handle_turn`, `finalize_call` | long sequences of turns; a caller who changes their mind | budget of questions; a booking only for the slot that was offered |
| Booking (`agents/booking_agent.py`, `services/calcom.py`, `sms.py`) | `appointments`, Cal.com's bookings, texts sent | `propose`, `confirm`, `cancel`, reminders | others book too; the API can fail after Cal.com has booked | nothing is promised that is not booked; rows and calendar agree |
| Appointments after the call (`webhooks.py: cal_webhook`, `routes/appointments.py`, `main.py`) | status, time, `reminder_sent` | Cal.com events, dashboard, reminder sweep | events out of order; sweep against reschedule; crash between text and commit | rows follow the calendar; one reminder per appointment |
| Endpointer (`pipecat/agent/pipeline.py`) | buffer and counters | `push`, `take`, `reset` | playbacks starting mid-utterance; thresholds | whole utterances, bounded buffer, no turn that never ends |
| Call pipeline (`pipeline.py`, `main.py`) | asyncio tasks, `speaking`, `_playback_task`, `should_hangup`, transcript | `on_media`, `_handle_utterance`, `say`, `_stream`, `finish` | tasks that cancel each other's playback; end of the call under way | never deaf, never stuck, dropped exactly when asked, complete report |
| Provider chain (`core/providers.py`, `llm.py`, `tts.py`, ...) | health cache | `status`, `run`, `invalidate` | probe against invalidate; settings changed between check and use | local first, always an answer, no paid call in local-only mode |
| Platform settings (`services/platform_settings.py`) | stored overrides, live `Settings`, baseline | `load_overrides`, `update` | live values change before the commit | live values are the stored ones or the environment's |
| Users (`routes/settings.py`, `auth.py`, `readonly.py`) | `users` | create, remove, roles, viewer filter | two removals at once | a business keeps a user |
| Retention (`services/retention.py`) | recordings, transcripts, erased callers | `sweep`, `erase_caller` | erasure while a call is open | nothing identifying comes back |
| Knowledge base (`services/kb.py`, `agents/kb_agent.py`) | documents, chunks, vectors | index, search, answer | boundaries of chunking; model unavailable | bounded chunks; unsure means escalate |
| Background loop (`main.py`) | none of its own | sweep and reminders every 30 min | failure half-way | the next round does no harm |

The components interact by HTTP (Twilio → API, media server → API, API →
Cal.com), through the shared row and ledger in PostgreSQL, through the Redis
key, and inside the media server through the attributes of one `CallPipeline`.

Not to be modelled: the dashboard and deployment files, migrations, seed data,
logging, the audio codec arithmetic, encryption and tokens, the speech worker
(a stateless wrapper), and the read-only reports.

## Modules

Written:

1. `CallRecord` (with `CallRecordProofs`, `MCCallRecord`): the call row under
   concurrent requests.
2. `Conversation` (`ConversationProofs`, `MCConversation`): what one call says,
   promises and books.
3. `Endpointer` (`CuttingProofs`, `MCEndpointer`): audio to utterances.
4. `VoicePipeline` (`VoicePipelineProofs`, `MCVoicePipeline`): the tasks of a
   live call.
5. `PlatformSettings` (`MCPlatformSettings`): stored and live settings.
6. `ProviderChain`, which extends it (`ProviderChainProofs`,
   `MCProviderChain`): fallback and health cache while settings change, and
   the refinement of `FirstAnswer`, what a chain promises.
7. `Appointments` (`AppointmentsProofs`, `MCAppointments`): what happens to an
   appointment after the call, up to its reminder.
8. `Retention` (`RetentionProofs`, `MCRetention`): the sweep and an erasure
   against open calls.
9. `KnowledgeBase` (`CuttingProofs`, `MCKnowledgeBase`): chunking, storing,
   searching. `CuttingProofs` has the proofs of both components that cut, and
   extends both modules (the specification of `Endpointer` is `ESpec` for that).
10. `Accounts` (`AccountsProofs`, `MCAccounts`): users and businesses.

Planned:

- An abstract call, *answered, then booked or escalated, then settled once*,
  and `CallRecord` shown to implement it as far as its commits allow.
- `VoicePipeline` composed with `Conversation`, for turns that overlap on one
  saved conversation.
- `Appointments` composed with `Retention` (the sweep and the reminders share
  a transaction).

A run gives way to another when the other says more; what the repository says
and the code does not do is stated in the modules all the same, and Divergences
tells how to see it.

## CallRecord

State: `row` (the columns whose overwriting matters) and `stored` (the inserted
rows), `ledger` (committed cost entries), `conv` (the Redis key), `lock` (the
PostgreSQL row lock), and for each request its place `pc`, the copy of the row
its session loaded (`loaded`), the columns it has edited (`edited`), the
entries it has flushed (`pending`) and what the conversation it read holds.

A request is one process. Each action is the code between two awaits:
`VoiceSelect`, `VoiceInsert`, `VoiceSave` (`twilio_voice`), `TurnLoad`,
`TurnHear`, then `TurnAnswered`, `TurnBooked` or `TurnEscalated`, `TurnSave`
(`turn` and `handle_turn`), `HangupLoad`, `HangupAnalyse` or `HangupSilent`,
`Recompute`, `Clear` (`hangup`, `finalize_call`), `StatusLoad`, `StatusRecord`
(`twilio_status`). `Commit` writes exactly the edited columns of the loaded
copy, as the ORM does, and `Fail` rolls back from any point. A flush or the
first UPDATE takes the row lock until the end of the transaction. Several
deliveries of a webhook are several processes.

Runs:

- `call_turns`: two turns, a hangup and a status callback. No commit takes
  back an escalation, its reason or the transcript (`FactsKept`); an escalated
  row says why (`EscalationExplained`); nothing rolled back is charged
  (`ChargesBacked`); a hangup that has seen an escalation leaves the outcome
  alone (`SeenEscalationStands`).
- `settlement`: two voice deliveries, a turn, a hangup, one status callback.
  One row per call (`OneRowPerCall`), both settlers in the total
  (`SettlersCharged`, `SettledInFull`), no request waits for ever
  (`RequestsEnd`), the conversation is forgotten (`ConversationForgotten`).
  Two deliveries are enough for the insert race, and two settlers for the sum.

Durations are two values (none, 40 s), an amount of money is one unit per
entry, a verdict is one of two. The lock is ours alone: two requests of one
call compete for one row, so no cycle of locks can form in the code either.
Every entry is assumed to cost something, a transcript to be blank only when
nothing was said. A framework version is not pinned: the commit of a request
may come after its response, which the model allows.

Fairness (`FairSpec`): every accepted request is scheduled and its awaits
return (they have timeouts or end with the database), and the Redis key
expires. The code has no retry or queue of its own that would need more.

## Conversation

State: `saved` (Redis), `mem` (the turn's copy), `heard`, `reply`, `row`,
`appointments`, `texted`, `calendar` (Cal.com's view of each slot), `told` (how
far an offer of each slot has come: listed by Cal.com, part of the saved
answer, said to the caller; read by the properties only) and two bounds, turns
and failures. An utterance is what the code tells apart: the
intent found, whether a name was given, the time asked for, the affirmative
tokens in its text. `Escalate`, `TakeLeave`, `Faq`, `Freeform`, `Ask`,
`Propose`, `BookAccepted` and `BookRefused` are the branches of `handle_turn`
down to Cal.com's answer; `Text`, `Save` and `Commit` follow, and `Fail` cuts
a turn at any of them, leaving what has happened outside. `Expire` drops the
saved conversation at any time, `Others` book and cancel at Cal.com.

- `booking`: five turns, one failure, three slots. No text and no row without
  a booking (`NothingPromisedUnbooked`), no second confirmation of a booked
  slot, `BookedHasRow`, rows and calendar in step when no turn failed
  (`RowsInStep`), smalltalk within its budget (`TalkBudget`); a slot is booked
  only if Cal.com listed it near the time asked for and the saved answer of an
  earlier turn named it (`BookedWasOffered`). Five turns let a caller book, lose
  the state, be offered again and confirm again.

Assumed: an HTTP error from Cal.com means nothing was booked (a lost answer is
a failure of the turn instead). The turns of this module come one after the
other; overlapping ones are in `CallRecord`, without the conversation.

## Endpointer

`push`, `take` and `on_media` over frames that are speech or quiet, with the
first and last step of any playback in between. `utterances` uses thresholds
4/3/9/2 in the order of the real 35/10/1500/8 (silence and minimum speech may
swap sides; the proofs hold for all): what is sent is whole (`UtteranceWhole`),
nothing is held during playback, the buffer is bounded, and as long as frames
arrive a started turn ends (`TurnEnds`, under weak fairness of frames, which
Twilio sends every 20 ms while the stream is open).

## VoicePipeline

The greeting and each turn are tasks, each `say` starts a stream, the websocket
loop is a process: `pc`, `stream` and `loop` say where they are. `playback` is
`_playback_task`, and `target` whose stream a task waits for after cancelling
it. `CancelPlayback` and `PlaybackGone` are `_cancel_playback` before and after
its await; a stream cancelled before its first step never runs its body
(`dropped`). Every request may answer, fail or raise; once the client is closed
none succeeds. CancelledError passes by `except Exception`, so an interrupted
turn ends where it is.

- `voice_call`: the greeting and one turn, which overlap as two turns do. The
  caller is ignored only while something is played
  (`DeafOnlyWhilePlaying`); the call is dropped or transferred when a turn that
  asked for it, or apologised, has played its line to the end, and only when
  one has played it or could not have it voiced; an interrupted line does
  neither (`HangupExact`); the report holds both sides of every answered turn
  (`ReportHoldsAnswered`); every task ends (`TurnsEnd`) and a call to be
  dropped is closed and reported (`CallCloses`). Two turns and the greeting
  have 14 million states; the safety properties are proved for any number.

Fairness: asyncio runs every ready task, the HTTP client has a 30 s timeout,
frames come while the caller is connected, and a disconnection is delivered.

## PlatformSettings and ProviderChain

`PlatformSettings` has the rows (`stored`), the one `Settings` object all
services read (`live`), the environment of the process and the `baseline` that
clearing an override restores. An update is `Submit`, `Select`, `Apply` (all
assignments to the live object, before anything is written), `Flush`, `Commit`
or `Fail`; `Restart` is a new process, perhaps with other variables, with
another key that opens no old secret (`Orphan`), and with a load that may fail.

- `settings`: two operators over a plain setting and a secret. A key no update
  has in hand runs on its row, else on the environment (`LiveFollowsStored`).
  `torn` names the exceptions the code allows: an update that failed after
  `Apply`, or two that overlapped on a key. Two updates are what it takes to
  overlap; the theorem is for any number.

`ProviderChain` adds `health` (the 30-second cache), the registry's `lock`,
and for each request or health-map viewer where it stands. `Ask`, `ProbeLocal`,
`ProbeEnds`, `ProbeRemote`, `CallAnswered`, `CallFails` are `run` and `status`
between two awaits; `Look*` is `snapshot`; `Announce` is the flush that makes
the registry forget. A probe stores what it saw even if the registry was told
to forget meanwhile, as the code does.

- `providers`: one chain, one request, one viewer, an update that switches the
  mode and the server together and one that fails, restarts. A paid call begins
  only while local-only mode is off, but for the window of an update
  (`LocalOnlyHolds`); the chain implements `FirstAnswer` with its liveness
  (`AnsweredByFirst`); a local server that is well for good is used again
  (`LocalComesBack`). One chain is enough, since chains share only the lock and
  the settings; a probe and a request of the same chain are what can disturb
  each other.
- `stale_key`: see Divergences.

`LocalOnlyHolds` excuses the window of an update, from its assignments to the
flush that makes the registry forget, and a flush that fails; Divergences has
what that leaves out (`LocalOnlyIsHard`).

Fairness: `asyncio.Lock` is granted in order of arrival (strong fairness of
getting it), HTTP clients have timeouts (weak fairness of an answer), and time
passes for the cache (weak fairness of `Expire`).

## Appointments

State: Cal.com's `calendar`, the committed `row`, the events in `mail`, what
each open handler loaded (`request`), the open reminder `round` and a clock.
A handler loads, awaits and commits the columns it changed (`Merge`), as the
ORM does. `Arrives` delivers any event sent so far, in any order and again, so
a lost event is one that never arrives; the code keeps no queue and no order.
`Remind` is one text, `RoundEnds` the only commit of a round, `RoundFails` and
`Restart` roll it back. The history variables (`handled`, `doubt`, `texted`,
`reopened`, `steady`, `crossed`) are read by the properties only.

- `appointments`: one booking, two handlers, two times, one failure, clock 0..3,
  changes and failures at most three together (`FewEvents`). Row and calendar
  agree once every event has been handled after the one before, whatever
  dashboard changes, rounds and repetitions came between (`InStep`); a time is
  texted again only if its mark was taken back since (`RepeatedOnlyIfReopened`);
  an appointment that stood for a pause when its window ends is texted by then
  (`RemindedUnlessCrossed`). Without their conditions the last two fail, even
  without any failure (Divergences).

`texted` is cleared only when the time on the row really changes. `reopened`
has the bookings whose mark was taken back after a text: by a reschedule
delivered again with the time the row has, or with a round that rolled back.
`crossed` has those that were moved while a round had the row, or whose move
left the mark of the old time; `steady` is when status, time or the failures
last changed.

`doubt` names where the row may rightly differ: events that overlapped or came
out of order, a handler that failed (the event is answered 500, and Cal.com's
retry is not relied on), a status the dashboard set against the calendar. One
booking is enough for `InStep`, as handlers touch one row; two handlers make
every overlap of two, and the proofs are for any number. The unit of the clock
is one in which a round fits, the window is one pause wide (`WindowStart +
Interval <= WindowEnd`; in the code two hours against half an hour). Handlers
and rounds are not assumed to be fair: the properties are safety, the clock
only stands still while a round is due, which is how `asyncio.sleep` behaves.

## Retention

State: what each `call` row holds, the settings, the open `round`, the handlers
of calls in progress. The sweep's UPDATEs lock the rows they change until the
commit at the end of the loop, so writers of those wait. `EraseLoads` and
`EraseCommits` are `erase_caller`: what was not loaded is not cleared.

- `retention`: one call, two requests, periods of one and two days, one change
  of the settings, one failed round. A row holds a recording, a transcript, a
  summary and a reason of escalation. No recording and no transcript outlives
  its period by more than a pause (`MediaNotOverdue`), counted from the last write, change or failure; no
  recording goes before the time stamped on it but by erasure
  (`RecordingKept`); a call that was erased at rest holds nothing, and no other
  visit of the number is left (`ErasureHolds`).

The sweep clears no summary and no reason: see Divergences.

Assumed: all calls come from one number; an appointment the caller made under
another number is out of the erasure's reach in the code too, and is left out.
The repository has no route for the erasure, so its caller is taken to be an
operator's script with one transaction. One call is enough: rows are cleared
one by one, and no condition reads two.

## KnowledgeBase

A text is the lengths of its paragraphs, a piece an interval of it. `Pack` is
one turn of `chunk_text`'s loop, with `Carried` the tail that overlaps and
`HardSplit` the windows of a long paragraph; `Store` embeds and inserts in one
transaction, with a service that may be down (zero vectors, and a warning to
the user) or return too few vectors (`None`, not searched). `Ask`, `Search`,
`Answer` are the question, the query and the two thresholds of `answer`.

- `knowledge`: all texts of up to three paragraphs of 1, 4 and 9 characters
  with pieces of 5 and an overlap of 2, two documents, one service. Any run of
  text at most one character longer than the overlap is whole in one piece,
  except across the end of a paragraph that had to be split (`StraddleKept`); a
  document stored under the stand-in, with its warning, supports no answer,
  even beside others (`StandInNeverSpeaks`).

The lengths are one far below, one just under and one above the size of a
piece, so every branch is taken with every predecessor. Scores are free: below
the threshold, between 80 % of it and it, and above. Similarities are free per
piece, so the first `Limit` pieces of a document stand for all. Assumed: an
overlap above 0 (`SizeAssumption`). The settings admit a threshold of 0, which
every score meets: the run and the theorem about the stand-in are for the
others (see Divergences).

## Accounts

`user`, `business`, who is `signedIn`, and what each request has in hand
between its checks and its commit. `AskUser`/`AskBusiness` then `Insert`,
`AskRemoval` then `Count` then `Remove`, `AskClosing` then `CloseBusiness`. A
token outlives its account, and every route checks that the user is there
(`MayWrite`); a viewer writes nothing.

- `accounts`: four people, three addresses, two businesses, two requests. No
  address has two accounts, by the database's constraint (`OneAccountPerEmail`);
  no business loses its last user unless two removals of it overlapped
  (`KeepsAUser`, with `crowded` for the exception). Four people let a business
  be refilled after a removal; two requests are the overlap.

Not modelled: passwords, expiry of tokens, the business form. The state starts
with one operator, which is what the seed script leaves when the other two
accounts have been removed.

## Proofs

| Module | Theorems | Inductive invariant |
|---|---|---|
| `CallRecordProofs` | `TypeCorrect`, `OneRow`, `EscalationsExplained`, `NothingRolledBackCharged`, `NothingTakenBack`, `SettlementExact`, `SeenEscalationSafe`, `BothSettlersCharged` | A loaded copy is a past state of the row and edits only add to what is established; the lock owner's sum stays exact while it holds the row. The properties alone are not inductive: a commit writes from a stale copy, and only its relation to the row keeps it harmless. For `BothSettlersCharged` (`Settling`): the transcript and the duration on the row tell each settler of the other. A hangup finds no transcript, so its own makes its flush an UPDATE and it has the row from then on; a callback either changes the duration, and has the row too, or finds its duration there, and then the hangup's entry is in the ledger it sums. |
| `ConversationProofs` | `NothingPromised`, `NeverConfirmedTwice`, `BookedHasAppointment`, `SmalltalkLimited`, `InStep`, `OfferedFirst` | An open transaction holds an appointment exactly when the turn has booked, and every booking of the call is committed, about to be, or lost to a counted failure. A pending slot, of the turn's copy or of the saved conversation, is one Cal.com listed and the answer named (`PendingTold`): `BookedWasOffered` alone says nothing of the slot about to be booked. |
| `CuttingProofs` | `UtterancesAreWhole`, `BufferCapped`, `EmptyWhileSpeaking` (`Endpointer`) | The counters say what is in the buffer (how many frames are speech, how many quiet ones end it). |
| | `StraddlingKept`, `StandInSilent`, `ShortParagraphsShortPieces` (`KnowledgeBase`) | What was read so far is covered by the pieces and the one at hand (`Covers`), and that one reaches back to the start, to the end of a split paragraph or by the overlap (`Reaches`), so a run that ends in the next paragraph starts inside it. The windows of a split paragraph need the bounds of integer division (`SplitCovers`). A document with the warning has the stand-in for every vector, which scores nothing (`Kept`), which is below any threshold but 0. `PiecesBounded`, which the code does not keep in general, holds when every paragraph fits in a piece: the piece at hand then starts no further back than the tail carried into it (`Short`). |
| `VoicePipelineProofs` | `NeverDeaf`, `HangupsExact`, `ReportComplete` | A task between two lines has no stream under way, so a new stream never hides one; lines are logged before the answer is acted on. |
| `ProviderChainProofs` | `TypeCorrect`, `LiveSound`, `LiveSoundInChain`, `LocalOnlySafe`, `KeepsPromise` | For a key that is not torn, an update between its assignments and its commit is alone and the row is the one it read (`Hold`), so its commit brings the row to the live value. A request under way has on record exactly the tiers before its own (`LogInv`), which is what makes each walk of several tiers one step of `FirstAnswer`. A paid tier is known as healthy in local-only mode only inside the window (`CacheInv`). |
| `AppointmentsProofs` | `AlwaysTyped`, `AlwaysReminded`, `RepeatsWereReopened`, `RemindedUnlessCrossedAlways`, `RowsKeepInStep` | A time that was texted is marked on the row, or among those the open round has told, or reopened (`Marked`); on a row that was not crossed the mark is that of a text of its time, and an open round that has yet to text it loaded that time (`Steady`); an appointment owed a text is still to be texted by the open round, or the next round comes before its window closes (`Timely`). For `RowsKeepInStep` (`Stepping`): while a booking is not in doubt, the handlers that have an event of it all have the last one, and what they will not write the row still has (`HooksAgree`); the row is cancelled once the cancellation was handled and is in nobody's hand, and not before (`StatusAgrees`); unless an event was overtaken, the row is at the time of the last one (`TimeAgrees`). |
| `RetentionProofs` | `AlwaysTyped`, `RecordingsKept`, `MediaNeverOverdue`, `ErasureKept` | A handler has the row of its call, and a voice webhook is the only one of a call without a row (`Found`); the stamp on a row is what was promised, and a round locks a recording only past it (`Stamped`); the next round is due within a pause of whatever restarted the count, and an open one has the column or it is not yet time (`Timely`): `MediaNotOverdue` alone says nothing of the round to come. An erased call is in nobody's hand (`Gone`). |
| `AccountsProofs` | `AlwaysCounted`, `UniqueAddresses`, `LastUserStays` | A removal that has counted is the only one of a business that is not crowded, takes a user of that business, and somebody else is there (`Alone`, `Targets`, `Spared`): `KeepsAUser` by itself does not survive the removal. Users are finitely many, which lets a count above one name a second user. |

They hold for any sets of requests, turns, slots, utterances, texts, bookings,
people and settings, any thresholds and bounds, under the named `ASSUME`s of
the modules (identities differ, numbers are naturals, the endpointer's
thresholds are positive). `StandInSilent` is about thresholds other than 0.
`BothSettlersCharged` is about one hangup, one status callback and a duration
other than zero (`OneOfEach`): a callback that finds its duration on the row
sends no UPDATE and sums without the row, and with two of them the total may
lack the other's entry (TLC finds it). `ShortParagraphsShortPieces` is about
texts whose paragraphs each fit in a piece. Each invariant was checked by TLC
before it was proved.

Only model-checked, because it is out of the prover's reach: the liveness
properties (`TurnEnds`, `TurnsEnd`, `CallCloses`, `RequestsEnd`,
`ConversationForgotten`, `LocalComesBack`, and the `Answered` part of
`FirstAnswer`, whose safety part `KeepsPromise` proves). Every invariant and
every action property of a passing run is a theorem.

## Divergences

`stale_key` ends in a violation: the Claude client keeps the key of the first
call (`llm.py:67`), so a key stored later reaches no call before a restart,
where `platform_settings.py:6` says it is seen without one
(`CallsUseTheKeyInForce`).

More of what a document, comment or test says and the code does not do is
stated by a property of the module, and TLC refutes each. Where the
configuration is marked *own*, it is there to be run as it stands; elsewhere
it is a copy of the one named, with this property in place of its own.

| Property | Configuration | The code | The source says |
|---|---|---|---|
| `Conversation!BookedWasHeard` | `MCHeard`, own | the conversation is saved with the offer and the commit of the turn fails (`internal.py:85`): the caller hears an error, and the next "yes" books the time | `voice_agent.py:281`: a slot we already offered |
| `VoicePipeline!ClosingLineFinishes` | `MCFarewell`, own | when `/tts` fails, `say` returns as if it had played (`pipeline.py:235`), and the call is dropped or transferred in silence | `pipecat/agent/main.py:112`: let the closing line finish |
| `ProviderChain!LocalOnlyIsHard` | `MCHardSwitch`, own | between the live change of the mode and the flush that makes the registry forget (`platform_settings.py:445`), or after a flush that failed, a request finds the paid tier healthy and calls it | README:99: a hard switch, not a preference |
| `Appointments!NoSecondReminder` | `MCSecondReminder`, own | a reschedule delivered again, with the time the row has, resets the mark (`webhooks.py:213`): the next round texts the same time | `booking_agent.py:155`: who hasn't been reminded |
| `Appointments!RemindedInTime` | `MCMissedReminder`, own | a round marks the row it loaded (`booking_agent.py:183`) over a move it has not seen, or a move loaded before that commit leaves the mark: nobody texts the new time | `booking_agent.py:155`: anyone in the window |
| `Retention!SummariesExpire` | `MCSummaries`, own | the sweep clears recordings and transcripts, no summary (`retention.py:36`) | `platform_settings.py:215`: summaries older than this are removed |
| `KnowledgeBase!StandInNeverSpeaks` | `MCAnyScore`, own | with a threshold of 0, which the settings admit (`platform_settings.py:316`), the score of a stand-in vector clears the gate (`kb_agent.py:78`) | README:121: it can never clear the threshold |
| `CallRecord!TelephonyBilledOnce` | `MCSettlement`, two status callbacks | a redelivered status callback records the minutes again (`webhooks.py:168`) | README: a retried webhook cannot double-bill |
| `CallRecord!EscalationAuthoritative` | `MCCallTurns` | a turn escalates during the hangup analysis, which overwrites the outcome (`voice_agent.py:450`) | `voice_agent.py:448`: an escalation is authoritative |
| `CallRecord!AttemptsAppendOnly` | `MCCallTurns` | overlapping requests rewrite `provider_log` (`voice_agent.py:430`) | `models/call.py:67`: append-only |
| `Conversation!ClarifyingBudget` | `MCBooking` | the booking path asks beyond the budget (`voice_agent.py:396`) | `voice_agent.py:15`: max 3 questions |
| `Conversation!MockEscalates` | `MCBooking` | the stand-in's line counts as an answer (`kb_agent.py:95`) | README:123: the mock returns an escalation |
| `Endpointer!CoughNotSent` | `MCUtterances` | one click and 30 s of silence are sent off (`pipeline.py:96`) | `test_pipeline.py:48`: a click is not sent |
| `VoicePipeline!BargeInSilences` | `MCVoice` | of two lines synthesised at the same time, a barge-in silences one (`pipeline.py:237`) | `pipeline.py:142`: stop and listen |
| `Appointments!CancelFreesSlot` | `MCAppointments` | what Cal.com answers to the cancellation is not looked at (`appointments.py:116`) | `appointments.py:105`: must also free the slot |
| `Retention!ErasedHoldsNothing` | `MCRetention` | a request open during the erasure stores the transcript afterwards (`retention.py:65`), and a second erasure does not find the call by its number | `retention.py:56`: what remains cannot identify the individual |
| `KnowledgeBase!PiecesBounded` | `MCKnowledge` | a paragraph longer than a piece that follows a short one is stored whole (`kb.py:69`) | `test_kb.py:12`: it must stay bounded |
| `Accounts!AlwaysAUser` | `MCAccounts` | two users who remove each other both count two (`settings.py:279`) | `settings.py:280`: must keep at least one user |

Noticed while modelling, without a property: `_is_affirmative` tests
substrings, so "No, book Monday" contains "ok" and confirms a pending slot; the
first preferred time of a call is never replaced (`voice_agent.py:76`); an
interrupted closing line neither transfers nor drops the call; a late turn's
costs miss the total; a platform update is called "all-or-nothing" but live
values stay after a failed flush; the reminder's docstring says 24 to 48 hours
and the query 23 to 25; an upload for which the service returned too few
vectors is reported as indexed, and nothing embeds it again later.
