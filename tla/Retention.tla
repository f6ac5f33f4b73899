------------------------------ MODULE Retention ------------------------------
(***************************************************************************)
(* What the service keeps of a caller, and for how long.  The sweep of the *)
(* half-hourly loop and the erasure of a caller (services/retention.py)    *)
(* run against the requests of calls still in progress, which write the    *)
(* columns the two clear: the voice webhook, turns, the status callback    *)
(* and the hangup (api/routes/webhooks.py, internal.py, voice_agent.py).   *)
(*                                                                         *)
(* The sweep's UPDATEs hold the rows they change until the loop commits,   *)
(* after the reminders; a request that writes such a row waits.  Requests  *)
(* and the erasure write, at their commit, the columns they changed from   *)
(* what they had loaded.  Erasure has no route: an operator calls it.      *)
(* All calls are from one phone number.                                    *)
(***************************************************************************)
EXTENDS Naturals, FiniteSets

CONSTANTS Calls, Requests,
          Periods,     \* the retention periods an operator may set
          Interval,    \* the pause of the background loop
          Horizon,     \* bound: the clock stops there
          MaxEdits,    \* bound: changes of the settings
          MaxFailures  \* bound: rounds that fail

ASSUME PeriodsAssumption == Periods \subseteq Nat /\ Periods # {}
ASSUME BoundsAssumption ==
    {Interval, Horizon, MaxEdits, MaxFailures} \subseteq Nat /\ Interval > 0

VARIABLES
    clock, due,   \* now, and when the next round begins
    policy,       \* the live settings: days for recordings, for transcripts
    edits, failures,
    call,         \* the committed call rows
    visit,        \* calls with an appointment under the number they came from
    round,        \* whether a round is open, and what its UPDATEs cleared
    request,      \* what each handler has in hand
    \* history, read by the properties only
    promised,     \* until when the recording of a call was to be kept
    since,        \* since when the row has been left to the sweep
    erased        \* calls an erasure found closed, and no request came for

vars == <<clock, due, policy, edits, failures, call, visit, round, request,
          promised, since, erased>>

\* What a row may hold of the caller; the reason is that of an escalation.
Columns == {"recording", "transcript", "summary", "reason"}
Call == [number : {"phone", "[erased]"}, held : SUBSET Columns,
         created : 0..Horizon, expires : Nat]
NoCall == [number |-> "none"]
Committed == {c \in Calls : call[c] # NoCall}

Idle == [kind |-> "idle"]
Kinds == {"voice", "turn", "status", "hangup"}
\* The columns a handler of each kind may write.
Writes(kind) ==
    CASE kind = "voice" -> {}
      [] kind = "turn" -> {"reason"}
      [] kind = "status" -> {"recording"}
      [] kind = "hangup" -> {"transcript", "summary", "reason"}
\* What it loaded of them decides what it writes.
Handler(kind, c) ==
    [kind |-> kind, call |-> c,
     held |-> IF kind = "voice" THEN {} ELSE call[c].held \cap Writes(kind)]
\* The calls a query by phone number finds, as they were loaded.
Erasure ==
    [kind |-> "erase",
     found |-> {[call |-> c, held |-> call[c].held] :
                    c \in {d \in Committed : call[d].number = "phone"}}]
\* What a handler, or an erasure, has in hand.
Handlers == [kind : Kinds, call : Calls, held : SUBSET Columns]
Erasures == [kind : {"erase"}, found : SUBSET [call : Calls, held : SUBSET Columns]]
NoRound == [open |-> FALSE, recordings |-> {}, transcripts |-> {}]

Locked == round.recordings \cup round.transcripts

TypeOK ==
    /\ clock \in 0..Horizon /\ due \in Nat
    /\ policy \in [recording : Periods, transcript : Periods]
    /\ edits \in 0..MaxEdits /\ failures \in 0..MaxFailures
    /\ call \in [Calls -> Call \cup {NoCall}]
    /\ visit \subseteq Calls
    /\ round \in [open : BOOLEAN, recordings : SUBSET Calls, transcripts : SUBSET Calls]
    /\ request \in [Requests -> {Idle} \cup Handlers \cup Erasures]
    /\ promised \in [Calls -> Nat] /\ since \in [Calls -> 0..Horizon]
    /\ erased \subseteq Calls

Init ==
    /\ clock = 0 /\ due = Interval /\ edits = 0 /\ failures = 0
    /\ policy \in [recording : Periods, transcript : Periods]
    /\ call = [c \in Calls |-> NoCall] /\ visit = {}
    /\ round = NoRound /\ request = [r \in Requests |-> Idle]
    /\ promised = [c \in Calls |-> 0] /\ since = [c \in Calls |-> 0]
    /\ erased = {}

-----------------------------------------------------------------------------
loop == <<clock, due, failures, round>>
settings == <<policy, edits>>

\* A request other than r has the call in hand.
InHand(c, r) ==
    \E q \in Requests \ {r} : request[q].kind \in Kinds /\ request[q].call = c

Close(r) == request' = [request EXCEPT ![r] = Idle]

\* A handler loads the row of its call; the voice webhook makes it.  From
\* here on an erased call may hold something again.
Arrives(r, kind, c) ==
    /\ request[r] = Idle
    /\ IF kind = "voice" THEN call[c] = NoCall /\ ~InHand(c, r) ELSE call[c] # NoCall
    /\ request' = [request EXCEPT ![r] = Handler(kind, c)]
    /\ erased' = erased \ {c}
    /\ UNCHANGED <<loop, settings, call, visit, promised, since>>

\* The columns a request fills: the status callback the recording, if there
\* is one, a turn that escalates its reason, the hangup transcript and
\* summary, and the reason it found if the row it loaded had none.
Fills(q) ==
    CASE q.kind = "turn" -> {{}, {"reason"}}
      [] q.kind = "status" -> {{}, {"recording"}}
      [] q.kind = "hangup" -> {{"transcript", "summary"} \cup found :
                                    found \in SUBSET ({"reason"} \ q.held)}

\* Of those the columns that are written: a column that already held the
\* same text is not.
Written(q, filled) ==
    {cols \in SUBSET filled : filled \ q.held \subseteq cols}

\* The voice webhook stamps the recording with the period now in force.
VoiceCommits(r) ==
    /\ request[r].kind = "voice"
    /\ LET c == request[r].call
           stamp == clock + policy.recording
       IN /\ call' = [call EXCEPT ![c] =
                [number |-> "phone", held |-> {}, created |-> clock, expires |-> stamp]]
          /\ promised' = [promised EXCEPT ![c] = stamp]
          /\ since' = [since EXCEPT ![c] = clock]
    /\ Close(r)
    /\ UNCHANGED <<loop, settings, visit, erased>>

\* A turn may also book a visit.  One under another number the caller gave
\* is out of the erasure's reach, and is left out here.
Commits(r) ==
    /\ request[r].kind \in Kinds \ {"voice"}
    /\ LET q == request[r]
           c == q.call
       IN /\ \E filled \in Fills(q) : \E cols \in Written(q, filled) :
                /\ cols # {} => c \notin Locked
                /\ call' = [call EXCEPT ![c].held = @ \cup cols]
                /\ since' = [since EXCEPT ![c] = IF cols = {} THEN @ ELSE clock]
          /\ visit' \in IF q.kind = "turn" THEN {visit, visit \cup {c}} ELSE {visit}
    /\ Close(r)
    /\ UNCHANGED <<loop, settings, promised, erased>>

\* A handler fails: nothing it did is kept.
RequestFails(r) ==
    /\ request[r] # Idle
    /\ Close(r)
    /\ UNCHANGED <<loop, settings, call, visit, promised, since, erased>>

-----------------------------------------------------------------------------
\* erase_caller loads the calls of the number.
EraseLoads(r) ==
    /\ request[r] = Idle
    /\ request' = [request EXCEPT ![r] = Erasure]
    /\ UNCHANGED <<loop, settings, call, visit, promised, since, erased>>

\* Mutant of Stripped: the reason of an escalation is forgotten.
StrippedOfMedia(row, loaded) ==
    [row EXCEPT !.number = "[erased]", !.held = @ \ (loaded \ {"reason"})]

\* What is left of a call: a column that was empty when it was loaded is not
\* written.
Stripped(row, loaded) ==
    [row EXCEPT !.number = "[erased]", !.held = @ \ loaded]

EraseCommits(r) ==
    /\ request[r].kind = "erase"
    /\ LET found == request[r].found
           calls == {f.call : f \in found}
       IN /\ calls \cap Locked = {}
          /\ call' = [c \in Calls |->
                IF c \in calls
                THEN Stripped(call[c], (CHOOSE f \in found : f.call = c).held)
                ELSE call[c]]
          /\ visit' = {}
          /\ erased' = erased \cup
                {f.call : f \in {g \in found : /\ call[g.call].held \subseteq g.held
                                                 /\ ~InHand(g.call, r)}}
    /\ Close(r)
    /\ UNCHANGED <<loop, settings, promised, since>>

-----------------------------------------------------------------------------
\* Mutant of ExpiredRecordings: the age is compared with the current period.
RecordingsByPolicy ==
    {c \in Committed :
        "recording" \in call[c].held /\ call[c].created + policy.recording <= clock}

\* What the sweep clears now.
ExpiredRecordings ==
    {c \in Committed : "recording" \in call[c].held /\ call[c].expires <= clock}
ExpiredTranscripts ==
    {c \in Committed :
        "transcript" \in call[c].held /\ call[c].created + policy.transcript <= clock}

\* A round begins with the sweep; its UPDATEs are seen by nobody yet.
RoundBegins ==
    /\ clock = due /\ ~round.open
    /\ round' = [open |-> TRUE, recordings |-> ExpiredRecordings,
                 transcripts |-> ExpiredTranscripts]
    /\ UNCHANGED <<clock, due, settings, failures, call, visit, request, promised,
                   since, erased>>

Cleared(c) ==
    (IF c \in round.recordings THEN {"recording"} ELSE {}) \cup
    (IF c \in round.transcripts THEN {"transcript"} ELSE {})

\* Mutant of RoundEnds: the loop commits only if it sent a reminder.
RoundEndsUncommitted ==
    /\ round.open
    /\ call' \in {call, [c \in Calls |->
            IF c \in Locked THEN [call[c] EXCEPT !.held = @ \ Cleared(c)] ELSE call[c]]}
    /\ round' = NoRound /\ due' = clock + Interval
    /\ UNCHANGED <<clock, settings, failures, visit, request, promised, since, erased>>

\* After the reminders, whatever number was sent, one commit.
RoundEnds ==
    /\ round.open
    /\ call' = [c \in Calls |->
            IF c \in Locked THEN [call[c] EXCEPT !.held = @ \ Cleared(c)] ELSE call[c]]
    /\ round' = NoRound /\ due' = clock + Interval
    /\ UNCHANGED <<clock, settings, failures, visit, request, promised, since, erased>>

\* A query, a reminder or the commit fails, or the process restarts.
RoundFails ==
    /\ failures < MaxFailures /\ failures' = failures + 1
    /\ round' = NoRound /\ due' = clock + Interval
    /\ since' = [c \in Calls |-> clock]
    /\ UNCHANGED <<clock, settings, call, visit, request, promised, erased>>

\* An operator changes the retention settings.
SetPolicy ==
    /\ edits < MaxEdits /\ edits' = edits + 1
    /\ policy' \in [recording : Periods, transcript : Periods] \ {policy}
    /\ since' = [c \in Calls |-> clock]
    /\ UNCHANGED <<loop, call, visit, request, promised, erased>>

\* A round fits in one unit of the clock, and begins when it is due.
Tick ==
    /\ clock < Horizon /\ clock # due /\ ~round.open
    /\ clock' = clock + 1
    /\ UNCHANGED <<due, settings, failures, call, visit, round, request, promised,
                   since, erased>>

Next ==
    \/ \E r \in Requests, c \in Calls, k \in Kinds : Arrives(r, k, c)
    \/ \E r \in Requests : \/ VoiceCommits(r) \/ Commits(r) \/ RequestFails(r)
                           \/ EraseLoads(r) \/ EraseCommits(r)
    \/ RoundBegins \/ RoundEnds \/ RoundFails \/ SetPolicy \/ Tick

Spec == Init /\ [][Next]_vars

-----------------------------------------------------------------------------
Larger(a, b) == IF a < b THEN b ELSE a

\* README.md:201, "changing the retention policy never retroactively destroys
\* media": a recording goes before the time that was promised when the call
\* began only with the erasure of its caller.
RecordingKept ==
    [][\A c \in Committed :
        "recording" \in call[c].held /\ "recording" \notin call'[c].held =>
            clock >= promised[c] \/ call'[c].number = "[erased]"]_vars

\* No recording and no transcript outlives its period by more than one pause of
\* the loop, counted from the expiry, or from the last write of the row, change
\* of the settings or failed round: a late callback, a waiting writer or a
\* shorter period leaves none behind that no sweep would find.
MediaNotOverdue ==
    \A c \in Committed :
        /\ "recording" \in call[c].held =>
                clock <= Larger(call[c].expires, since[c]) + Interval
        /\ "transcript" \in call[c].held =>
                clock <= Larger(call[c].created + policy.transcript, since[c]) + Interval

\* A call that no handler had in hand when its caller was erased, and for
\* which none came since, holds nothing of the caller, whatever sweeps and
\* other erasures ran meanwhile.
ErasureHolds ==
    \A c \in erased :
        call[c].number = "[erased]" /\ call[c].held = {} /\ c \notin visit

-----------------------------------------------------------------------------
(* What the repository says of the program and the code does not do.       *)

\* platform_settings.py:215, "Transcripts and summaries older than this are
\* removed."  No sweep clears a summary: it stays until an erasure.
SummariesExpire ==
    \A c \in Committed : "summary" \in call[c].held =>
        clock <= Larger(call[c].created + policy.transcript, since[c]) + Interval

\* retention.py:56, of an erased call: "What remains cannot identify the
\* individual."
ErasedHoldsNothing ==
    \A c \in Committed : call[c].number = "[erased]" => call[c].held = {}
=============================================================================
