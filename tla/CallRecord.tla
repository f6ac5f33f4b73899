----------------------------- MODULE CallRecord -----------------------------
(***************************************************************************)
(* One phone call's row in the `calls` table, its cost ledger and its      *)
(* Redis conversation, under the four request handlers that write them:    *)
(*                                                                         *)
(*   Voice   twilio_voice   (api/routes/webhooks.py)   answers the call    *)
(*   Turn    turn           (api/routes/internal.py)   one utterance       *)
(*   Hangup  hangup         (api/routes/internal.py)   analysis, settling  *)
(*   Status  twilio_status  (api/routes/webhooks.py)   billing callback    *)
(*                                                                         *)
(* Every request runs in a database session of its own (core/db.py): it    *)
(* loads the row once, edits its private copy, and at commit writes back   *)
(* the columns it changed and nothing else.  Under READ COMMITTED an       *)
(* UPDATE that has been flushed keeps the row locked until the end of the  *)
(* transaction.  Redis is outside the transaction: what is saved or        *)
(* cleared there stays so when the transaction is rolled back.             *)
(*                                                                         *)
(* A request stands for the ledger entries it records (they commit         *)
(* together), so the ledger, the total `cost_usd` and the attempts of      *)
(* `provider_log` are sets of requests.  An entry costs something.         *)
(***************************************************************************)
EXTENDS Integers, FiniteSets

CONSTANTS
    Voice,            \* deliveries of the voice webhook, retries included
    Turn,             \* utterances posted to /internal/turn
    Hangup,           \* posts to /internal/hangup
    Status,           \* deliveries of the status callback, retries included
    Verdict,          \* outcomes the post-call analysis may return
    HangupSeconds,    \* durations measured by the media pipeline
    StatusSeconds,    \* durations reported by the telephony provider
    None              \* nobody holds the row lock / nothing in Redis

Request == Voice \cup Turn \cup Hangup \cup Status
Settler == Hangup \cup Status
Outcome == {"booked", "answered", "escalated", "voicemail", "abandoned"}

ASSUME RequestsDistinct ==
    /\ Voice \cap Turn = {} /\ Voice \cap Hangup = {} /\ Voice \cap Status = {}
    /\ Turn \cap Hangup = {} /\ Turn \cap Status = {} /\ Hangup \cap Status = {}
    /\ None \notin Request
ASSUME InputsTyped ==
    /\ Verdict \subseteq Outcome
    /\ HangupSeconds \subseteq Nat
    /\ StatusSeconds \subseteq Nat

VARIABLES
    stored,    \* voice deliveries whose INSERT of the call has committed
    row,       \* the committed columns of the call
    ledger,    \* requests whose cost entries have committed
    conv,      \* Redis: the turns the saved conversation has heard, or None
    lock,      \* the request whose transaction holds the row, or None
    pc,        \* where each request stands
    loaded,    \* the row as the request's session loaded it
    edited,    \* the session's copy of it, with the request's assignments
    pending,   \* whether the request has recorded an uncommitted entry
    heard      \* the conversation a turn works on

vars == <<stored, row, ledger, conv, lock, pc, loaded, edited, pending, heard>>
session == <<loaded, edited, pending, heard>>
database == <<stored, row, ledger>>

\* The columns the handlers touch.  `reason`, `transcript` (with summary and
\* sentiment, assigned beside it) and so on are reduced to "is it set".
Row == [outcome: Outcome, escalated: BOOLEAN, reason: BOOLEAN,
        transcript: BOOLEAN, seconds: Nat,
        cost: SUBSET Request, log: SUBSET Request]

NewRow == [outcome |-> "answered", escalated |-> FALSE, reason |-> FALSE,
           transcript |-> FALSE, seconds |-> 0, cost |-> {}, log |-> {}]

Finished == {"done", "failed", "refused"}

TypeOK ==
    /\ stored \subseteq Voice
    /\ row \in Row
    /\ ledger \subseteq Request
    /\ conv \in {None} \cup SUBSET Turn
    /\ lock \in Request \cup {None}
    /\ pc \in [Request -> {"idle", "insert", "save", "hear", "reply", "analyse",
                           "silent", "record", "sum", "clear", "commit"}
                          \cup Finished]
    /\ loaded \in [Request -> Row]
    /\ edited \in [Request -> Row]
    /\ pending \in [Request -> BOOLEAN]
    /\ heard \in [Request -> SUBSET Turn]

Init ==
    /\ stored = {}
    /\ row = NewRow
    /\ ledger = {}
    /\ conv = None
    /\ lock = None
    /\ pc = [p \in Request |-> "idle"]
    /\ loaded = [p \in Request |-> NewRow]
    /\ edited = [p \in Request |-> NewRow]
    /\ pending = [p \in Request |-> FALSE]
    /\ heard = [p \in Request |-> {}]

-----------------------------------------------------------------------------
(* The session: load, flush, commit, roll back.                            *)

Goto(p, label) == pc' = [pc EXCEPT ![p] = label]

\* The session is closed at the end of the request; its objects go with it.
Close(p) ==
    /\ loaded' = [loaded EXCEPT ![p] = NewRow]
    /\ edited' = [edited EXCEPT ![p] = NewRow]
    /\ pending' = [pending EXCEPT ![p] = FALSE]
    /\ heard' = [heard EXCEPT ![p] = {}]

\* The request reads the call into its session, edited by its first
\* assignments; a request for a call that is not there is turned away.
Load(p, label, new) ==
    /\ pc[p] = "idle"
    /\ IF stored = {}
       THEN /\ Goto(p, "refused")
            /\ UNCHANGED <<loaded, edited>>
       ELSE /\ Goto(p, label)
            /\ loaded' = [loaded EXCEPT ![p] = row]
            /\ edited' = [edited EXCEPT ![p] = new]
    /\ UNCHANGED <<database, conv, lock, pending, heard>>

\* Mutant of Flush: nothing is sent before commit (autoflush off).
FlushLater(p, new) == UNCHANGED lock

\* A flush sends the changed columns in an UPDATE, which waits for the row
\* and then keeps it; with nothing changed there is no UPDATE to send.
Flush(p, new) ==
    IF new = loaded[p]
    THEN UNCHANGED lock
    ELSE lock \in {None, p} /\ lock' = p

Own(p) == IF pending[p] THEN {p} ELSE {}

\* The entries a SUM over the ledger sees from inside p's transaction.
Visible(p) == ledger \cup Own(p)

\* Mutant of Written: the whole loaded object is written back.
WrittenWhole(p) == edited[p]

\* What the row holds after p's UPDATE: the columns p changed.  A settler's
\* total is a float compared with a Decimal, so it is written when not zero.
Written(p) ==
    LET Column(c) == IF edited[p][c] # loaded[p][c] THEN edited[p][c] ELSE row[c]
    IN  [outcome    |-> Column("outcome"),
         escalated  |-> Column("escalated"),
         reason     |-> Column("reason"),
         transcript |-> Column("transcript"),
         seconds    |-> Column("seconds"),
         cost       |-> IF p \in Settler /\ edited[p].cost # {}
                        THEN edited[p].cost ELSE row.cost,
         log        |-> Column("log")]

\* The session dependency commits when the handler has returned.
Commit(p) ==
    /\ pc[p] = "commit"
    /\ lock \in {None, p}
    /\ row' = Written(p)
    /\ ledger' = Visible(p)
    /\ lock' = None
    /\ Goto(p, "done")
    /\ Close(p)
    /\ UNCHANGED <<stored, conv>>

\* Mutant of Fail: the transaction is left open.
FailOpen(p) ==
    /\ pc[p] \notin {"idle"} \cup Finished
    /\ Goto(p, "failed")
    /\ Close(p)
    /\ UNCHANGED <<database, conv, lock>>

\* An exception anywhere in the handler, or the loss of the process: the
\* transaction is rolled back and its locks with it.
Fail(p) ==
    /\ pc[p] \notin {"idle"} \cup Finished
    /\ lock' = IF lock = p THEN None ELSE lock
    /\ Goto(p, "failed")
    /\ Close(p)
    /\ UNCHANGED <<database, conv>>

-----------------------------------------------------------------------------
(* twilio_voice: insert the call unless it is there, start a conversation. *)

VoiceSelect(v) ==
    /\ pc[v] = "idle"
    /\ Goto(v, IF stored = {} THEN "insert" ELSE "save")
    /\ UNCHANGED <<database, conv, lock, session>>

\* Mutant of VoiceInsert: no unique index on provider_call_id.
VoiceInsertAnyway(v) ==
    /\ pc[v] = "insert"
    /\ lock = None
    /\ Goto(v, "save")
    /\ lock' = v
    /\ UNCHANGED <<database, conv, session>>

\* provider_call_id is unique: an INSERT waits for another delivery's
\* uncommitted one and fails when the call is there already.
VoiceInsert(v) ==
    /\ pc[v] = "insert"
    /\ \/ /\ stored # {}
          /\ Goto(v, "failed")
          /\ UNCHANGED lock
       \/ /\ stored = {} /\ lock = None
          /\ Goto(v, "save")
          /\ lock' = v
    /\ UNCHANGED <<database, conv, session>>

VoiceSave(v) ==
    /\ pc[v] = "save"
    /\ conv' = {}
    /\ Goto(v, "commit")
    /\ UNCHANGED <<database, lock, session>>

VoiceCommit(v) ==
    /\ pc[v] = "commit"
    /\ IF lock = v
       THEN /\ stored' = stored \cup {v}
            /\ row' = NewRow
            /\ lock' = None
       ELSE UNCHANGED <<stored, row, lock>>
    /\ Goto(v, "done")
    /\ UNCHANGED <<ledger, conv, session>>

-----------------------------------------------------------------------------
(* turn: load the row and the conversation, reply, save, commit.           *)

TurnLoad(t) == Load(t, "hear", row)

\* The saved conversation, or a fresh one when there is none; then intent
\* detection, whose cost entry and attempts are the turn's first.
TurnHear(t) ==
    /\ pc[t] = "hear"
    /\ heard' = [heard EXCEPT ![t] = (IF conv = None THEN {} ELSE conv) \cup {t}]
    /\ pending' = [pending EXCEPT ![t] = TRUE]
    /\ edited' = [edited EXCEPT ![t].log = @ \cup {t}]
    /\ Goto(t, "reply")
    /\ UNCHANGED <<database, conv, lock, loaded>>

\* handle_turn's answer and what the route copies from it onto the row.  A
\* path that reads or records again while it answers (kb search, the second
\* cost entry) flushes, one that only talks does not.
Answer(t, outcome, flushes) ==
    /\ pc[t] = "reply"
    /\ edited' = [edited EXCEPT ![t].outcome = outcome]
    /\ IF flushes THEN Flush(t, edited[t]) ELSE UNCHANGED lock
    /\ Goto(t, "save")
    /\ UNCHANGED <<database, conv, loaded, pending, heard>>

\* No outcome (a question, an offered slot, smalltalk), or goodbye's, which
\* is the outcome the session loaded.
TurnTalk(t) == \E flushes \in BOOLEAN : Answer(t, edited[t].outcome, flushes)

\* A grounded FAQ answer (after a search) or a wrong number (without one).
TurnAnswered(t) == \E flushes \in BOOLEAN : Answer(t, "answered", flushes)

\* A confirmed slot: the appointment is inserted and the SMS recorded.
TurnBooked(t) == Answer(t, "booked", TRUE)

TurnEscalated(t) ==
    \E flushes \in BOOLEAN :
        /\ pc[t] = "reply"
        /\ edited' = [edited EXCEPT ![t].outcome = "escalated",
                                    ![t].escalated = TRUE, ![t].reason = TRUE]
        /\ IF flushes THEN Flush(t, edited[t]) ELSE UNCHANGED lock
        /\ Goto(t, "save")
        /\ UNCHANGED <<database, conv, loaded, pending, heard>>

TurnSave(t) ==
    /\ pc[t] = "save"
    /\ conv' = heard[t]
    /\ Goto(t, "commit")
    /\ UNCHANGED <<database, lock, session>>

-----------------------------------------------------------------------------
(* hangup: analyse the transcript, settle the cost, forget the state.      *)

\* Mutant of HangupLoad: the operands of the duration's subtraction swapped.
HangupLoadNegative(h) ==
    \E seconds \in HangupSeconds :
        Load(h, "analyse",
             [row EXCEPT !.seconds = IF seconds = 0 THEN @ ELSE 0 - seconds])

\* A zero duration is not stored.  A call whose transcript is blank (nothing
\* was said, so no turn was posted before) and whose outcome is still the
\* initial one is abandoned.
HangupLoad(h) ==
    \E seconds \in HangupSeconds, blank \in BOOLEAN :
        /\ blank => \A t \in Turn : pc[t] = "idle"
        /\ Load(h, IF blank THEN "silent" ELSE "analyse",
                [row EXCEPT
                    !.seconds = IF seconds = 0 THEN @ ELSE seconds,
                    !.outcome = IF blank /\ @ = "answered" THEN "abandoned" ELSE @])

\* Mutant of Finalize: the verdict is applied without asking.
FinalizeAlways(h, verdict, reason, attempts) ==
    LET new == [edited[h] EXCEPT !.transcript = TRUE, !.outcome = verdict,
                                 !.reason = @ \/ reason, !.log = @ \cup attempts]
    IN  /\ edited' = [edited EXCEPT ![h] = new]
        /\ pending' = [pending EXCEPT ![h] = TRUE]
        /\ Flush(h, new)
        /\ Goto(h, "sum")
        /\ UNCHANGED <<database, conv, loaded, heard>>

\* Mutant of Finalize: the analysis's reason replaces the one there is.
FinalizeReason(h, verdict, reason, attempts) ==
    LET new == [edited[h] EXCEPT
                    !.transcript = TRUE,
                    !.outcome = IF edited[h].escalated THEN @ ELSE verdict,
                    !.reason = reason, !.log = @ \cup attempts]
    IN  /\ edited' = [edited EXCEPT ![h] = new]
        /\ pending' = [pending EXCEPT ![h] = TRUE]
        /\ Flush(h, new)
        /\ Goto(h, "sum")
        /\ UNCHANGED <<database, conv, loaded, heard>>

\* finalize_call up to the SUM: the verdict and the reason are applied to the
\* copy of the row loaded before the analysis, then the entry is recorded.
Finalize(h, verdict, reason, attempts) ==
    LET new == [edited[h] EXCEPT
                    !.transcript = TRUE,
                    !.outcome = IF edited[h].escalated THEN @ ELSE verdict,
                    !.reason = @ \/ reason,
                    !.log = @ \cup attempts]
    IN  /\ edited' = [edited EXCEPT ![h] = new]
        /\ pending' = [pending EXCEPT ![h] = TRUE]
        /\ Flush(h, new)
        /\ Goto(h, "sum")
        /\ UNCHANGED <<database, conv, loaded, heard>>

HangupAnalyse(h) ==
    /\ pc[h] = "analyse"
    /\ \E verdict \in Verdict, reason \in BOOLEAN : Finalize(h, verdict, reason, {h})

\* A blank transcript is not sent to a model: no attempt, a fixed verdict.
HangupSilent(h) ==
    /\ pc[h] = "silent"
    /\ Finalize(h, "abandoned", FALSE, {})

-----------------------------------------------------------------------------
(* twilio_status: duration, billing, the failure codes' outcome.           *)

StatusLoad(s) ==
    \E seconds \in StatusSeconds, unanswered \in BOOLEAN :
        Load(s, "record",
             [row EXCEPT !.seconds = seconds,
                         !.outcome = IF unanswered THEN "abandoned" ELSE @])

\* A telephony entry for the started minutes, if any; the flush comes with
\* the entry, or else with the SUM.
StatusRecord(s) ==
    /\ pc[s] = "record"
    /\ pending' = [pending EXCEPT ![s] = @ \/ edited[s].seconds # 0]
    /\ Flush(s, edited[s])
    /\ Goto(s, "sum")
    /\ UNCHANGED <<database, conv, loaded, edited, heard>>

-----------------------------------------------------------------------------
(* What hangup and status end with.                                        *)

\* Mutant of Recompute: the loaded total is incremented in place.
RecomputeInPlace(p) ==
    /\ pc[p] = "sum"
    /\ edited' = [edited EXCEPT ![p].cost = @ \cup Own(p)]
    /\ Goto(p, "clear")
    /\ UNCHANGED <<database, conv, lock, loaded, pending, heard>>

\* Mutant of Recompute: the total is committed by a session of its own.
RecomputeApart(p) ==
    /\ pc[p] = "sum"
    /\ row' = [row EXCEPT !.cost = Visible(p)]
    /\ edited' = [edited EXCEPT ![p].cost = Visible(p)]
    /\ Goto(p, "clear")
    /\ UNCHANGED <<stored, ledger, conv, lock, loaded, pending, heard>>

\* recompute_call_cost: the total is taken from the ledger.
Recompute(p) ==
    /\ pc[p] = "sum"
    /\ edited' = [edited EXCEPT ![p].cost = Visible(p)]
    /\ Goto(p, "clear")
    /\ UNCHANGED <<database, conv, lock, loaded, pending, heard>>

Clear(p) ==
    /\ pc[p] = "clear"
    /\ conv' = None
    /\ Goto(p, "commit")
    /\ UNCHANGED <<database, lock, session>>

\* Mutant of Expire: keys are set without an expiry.
ExpireNever == FALSE /\ UNCHANGED vars

\* The conversation's time to live in Redis runs out.
Expire ==
    /\ conv # None
    /\ conv' = None
    /\ UNCHANGED <<database, lock, pc, session>>

-----------------------------------------------------------------------------
VoiceStep(v) == VoiceSelect(v) \/ VoiceInsert(v) \/ VoiceSave(v) \/ VoiceCommit(v)
TurnStep(t) ==
    \/ TurnLoad(t) \/ TurnHear(t)
    \/ TurnTalk(t) \/ TurnAnswered(t) \/ TurnBooked(t) \/ TurnEscalated(t)
    \/ TurnSave(t) \/ Commit(t)
HangupStep(h) ==
    \/ HangupLoad(h) \/ HangupAnalyse(h) \/ HangupSilent(h)
    \/ Recompute(h) \/ Clear(h) \/ Commit(h)
StatusStep(s) ==
    StatusLoad(s) \/ StatusRecord(s) \/ Recompute(s) \/ Clear(s) \/ Commit(s)

Step(p) ==
    \/ p \in Voice /\ VoiceStep(p)
    \/ p \in Turn /\ TurnStep(p)
    \/ p \in Hangup /\ HangupStep(p)
    \/ p \in Status /\ StatusStep(p)

Next == Expire \/ \E p \in Request : Step(p) \/ Fail(p)

Spec == Init /\ [][Next]_vars

\* A request once accepted is scheduled until it ends (asyncio and the
\* database both make progress), and Redis does expire keys.  No request has
\* to arrive, and no failure has to happen.
Fairness ==
    /\ WF_vars(Expire)
    /\ \A p \in Request : WF_vars(pc[p] # "idle" /\ Step(p))

FairSpec == Spec /\ Fairness

-----------------------------------------------------------------------------
(* Safety.                                                                 *)

\* Whatever the deliveries of the voice webhook do, retried or at the same
\* time, at most one of them ends with a call row of its own.
OneRowPerCall == Cardinality(stored) <= 1

\* A call marked as escalated says why, although hangups and turns with older
\* copies of the row write it too.
EscalationExplained == row.escalated => row.reason

\* The total and the attempts on the row come from requests whose entries
\* are in the ledger: nothing that was rolled back is charged or shown.
ChargesBacked == row.cost \cup row.log \subseteq ledger

\* No commit takes back what another one established: the escalation, its
\* reason and the transcript stay once they are set.
FactsKept ==
    [][ /\ row.escalated => row'.escalated
        /\ row.reason => row'.reason
        /\ row.transcript => row'.transcript ]_row

\* A settler that has had the row since its flush commits the total of the
\* whole ledger: nothing was committed between its SUM and its own commit.
SettledInFull ==
    [][ \A p \in Settler :
            lock = p /\ pc[p] = "commit" /\ pc'[p] = "done"
                => row'.cost = ledger' ]_vars

\* A hangup whose session has seen the escalation leaves the outcome alone.
SeenEscalationStands ==
    [][ \A h \in Hangup :
            loaded[h].escalated /\ pc[h] = "commit" /\ pc'[h] = "done"
                => row'.outcome = row.outcome ]_vars

\* With one status callback, and one that bills, neither the hangup nor the
\* callback is ever missing from the total once both have settled, in
\* whichever order they ran.
SettlersCharged ==
    \A p \in Settler : pc[p] = "done" => p \in row.cost

(* Liveness.                                                               *)

\* No request waits forever for the row: each ends.
RequestsEnd == \A p \in Request : pc[p] # "idle" ~> pc[p] \in Finished

\* A conversation that is saved after the call was cleared goes all the same.
ConversationForgotten == <>[](conv = None)

-----------------------------------------------------------------------------
(* Why the safety properties hold: the parts of an inductive invariant.    *)

\* Nothing reads or writes the call before its INSERT has committed, and only
\* an inserting delivery can hold a row that nobody else sees.
BeforeInsert ==
    /\ stored = {} =>
         /\ row = NewRow /\ ledger = {}
         /\ \A p \in Request \ Voice : pc[p] \in {"idle", "refused"}
    /\ \A v \in Voice : lock = v => stored = {} /\ pc[v] \in {"save", "commit"}

\* What a session loaded is a past state of the row: the flags it saw set are
\* still set.
LoadedIsPast ==
    \A p \in Request :
        /\ loaded[p].escalated => row.escalated
        /\ loaded[p].reason => row.reason
        /\ loaded[p].transcript => row.transcript
        /\ loaded[p].cost \cup loaded[p].log \subseteq ledger

\* A session never takes a flag back and never escalates without a reason.
EditsOnlyAdd ==
    \A p \in Request :
        /\ loaded[p].escalated => edited[p].escalated
        /\ loaded[p].reason => edited[p].reason
        /\ loaded[p].transcript => edited[p].transcript
        /\ edited[p].escalated => edited[p].reason
        /\ edited[p].cost \cup edited[p].log \subseteq Visible(p)

\* While a settler has the row, the total it has read stays the right one.
TotalStaysExact ==
    \A p \in Settler :
        lock = p /\ pc[p] \in {"clear", "commit"} => edited[p].cost = Visible(p)

\* A hangup that loaded an escalated call has not touched the outcome; a
\* call is escalated by a turn, so its transcript is not blank.
OutcomeUntouched ==
    /\ row.escalated => \E t \in Turn : pc[t] # "idle"
    /\ \A p \in Settler : edited[p].escalated = loaded[p].escalated
    /\ \A h \in Hangup :
          loaded[h].escalated => edited[h].outcome = loaded[h].outcome

\* Only the delivery whose INSERT found no row commits one.
StoredOnce == stored = {} \/ \E v \in Voice : stored = {v}

IInv ==
    /\ TypeOK
    /\ EscalationExplained
    /\ ChargesBacked
    /\ BeforeInsert
    /\ LoadedIsPast
    /\ EditsOnlyAdd
    /\ TotalStaysExact
    /\ OutcomeUntouched
    /\ StoredOnce

-----------------------------------------------------------------------------
(* What the repository says of the program and the code does not do.       *)

\* costs.py: a retried webhook cannot double-count.
TelephonyBilledOnce == Cardinality(row.cost \cap Status) <= 1

\* voice_agent.py: the classifier does not downgrade an escalation.
EscalationAuthoritative ==
    [][ \A h \in Hangup :
            /\ row.escalated /\ row.outcome = "escalated"
            /\ pc[h] = "commit" /\ pc'[h] = "done"
            => row'.outcome = "escalated" ]_vars

\* models/call.py: provider_log is an append-only list.
AttemptsAppendOnly == [][row.log \subseteq row'.log]_row
=============================================================================
