-------------------------- MODULE CallRecordProofs --------------------------
(***************************************************************************)
(* Proofs about CallRecord, for any number of requests of each kind, any   *)
(* verdicts and any durations.                                             *)
(***************************************************************************)
EXTENDS CallRecord, FiniteSetTheorems, TLAPS

\* The initial state has the type of every other.
LEMMA InitTyped == Init => TypeOK
  BY RequestsDistinct, InputsTyped
     DEF Init, TypeOK, NewRow, Row, Outcome, Finished

\* What a commit writes is a row: each column comes from the row or from the
\* session's copy.
LEMMA WrittenTyped ==
  ASSUME TypeOK, NEW p \in Request
  PROVE  Written(p) \in Row
  BY DEF Written, TypeOK, Row

\* TypeOK is preserved by every step of a request and by the expiry.
LEMMA NextTyped == TypeOK /\ [Next]_vars => TypeOK'
<1> SUFFICES ASSUME TypeOK, [Next]_vars PROVE TypeOK'
  OBVIOUS
<1> USE DEF TypeOK, session, database, Goto, Finished
<1>1. CASE UNCHANGED vars
  BY <1>1 DEF vars
<1>2. CASE Expire
  BY <1>2 DEF Expire
<1>3. ASSUME NEW p \in Request, Fail(p) PROVE TypeOK'
  BY <1>3 DEF Fail, Close, NewRow, Row, Outcome
<1>4. ASSUME NEW p \in Request, Commit(p) PROVE TypeOK'
  <2>1. row' \in Row
    BY <1>4, WrittenTyped DEF Commit
  <2>2. ledger' \subseteq Request
    BY <1>4 DEF Commit, Visible, Own
  <2>3. /\ loaded' \in [Request -> Row]
        /\ edited' \in [Request -> Row]
        /\ pending' \in [Request -> BOOLEAN]
        /\ heard' \in [Request -> SUBSET Turn]
    BY <1>4 DEF Commit, Close, NewRow, Row, Outcome
  <2> QED
    BY <1>4, <2>1, <2>2, <2>3 DEF Commit
<1>5. ASSUME NEW v \in Voice, VoiceStep(v) PROVE TypeOK'
  <2>1. v \in Request
    BY DEF Request
  <2>2. CASE VoiceSelect(v)
    BY <2>1, <2>2 DEF VoiceSelect
  <2>3. CASE VoiceInsert(v)
    BY <2>1, <2>3 DEF VoiceInsert
  <2>4. CASE VoiceSave(v)
    BY <2>1, <2>4 DEF VoiceSave
  <2>5. CASE VoiceCommit(v)
    <3>1. NewRow \in Row
      BY DEF NewRow, Row, Outcome
    <3> QED
      BY <2>1, <2>5, <3>1 DEF VoiceCommit
  <2> QED
    BY <1>5, <2>2, <2>3, <2>4, <2>5 DEF VoiceStep
<1>6. ASSUME NEW t \in Turn, TurnStep(t) PROVE TypeOK'
  <2>1. t \in Request
    BY DEF Request
  <2>2. CASE TurnLoad(t)
    BY <2>1, <2>2 DEF TurnLoad, Load
  <2>3. CASE TurnHear(t)
    BY <2>1, <2>3 DEF TurnHear, Row
  <2>4. CASE TurnTalk(t)
    BY <2>1, <2>4 DEF TurnTalk, Answer, Flush, Row
  <2>5. CASE TurnAnswered(t) \/ TurnBooked(t)
    <3>1. /\ "answered" \in Outcome /\ "booked" \in Outcome
          /\ edited[t] \in Row
      BY <2>1 DEF Outcome
    <3>2. /\ [edited[t] EXCEPT !.outcome = "answered"] \in Row
          /\ [edited[t] EXCEPT !.outcome = "booked"] \in Row
      BY <3>1 DEF Row
    <3> QED
      BY <2>1, <2>5, <3>2 DEF TurnAnswered, TurnBooked, Answer, Flush
  <2>6. CASE TurnEscalated(t)
    <3>1. "escalated" \in Outcome /\ edited[t] \in Row
      BY <2>1 DEF Outcome
    <3>2. [edited[t] EXCEPT !.outcome = "escalated", !.escalated = TRUE, !.reason = TRUE]
             \in Row
      BY <3>1 DEF Row
    <3> QED
      BY <2>1, <2>6, <3>2 DEF TurnEscalated, Flush
  <2>7. CASE TurnSave(t)
    BY <2>1, <2>7 DEF TurnSave
  <2> QED
    BY <1>4, <1>6, <2>1, <2>2, <2>3, <2>4, <2>5, <2>6, <2>7 DEF TurnStep
<1>7. ASSUME NEW p \in Settler, Recompute(p) \/ Clear(p) PROVE TypeOK'
  BY <1>7 DEF Recompute, Clear, Settler, Request, Visible, Own, Row
<1>8. ASSUME NEW h \in Hangup, HangupStep(h) PROVE TypeOK'
  <2>1. h \in Request /\ h \in Settler
    BY DEF Request, Settler
  <2>2. CASE HangupLoad(h)
    <3>1. PICK seconds \in HangupSeconds, blank \in BOOLEAN :
            Load(h, IF blank THEN "silent" ELSE "analyse",
                 [row EXCEPT
                    !.seconds = IF seconds = 0 THEN @ ELSE seconds,
                    !.outcome = IF blank /\ @ = "answered" THEN "abandoned" ELSE @])
      BY <2>2 DEF HangupLoad
    <3> DEFINE n == IF seconds = 0 THEN row.seconds ELSE seconds
               o == IF blank /\ row.outcome = "answered" THEN "abandoned" ELSE row.outcome
    <3>2. n \in Nat /\ o \in Outcome
      BY InputsTyped DEF Row, Outcome
    <3>3. [row EXCEPT !.seconds = n, !.outcome = o] \in Row
      BY <3>2 DEF Row
    <3> QED
      BY <2>1, <3>1, <3>3 DEF Load
  <2>3. CASE HangupAnalyse(h) \/ HangupSilent(h)
    <3>1. PICK verdict \in Outcome, reason \in BOOLEAN, attempts \in SUBSET Request :
            Finalize(h, verdict, reason, attempts)
      BY <2>1, <2>3, InputsTyped DEF HangupAnalyse, HangupSilent, Outcome
    <3> DEFINE o == IF edited[h].escalated THEN edited[h].outcome ELSE verdict
               b == edited[h].reason \/ reason
               S == edited[h].log \cup attempts
    <3>2. o \in Outcome /\ b \in BOOLEAN /\ S \in SUBSET Request
      BY <2>1 DEF Row
    <3>3. [edited[h] EXCEPT !.transcript = TRUE, !.outcome = o, !.reason = b, !.log = S]
             \in Row
      BY <2>1, <3>2 DEF Row
    <3> QED
      BY <2>1, <3>1, <3>3 DEF Finalize, Flush
  <2> QED
    BY <1>4, <1>7, <1>8, <2>1, <2>2, <2>3 DEF HangupStep
<1>9. ASSUME NEW s \in Status, StatusStep(s) PROVE TypeOK'
  <2>1. s \in Request /\ s \in Settler
    BY DEF Request, Settler
  <2>2. CASE StatusLoad(s)
    <3>1. PICK seconds \in StatusSeconds, unanswered \in BOOLEAN :
            Load(s, "record",
                 [row EXCEPT !.seconds = seconds,
                             !.outcome = IF unanswered THEN "abandoned" ELSE @])
      BY <2>2 DEF StatusLoad
    <3> DEFINE o == IF unanswered THEN "abandoned" ELSE row.outcome
    <3>2. seconds \in Nat /\ o \in Outcome
      BY InputsTyped DEF Row, Outcome
    <3>3. [row EXCEPT !.seconds = seconds, !.outcome = o] \in Row
      BY <3>2 DEF Row
    <3> QED
      BY <2>1, <3>1, <3>3 DEF Load
  <2>3. CASE StatusRecord(s)
    BY <2>1, <2>3 DEF StatusRecord, Flush
  <2> QED
    BY <1>4, <1>7, <1>9, <2>1, <2>2, <2>3 DEF StatusStep
<1> QED
  BY <1>1, <1>2, <1>3, <1>5, <1>6, <1>8, <1>9 DEF Next, Step

\* Every reachable state has the declared type.
THEOREM TypeCorrect == Spec => []TypeOK
  BY InitTyped, NextTyped, PTL DEF Spec

-----------------------------------------------------------------------------
(* The actions by what they do to the session.  The invariant's proof      *)
(* follows these kinds of step instead of the sixteen actions.             *)

Client == Request \ Voice

\* Only the control state moves, or Redis.
QuietStep(p) ==
    /\ UNCHANGED <<stored, row, ledger, lock, loaded, edited, pending>>
    /\ \E label : Goto(p, label)
    /\ \/ pc[p] = "idle" /\ p \in Voice
       \/ pc[p] = "save" /\ p \notin Settler /\ pc'[p] = "commit"
       \/ pc[p] = "clear" /\ pc'[p] = "commit"

\* The row is loaded; the first assignments touch outcome and duration only,
\* and a hangup's leave the outcome of an escalated call alone.
LoadStep(p) ==
    /\ pc[p] = "idle"
    /\ UNCHANGED <<stored, row, ledger, lock, pending>>
    /\ \E label \in {"refused", "hear", "analyse", "silent", "record"} :
          /\ Goto(p, label)
          /\ stored = {} => label = "refused"
    /\ \/ UNCHANGED <<loaded, edited>>
       \/ \E new \in Row :
             /\ loaded' = [loaded EXCEPT ![p] = row]
             /\ edited' = [edited EXCEPT ![p] = new]
             /\ new.escalated = row.escalated /\ new.reason = row.reason
             /\ new.transcript = row.transcript
             /\ new.cost = row.cost /\ new.log = row.log
             /\ p \in Hangup /\ row.escalated => new.outcome = row.outcome

\* The session's copy is edited and perhaps flushed.
EditStep(p) ==
    /\ pc[p] \in {"hear", "reply", "analyse", "silent", "record", "sum"}
    /\ UNCHANGED <<stored, row, ledger, loaded>>
    /\ \E label \in {"reply", "save", "sum", "clear"} :
          /\ Goto(p, label)
          /\ p \in Settler => label \in {"sum", "clear"}
          /\ label = "clear" => /\ UNCHANGED <<lock, pending>>
                                /\ edited'[p].cost = Visible(p)
    /\ \/ UNCHANGED lock
       \/ lock \in {None, p} /\ lock' = p
    /\ \/ UNCHANGED pending
       \/ pending' = [pending EXCEPT ![p] = TRUE]
    /\ \E new \in Row :
          /\ edited' = [edited EXCEPT ![p] = new]
          /\ edited[p].escalated => new.escalated
          /\ edited[p].reason => new.reason
          /\ edited[p].transcript => new.transcript
          /\ new.escalated => new.reason \/ edited[p].escalated
          /\ new.cost \in {edited[p].cost, Visible(p)}
          /\ new.log = edited[p].log \/ (new.log = edited[p].log \cup {p} /\ pending'[p])
          /\ p \in Settler => new.escalated = edited[p].escalated
          /\ p \in Hangup /\ new.escalated => new.outcome = edited[p].outcome

\* A turn's actions between loading and commit.
LEMMA TurnKinds ==
  ASSUME TypeOK, NEW t \in Turn, TurnStep(t)
  PROVE  QuietStep(t) \/ LoadStep(t) \/ EditStep(t) \/ Commit(t)
<1> USE DEF TypeOK, session, database
<1>1. t \in Request /\ t \notin Settler /\ t \notin Hangup /\ edited[t] \in Row
  BY RequestsDistinct DEF Request, Settler
<1>2. CASE TurnLoad(t)
  BY <1>1, <1>2 DEF TurnLoad, Load, LoadStep, Goto
<1>3. CASE TurnHear(t)
  <2> DEFINE new == [edited[t] EXCEPT !.log = @ \cup {t}]
  <2>1. /\ new \in Row
        /\ new.escalated = edited[t].escalated /\ new.reason = edited[t].reason
        /\ new.transcript = edited[t].transcript /\ new.cost = edited[t].cost
        /\ new.log = edited[t].log \cup {t}
    BY <1>1 DEF Row
  <2>2. edited' = [edited EXCEPT ![t] = new]
    BY <1>3 DEF TurnHear
  <2> HIDE DEF new
  <2> QED
    BY <1>1, <1>3, <2>1, <2>2 DEF TurnHear, EditStep, Goto
<1>4. ASSUME NEW outcome \in Outcome, NEW flushes \in BOOLEAN, Answer(t, outcome, flushes)
      PROVE  EditStep(t)
  <2> DEFINE new == [edited[t] EXCEPT !.outcome = outcome]
  <2>1. /\ new \in Row
        /\ new.escalated = edited[t].escalated /\ new.reason = edited[t].reason
        /\ new.transcript = edited[t].transcript /\ new.cost = edited[t].cost
        /\ new.log = edited[t].log
    BY <1>1 DEF Row
  <2>2. edited' = [edited EXCEPT ![t] = new]
    BY <1>4 DEF Answer
  <2> HIDE DEF new
  <2> QED
    BY <1>1, <1>4, <2>1, <2>2 DEF Answer, Flush, EditStep, Goto
<1>5. CASE TurnTalk(t) \/ TurnAnswered(t) \/ TurnBooked(t)
  BY <1>1, <1>4, <1>5 DEF TurnTalk, TurnAnswered, TurnBooked, Outcome, Row
<1>6. CASE TurnEscalated(t)
  <2> DEFINE new == [edited[t] EXCEPT !.outcome = "escalated", !.escalated = TRUE,
                                      !.reason = TRUE]
  <2>1. /\ new \in Row
        /\ new.escalated = TRUE /\ new.reason = TRUE
        /\ new.transcript = edited[t].transcript /\ new.cost = edited[t].cost
        /\ new.log = edited[t].log
    BY <1>1 DEF Row, Outcome
  <2>2. edited' = [edited EXCEPT ![t] = new]
    BY <1>6 DEF TurnEscalated
  <2> HIDE DEF new
  <2> QED
    BY <1>1, <1>6, <2>1, <2>2 DEF TurnEscalated, Flush, EditStep, Goto
<1>7. CASE TurnSave(t)
  BY <1>1, <1>7 DEF TurnSave, QuietStep, Goto
<1> QED
  BY <1>2, <1>3, <1>5, <1>6, <1>7, TurnStep(t) DEF TurnStep

\* What hangup and status have in common at their end.
LEMMA SettleKinds ==
  ASSUME TypeOK, NEW p \in Settler, Recompute(p) \/ Clear(p)
  PROVE  QuietStep(p) \/ EditStep(p)
<1> USE DEF TypeOK, session, database
<1>1. p \in Request /\ edited[p] \in Row /\ Visible(p) \in SUBSET Request
  BY DEF Request, Settler, Visible, Own
<1>2. CASE Recompute(p)
  <2> DEFINE new == [edited[p] EXCEPT !.cost = Visible(p)]
  <2>1. /\ new \in Row
        /\ new.escalated = edited[p].escalated /\ new.reason = edited[p].reason
        /\ new.transcript = edited[p].transcript /\ new.cost = Visible(p)
        /\ new.log = edited[p].log /\ new.outcome = edited[p].outcome
    BY <1>1 DEF Row
  <2>2. edited' = [edited EXCEPT ![p] = new]
    BY <1>2 DEF Recompute
  <2> HIDE DEF new
  <2> QED
    BY <1>1, <1>2, <2>1, <2>2 DEF Recompute, EditStep, Goto
<1>3. CASE Clear(p)
  BY <1>1, <1>3 DEF Clear, QuietStep, Goto
<1> QED
  BY <1>2, <1>3

\* A hangup's actions.  Its first edit leaves an escalated call's outcome
\* alone because such a call has had a turn, so its transcript is not blank.
LEMMA HangupKinds ==
  ASSUME TypeOK, OutcomeUntouched, NEW h \in Hangup, HangupStep(h)
  PROVE  QuietStep(h) \/ LoadStep(h) \/ EditStep(h) \/ Commit(h)
<1> USE DEF TypeOK, session, database
<1>1. h \in Request /\ h \in Settler /\ edited[h] \in Row
  BY DEF Request, Settler
<1>2. CASE HangupLoad(h)
  <2>1. PICK seconds \in HangupSeconds, blank \in BOOLEAN :
          /\ blank => \A t \in Turn : pc[t] = "idle"
          /\ Load(h, IF blank THEN "silent" ELSE "analyse",
               [row EXCEPT
                  !.seconds = IF seconds = 0 THEN @ ELSE seconds,
                  !.outcome = IF blank /\ @ = "answered" THEN "abandoned" ELSE @])
    BY <1>2 DEF HangupLoad
  <2> DEFINE n == IF seconds = 0 THEN row.seconds ELSE seconds
             o == IF blank /\ row.outcome = "answered" THEN "abandoned" ELSE row.outcome
             new == [row EXCEPT !.seconds = n, !.outcome = o]
  <2>2. n \in Nat /\ o \in Outcome
    BY InputsTyped DEF Row, Outcome
  <2>3. row.escalated => o = row.outcome
    BY <2>1 DEF OutcomeUntouched
  <2>4. /\ new \in Row
        /\ new.escalated = row.escalated /\ new.reason = row.reason
        /\ new.transcript = row.transcript /\ new.cost = row.cost
        /\ new.log = row.log
        /\ row.escalated => new.outcome = row.outcome
    BY <2>2, <2>3 DEF Row
  <2>5. Load(h, IF blank THEN "silent" ELSE "analyse", new)
    BY <2>1
  <2> HIDE DEF new
  <2> QED
    BY <1>1, <2>4, <2>5 DEF Load, LoadStep, Goto
<1>3. CASE HangupAnalyse(h) \/ HangupSilent(h)
  <2>1. PICK verdict \in Outcome, reason \in BOOLEAN, attempts \in {{}, {h}} :
          Finalize(h, verdict, reason, attempts)
    BY <1>3, InputsTyped DEF HangupAnalyse, HangupSilent, Outcome
  <2> DEFINE o == IF edited[h].escalated THEN edited[h].outcome ELSE verdict
             b == edited[h].reason \/ reason
             S == edited[h].log \cup attempts
             new == [edited[h] EXCEPT !.transcript = TRUE, !.outcome = o,
                                      !.reason = b, !.log = S]
  <2>2. o \in Outcome /\ b \in BOOLEAN /\ S \in SUBSET Request
    BY <1>1 DEF Row
  <2>3. S = edited[h].log \/ S = edited[h].log \cup {h}
    OBVIOUS
  <2>4. /\ new \in Row
        /\ new.escalated = edited[h].escalated /\ new.transcript = TRUE
        /\ new.reason = b /\ new.cost = edited[h].cost /\ new.log = S
        /\ edited[h].escalated => new.outcome = edited[h].outcome
    BY <1>1, <2>2 DEF Row
  <2>5. /\ edited' = [edited EXCEPT ![h] = new]
        /\ pending' = [pending EXCEPT ![h] = TRUE]
        /\ UNCHANGED lock \/ (lock \in {None, h} /\ lock' = h)
        /\ pc' = [pc EXCEPT ![h] = "sum"]
        /\ pc[h] \in {"analyse", "silent"}
        /\ UNCHANGED <<stored, row, ledger, loaded>>
    BY <1>3, <2>1 DEF HangupAnalyse, HangupSilent, Finalize, Flush, Goto
  <2>6. edited[h].reason => new.reason
    BY <2>4
  <2>7. pending'[h]
    BY <1>1, <2>5
  <2> HIDE DEF new, S, b, o
  <2> QED
    BY <1>1, <2>3, <2>4, <2>5, <2>6, <2>7 DEF EditStep, Goto
<1> QED
  BY <1>1, <1>2, <1>3, SettleKinds DEF HangupStep

\* A status callback's actions.
LEMMA StatusKinds ==
  ASSUME TypeOK, NEW s \in Status, StatusStep(s)
  PROVE  QuietStep(s) \/ LoadStep(s) \/ EditStep(s) \/ Commit(s)
<1> USE DEF TypeOK, session, database
<1>1. s \in Request /\ s \in Settler /\ s \notin Hangup /\ edited[s] \in Row
  BY RequestsDistinct DEF Request, Settler
<1>2. CASE StatusLoad(s)
  <2>1. PICK seconds \in StatusSeconds, unanswered \in BOOLEAN :
          Load(s, "record",
               [row EXCEPT !.seconds = seconds,
                           !.outcome = IF unanswered THEN "abandoned" ELSE @])
    BY <1>2 DEF StatusLoad
  <2> DEFINE o == IF unanswered THEN "abandoned" ELSE row.outcome
             new == [row EXCEPT !.seconds = seconds, !.outcome = o]
  <2>2. seconds \in Nat /\ o \in Outcome
    BY InputsTyped DEF Row, Outcome
  <2>3. /\ new \in Row
        /\ new.escalated = row.escalated /\ new.reason = row.reason
        /\ new.transcript = row.transcript /\ new.cost = row.cost
        /\ new.log = row.log
    BY <2>2 DEF Row
  <2>4. Load(s, "record", new)
    BY <2>1
  <2> HIDE DEF new
  <2> QED
    BY <1>1, <2>3, <2>4 DEF Load, LoadStep, Goto
<1>3. CASE StatusRecord(s)
  <2>1. UNCHANGED pending \/ pending' = [pending EXCEPT ![s] = TRUE]
    BY <1>1, <1>3 DEF StatusRecord
  <2>2. edited' = [edited EXCEPT ![s] = edited[s]]
    BY <1>1, <1>3 DEF StatusRecord
  <2> QED
    BY <1>1, <1>3, <2>1, <2>2 DEF StatusRecord, Flush, EditStep, Goto
<1> QED
  BY <1>1, <1>2, <1>3, SettleKinds DEF StatusStep

\* Every step is of one of these kinds.
LEMMA NextKinds ==
  ASSUME IInv, [Next]_vars
  PROVE  \/ UNCHANGED <<stored, row, ledger, lock, pc, loaded, edited, pending>>
         \/ \E p \in Request : Fail(p)
         \/ \E v \in Voice : QuietStep(v) \/ VoiceInsert(v) \/ VoiceCommit(v)
         \/ \E p \in Client : QuietStep(p) \/ LoadStep(p) \/ EditStep(p) \/ Commit(p)
<1> USE DEF database, session
<1>1. CASE UNCHANGED vars \/ Expire
  BY <1>1 DEF vars, Expire
<1>2. ASSUME NEW v \in Voice, VoiceStep(v)
      PROVE  QuietStep(v) \/ VoiceInsert(v) \/ VoiceCommit(v)
  <2>1. CASE VoiceSelect(v)
    BY <2>1 DEF VoiceSelect, QuietStep
  <2>2. CASE VoiceSave(v)
    <3>1. pc'[v] = "commit" /\ v \notin Settler
      BY <2>2, RequestsDistinct DEF VoiceSave, Goto, IInv, TypeOK, Request, Settler
    <3> QED
      BY <2>2, <3>1 DEF VoiceSave, QuietStep
  <2> QED
    BY <1>2, <2>1, <2>2 DEF VoiceStep
<1>3. ASSUME NEW p \in Request, p \notin Voice, Step(p)
      PROVE  QuietStep(p) \/ LoadStep(p) \/ EditStep(p) \/ Commit(p)
  BY <1>3, TurnKinds, HangupKinds, StatusKinds DEF Step, IInv
<1>4. ASSUME NEW p \in Request, p \in Voice, Step(p)
      PROVE  VoiceStep(p)
  BY <1>4, RequestsDistinct DEF Step
<1>5. ASSUME NEW p \in Request, Step(p)
      PROVE  \/ \E v \in Voice : QuietStep(v) \/ VoiceInsert(v) \/ VoiceCommit(v)
             \/ \E q \in Client : QuietStep(q) \/ LoadStep(q) \/ EditStep(q) \/ Commit(q)
  <2>1. CASE p \in Voice
    BY <1>2, <1>4, <1>5, <2>1
  <2>2. CASE p \notin Voice
    BY <1>3, <1>5, <2>2 DEF Client
  <2> QED
    BY <2>1, <2>2
<1> QED
  BY <1>1, <1>5 DEF Next

-----------------------------------------------------------------------------
(* The inductive invariant, one lemma for each kind of step.               *)

\* Every part holds of a call nobody has delivered yet.
LEMMA InitInv == Init => IInv
<1> SUFFICES ASSUME Init PROVE IInv
  OBVIOUS
<1>1. TypeOK
  BY InitTyped
<1>2. EscalationExplained /\ ChargesBacked /\ StoredOnce
  BY DEF Init, EscalationExplained, ChargesBacked, StoredOnce, NewRow
<1>3. BeforeInsert
  BY RequestsDistinct DEF Init, BeforeInsert, Request
<1>4. LoadedIsPast /\ EditsOnlyAdd
  BY DEF Init, LoadedIsPast, EditsOnlyAdd, NewRow
<1>5. TotalStaysExact
  BY RequestsDistinct DEF Init, TotalStaysExact, Settler, Request
<1>6. OutcomeUntouched
  BY DEF Init, OutcomeUntouched, NewRow, Request
<1> QED
  BY <1>1, <1>2, <1>3, <1>4, <1>5, <1>6 DEF IInv

\* Moving the control state keeps every part: nothing a part speaks of has
\* changed but pc.
LEMMA QuietInv ==
  ASSUME IInv, NEW p \in Request, QuietStep(p), TypeOK'
  PROVE  IInv'
<1> USE DEF IInv, QuietStep, Goto
<1>1. EscalationExplained' /\ ChargesBacked' /\ StoredOnce' /\ LoadedIsPast' /\ EditsOnlyAdd'
  BY DEF EscalationExplained, ChargesBacked, StoredOnce, LoadedIsPast, EditsOnlyAdd,
         Visible, Own
<1>2. BeforeInsert'
  <2>1. ASSUME stored = {}, NEW q \in Request \ Voice
        PROVE  pc'[q] \in {"idle", "refused"}
    BY <2>1 DEF BeforeInsert, TypeOK
  <2>2. ASSUME NEW v \in Voice, lock' = v
        PROVE  stored' = {} /\ pc'[v] \in {"save", "commit"}
    <3>1. v \in Request /\ stored = {} /\ pc[v] \in {"save", "commit"}
      BY <2>2 DEF BeforeInsert, Request
    <3> QED
      BY <3>1 DEF TypeOK
  <2>3. stored' = stored /\ (stored' = {} => row' = NewRow /\ ledger' = {})
    BY DEF BeforeInsert
  <2> QED
    BY <2>1, <2>2, <2>3 DEF BeforeInsert
<1>3. TotalStaysExact'
  BY RequestsDistinct DEF TotalStaysExact, Visible, Own, TypeOK, Settler, Request
<1>4. OutcomeUntouched'
  BY RequestsDistinct DEF OutcomeUntouched, TypeOK, Request
<1> QED
  BY <1>1, <1>2, <1>3, <1>4

\* Loading keeps every part: the copy is the row.
LEMMA LoadInv ==
  ASSUME IInv, NEW p \in Client, LoadStep(p), TypeOK'
  PROVE  IInv'
<1> USE DEF IInv, LoadStep, Goto
<1>1. p \in Request /\ p \notin Voice
  BY DEF Client
<1>2. EscalationExplained' /\ ChargesBacked' /\ StoredOnce'
  BY DEF EscalationExplained, ChargesBacked, StoredOnce
<1>3. LoadedIsPast'
  BY <1>1 DEF LoadedIsPast, ChargesBacked, TypeOK
<1>4. EditsOnlyAdd'
  BY <1>1 DEF EditsOnlyAdd, EscalationExplained, ChargesBacked, Visible, Own, TypeOK
<1>5. BeforeInsert'
  BY <1>1 DEF BeforeInsert, TypeOK
<1>6. TotalStaysExact'
  BY <1>1 DEF TotalStaysExact, Visible, Own, TypeOK, Settler, Request
<1>7. OutcomeUntouched'
  BY <1>1 DEF OutcomeUntouched, TypeOK, Request, Settler
<1> QED
  BY <1>2, <1>3, <1>4, <1>5, <1>6, <1>7

\* Editing keeps every part: the database is as it was and the copy grows.
LEMMA EditInv ==
  ASSUME IInv, NEW p \in Client, EditStep(p), TypeOK'
  PROVE  IInv'
<1> USE DEF IInv, EditStep, Goto
<1>1. p \in Request /\ p \notin Voice
  BY DEF Client
<1>2. EscalationExplained' /\ ChargesBacked' /\ StoredOnce' /\ LoadedIsPast'
  BY DEF EscalationExplained, ChargesBacked, StoredOnce, LoadedIsPast
<1>3. EditsOnlyAdd'
  BY <1>1 DEF EditsOnlyAdd, Visible, Own, TypeOK
<1>4. BeforeInsert'
  BY <1>1 DEF BeforeInsert, TypeOK
<1>5. TotalStaysExact'
  BY <1>1 DEF TotalStaysExact, Visible, Own, TypeOK, Settler, Request
<1>6. OutcomeUntouched'
  BY <1>1 DEF OutcomeUntouched, TypeOK, Request, Settler
<1> QED
  BY <1>2, <1>3, <1>4, <1>5, <1>6

\* A failure keeps every part: the database is as it was and the session gone.
LEMMA FailInv ==
  ASSUME IInv, NEW p \in Request, Fail(p), TypeOK'
  PROVE  IInv'
<1> USE DEF IInv, Fail, Goto, Close, database
<1>1. EscalationExplained' /\ ChargesBacked' /\ StoredOnce' /\ LoadedIsPast'
  BY DEF EscalationExplained, ChargesBacked, StoredOnce, LoadedIsPast, NewRow, TypeOK
<1>2. EditsOnlyAdd'
  BY DEF EditsOnlyAdd, Visible, Own, NewRow, TypeOK
<1>3. BeforeInsert'
  BY RequestsDistinct DEF BeforeInsert, TypeOK, Finished, Request
<1>4. TotalStaysExact'
  BY RequestsDistinct DEF TotalStaysExact, Visible, Own, TypeOK, Settler, Request
<1>5. OutcomeUntouched'
  BY RequestsDistinct DEF OutcomeUntouched, TypeOK, Request, Settler, NewRow, Finished
<1> QED
  BY <1>1, <1>2, <1>3, <1>4, <1>5

\* A delivery that inserts holds a row nobody has loaded.
LEMMA VoiceInsertInv ==
  ASSUME IInv, NEW v \in Voice, VoiceInsert(v), TypeOK'
  PROVE  IInv'
<1> USE DEF IInv, VoiceInsert, Goto, database, session
<1>1. v \in Request
  BY DEF Request
<1>2. EscalationExplained' /\ ChargesBacked' /\ StoredOnce' /\ LoadedIsPast' /\ EditsOnlyAdd'
  BY DEF EscalationExplained, ChargesBacked, StoredOnce, LoadedIsPast, EditsOnlyAdd,
         Visible, Own
<1>3. BeforeInsert'
  BY <1>1, RequestsDistinct DEF BeforeInsert, TypeOK, Request
<1>4. TotalStaysExact'
  BY <1>1, RequestsDistinct DEF TotalStaysExact, Visible, Own, TypeOK, Settler, Request
<1>5. OutcomeUntouched'
  BY RequestsDistinct DEF OutcomeUntouched, TypeOK, Request
<1> QED
  BY <1>2, <1>3, <1>4, <1>5

\* The INSERT that commits writes the row that was assumed all along.
LEMMA VoiceCommitInv ==
  ASSUME IInv, NEW v \in Voice, VoiceCommit(v), TypeOK'
  PROVE  IInv'
<1> USE DEF IInv, VoiceCommit, Goto, session
<1>1. v \in Request
  BY DEF Request
<1>2. row' = row /\ ledger' = ledger
  BY DEF BeforeInsert
<1>3. StoredOnce'
  BY DEF StoredOnce, BeforeInsert
<1>4. EscalationExplained' /\ ChargesBacked' /\ LoadedIsPast' /\ EditsOnlyAdd'
  BY <1>2 DEF EscalationExplained, ChargesBacked, LoadedIsPast, EditsOnlyAdd, Visible, Own
<1>5. BeforeInsert'
  BY <1>1, RequestsDistinct DEF BeforeInsert, TypeOK, Request
<1>6. TotalStaysExact'
  BY <1>1, RequestsDistinct DEF TotalStaysExact, Visible, Own, TypeOK, Settler, Request
<1>7. OutcomeUntouched'
  BY <1>2, RequestsDistinct DEF OutcomeUntouched, TypeOK, Request
<1> QED
  BY <1>3, <1>4, <1>5, <1>6, <1>7

\* The columns of a commit: flags only go up, and come with their reason.
LEMMA CommitColumns ==
  ASSUME IInv, NEW p \in Client, Commit(p)
  PROVE  /\ row.escalated => row'.escalated
         /\ row.reason => row'.reason
         /\ row.transcript => row'.transcript
         /\ row'.escalated => row'.reason
         /\ row'.cost \cup row'.log \subseteq ledger'
         /\ p \in Settler /\ row'.escalated => row.escalated
<1> DEFINE e == edited[p]
           l == loaded[p]
<1>1. p \in Request /\ e \in Row /\ l \in Row /\ row \in Row /\ row' = Written(p)
  BY DEF Client, Commit, IInv, TypeOK
<1>2. /\ row'.escalated = IF e.escalated # l.escalated THEN e.escalated ELSE row.escalated
      /\ row'.reason = IF e.reason # l.reason THEN e.reason ELSE row.reason
      /\ row'.transcript = IF e.transcript # l.transcript THEN e.transcript ELSE row.transcript
      /\ row'.log = IF e.log # l.log THEN e.log ELSE row.log
      /\ row'.cost \in {e.cost, row.cost}
  BY <1>1 DEF Written
<1>3. /\ l.escalated => row.escalated
      /\ l.reason => row.reason
      /\ l.transcript => row.transcript
      /\ l.escalated => e.escalated
      /\ l.reason => e.reason
      /\ l.transcript => e.transcript
      /\ e.escalated => e.reason
      /\ row.escalated => row.reason
  BY <1>1 DEF IInv, LoadedIsPast, EditsOnlyAdd, EscalationExplained
<1>4. /\ e.escalated \in BOOLEAN /\ e.reason \in BOOLEAN /\ e.transcript \in BOOLEAN
      /\ l.escalated \in BOOLEAN /\ l.reason \in BOOLEAN /\ l.transcript \in BOOLEAN
      /\ row.escalated \in BOOLEAN /\ row.reason \in BOOLEAN /\ row.transcript \in BOOLEAN
  BY <1>1 DEF Row
<1>5. /\ row'.escalated <=> row.escalated \/ (e.escalated /\ ~l.escalated)
      /\ row'.reason <=> row.reason \/ (e.reason /\ ~l.reason)
      /\ row'.transcript <=> row.transcript \/ (e.transcript /\ ~l.transcript)
  <2> HIDE DEF e, l
  <2> QED
    BY <1>2, <1>3, <1>4
<1>6. row'.cost \cup row'.log \subseteq ledger'
  BY <1>1, <1>2 DEF IInv, EditsOnlyAdd, ChargesBacked, Commit, Visible
<1>7. p \in Settler => e.escalated = l.escalated
  BY DEF IInv, OutcomeUntouched
<1> HIDE DEF e, l
<1> QED
  BY <1>3, <1>5, <1>6, <1>7

\* A commit keeps every part.
LEMMA CommitInv ==
  ASSUME IInv, NEW p \in Client, Commit(p), TypeOK'
  PROVE  IInv'
<1>1. p \in Request /\ p \notin Voice /\ stored # {} /\ stored' = stored
  BY DEF Client, Commit, IInv, BeforeInsert
<1>2. EscalationExplained' /\ ChargesBacked' /\ StoredOnce'
  BY <1>1, CommitColumns DEF EscalationExplained, ChargesBacked, StoredOnce, IInv
<1>3. ledger \subseteq ledger' /\ \A q \in Request \ {p} : Visible(q) \subseteq Visible(q)'
  BY <1>1 DEF Commit, Close, Visible, Own, IInv, TypeOK
<1>4. /\ \A q \in Request \ {p} : loaded'[q] = loaded[q] /\ edited'[q] = edited[q]
      /\ loaded'[p] = NewRow /\ edited'[p] = NewRow
      /\ \A q \in Request \ {p} : pc'[q] = pc[q]
      /\ pc'[p] = "done" /\ lock' = None
  BY <1>1 DEF Commit, Close, Goto, IInv, TypeOK
<1>5. LoadedIsPast'
  <2>1. ASSUME NEW q \in Request
        PROVE  /\ loaded'[q].escalated => row'.escalated
               /\ loaded'[q].reason => row'.reason
               /\ loaded'[q].transcript => row'.transcript
               /\ loaded'[q].cost \cup loaded'[q].log \subseteq ledger'
    BY <1>3, <1>4, CommitColumns DEF IInv, LoadedIsPast, NewRow
  <2> QED
    BY <2>1 DEF LoadedIsPast
<1>6. EditsOnlyAdd'
  <2>1. ASSUME NEW q \in Request
        PROVE  /\ loaded'[q].escalated => edited'[q].escalated
               /\ loaded'[q].reason => edited'[q].reason
               /\ loaded'[q].transcript => edited'[q].transcript
               /\ edited'[q].escalated => edited'[q].reason
               /\ edited'[q].cost \cup edited'[q].log \subseteq Visible(q)'
    BY <1>3, <1>4 DEF IInv, EditsOnlyAdd, NewRow
  <2> QED
    BY <2>1 DEF EditsOnlyAdd
<1>7. BeforeInsert'
  BY <1>1, <1>4, RequestsDistinct DEF BeforeInsert, Request
<1>8. TotalStaysExact'
  BY <1>4, RequestsDistinct DEF TotalStaysExact, Settler, Request
<1>9. OutcomeUntouched'
  <2>1. p \in Turn \/ p \in Settler
    BY DEF Client, Request, Settler
  <2>2. row'.escalated => \E t \in Turn : pc'[t] # "idle"
    <3>1. CASE p \in Turn
      BY <1>4, <3>1
    <3>2. CASE p \in Settler /\ row'.escalated
      <4>1. PICK t \in Turn : pc[t] # "idle"
        BY <3>2, CommitColumns DEF IInv, OutcomeUntouched
      <4>2. t \in Request
        BY DEF Request
      <4> QED
        BY <1>4, <4>1, <4>2
    <3> QED
      BY <2>1, <3>1, <3>2
  <2>3. \A q \in Settler : edited'[q].escalated = loaded'[q].escalated
    BY <1>4 DEF IInv, OutcomeUntouched, NewRow, Settler, Request
  <2>4. \A h \in Hangup : loaded'[h].escalated => edited'[h].outcome = loaded'[h].outcome
    BY <1>4 DEF IInv, OutcomeUntouched, NewRow, Request
  <2> QED
    BY <2>2, <2>3, <2>4 DEF OutcomeUntouched
<1> QED
  BY <1>2, <1>5, <1>6, <1>7, <1>8, <1>9 DEF IInv

\* The invariant is inductive: whatever the kind of the step, one of the
\* lemmas above applies.
LEMMA StepInv == IInv /\ [Next]_vars => IInv'
<1> SUFFICES ASSUME IInv, [Next]_vars PROVE IInv'
  OBVIOUS
<1>1. TypeOK'
  BY NextTyped DEF IInv
<1>2. CASE UNCHANGED <<stored, row, ledger, lock, pc, loaded, edited, pending>>
  BY <1>1, <1>2 DEF IInv, EscalationExplained, ChargesBacked, StoredOnce, BeforeInsert,
                    LoadedIsPast, EditsOnlyAdd, TotalStaysExact, OutcomeUntouched,
                    Visible, Own
<1>3. \A v \in Voice : v \in Request
  BY DEF Request
<1>4. \A p \in Client : p \in Request
  BY DEF Client
<1> QED
  BY <1>1, <1>2, <1>3, <1>4, NextKinds, QuietInv, LoadInv, EditInv, FailInv,
     VoiceInsertInv, VoiceCommitInv, CommitInv

\* The strengthened invariant holds in every reachable state.
THEOREM Inductive == Spec => []IInv
  BY InitInv, StepInv, PTL DEF Spec

-----------------------------------------------------------------------------
(* The properties.                                                         *)

\* However often the voice webhook is delivered, and however the deliveries
\* overlap, one call has one row.
THEOREM OneRow == Spec => []OneRowPerCall
<1>1. IInv => OneRowPerCall
  <2> SUFFICES ASSUME IInv PROVE OneRowPerCall
    OBVIOUS
  <2>1. CASE stored = {}
    BY <2>1, FS_EmptySet DEF OneRowPerCall
  <2>2. ASSUME NEW v \in Voice, stored = {v} PROVE OneRowPerCall
    BY <2>2, FS_Singleton DEF OneRowPerCall
  <2> QED
    BY <2>1, <2>2 DEF IInv, StoredOnce
<1> QED
  BY <1>1, Inductive, PTL

\* An escalated call always carries a reason, whatever older copies of the row
\* are committed after it (Commit of turns and hangups).
THEOREM EscalationsExplained == Spec => []EscalationExplained
<1>1. IInv => EscalationExplained
  BY DEF IInv
<1> QED
  BY <1>1, Inductive, PTL

\* Nothing that was rolled back is charged to a call or listed among its
\* attempts (record of costs.py, finalize_call).
THEOREM NothingRolledBackCharged == Spec => []ChargesBacked
<1>1. IInv => ChargesBacked
  BY DEF IInv
<1> QED
  BY <1>1, Inductive, PTL

\* No commit, however old the copy it was made from, unsets the escalation,
\* its reason or the transcript.
THEOREM NothingTakenBack == Spec => FactsKept
<1> DEFINE Kept == /\ row.escalated => row'.escalated
                   /\ row.reason => row'.reason
                   /\ row.transcript => row'.transcript
<1>1. IInv /\ [Next]_vars => [Kept]_row
  <2> SUFFICES ASSUME IInv, [Next]_vars PROVE Kept \/ row' = row
    OBVIOUS
  <2>1. CASE \E p \in Client : Commit(p)
    BY <2>1, CommitColumns
  <2>2. CASE \E v \in Voice : VoiceCommit(v)
    BY <2>2 DEF VoiceCommit, BeforeInsert, IInv
  <2>3. CASE \E p \in Request : Fail(p) \/ QuietStep(p) \/ LoadStep(p) \/ EditStep(p)
    BY <2>3 DEF Fail, QuietStep, LoadStep, EditStep, database
  <2>4. CASE \E v \in Voice : VoiceInsert(v)
    BY <2>4 DEF VoiceInsert, database
  <2>5. CASE row' = row
    BY <2>5
  <2> QED
    BY <2>1, <2>2, <2>3, <2>4, <2>5, NextKinds DEF Request, Client
<1> QED
  BY <1>1, Inductive, PTL DEF Spec, FactsKept

\* What ends a settler's transaction is its own commit.
LEMMA SettlerEnds ==
  ASSUME IInv, [Next]_vars, NEW p \in Settler, pc[p] = "commit", pc'[p] = "done"
  PROVE  Commit(p)
<1> USE DEF IInv, TypeOK, Goto
<1>1. p \in Request /\ p \notin Voice
  BY RequestsDistinct DEF Settler, Request
<1>2. ASSUME NEW q \in Request, Fail(q) PROVE FALSE
  BY <1>1, <1>2 DEF Fail
<1>3. ASSUME NEW q \in Request, QuietStep(q) PROVE FALSE
  BY <1>1, <1>3 DEF QuietStep
<1>4. ASSUME NEW q \in Voice, VoiceInsert(q) \/ VoiceCommit(q) PROVE FALSE
  BY <1>1, <1>4 DEF VoiceInsert, VoiceCommit
<1>5. ASSUME NEW q \in Client, LoadStep(q) \/ EditStep(q) PROVE FALSE
  BY <1>1, <1>5 DEF LoadStep, EditStep
<1>6. ASSUME NEW q \in Client, Commit(q) PROVE q = p
  BY <1>1, <1>6 DEF Commit, Client
<1> QED
  BY <1>2, <1>3, <1>4, <1>5, <1>6, NextKinds DEF Request, Client

\* A hangup or status callback that has held the row since its flush leaves
\* cost_usd equal to the whole ledger, its own entries and everybody else's.
THEOREM SettlementExact == Spec => SettledInFull
<1> DEFINE Full == \A p \in Settler :
                      lock = p /\ pc[p] = "commit" /\ pc'[p] = "done" => row'.cost = ledger'
<1>1. IInv /\ [Next]_vars => [Full]_vars
  <2> SUFFICES ASSUME IInv, [Next]_vars, NEW p \in Settler,
                      lock = p, pc[p] = "commit", pc'[p] = "done"
               PROVE  row'.cost = ledger'
    OBVIOUS
  <2>1. Commit(p)
    BY SettlerEnds
  <2>2. edited[p].cost = Visible(p) /\ ledger' = Visible(p)
    BY <2>1 DEF IInv, TotalStaysExact, Commit
  <2>3. row'.cost = IF edited[p].cost # {} THEN edited[p].cost ELSE row.cost
    BY <2>1 DEF Commit, Written
  <2>4. row.cost \subseteq ledger /\ ledger \subseteq Visible(p)
    BY DEF IInv, ChargesBacked, Visible
  <2> QED
    BY <2>2, <2>3, <2>4
<1> QED
  BY <1>1, Inductive, PTL DEF Spec, SettledInFull

\* A hangup whose session loaded an escalated call commits without changing
\* the outcome the row has by then.
THEOREM SeenEscalationSafe == Spec => SeenEscalationStands
<1> DEFINE Stands == \A h \in Hangup :
                        loaded[h].escalated /\ pc[h] = "commit" /\ pc'[h] = "done"
                            => row'.outcome = row.outcome
<1>1. IInv /\ [Next]_vars => [Stands]_vars
  <2> SUFFICES ASSUME IInv, [Next]_vars, NEW h \in Hangup,
                      loaded[h].escalated, pc[h] = "commit", pc'[h] = "done"
               PROVE  row'.outcome = row.outcome
    OBVIOUS
  <2>1. Commit(h)
    BY SettlerEnds DEF Settler
  <2>2. edited[h].outcome = loaded[h].outcome
    BY DEF IInv, OutcomeUntouched
  <2> QED
    BY <2>1, <2>2 DEF Commit, Written
<1> QED
  BY <1>1, Inductive, PTL DEF Spec, SeenEscalationStands
-----------------------------------------------------------------------------
(* Both settlers charged.  The claim is about one hangup and one status    *)
(* callback that bills; turns and voice deliveries are as many as may be.  *)

\* A call is hung up once, its status is delivered once, and the telephony
\* provider's duration is not zero.
OneOfEach ==
    /\ \A h, g \in Hangup : h = g
    /\ \A s, r \in Status : s = r
    /\ 0 \notin StatusSeconds

HungUp == \E h \in Hangup : h \in ledger

\* What the row shows was put there by settlers that have committed.
MarksBacked ==
    /\ row.transcript => HungUp
    /\ row.seconds # 0 => \E p \in Settler : p \in ledger
    /\ \A p \in Settler : p \in ledger => pc[p] = "done"

\* A turn leaves the columns alone that tell the settlers of each other.
TurnLeavesMarks(t) ==
    /\ edited[t].transcript = loaded[t].transcript
    /\ edited[t].seconds = loaded[t].seconds

\* A hangup finds no transcript, so setting one makes its flush an UPDATE: it
\* has the row from then on.
HangupHasRow(h) ==
    /\ pc[h] \in {"analyse", "silent"} => ~loaded[h].transcript
    /\ pc[h] \in {"sum", "clear", "commit"} => lock = h /\ pending[h]

\* A callback whose flush changes nothing has loaded the duration it was about
\* to write, so the hangup is over and in the total it reads.
StatusHasRow(s) ==
    /\ edited[s].transcript = loaded[s].transcript
    /\ pc[s] = "record" =>
         edited[s].seconds # 0 /\ (edited[s].seconds = loaded[s].seconds => HungUp)
    /\ pc[s] \in {"sum", "clear", "commit"} => pending[s] /\ (lock = s \/ HungUp)
    /\ pc[s] \in {"clear", "commit"} /\ lock # s =>
         s \in edited[s].cost /\ \E h \in Hangup : h \in edited[s].cost

Settles(p) ==
    /\ p \in Turn => TurnLeavesMarks(p)
    /\ p \in Hangup => HangupHasRow(p)
    /\ p \in Status => StatusHasRow(p)

Settling ==
    /\ SettlersCharged
    /\ MarksBacked
    /\ \A p \in Request : Settles(p)

\* A step of p is apart from the others': their sessions stay as they are, no
\* entry leaves the ledger, and the row passes between p and nobody.
Apart(p) ==
    /\ ledger \subseteq ledger'
    /\ \A q \in Request \ {p} :
          /\ pc'[q] = pc[q] /\ pending'[q] = pending[q]
          /\ loaded'[q] = loaded[q] /\ edited'[q] = edited[q]
    /\ lock' = lock \/ (lock \in {None, p} /\ lock' \in {None, p})

\* What a request has to do with the row survives the steps of the others.
LEMMA OthersSettle ==
  ASSUME NEW p \in Request, Apart(p), NEW q \in Request, q # p, Settles(q)
  PROVE  Settles(q)'
<1>1. /\ pc'[q] = pc[q] /\ pending'[q] = pending[q]
      /\ loaded'[q] = loaded[q] /\ edited'[q] = edited[q]
  BY DEF Apart
<1>2. HungUp => HungUp'
  BY DEF Apart, HungUp
<1>3. lock = q <=> lock' = q
  BY RequestsDistinct DEF Apart
<1>4. TurnLeavesMarks(q) => TurnLeavesMarks(q)'
  BY <1>1 DEF TurnLeavesMarks
<1>5. HangupHasRow(q) => HangupHasRow(q)'
  BY <1>1, <1>3 DEF HangupHasRow
<1>6. StatusHasRow(q) => StatusHasRow(q)'
  BY <1>1, <1>2, <1>3 DEF StatusHasRow
<1> QED
  BY <1>4, <1>5, <1>6 DEF Settles

\* Short of a commit, only the acting request's own part is at stake.
LEMMA OwnPartIsEnough ==
  ASSUME Settling, NEW p \in Request, Apart(p), row' = row, ledger' = ledger,
         p \in Settler => pc[p] # "done" /\ pc'[p] # "done", Settles(p)'
  PROVE  Settling'
<1>1. \A q \in Settler : pc'[q] = "done" <=> pc[q] = "done"
  BY DEF Apart, Settler, Request
<1>2. SettlersCharged' /\ MarksBacked'
  BY <1>1 DEF Settling, SettlersCharged, MarksBacked, HungUp
<1>3. ASSUME NEW q \in Request PROVE Settles(q)'
  BY OthersSettle DEF Settling
<1> QED
  BY <1>2, <1>3 DEF Settling

LEMMA SettlingInit == Init => Settling
<1> SUFFICES ASSUME Init PROVE Settling
  OBVIOUS
<1>1. SettlersCharged /\ MarksBacked
  BY DEF Init, SettlersCharged, MarksBacked, NewRow, Settler, Request
<1>2. ASSUME NEW p \in Request PROVE Settles(p)
  BY DEF Init, Settles, TurnLeavesMarks, HangupHasRow, StatusHasRow, NewRow
<1> QED
  BY <1>1, <1>2 DEF Settling

\* A delivery of the voice webhook settles nothing, and writes the row only
\* before anybody has loaded it.
LEMMA SettlingByVoice ==
  ASSUME IInv, Settling, NEW v \in Voice, VoiceStep(v)
  PROVE  Settling'
<1> USE DEF session, database
<1>1. v \in Request /\ v \notin Turn /\ v \notin Settler
  BY RequestsDistinct DEF Request, Settler
<1>2. Settles(v)'
  BY <1>1 DEF Settles, Settler
<1>3. row' = row /\ ledger' = ledger
  BY DEF VoiceStep, VoiceSelect, VoiceInsert, VoiceSave, VoiceCommit, IInv, BeforeInsert
<1>4. Apart(v)
  BY <1>1 DEF VoiceStep, VoiceSelect, VoiceInsert, VoiceSave, VoiceCommit, IInv, TypeOK,
              Goto, Apart
<1> QED
  BY <1>1, <1>2, <1>3, <1>4, OwnPartIsEnough

\* A failed request has nothing left to say.
LEMMA SettlingByFailure ==
  ASSUME IInv, Settling, NEW p \in Request, Fail(p)
  PROVE  Settling'
<1>1. /\ row' = row /\ ledger' = ledger /\ Apart(p)
      /\ pc[p] # "done" /\ pc'[p] = "failed"
  BY DEF Fail, Close, Goto, database, IInv, TypeOK, Apart, Finished
<1>2. loaded'[p] = NewRow /\ edited'[p] = NewRow
  BY DEF Fail, Close, IInv, TypeOK
<1>3. Settles(p)'
  BY <1>1, <1>2 DEF Settles, TurnLeavesMarks, HangupHasRow, StatusHasRow
<1> QED
  BY <1>1, <1>3, OwnPartIsEnough

\* A turn edits the outcome, the flags and the attempts.
LEMMA SettlingByTurn ==
  ASSUME IInv, Settling, NEW t \in Turn, TurnStep(t), ~Commit(t)
  PROVE  Settling'
<1> USE DEF session, database
<1>1. t \in Request /\ t \notin Settler /\ t \notin Hangup /\ t \notin Status
  BY RequestsDistinct DEF Request, Settler
<1>2. edited[t] \in Row /\ TurnLeavesMarks(t)
  BY <1>1 DEF IInv, TypeOK, Settling, Settles
<1>3. /\ row' = row /\ ledger' = ledger /\ Apart(t)
      /\ TurnLeavesMarks(t)'
  <2>1. CASE TurnLoad(t)
    BY <1>1, <1>2, <2>1 DEF TurnLoad, Load, Goto, Apart, TurnLeavesMarks, IInv, TypeOK
  <2>2. CASE TurnHear(t)
    BY <1>1, <1>2, <2>2 DEF TurnHear, Goto, Apart, TurnLeavesMarks, IInv, TypeOK, Row
  <2>3. ASSUME NEW outcome, NEW flushes \in BOOLEAN, Answer(t, outcome, flushes)
        PROVE  /\ row' = row /\ ledger' = ledger /\ Apart(t)
               /\ TurnLeavesMarks(t)'
    BY <1>1, <1>2, <2>3 DEF Answer, Flush, Goto, Apart, TurnLeavesMarks, IInv, TypeOK, Row
  <2>4. CASE TurnTalk(t) \/ TurnAnswered(t) \/ TurnBooked(t)
    BY <2>3, <2>4 DEF TurnTalk, TurnAnswered, TurnBooked
  <2>5. CASE TurnEscalated(t)
    BY <1>1, <1>2, <2>5 DEF TurnEscalated, Flush, Goto, Apart, TurnLeavesMarks, IInv, TypeOK,
                            Row
  <2>6. CASE TurnSave(t)
    BY <1>1, <1>2, <2>6 DEF TurnSave, Goto, Apart, TurnLeavesMarks, IInv, TypeOK
  <2> QED
    BY <2>1, <2>2, <2>4, <2>5, <2>6 DEF TurnStep
<1> QED
  BY <1>1, <1>3, OwnPartIsEnough DEF Settles

\* Taking the total and clearing the conversation, for both settlers: the
\* total read holds the settler's own entry and all that had committed.
LEMMA SettlingByTotal ==
  ASSUME IInv, Settling, NEW p \in Settler, Recompute(p) \/ Clear(p)
  PROVE  Settling'
<1> USE DEF session, database
<1>1. p \in Request /\ p \notin Turn /\ Settles(p)
  BY RequestsDistinct DEF Request, Settler, Settling
<1>2. /\ row' = row /\ ledger' = ledger /\ lock' = lock /\ Apart(p)
      /\ pc[p] \in {"sum", "clear"} /\ pc'[p] \in {"clear", "commit"}
      /\ loaded' = loaded /\ pending' = pending
  BY <1>1 DEF Recompute, Clear, Goto, Apart, IInv, TypeOK
<1>3. edited[p] \in Row
  BY <1>1 DEF IInv, TypeOK
<1>4. ASSUME p \in Hangup PROVE HangupHasRow(p)'
  BY <1>1, <1>2, <1>4 DEF Settles, HangupHasRow
<1>5. ASSUME p \in Status PROVE StatusHasRow(p)'
  <2>1. StatusHasRow(p)
    BY <1>1, <1>5 DEF Settles
  <2>2. CASE Recompute(p)
    <3>1. edited'[p] = [edited[p] EXCEPT !.cost = ledger \cup {p}] /\ pc[p] = "sum"
      BY <1>1, <2>1, <2>2 DEF Recompute, Visible, Own, StatusHasRow, IInv, TypeOK
    <3>2. edited'[p].cost = ledger \cup {p} /\ edited'[p].transcript = edited[p].transcript
      BY <1>3, <3>1 DEF Row
    <3> QED
      BY <1>2, <2>1, <3>1, <3>2 DEF StatusHasRow, HungUp
  <2>3. CASE Clear(p)
    BY <1>1, <1>2, <2>1, <2>3 DEF Clear, StatusHasRow, HungUp
  <2> QED
    BY <2>2, <2>3
<1> QED
  BY <1>1, <1>2, <1>4, <1>5, OwnPartIsEnough DEF Settles

\* The one hangup loads a row without a transcript, and its own then makes the
\* flush an UPDATE.
LEMMA SettlingByHangup ==
  ASSUME OneOfEach, IInv, Settling, NEW h \in Hangup,
         HangupLoad(h) \/ HangupAnalyse(h) \/ HangupSilent(h)
  PROVE  Settling'
<1> USE DEF session, database
<1>1. h \in Request /\ h \in Settler /\ h \notin Turn /\ h \notin Status
  BY RequestsDistinct DEF Request, Settler
<1>2. HangupHasRow(h) /\ edited[h] \in Row
  BY <1>1 DEF Settling, Settles, IInv, TypeOK
<1>3. CASE HangupLoad(h)
  <2>1. PICK label, new : label \in {"silent", "analyse"} /\ Load(h, label, new)
    <3>1. PICK seconds \in HangupSeconds, blank \in BOOLEAN :
             Load(h, IF blank THEN "silent" ELSE "analyse",
                     [row EXCEPT
                         !.seconds = IF seconds = 0 THEN @ ELSE seconds,
                         !.outcome = IF blank /\ @ = "answered" THEN "abandoned" ELSE @])
      BY <1>3 DEF HangupLoad
    <3>2. (IF blank THEN "silent" ELSE "analyse") \in {"silent", "analyse"}
      OBVIOUS
    <3> QED
      BY <3>1, <3>2
  <2>2. row' = row /\ ledger' = ledger /\ Apart(h) /\ pc[h] = "idle"
    BY <1>1, <2>1 DEF Load, Goto, Apart, IInv, TypeOK
  <2>3. ~row.transcript
    BY <1>1, <2>2 DEF Settling, MarksBacked, HungUp, OneOfEach
  <2>4. pc'[h] = "refused" \/ (pc'[h] \in {"silent", "analyse"} /\ loaded'[h] = row)
    BY <1>1, <2>1 DEF Load, Goto, IInv, TypeOK
  <2> QED
    BY <1>1, <2>2, <2>3, <2>4, OwnPartIsEnough DEF Settles, HangupHasRow
<1>4. CASE HangupAnalyse(h) \/ HangupSilent(h)
  <2>1. PICK verdict, reason, attempts : Finalize(h, verdict, reason, attempts)
    BY <1>4 DEF HangupAnalyse, HangupSilent
  <2> DEFINE new == [edited[h] EXCEPT
                        !.transcript = TRUE,
                        !.outcome = IF edited[h].escalated THEN @ ELSE verdict,
                        !.reason = @ \/ reason,
                        !.log = @ \cup attempts]
  <2>2. new.transcript = TRUE
    BY <1>2 DEF Row
  <2>3. pc[h] \in {"analyse", "silent"} /\ ~loaded[h].transcript
    BY <1>2, <1>4 DEF HangupAnalyse, HangupSilent, HangupHasRow
  <2>4. new # loaded[h]
    BY <2>2, <2>3
  <2>5. /\ lock \in {None, h} /\ lock' = h /\ pc' = [pc EXCEPT ![h] = "sum"]
        /\ pending' = [pending EXCEPT ![h] = TRUE] /\ edited' = [edited EXCEPT ![h] = new]
        /\ UNCHANGED <<row, ledger, loaded>>
    BY <2>1, <2>4 DEF Finalize, Flush, Goto
  <2> HIDE DEF new
  <2>6. Apart(h) /\ pc'[h] = "sum" /\ pending'[h]
    BY <1>1, <2>5 DEF Apart, IInv, TypeOK
  <2> QED
    BY <1>1, <2>3, <2>5, <2>6, OwnPartIsEnough DEF Settles, HangupHasRow
<1> QED
  BY <1>3, <1>4

\* The one status callback either writes a duration the row has not got, and
\* has the row from its flush on, or finds its duration there: then somebody
\* has settled before, and that was the hangup.
LEMMA SettlingByStatus ==
  ASSUME OneOfEach, IInv, Settling, NEW s \in Status, StatusLoad(s) \/ StatusRecord(s)
  PROVE  Settling'
<1> USE DEF session, database
<1>1. s \in Request /\ s \in Settler /\ s \notin Turn /\ s \notin Hangup
  BY RequestsDistinct DEF Request, Settler
<1>2. StatusHasRow(s) /\ edited[s] \in Row /\ row \in Row
  BY <1>1 DEF Settling, Settles, IInv, TypeOK
<1>3. CASE StatusLoad(s)
  <2>1. PICK seconds \in StatusSeconds, unanswered \in BOOLEAN :
          Load(s, "record",
               [row EXCEPT !.seconds = seconds,
                           !.outcome = IF unanswered THEN "abandoned" ELSE @])
    BY <1>3 DEF StatusLoad
  <2> DEFINE new == [row EXCEPT !.seconds = seconds,
                                !.outcome = IF unanswered THEN "abandoned" ELSE @]
  <2>2. new.seconds = seconds /\ seconds # 0 /\ new.transcript = row.transcript
    BY <1>2 DEF Row, OneOfEach
  <2>3. Load(s, "record", new)
    BY <2>1
  <2> HIDE DEF new
  <2>4. row' = row /\ ledger' = ledger /\ Apart(s) /\ pc[s] = "idle"
    BY <1>1, <2>3 DEF Load, Goto, Apart, IInv, TypeOK
  <2>5. row.seconds # 0 => HungUp
    BY <1>1, <2>4 DEF Settling, MarksBacked, HungUp, OneOfEach, Settler
  <2>6. \/ pc'[s] = "refused" /\ loaded' = loaded /\ edited' = edited
        \/ pc'[s] = "record" /\ loaded'[s] = row /\ edited'[s] = new
    BY <1>1, <2>3 DEF Load, Goto, IInv, TypeOK
  <2>7. StatusHasRow(s)'
    BY <1>2, <2>2, <2>4, <2>5, <2>6 DEF StatusHasRow, HungUp
  <2> QED
    BY <1>1, <2>4, <2>6, <2>7, OwnPartIsEnough DEF Settles
<1>4. CASE StatusRecord(s)
  <2>1. /\ row' = row /\ ledger' = ledger /\ Apart(s)
        /\ pc[s] = "record" /\ pc'[s] = "sum"
        /\ loaded' = loaded /\ edited' = edited
        /\ edited[s] = loaded[s] \/ lock' = s
    BY <1>1, <1>4 DEF StatusRecord, Flush, Goto, Apart, IInv, TypeOK
  <2>2. pending'[s]
    BY <1>1, <1>2, <1>4, <2>1 DEF StatusRecord, StatusHasRow, IInv, TypeOK
  <2>3. StatusHasRow(s)'
    BY <1>2, <2>1, <2>2 DEF StatusHasRow, HungUp
  <2> QED
    BY <1>1, <2>1, <2>3, OwnPartIsEnough DEF Settles
<1> QED
  BY <1>3, <1>4

\* What any commit leaves of the committing request.
LEMMA CommitApart ==
  ASSUME IInv, Settling, NEW p \in Request, Commit(p)
  PROVE  Apart(p) /\ Settles(p)' /\ pc'[p] = "done"
<1>1. Apart(p) /\ pc'[p] = "done"
  BY DEF Commit, Close, Goto, Visible, IInv, TypeOK, Apart
<1>2. loaded'[p] = NewRow /\ edited'[p] = NewRow
  BY DEF Commit, Close, IInv, TypeOK
<1>3. Settles(p)'
  BY <1>1, <1>2 DEF Settles, TurnLeavesMarks, HangupHasRow, StatusHasRow
<1> QED
  BY <1>1, <1>3

\* A turn's commit writes neither the total nor a mark of the settlers.
LEMMA SettlingByTurnCommit ==
  ASSUME IInv, Settling, NEW t \in Turn, Commit(t)
  PROVE  Settling'
<1>1. t \in Request /\ t \notin Settler /\ TurnLeavesMarks(t)
  BY RequestsDistinct DEF Request, Settler, Settling, Settles
<1>2. /\ row'.cost = row.cost /\ row'.transcript = row.transcript
      /\ row'.seconds = row.seconds
  BY <1>1 DEF Commit, Written, TurnLeavesMarks
<1>3. ledger' = ledger \/ ledger' = ledger \cup {t}
  BY DEF Commit, Visible, Own
<1>4. Apart(t) /\ Settles(t)'
  BY <1>1, CommitApart
<1>5. \A q \in Settler : pc'[q] = pc[q] /\ (q \in ledger' <=> q \in ledger)
  BY <1>1, <1>3, <1>4 DEF Apart, Settler, Request
<1>6. HungUp' <=> HungUp
  BY <1>5 DEF HungUp, Settler
<1>7. SettlersCharged' /\ MarksBacked'
  BY <1>2, <1>5, <1>6 DEF Settling, SettlersCharged, MarksBacked
<1>8. ASSUME NEW q \in Request PROVE Settles(q)'
  BY <1>1, <1>4, OthersSettle DEF Settling
<1> QED
  BY <1>7, <1>8 DEF Settling

\* A settler's commit writes a total with its own entry and with that of every
\* settler before it.
LEMMA SettlingBySettlement ==
  ASSUME OneOfEach, IInv, Settling, NEW p \in Settler, Commit(p)
  PROVE  Settling'
<1>1. p \in Request /\ Settles(p) /\ pc[p] = "commit"
  BY DEF Settling, Settler, Request, Commit
<1>2. p \in Hangup \/ (p \in Status /\ p \notin Hangup)
  BY RequestsDistinct DEF Settler
<1>3. Apart(p) /\ Settles(p)' /\ pc'[p] = "done"
  BY <1>1, CommitApart
<1>4. pending[p]
  BY <1>1, <1>2 DEF Settles, HangupHasRow, StatusHasRow
<1>5. ledger' = ledger \cup {p}
  BY <1>4 DEF Commit, Visible, Own
<1>6. ASSUME NEW q \in Settler, q # p, pc[q] = "done"
      PROVE  q \in ledger
  BY <1>6 DEF Settling, SettlersCharged, IInv, ChargesBacked
<1>7. p \in edited[p].cost /\ \A q \in Settler \ {p} : pc[q] = "done" => q \in edited[p].cost
  <2>1. CASE lock = p
    <3>1. edited[p].cost = ledger \cup {p}
      BY <1>1, <1>4, <2>1 DEF IInv, TotalStaysExact, Visible, Own
    <3> QED
      BY <1>6, <3>1
  <2>2. CASE lock # p
    <3>1. p \in Status
      BY <1>1, <1>2, <2>2 DEF Settles, HangupHasRow
    <3>2. p \in edited[p].cost /\ \E h \in Hangup : h \in edited[p].cost
      BY <1>1, <2>2, <3>1 DEF Settles, StatusHasRow
    <3>3. \A q \in Settler \ {p} : q \in Hangup
      BY <3>1 DEF OneOfEach, Settler
    <3> QED
      BY <3>2, <3>3 DEF OneOfEach
  <2> QED
    BY <2>1, <2>2
<1>8. row'.cost = edited[p].cost
  BY <1>7 DEF Commit, Written
<1>9. SettlersCharged'
  <2>1. \A q \in Settler \ {p} : pc'[q] = pc[q]
    BY <1>3 DEF Apart, Settler, Request
  <2> QED
    BY <1>7, <1>8, <2>1 DEF SettlersCharged
<1>10. MarksBacked'
  <2>1. p \in ledger' /\ \A q \in Settler \ {p} : pc'[q] = pc[q]
    BY <1>3, <1>5 DEF Apart, Settler, Request
  <2>2. row'.transcript => HungUp'
    <3>1. CASE p \in Hangup
      BY <2>1, <3>1 DEF HungUp
    <3>2. CASE p \in Status
      <4>1. row'.transcript = row.transcript
        BY <1>1, <3>2 DEF Commit, Written, Settles, StatusHasRow
      <4> QED
        BY <1>5, <4>1 DEF Settling, MarksBacked, HungUp
    <3> QED
      BY <1>2, <3>1, <3>2
  <2>3. \A q \in Settler : q \in ledger' => pc'[q] = "done"
    BY <1>3, <1>5, <2>1 DEF Settling, MarksBacked
  <2> QED
    BY <2>1, <2>2, <2>3 DEF MarksBacked
<1>11. ASSUME NEW q \in Request PROVE Settles(q)'
  BY <1>1, <1>3, OthersSettle DEF Settling
<1> QED
  BY <1>9, <1>10, <1>11 DEF Settling

LEMMA SettlingStep ==
  ASSUME OneOfEach, IInv, Settling, [Next]_vars
  PROVE  Settling'
<1>1. CASE UNCHANGED <<row, ledger, lock, pc, loaded, edited, pending>>
  BY <1>1 DEF Settling, SettlersCharged, MarksBacked, HungUp, Settles, TurnLeavesMarks,
              HangupHasRow, StatusHasRow
<1>2. CASE UNCHANGED vars \/ Expire
  BY <1>1, <1>2 DEF vars, Expire, database, session
<1>3. ASSUME NEW p \in Request, Step(p) PROVE Settling'
  <2>1. CASE p \in Voice /\ VoiceStep(p)
    BY <2>1, SettlingByVoice
  <2>2. CASE p \in Turn /\ TurnStep(p)
    BY <2>2, SettlingByTurn, SettlingByTurnCommit
  <2>3. CASE p \in Hangup /\ HangupStep(p)
    BY <2>3, SettlingByHangup, SettlingByTotal, SettlingBySettlement DEF HangupStep, Settler
  <2>4. CASE p \in Status /\ StatusStep(p)
    BY <2>4, SettlingByStatus, SettlingByTotal, SettlingBySettlement DEF StatusStep, Settler
  <2> QED
    BY <1>3, <2>1, <2>2, <2>3, <2>4 DEF Step
<1> QED
  BY <1>2, <1>3, SettlingByFailure DEF Next

\* With one hangup and one billing status callback, whatever the voice
\* deliveries and the turns do meanwhile, each of the two is in cost_usd from
\* its own commit on, in whichever order they ran (finalize_call,
\* recompute_call_cost, twilio_status).
THEOREM BothSettlersCharged ==
  ASSUME OneOfEach
  PROVE  Spec => []SettlersCharged
<1>1. Init => Settling
  BY SettlingInit
<1>2. IInv /\ Settling /\ [Next]_vars => Settling'
  BY SettlingStep
<1>3. Settling => SettlersCharged
  BY DEF Settling
<1> QED
  BY <1>1, <1>2, <1>3, Inductive, PTL DEF Spec
=============================================================================
