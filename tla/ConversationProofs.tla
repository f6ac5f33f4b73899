------------------------- MODULE ConversationProofs -------------------------
(***************************************************************************)
(* Proofs about Conversation, for any calendar, any utterances and any     *)
(* number of turns and failures.                                           *)
(***************************************************************************)
EXTENDS Conversation, TLAPS

\* The starting point of every conversation.
LEMMA FreshTyped ==
  /\ Fresh \in State /\ NoReply \in Reply
  /\ Fresh.pending = None /\ Fresh.talks = 0 /\ Fresh.clarifying = 0
  /\ NoReply.slot = None /\ NoReply.outcome = None /\ NoReply.offer = None
  BY DEF Fresh, State, NoReply, Reply, Tier

\* A call nobody has spoken on.
LEMMA InitInv == Init => IInv
<1> SUFFICES ASSUME Init PROVE IInv
  OBVIOUS
<1>1. TypeOK
  <2>1. row \in [outcome: Outcome, escalated: BOOLEAN]
    BY DEF Init, Outcome
  <2>2. calendar \in [Slot -> {"free", "taken", "ours"}]
    BY DEF Init
  <2>3. told \in [Slot -> Telling]
    BY DEF Init, Telling
  <2>4. turns \in 0..MaxTurns /\ failures \in 0..MaxFailures
    BY Inputs DEF Init
  <2> QED
    BY <2>1, <2>2, <2>3, <2>4, FreshTyped DEF Init, TypeOK
<1>2. Ours = {}
  BY DEF Init, Ours
<1>3. BookedHasRow
  BY DEF Init, BookedHasRow
<1>4. NothingPromisedUnbooked /\ NoSecondConfirmation /\ TalkBudget
  BY FreshTyped, Inputs DEF Init, NothingPromisedUnbooked, NoSecondConfirmation, TalkBudget
<1>5. ReplyBacked /\ BookedAccountedFor /\ CopySound
  BY <1>2, FreshTyped, Inputs
     DEF Init, ReplyBacked, BookedAccountedFor, CopySound, Outcome
<1>6. BookedWasOffered /\ PendingTold
  BY <1>2, FreshTyped DEF Init, BookedWasOffered, PendingTold
<1> QED
  BY <1>1, <1>3, <1>4, <1>5, <1>6 DEF IInv

-----------------------------------------------------------------------------
(* The steps of a turn.                                                    *)

\* Merging an utterance adds a name or a time and leaves the rest alone.
LEMMA MergeTyped ==
  ASSUME NEW state \in State, NEW u \in Utterance
  PROVE  /\ Merge(state, u) \in State
         /\ Merge(state, u).pending = state.pending
         /\ Merge(state, u).talks = state.talks
         /\ Merge(state, u).clarifying = state.clarifying
<1>1. u.named \in BOOLEAN /\ u.time \in Nat \cup {None}
  BY Inputs
<1> QED
  BY <1>1 DEF Merge, State

\* A turn starts with the copy of the saved conversation.
LEMMA HearInv ==
  ASSUME IInv, NEW u \in Utterance, Hear(u)
  PROVE  IInv'
<1> USE DEF IInv
<1>1. /\ mem' = Merge(saved, u) /\ heard' = u /\ pc = "listening" /\ pc' = "deciding"
      /\ UNCHANGED <<reply, saved, row, appointments, texted, calendar, told, failures>>
      /\ turns' = turns + 1 /\ turns < MaxTurns
  BY DEF Hear, stored, outside
<1>2. /\ mem' \in State /\ mem'.pending = saved.pending /\ mem'.talks = saved.talks
      /\ mem'.clarifying = saved.clarifying
  BY <1>1, MergeTyped DEF TypeOK
<1>3. Ours' = Ours
  BY <1>1 DEF Ours
<1>4. TypeOK'
  <2>1. turns' \in 0..MaxTurns
    BY <1>1, Inputs DEF TypeOK
  <2> QED
    BY <1>1, <1>2, <2>1 DEF TypeOK
<1>5. ReplyBacked'
  BY <1>1, FreshTyped, Inputs DEF ReplyBacked, Outcome
<1>6. CopySound'
  BY <1>1, <1>2 DEF CopySound, NoSecondConfirmation, TalkBudget
<1>7. /\ NothingPromisedUnbooked' /\ NoSecondConfirmation' /\ BookedHasRow' /\ TalkBudget'
      /\ BookedAccountedFor' /\ BookedWasOffered'
  BY <1>1, <1>3 DEF NothingPromisedUnbooked, NoSecondConfirmation, BookedHasRow,
                    TalkBudget, BookedAccountedFor, BookedWasOffered
<1>8. PendingTold'
  BY <1>1, <1>2 DEF PendingTold
<1> QED
  BY <1>4, <1>5, <1>6, <1>7, <1>8

\* Every answer that books nothing: the copy stays sound and no appointment
\* is waiting for the commit.
LEMMA SayInv ==
  ASSUME IInv, pc \in {"deciding", "booking"},
         NEW state \in State, NEW outcome \in {"answered", "escalated", None},
         NEW tier \in Tier, Say(state, outcome, tier),
         state.pending \notin appointments,
         state.pending \in {mem.pending, None},
         state.talks <= state.clarifying, state.talks <= MaxClarifying
  PROVE  IInv'
<1> USE DEF IInv
<1>1. /\ mem' = state /\ pc' = "saving"
      /\ UNCHANGED <<heard, saved, row, appointments, texted, calendar, told, turns,
                     failures>>
  BY DEF Say, stored, outside, bounds
<1>2. reply = NoReply
  BY DEF ReplyBacked
<1>3. reply' = [outcome |-> outcome, slot |-> None, offer |-> None, tier |-> tier]
  BY <1>2 DEF Say, NoReply
<1>4. reply' \in Reply /\ reply'.slot = None /\ reply'.outcome = outcome /\ outcome # "booked"
  <2>1. None # "booked"
    BY Inputs DEF Outcome
  <2> QED
    BY <1>3, <2>1 DEF Reply, Outcome
<1>5. Ours' = Ours
  BY <1>1 DEF Ours
<1>6. TypeOK'
  BY <1>1, <1>4 DEF TypeOK
<1>7. ReplyBacked'
  BY <1>1, <1>4 DEF ReplyBacked
<1>8. BookedAccountedFor'
  BY <1>1, <1>2, <1>4, <1>5, FreshTyped DEF BookedAccountedFor
<1>9. CopySound'
  BY <1>1 DEF CopySound
<1>10. /\ NothingPromisedUnbooked' /\ NoSecondConfirmation' /\ BookedHasRow' /\ TalkBudget'
       /\ BookedWasOffered'
  BY <1>1, <1>5 DEF NothingPromisedUnbooked, NoSecondConfirmation, BookedHasRow, TalkBudget,
                    BookedWasOffered
<1>11. PendingTold'
  BY <1>1 DEF PendingTold
<1> QED
  BY <1>6, <1>7, <1>8, <1>9, <1>10, <1>11

\* The branches that leave the copy as it is.
LEMMA PlainInv ==
  ASSUME IInv, Escalate \/ TakeLeave \/ Faq
  PROVE  IInv'
<1>1. PICK outcome \in {"answered", "escalated", None}, tier \in Tier :
         pc = "deciding" /\ Say(mem, outcome, tier)
  BY DEF Escalate, TakeLeave, Faq, Tier
<1> QED
  BY <1>1, SayInv DEF IInv, TypeOK, CopySound

\* Counting a question, and answering smalltalk within the budget.
LEMMA FreeformInv ==
  ASSUME IInv, Freeform
  PROVE  IInv'
<1> DEFINE counted == [mem EXCEPT !.clarifying = @ + 1]
           talked == [counted EXCEPT !.talks = @ + 1]
<1> USE DEF IInv
<1>1. mem \in State /\ mem.talks <= mem.clarifying /\ mem.talks <= MaxClarifying
  BY DEF TypeOK, CopySound
<1>2. /\ counted \in State /\ counted.pending = mem.pending
      /\ counted.talks = mem.talks /\ counted.clarifying = mem.clarifying + 1
  BY <1>1 DEF State
<1>3. /\ talked \in State /\ talked.pending = mem.pending
      /\ talked.talks = mem.talks + 1 /\ talked.clarifying = mem.clarifying + 1
  <2> HIDE DEF counted
  <2> QED
    BY <1>2 DEF State
<1>4. mem.talks \in Nat /\ mem.clarifying \in Nat
  BY <1>1 DEF State
<1>5. pc = "deciding" /\ mem.pending \notin appointments
  BY DEF Freeform, CopySound
<1>6. CASE counted.clarifying > MaxClarifying
  <2>1. Say(counted, "escalated", "model") /\ "model" \in Tier
    BY <1>6 DEF Freeform, Tier
  <2>2. counted.talks <= counted.clarifying /\ counted.talks <= MaxClarifying
    BY <1>1, <1>2, <1>4
  <2> QED
    BY <1>2, <1>5, <2>1, <2>2, SayInv
<1>7. CASE ~(counted.clarifying > MaxClarifying)
  <2>1. PICK tier \in Tier : Say(talked, None, tier)
    BY <1>7 DEF Freeform
  <2>2. talked.talks <= talked.clarifying /\ talked.talks <= MaxClarifying
    BY <1>1, <1>2, <1>3, <1>4, <1>7, Inputs
  <2> QED
    BY <1>3, <1>5, <2>1, <2>2, SayInv
<1> QED
  BY <1>6, <1>7

\* The slot that is offered is open and listed, hence no appointment.
LEMMA OfferInv ==
  ASSUME IInv, pc = "deciding", NEW s \in Slot, Nearest(s, mem.wanted), Offer(s)
  PROVE  IInv'
<1> USE DEF IInv
<1>1. /\ mem' = [mem EXCEPT !.pending = s] /\ reply' = [reply EXCEPT !.offer = s]
      /\ pc' = "saving"
      /\ UNCHANGED <<heard, saved, row, appointments, texted, calendar, turns, failures>>
  BY DEF Offer, stored, outside, bounds
<1>2. s \in Openings(mem.wanted) /\ calendar[s] = "free"
  BY DEF Nearest, Openings
<1>3. told' = [o \in Slot |-> IF told[o] = "no" /\ o \in Openings(mem.wanted)
                             THEN "listed" ELSE told[o]]
  BY DEF Offer
<1>4. /\ told' \in [Slot -> Telling]
      /\ \A o \in Slot : told'[o] = told[o] \/ (told[o] = "no" /\ told'[o] = "listed")
      /\ told'[s] \in {"listed", "saved", "said"}
  <2>1. told \in [Slot -> Telling]
    BY DEF TypeOK
  <2>2. \A o \in Slot : told'[o] = IF told[o] = "no" /\ o \in Openings(mem.wanted)
                                THEN "listed" ELSE told[o]
    BY <1>3
  <2>3. \A o \in Slot : told[o] \in Telling /\ told'[o] \in Telling
    BY <2>1, <2>2 DEF Telling
  <2>4. told' \in [Slot -> Telling]
    BY <1>3, <2>2, <2>3
  <2>5. \A o \in Slot : told'[o] = told[o] \/ (told[o] = "no" /\ told'[o] = "listed")
    BY <2>2
  <2>6. told'[s] \in {"listed", "saved", "said"}
    BY <1>2, <2>2, <2>3 DEF Telling
  <2> QED
    BY <2>4, <2>5, <2>6
<1>5. /\ mem' \in State /\ mem'.pending = s
      /\ mem'.talks = mem.talks /\ mem'.clarifying = mem.clarifying
  BY <1>1 DEF TypeOK, State
<1>6. reply = NoReply
  BY DEF ReplyBacked
<1>7. reply' = [outcome |-> None, slot |-> None, offer |-> s, tier |-> "model"]
  BY <1>1, <1>6 DEF NoReply
<1>8. reply' \in Reply /\ reply'.slot = None /\ reply'.outcome # "booked" /\ reply'.offer = s
  <2>1. None # "booked"
    BY Inputs DEF Outcome
  <2> QED
    BY <1>7, <2>1 DEF Reply, Outcome, Tier
<1>9. s \notin appointments /\ Ours' = Ours /\ s # None
  BY <1>1, <1>2, Inputs DEF NothingPromisedUnbooked, Ours
<1>10. TypeOK'
  BY <1>1, <1>4, <1>5, <1>8 DEF TypeOK
<1>11. ReplyBacked'
  BY <1>1, <1>8 DEF ReplyBacked
<1>12. BookedAccountedFor'
  BY <1>1, <1>6, <1>8, <1>9, FreshTyped DEF BookedAccountedFor
<1>13. CopySound'
  BY <1>1, <1>5, <1>9 DEF CopySound
<1>14. PendingTold'
  <2>1. saved'.pending # None => told'[saved'.pending] \in {"saved", "said"}
    BY <1>1, <1>4 DEF PendingTold, TypeOK, State
  <2>2. mem'.pending = s /\ reply'.offer = s /\ pc' = "saving"
    BY <1>1, <1>5, <1>8
  <2> QED
    BY <1>4, <2>1, <2>2 DEF PendingTold
<1>15. /\ NothingPromisedUnbooked' /\ NoSecondConfirmation' /\ BookedHasRow' /\ TalkBudget'
  BY <1>1, <1>9 DEF NothingPromisedUnbooked, NoSecondConfirmation, BookedHasRow, TalkBudget
<1>16. BookedWasOffered'
  BY <1>4, <1>9 DEF BookedWasOffered, Ours
<1> QED
  BY <1>10, <1>11, <1>12, <1>13, <1>14, <1>15, <1>16

\* Asking, offering a slot and being refused one.
LEMMA AskInv ==
  ASSUME IInv, Ask \/ Propose \/ BookRefused
  PROVE  IInv'
<1> DEFINE counted == [mem EXCEPT !.clarifying = @ + 1]
<1> USE DEF IInv
<1>1. /\ mem \in State /\ mem.talks <= mem.clarifying /\ mem.talks <= MaxClarifying
      /\ mem.pending \notin appointments
  BY DEF TypeOK, CopySound
<1>2. mem.talks \in Nat /\ mem.clarifying \in Nat
  BY <1>1 DEF State
<1>3. /\ counted \in State /\ counted.pending = mem.pending
      /\ counted.talks = mem.talks /\ counted.clarifying = mem.clarifying + 1
  BY <1>1 DEF State
<1>4. counted.talks <= counted.clarifying
  BY <1>1, <1>2, <1>3
<1>5. None \notin appointments
  BY Inputs DEF TypeOK
<1>6. "model" \in Tier
  BY DEF Tier
<1>7. CASE pc = "deciding" /\ Say(counted, None, "model")
  BY <1>1, <1>3, <1>4, <1>6, <1>7, SayInv
<1>8. CASE pc = "deciding" /\ Say(mem, "escalated", "model")
  BY <1>1, <1>6, <1>8, SayInv
<1>9. ASSUME NEW s \in Slot, pc = "deciding", Nearest(s, mem.wanted), Offer(s)
      PROVE  IInv'
  BY <1>9, OfferInv
<1>10. CASE BookRefused
  <2> DEFINE cleared == [mem EXCEPT !.pending = None]
  <2>1. /\ cleared \in State /\ cleared.pending = None
        /\ cleared.talks = mem.talks /\ cleared.clarifying = mem.clarifying
    BY <1>1 DEF State
  <2>2. pc = "booking" /\ Say(cleared, None, "model")
    BY <1>10 DEF BookRefused
  <2> QED
    BY <1>1, <1>5, <1>6, <2>1, <2>2, SayInv
<1> QED
  BY <1>7, <1>8, <1>9, <1>10 DEF Ask, Propose, AboutBooking

\* Sending the booking request changes nothing yet.
LEMMA ConfirmInv ==
  ASSUME IInv, Confirm
  PROVE  IInv'
<1> USE DEF IInv
<1>1. /\ pc = "deciding" /\ pc' = "booking" /\ mem.pending # None
      /\ UNCHANGED <<mem, heard, reply, saved, row, appointments, texted, calendar, told,
                     turns, failures>>
  BY DEF Confirm, AboutBooking, Confirming, stored, outside, bounds
<1>2. Ours' = Ours
  BY <1>1 DEF Ours
<1>3. ReplyBacked'
  BY <1>1, FreshTyped, Inputs DEF ReplyBacked, Outcome
<1> QED
  BY <1>1, <1>2, <1>3 DEF TypeOK, NothingPromisedUnbooked, NoSecondConfirmation, BookedHasRow,
                     TalkBudget, BookedAccountedFor, CopySound, BookedWasOffered, PendingTold

\* Cal.com takes the slot: it is ours, and waits for the commit.
LEMMA BookInv ==
  ASSUME IInv, BookAccepted
  PROVE  IInv'
<1> USE DEF IInv
<1> DEFINE s == mem.pending
<1>1. /\ pc = "booking" /\ pc' = "texting" /\ calendar[s] = "free"
      /\ calendar' = [calendar EXCEPT ![s] = "ours"]
      /\ mem' = [mem EXCEPT !.pending = None]
      /\ reply' = [reply EXCEPT !.slot = s, !.outcome = "booked"]
      /\ UNCHANGED <<heard, saved, row, appointments, texted, told, turns, failures>>
  BY DEF BookAccepted, stored, bounds
<1>2. s \in Slot /\ reply = NoReply
  BY <1>1 DEF ReplyBacked, TypeOK, State
<1>3. Ours' = Ours \cup {s}
  BY <1>1, <1>2 DEF Ours, TypeOK
<1>4. mem' \in State /\ mem'.pending = None /\ mem'.talks = mem.talks
      /\ mem'.clarifying = mem.clarifying
  BY <1>1 DEF TypeOK, State
<1>5. reply' \in Reply /\ reply'.slot = s /\ reply'.outcome = "booked"
  BY <1>1, <1>2 DEF NoReply, Reply, Tier, Outcome
<1>6. TypeOK'
  BY <1>1, <1>2, <1>4, <1>5 DEF TypeOK
<1>7. s # None /\ None \notin appointments
  BY <1>2, Inputs DEF TypeOK
<1>8. ReplyBacked'
  BY <1>1, <1>3, <1>4, <1>5, <1>7 DEF ReplyBacked
<1>9. BookedAccountedFor'
  BY <1>1, <1>2, <1>3, <1>5, <1>7, FreshTyped DEF BookedAccountedFor
<1>10. CopySound'
  BY <1>1, <1>4, <1>7 DEF CopySound
<1>11. NothingPromisedUnbooked' /\ NoSecondConfirmation' /\ BookedHasRow' /\ TalkBudget'
  BY <1>1, <1>3 DEF NothingPromisedUnbooked, NoSecondConfirmation, BookedHasRow, TalkBudget
<1>12. BookedWasOffered'
  <2>1. told[s] \in {"saved", "said"}
    BY <1>1, <1>7 DEF PendingTold
  <2> QED
    BY <1>1, <1>3, <2>1 DEF BookedWasOffered
<1>13. PendingTold'
  BY <1>1, <1>4 DEF PendingTold
<1> QED
  BY <1>6, <1>8, <1>9, <1>10, <1>11, <1>12, <1>13

\* A text goes out for a slot that is ours already.
LEMMA TextInv ==
  ASSUME IInv, Text
  PROVE  IInv'
<1> USE DEF IInv
<1>1. /\ pc = "texting" /\ pc' = "saving" /\ texted' \subseteq texted \cup {reply.slot}
      /\ UNCHANGED <<mem, heard, reply, saved, row, appointments, calendar, told, turns,
                     failures>>
  BY DEF Text, stored, bounds
<1>2. reply.slot \in Ours /\ Ours' = Ours /\ Ours \subseteq Slot
  BY <1>1 DEF ReplyBacked, Ours
<1>3. TypeOK'
  BY <1>1, <1>2 DEF TypeOK
<1> QED
  BY <1>1, <1>2, <1>3 DEF NothingPromisedUnbooked, NoSecondConfirmation, BookedHasRow,
                     TalkBudget, ReplyBacked, BookedAccountedFor, CopySound,
                     BookedWasOffered, PendingTold

\* Saving makes the turn's copy the saved conversation.
LEMMA SaveInv ==
  ASSUME IInv, Save
  PROVE  IInv'
<1> USE DEF IInv
<1>1. /\ pc = "saving" /\ pc' = "committing" /\ saved' = mem
      /\ UNCHANGED <<mem, heard, reply, row, appointments, texted, calendar, turns, failures>>
  BY DEF Save, outside, bounds
<1>2. Ours' = Ours
  BY <1>1 DEF Ours
<1>3. told' = [s \in Slot |-> IF s = reply.offer /\ told[s] = "listed"
                            THEN "saved" ELSE told[s]]
  BY DEF Save
<1>4. /\ told' \in [Slot -> Telling]
      /\ \A s \in Slot : told'[s] = told[s] \/ (told[s] = "listed" /\ told'[s] = "saved")
      /\ \A s \in Slot : s = reply.offer => told'[s] # "listed"
  <2>1. told \in [Slot -> Telling]
    BY DEF TypeOK
  <2>2. \A s \in Slot : told'[s] = IF s = reply.offer /\ told[s] = "listed"
                                THEN "saved" ELSE told[s]
    BY <1>3
  <2>3. \A s \in Slot : told[s] \in Telling /\ told'[s] \in Telling
    BY <2>1, <2>2 DEF Telling
  <2>4. told' \in [Slot -> Telling]
    BY <1>3, <2>2, <2>3
  <2> QED
    BY <2>2, <2>4
<1>5. mem.pending # None => told'[mem.pending] \in {"saved", "said"}
  <2>1. mem.pending \in Slot \cup {None}
    BY DEF TypeOK, State
  <2>2. CASE told[mem.pending] \in {"saved", "said"}
    BY <1>4, <2>1, <2>2
  <2>3. CASE reply.offer = mem.pending /\ told[mem.pending] = "listed"
    BY <1>3, <2>1, <2>3
  <2> QED
    BY <2>2, <2>3 DEF PendingTold
<1>6. PendingTold'
  BY <1>1, <1>5 DEF PendingTold
<1>7. BookedWasOffered'
  BY <1>2, <1>4 DEF BookedWasOffered, Ours
<1> QED
  BY <1>1, <1>2, <1>4, <1>6, <1>7
     DEF TypeOK, NothingPromisedUnbooked, NoSecondConfirmation, BookedHasRow,
         TalkBudget, ReplyBacked, BookedAccountedFor, CopySound

\* What every end of a turn leaves behind.
LEMMA OverSound ==
  ASSUME IInv, Over, saved' = saved, appointments' \subseteq Slot
  PROVE  /\ ReplyBacked' /\ CopySound'
         /\ mem' \in State /\ reply' \in Reply /\ reply'.slot = None
<1>1. None \notin appointments'
  BY Inputs
<1>2. mem'.talks <= mem'.clarifying /\ mem'.talks <= MaxClarifying
  BY FreshTyped, Inputs DEF Over
<1>3. ReplyBacked'
  BY FreshTyped, Inputs DEF Over, ReplyBacked, Outcome
<1>4. CopySound'
  BY <1>1, <1>2, FreshTyped DEF Over, IInv, CopySound
<1> QED
  BY <1>3, <1>4, FreshTyped DEF Over

\* An answer that reaches the caller takes no slot back.
LEMMA ToldSound ==
  ASSUME IInv, Over, UNCHANGED saved, told' = told \/ told' = Answered
  PROVE  /\ told' \in [Slot -> Telling] /\ PendingTold'
         /\ \A s \in Slot : told[s] \in {"saved", "said"} => told'[s] \in {"saved", "said"}
<1>1. told \in [Slot -> Telling] /\ saved.pending \in Slot \cup {None}
  BY DEF IInv, TypeOK, State
<1>2. /\ told' \in [Slot -> Telling]
      /\ \A s \in Slot : told[s] \in {"saved", "said"} => told'[s] \in {"saved", "said"}
  <2>1. CASE told' = told
    BY <1>1, <2>1
  <2>2. CASE told' = Answered
    BY <1>1, <2>2 DEF Answered, Telling
  <2> QED
    BY <2>1, <2>2
<1>3. mem'.pending = None
  BY FreshTyped DEF Over
<1>4. saved.pending # None => told'[saved.pending] \in {"saved", "said"}
  BY <1>1, <1>2 DEF IInv, PendingTold
<1>5. PendingTold'
  BY <1>3, <1>4 DEF PendingTold
<1> QED
  BY <1>2, <1>5

\* The commit makes the booked slot an appointment.
LEMMA CommitInv ==
  ASSUME IInv, Commit
  PROVE  IInv'
<1> USE DEF IInv
<1>1. /\ pc = "committing" /\ Over
      /\ row' = [outcome |-> IF reply.outcome = None THEN row.outcome ELSE reply.outcome,
                 escalated |-> row.escalated \/ reply.outcome = "escalated"]
      /\ appointments' = appointments \cup ({reply.slot} \ {None})
      /\ UNCHANGED <<saved, texted, calendar, turns, failures>>
  BY DEF Commit, outside, bounds
<1>2. appointments' \subseteq Slot /\ appointments \subseteq appointments'
  BY <1>1 DEF TypeOK, Reply
<1>3. /\ ReplyBacked' /\ CopySound' /\ mem' \in State /\ reply' \in Reply
      /\ reply'.slot = None
  BY <1>1, <1>2, OverSound
<1>4. /\ told' \in [Slot -> Telling] /\ PendingTold'
       /\ \A s \in Slot : told[s] \in {"saved", "said"} => told'[s] \in {"saved", "said"}
  BY <1>1, ToldSound DEF Commit
<1>5. row' \in [outcome: Outcome, escalated: BOOLEAN]
  <2>1. (IF reply.outcome = None THEN row.outcome ELSE reply.outcome) \in Outcome
    BY DEF TypeOK, Reply
  <2> QED
    BY <1>1, <2>1
<1>6. TypeOK'
  BY <1>1, <1>2, <1>3, <1>5, <1>4 DEF TypeOK, Over
<1>7. Ours' = Ours
  BY <1>1 DEF Ours
<1>8. NothingPromisedUnbooked'
  BY <1>1, <1>7 DEF NothingPromisedUnbooked, ReplyBacked
<1>9. NoSecondConfirmation'
  <2>1. reply.slot # None => saved.pending = None
    BY <1>1 DEF ReplyBacked
  <2>2. None \notin appointments'
    BY <1>2, Inputs
  <2>3. CASE reply.slot # None
    BY <1>1, <2>1, <2>2, <2>3 DEF NoSecondConfirmation
  <2>4. CASE reply.slot = None
    BY <1>1, <2>4 DEF NoSecondConfirmation
  <2> QED
    BY <2>3, <2>4
<1>10. BookedHasRow'
  <2>1. CASE reply.outcome = "booked"
    BY <1>1, <2>1 DEF ReplyBacked, BookedHasRow
  <2>2. CASE reply.outcome # "booked"
    <3>1. row'.outcome = "booked" => row.outcome = "booked"
      BY <1>1, <2>2
    <3> QED
      BY <1>2, <3>1 DEF BookedHasRow
  <2> QED
    BY <2>1, <2>2
<1>11. TalkBudget'
  BY <1>1 DEF TalkBudget
<1>12. BookedAccountedFor'
  BY <1>1, <1>3, <1>7 DEF BookedAccountedFor
<1>13. BookedWasOffered'
  BY <1>7, <1>4 DEF BookedWasOffered, Ours
<1> QED
  BY <1>3, <1>6, <1>8, <1>9, <1>10, <1>11, <1>12, <1>4, <1>13

\* A failure may leave a slot at Cal.com that nothing here knows of.
LEMMA FailInv ==
  ASSUME IInv, Fail
  PROVE  IInv'
<1> USE DEF IInv
<1>1. /\ Over /\ failures' = failures + 1 /\ failures < MaxFailures
      /\ UNCHANGED <<saved, row, appointments, texted, turns>>
  BY DEF Fail, stored
<1>2. /\ calendar' \in [Slot -> {"free", "taken", "ours"}] /\ Ours \subseteq Ours'
      /\ \A s \in Ours' \ Ours : s = mem.pending /\ pc = "booking"
  <2>1. CASE UNCHANGED calendar
    BY <2>1 DEF TypeOK, Ours
  <2>2. CASE pc = "booking" /\ calendar' = [calendar EXCEPT ![mem.pending] = "ours"]
    BY <2>2 DEF TypeOK, Ours
  <2> QED
    BY <2>1, <2>2 DEF Fail
<1>3. /\ ReplyBacked' /\ CopySound' /\ mem' \in State /\ reply' \in Reply
  BY <1>1, OverSound DEF TypeOK
<1>4. failures \in Nat /\ failures' \in 0..MaxFailures /\ failures' # 0
  BY <1>1, Inputs DEF TypeOK
<1>5. /\ told' \in [Slot -> Telling] /\ PendingTold'
      /\ \A s \in Slot : told[s] \in {"saved", "said"} => told'[s] \in {"saved", "said"}
  BY <1>1, ToldSound DEF Fail
<1>6. TypeOK'
  BY <1>1, <1>2, <1>3, <1>4, <1>5 DEF TypeOK, Over
<1>7. ASSUME NEW s \in Ours'
      PROVE  told'[s] \in {"saved", "said"}
  <2>1. s \in Slot /\ s # None
    BY Inputs DEF Ours
  <2>2. CASE s \in Ours
    BY <1>5, <2>1, <2>2 DEF BookedWasOffered
  <2>3. CASE s \notin Ours
    BY <1>2, <1>5, <1>7, <2>1, <2>3 DEF PendingTold
  <2> QED
    BY <2>2, <2>3
<1>8. BookedWasOffered'
  BY <1>7 DEF BookedWasOffered
<1> QED
  BY <1>1, <1>2, <1>3, <1>4, <1>6, <1>5, <1>8
     DEF NothingPromisedUnbooked, NoSecondConfirmation, BookedHasRow, TalkBudget,
         BookedAccountedFor

\* The conversation expires, or other customers book: nothing of ours moves.
LEMMA AroundInv ==
  ASSUME IInv, Expire \/ Others
  PROVE  IInv'
<1> USE DEF IInv
<1>1. /\ UNCHANGED <<mem, heard, pc, reply, row, appointments, texted, told, turns, failures>>
      /\ saved' = saved \/ saved' = Fresh
  BY DEF Expire, Others, outside, bounds, stored
<1>2. Ours' = Ours /\ calendar' \in [Slot -> {"free", "taken", "ours"}]
  BY DEF Expire, Others, outside, Ours, TypeOK
<1>3. None \notin appointments
  BY Inputs DEF TypeOK
<1>4. TypeOK'
  BY <1>1, <1>2, FreshTyped DEF TypeOK
<1>5. NoSecondConfirmation' /\ TalkBudget'
  BY <1>1, <1>3, FreshTyped, Inputs DEF NoSecondConfirmation, TalkBudget
<1>6. ReplyBacked'
  BY <1>1, <1>2, FreshTyped DEF ReplyBacked
<1>7. CopySound'
  BY <1>1, FreshTyped DEF CopySound
<1> QED
  BY <1>1, <1>2, <1>4, <1>5, <1>6, <1>7, FreshTyped
     DEF NothingPromisedUnbooked, BookedHasRow, BookedAccountedFor, BookedWasOffered,
         PendingTold

\* The invariant is inductive: one lemma for each kind of step.
LEMMA StepInv == IInv /\ [Next]_vars => IInv'
<1> SUFFICES ASSUME IInv, [Next]_vars PROVE IInv'
  OBVIOUS
<1>1. CASE UNCHANGED vars
  <2>1. Ours' = Ours
    BY <1>1 DEF vars, Ours
  <2> QED
    BY <1>1, <2>1 DEF vars, IInv, TypeOK, NothingPromisedUnbooked, NoSecondConfirmation,
                 BookedHasRow, TalkBudget, ReplyBacked, BookedAccountedFor, CopySound,
                 BookedWasOffered, PendingTold
<1> QED
  BY <1>1, HearInv, PlainInv, FreeformInv, AskInv, ConfirmInv, BookInv, TextInv, SaveInv,
     CommitInv, FailInv, AroundInv DEF Next

\* The strengthened invariant holds in every reachable state.
THEOREM Inductive == Spec => []IInv
  BY InitInv, StepInv, PTL DEF Spec

-----------------------------------------------------------------------------
(* The properties.                                                         *)

\* Whatever fails and whoever else books, every confirmation text and every
\* appointment row is for a slot that Cal.com holds for the call.
THEOREM NothingPromised == Spec => []NothingPromisedUnbooked
<1>1. IInv => NothingPromisedUnbooked
  BY DEF IInv
<1> QED
  BY <1>1, Inductive, PTL

\* A slot that has an appointment is never up for confirmation again, whatever
\* fails between Cal.com's answer, the save and the commit (handle_turn).
THEOREM NeverConfirmedTwice == Spec => []NoSecondConfirmation
<1>1. IInv => NoSecondConfirmation
  BY DEF IInv
<1> QED
  BY <1>1, Inductive, PTL

\* A row whose outcome is "booked" has an appointment (handle_turn).
THEOREM BookedHasAppointment == Spec => []BookedHasRow
<1>1. IInv => BookedHasRow
  BY DEF IInv
<1> QED
  BY <1>1, Inductive, PTL

\* However turns fail and conversations expire, smalltalk stays within its
\* budget (_handle_freeform, max_clarifying_questions).
THEOREM SmalltalkLimited == Spec => []TalkBudget
<1>1. IInv => TalkBudget
  BY DEF IInv
<1> QED
  BY <1>1, Inductive, PTL

\* Without a failed turn the rows and the calendar agree between turns.
THEOREM InStep == Spec => []RowsInStep
<1>1. IInv => RowsInStep
  BY FreshTyped DEF IInv, ReplyBacked, BookedAccountedFor, RowsInStep
<1> QED
  BY <1>1, Inductive, PTL

\* However turns fail, conversations expire and others book, a slot is booked
\* for the caller only if Cal.com listed it and the saved answer of an earlier
\* turn named it (propose, _handle_booking, internal.turn).
THEOREM OfferedFirst == Spec => []BookedWasOffered
<1>1. IInv => BookedWasOffered
  BY DEF IInv
<1> QED
  BY <1>1, Inductive, PTL
=============================================================================
