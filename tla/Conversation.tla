---------------------------- MODULE Conversation ----------------------------
(***************************************************************************)
(* What one call says and books: handle_turn (agents/voice_agent.py) with  *)
(* the booking agent and the Cal.com client behind it.                     *)
(*                                                                         *)
(* A turn works on its own copy of the conversation saved in Redis, edits  *)
(* the call's row in an open transaction, and in between books at Cal.com  *)
(* and texts the caller, which no rollback takes back.  The turns of this  *)
(* module come one after the other; CallRecord has the overlapping ones.   *)
(*                                                                         *)
(* An utterance is a record: the intent the classifier finds, whether it   *)
(* gives a name, the time it asks for and the affirmative tokens its text  *)
(* contains, whatever the caller means by it.  A failed or mocked          *)
(* classification is the intent "escalate", as is a frustrated caller;     *)
(* emergencies get the same reply.                                         *)
(***************************************************************************)
EXTENDS Integers, FiniteSets

CONSTANTS
    Slot,            \* the calendar's slots, by start time
    Utterance,       \* what the caller may say
    MaxClarifying,   \* settings.max_clarifying_questions
    Back, Ahead,     \* how far around the time asked for slots are looked up
    MaxTurns,        \* bound: turns of the call
    MaxFailures,     \* bound: turns that end with an exception
    None

Intent == {"booking", "cancel", "faq", "escalate", "wrong_number",
           "smalltalk", "goodbye"}
Outcome == {"answered", "booked", "escalated"}
Tier == {"model", "mock"}

ASSUME Inputs ==
    /\ Slot \subseteq Nat /\ None \notin Nat \cup Outcome
    /\ MaxClarifying \in Nat /\ Back \in Nat /\ Ahead \in Nat
    /\ MaxTurns \in Nat /\ MaxFailures \in Nat
    /\ \A u \in Utterance :
          /\ u.intent \in Intent
          /\ u.named \in BOOLEAN
          /\ u.time \in Nat \cup {None}

VARIABLES
    saved,           \* the conversation in Redis
    mem,             \* the turn's copy of it
    heard,           \* the utterance of the turn
    pc,              \* where the turn stands
    reply,           \* what the turn is about to commit
    row,             \* outcome and escalation on the call's row
    appointments,    \* slots with a committed appointment of this call
    texted,          \* slots the caller got a confirmation text for
    calendar,        \* the state of each slot at Cal.com
    told,            \* history: how far the caller has been told of each slot
    turns, failures

vars == <<saved, mem, heard, pc, reply, row, appointments, texted, calendar,
          told, turns, failures>>

\* `talks` counts the freeform replies; the code only has clarifying_questions.
State == [clarifying: Nat, talks: Nat, pending: Slot \cup {None},
          named: BOOLEAN, wanted: Nat \cup {None}]
\* `slot` is the slot booked in the turn, `offer` the one its answer names.
Reply == [outcome: Outcome \cup {None}, slot: Slot \cup {None},
          offer: Slot \cup {None}, tier: Tier]

\* Cal.com has listed the slot, an answer that offers it is in the saved
\* conversation, and the answer has reached the caller.
Telling == {"no", "listed", "saved", "said"}

Fresh == [clarifying |-> 0, talks |-> 0, pending |-> None, named |-> FALSE,
          wanted |-> None]
NoReply == [outcome |-> None, slot |-> None, offer |-> None, tier |-> "model"]

TypeOK ==
    /\ saved \in State
    /\ mem \in State
    /\ heard \in Utterance \cup {None}
    /\ pc \in {"listening", "deciding", "booking", "texting", "saving", "committing"}
    /\ reply \in Reply
    /\ row \in [outcome: Outcome, escalated: BOOLEAN]
    /\ appointments \subseteq Slot
    /\ texted \subseteq Slot
    /\ calendar \in [Slot -> {"free", "taken", "ours"}]
    /\ told \in [Slot -> Telling]
    /\ turns \in 0..MaxTurns
    /\ failures \in 0..MaxFailures

Init ==
    /\ saved = Fresh
    /\ mem = Fresh
    /\ heard = None
    /\ pc = "listening"
    /\ reply = NoReply
    /\ row = [outcome |-> "answered", escalated |-> FALSE]
    /\ appointments = {}
    /\ texted = {}
    /\ calendar \in [Slot -> {"free", "taken"}]
    /\ told = [s \in Slot |-> "no"]
    /\ turns = 0
    /\ failures = 0

stored == <<saved, row, appointments>>
outside == <<texted, calendar>>
bounds == <<turns, failures>>

-----------------------------------------------------------------------------
(* One utterance arrives.                                                  *)

\* _is_affirmative: some affirmative token is a substring of the text.
IsAffirmative(u) == u.tokens # {}

\* merge_entities: the first value given for an entity stays.
Merge(state, u) ==
    [state EXCEPT !.named = @ \/ u.named,
                  !.wanted = IF @ = None THEN u.time ELSE @]

\* The saved conversation, or a fresh one, is loaded and the entities of the
\* utterance merged into it.
Hear(u) ==
    /\ pc = "listening"
    /\ turns < MaxTurns
    /\ mem' = Merge(saved, u)
    /\ heard' = u
    /\ pc' = "deciding"
    /\ turns' = turns + 1
    /\ UNCHANGED <<reply, stored, outside, told, failures>>

\* The turn has its answer, and the outcome it sets on the row, if any.
Say(state, outcome, tier) ==
    /\ mem' = state
    /\ reply' = [reply EXCEPT !.outcome = outcome, !.tier = tier]
    /\ pc' = "saving"
    /\ UNCHANGED <<heard, stored, outside, told, bounds>>

-----------------------------------------------------------------------------
(* The branches of handle_turn.                                            *)

Escalate ==
    /\ pc = "deciding"
    /\ heard.intent = "escalate"
    /\ Say(mem, "escalated", "model")

\* A goodbye repeats the outcome that is on the row.
TakeLeave ==
    /\ pc = "deciding"
    /\ \/ heard.intent = "wrong_number" /\ Say(mem, "answered", "model")
       \/ heard.intent = "goodbye" /\ Say(mem, None, "model")

\* A question is grounded in the documents or escalated.  The stand-in for an
\* unreachable model answers too, and its line passes for a grounded answer.
Faq ==
    /\ pc = "deciding"
    /\ heard.intent = "faq"
    /\ \/ \E tier \in Tier : Say(mem, "answered", tier)
       \/ Say(mem, "escalated", "model")

\* Mutant of Freeform: the budget is tested before this turn is counted.
FreeformLate ==
    LET counted == [mem EXCEPT !.clarifying = @ + 1]
    IN  /\ pc = "deciding"
        /\ heard.intent = "smalltalk"
        /\ IF mem.clarifying > MaxClarifying
           THEN Say(counted, "escalated", "model")
           ELSE \E tier \in Tier : Say([counted EXCEPT !.talks = @ + 1], None, tier)

\* Smalltalk is counted; beyond the budget a human is offered.
Freeform ==
    LET counted == [mem EXCEPT !.clarifying = @ + 1]
    IN  /\ pc = "deciding"
        /\ heard.intent = "smalltalk"
        /\ IF counted.clarifying > MaxClarifying
           THEN Say(counted, "escalated", "model")
           ELSE \E tier \in Tier : Say([counted EXCEPT !.talks = @ + 1], None, tier)

-----------------------------------------------------------------------------
(* Booking.                                                                *)

AboutBooking == pc = "deciding" /\ heard.intent \in {"booking", "cancel"}
Confirming == mem.pending # None /\ IsAffirmative(heard)

\* A pending slot and an affirmative text: the booking request is sent.
Confirm ==
    /\ AboutBooking
    /\ Confirming
    /\ pc' = "booking"
    /\ UNCHANGED <<mem, heard, reply, stored, outside, told, bounds>>

\* A name and a time are needed first; asking counts, but is not limited.
Ask ==
    /\ AboutBooking
    /\ ~Confirming
    /\ ~mem.named \/ mem.wanted = None
    /\ Say([mem EXCEPT !.clarifying = @ + 1], None, "model")

Openings(wanted) ==
    {s \in Slot : calendar[s] = "free" /\ wanted - Back <= s /\ s <= wanted + Ahead}

Distance(s, wanted) == IF s < wanted THEN wanted - s ELSE s - wanted

\* s is one of the openings nearest to the time, and the earliest of them.
Nearest(s, wanted) ==
    /\ s \in Openings(wanted)
    /\ \A o \in Openings(wanted) :
          \/ Distance(s, wanted) < Distance(o, wanted)
          \/ Distance(s, wanted) = Distance(o, wanted) /\ s <= o

\* The answer names the slot, which is pending from now on; Cal.com has
\* listed the openings around the time asked for.
Offer(s) ==
    /\ mem' = [mem EXCEPT !.pending = s]
    /\ reply' = [reply EXCEPT !.offer = s]
    /\ told' = [o \in Slot |-> IF told[o] = "no" /\ o \in Openings(mem.wanted)
                               THEN "listed" ELSE told[o]]
    /\ pc' = "saving"
    /\ UNCHANGED <<heard, stored, outside, bounds>>

\* Mutant of Propose: the time asked for is offered without looking.
ProposeWanted ==
    /\ AboutBooking
    /\ ~Confirming
    /\ mem.named /\ mem.wanted # None
    /\ \/ mem.wanted \in Slot /\ Offer(mem.wanted)
       \/ Say(mem, "escalated", "model")

Propose ==
    /\ AboutBooking
    /\ ~Confirming
    /\ mem.named /\ mem.wanted # None
    /\ \/ \E s \in Slot : Nearest(s, mem.wanted) /\ Offer(s)
       \/ /\ Openings(mem.wanted) = {}
          /\ Say([mem EXCEPT !.clarifying = @ + 1], None, "model")
       \/ Say(mem, "escalated", "model")    \* Cal.com refuses, or no account

\* Mutant of BookAccepted: the booked slot stays pending.
BookKeepsPending ==
    /\ pc = "booking"
    /\ calendar[mem.pending] = "free"
    /\ calendar' = [calendar EXCEPT ![mem.pending] = "ours"]
    /\ reply' = [reply EXCEPT !.slot = mem.pending, !.outcome = "booked"]
    /\ pc' = "texting"
    /\ UNCHANGED <<mem, heard, stored, texted, told, bounds>>

\* Mutant of BookAccepted: the appointment is not added to the session.
BookWithoutRow ==
    /\ pc = "booking"
    /\ calendar[mem.pending] = "free"
    /\ calendar' = [calendar EXCEPT ![mem.pending] = "ours"]
    /\ mem' = [mem EXCEPT !.pending = None]
    /\ reply' = [reply EXCEPT !.outcome = "booked"]
    /\ pc' = "saving"
    /\ UNCHANGED <<heard, stored, texted, told, bounds>>

\* Cal.com takes a free slot; the appointment is inserted, not yet committed.
BookAccepted ==
    /\ pc = "booking"
    /\ calendar[mem.pending] = "free"
    /\ calendar' = [calendar EXCEPT ![mem.pending] = "ours"]
    /\ mem' = [mem EXCEPT !.pending = None]
    /\ reply' = [reply EXCEPT !.slot = mem.pending, !.outcome = "booked"]
    /\ pc' = "texting"
    /\ UNCHANGED <<heard, stored, texted, told, bounds>>

\* Mutant of BookRefused: the result of the request is not looked at.
RefusedAllTheSame ==
    /\ pc = "booking"
    /\ mem' = [mem EXCEPT !.pending = None]
    /\ reply' = [reply EXCEPT !.slot = mem.pending, !.outcome = "booked"]
    /\ pc' = "texting"
    /\ UNCHANGED <<heard, stored, outside, told, bounds>>

\* Cal.com refuses: the slot is gone, or the request fails with a status.
BookRefused ==
    /\ pc = "booking"
    /\ Say([mem EXCEPT !.pending = None], None, "model")

\* The confirmation text is sent, or is not: a failure is swallowed.
Text ==
    /\ pc = "texting"
    /\ \/ texted' = texted \cup {reply.slot}
       \/ UNCHANGED texted
    /\ pc' = "saving"
    /\ UNCHANGED <<mem, heard, reply, stored, calendar, told, bounds>>

-----------------------------------------------------------------------------
(* The end of a turn.                                                      *)

\* The conversation is saved, with the offer of this turn in it.
Save ==
    /\ pc = "saving"
    /\ saved' = mem
    /\ told' = [s \in Slot |-> IF s = reply.offer /\ told[s] = "listed"
                              THEN "saved" ELSE told[s]]
    /\ pc' = "committing"
    /\ UNCHANGED <<mem, heard, reply, row, appointments, outside, bounds>>

Over ==
    /\ pc' = "listening"
    /\ mem' = Fresh
    /\ heard' = None
    /\ reply' = NoReply

\* The answer of the turn reaches the caller.
Answered == [s \in Slot |-> IF s = reply.offer /\ told[s] = "saved"
                           THEN "said" ELSE told[s]]

Commit ==
    /\ pc = "committing"
    /\ told' = Answered
    /\ row' = [outcome |-> IF reply.outcome = None THEN row.outcome ELSE reply.outcome,
               escalated |-> row.escalated \/ reply.outcome = "escalated"]
    /\ appointments' = appointments \cup ({reply.slot} \ {None})
    /\ Over
    /\ UNCHANGED <<saved, outside, bounds>>

\* An exception: the transaction is rolled back, Redis and Cal.com are not.
\* A booking request may have been served although its answer is lost, and a
\* commit may fail before or after the answer has left.
Fail ==
    /\ pc # "listening"
    /\ failures < MaxFailures
    /\ failures' = failures + 1
    /\ \/ UNCHANGED calendar
       \/ /\ pc = "booking" /\ calendar[mem.pending] = "free"
          /\ calendar' = [calendar EXCEPT ![mem.pending] = "ours"]
    /\ \/ UNCHANGED told
       \/ pc = "committing" /\ told' = Answered
    /\ Over
    /\ UNCHANGED <<stored, texted, turns>>

\* The saved conversation expires; the next turn starts a fresh one.
Expire ==
    /\ saved' = Fresh
    /\ UNCHANGED <<mem, heard, pc, reply, row, appointments, outside, told, bounds>>

\* Other customers take slots and give them back.
Others ==
    /\ \E s \in Slot :
          \/ calendar[s] = "free" /\ calendar' = [calendar EXCEPT ![s] = "taken"]
          \/ calendar[s] = "taken" /\ calendar' = [calendar EXCEPT ![s] = "free"]
    /\ UNCHANGED <<mem, heard, pc, reply, stored, texted, told, bounds>>

Next ==
    \/ \E u \in Utterance : Hear(u)
    \/ Escalate \/ TakeLeave \/ Faq \/ Freeform
    \/ Confirm \/ Ask \/ Propose
    \/ BookAccepted \/ BookRefused \/ Text
    \/ Save \/ Commit \/ Fail
    \/ Expire \/ Others

Spec == Init /\ [][Next]_vars

-----------------------------------------------------------------------------
Ours == {s \in Slot : calendar[s] = "ours"}

\* Whatever fails on the way, the caller has a text, and the business a row,
\* only for slots that Cal.com holds for this call.
NothingPromisedUnbooked == texted \cup appointments \subseteq Ours

\* A slot that already is an appointment is not waiting to be confirmed, so
\* another "yes" books nothing twice.
NoSecondConfirmation == saved.pending \notin appointments

\* The row says "booked" only when there is an appointment.
BookedHasRow == row.outcome = "booked" => appointments # {}

\* Between turns, unless one has failed, the appointments are exactly what
\* Cal.com holds for the call.
RowsInStep == pc = "listening" /\ failures = 0 => appointments = Ours

\* A slot is booked for the caller only if Cal.com listed it as open near the
\* time asked for and the saved answer of an earlier turn named it: no time is
\* made up between the listing, the offer, the pending slot of the saved
\* conversation and the booking (find_slot, propose, _handle_booking).
BookedWasOffered == \A s \in Ours : told[s] \in {"saved", "said"}

\* Smalltalk is answered by a model at most MaxClarifying times.
TalkBudget == saved.talks <= MaxClarifying

-----------------------------------------------------------------------------
(* Why the safety properties hold: the parts of an inductive invariant.    *)

\* An open transaction holds an appointment exactly when the turn has booked
\* a slot, and then Cal.com holds the slot and nothing is pending.
ReplyBacked ==
    /\ pc \in {"listening", "deciding", "booking"} => reply = NoReply
    /\ pc = "booking" => mem.pending # None
    /\ pc = "texting" => reply.slot # None
    /\ reply.outcome = "booked" => reply.slot # None
    /\ reply.slot # None =>
          /\ reply.slot \in Ours
          /\ mem.pending = None
          /\ pc = "committing" => saved.pending = None

\* Every booking that did not fail on the way is committed or about to be.
BookedAccountedFor ==
    failures = 0 => Ours = appointments \cup ({reply.slot} \ {None})

\* What is pending has been offered: in the saved conversation, or in the
\* answer this turn is about to save.
PendingTold ==
    /\ saved.pending # None => told[saved.pending] \in {"saved", "said"}
    /\ mem.pending # None =>
          \/ told[mem.pending] \in {"saved", "said"}
          \/ pc = "saving" /\ reply.offer = mem.pending /\ told[mem.pending] = "listed"

\* The turn's copy is as good as the saved conversation.
CopySound ==
    /\ mem.pending \notin appointments
    /\ mem.talks <= mem.clarifying /\ mem.talks <= MaxClarifying
    /\ saved.talks <= saved.clarifying

IInv ==
    /\ TypeOK
    /\ NothingPromisedUnbooked
    /\ NoSecondConfirmation
    /\ BookedHasRow
    /\ TalkBudget
    /\ BookedWasOffered
    /\ ReplyBacked
    /\ BookedAccountedFor
    /\ PendingTold
    /\ CopySound

-----------------------------------------------------------------------------
(* What the repository says of the program and the code does not do.       *)

\* voice_agent.py: at most three clarifying questions before a human is
\* offered.
ClarifyingBudget ==
    pc = "listening" /\ saved.clarifying > MaxClarifying => row.escalated

\* voice_agent.py: the caller confirms "a slot we already offered".  The
\* conversation is saved before the turn commits; when the commit fails and the
\* answer with it, the slot is pending all the same, and an affirmative word
\* books a time the caller was never told.
BookedWasHeard == \A s \in Ours : told[s] = "said"

\* README: the LLM stand-in returns an escalation, never an answer.
MockEscalates == pc = "saving" /\ reply.tier = "mock" => reply.outcome = "escalated"
=============================================================================
