--------------------------- MODULE FirstAnswer ---------------------------
(* What the provider registry promises a service (core/providers.py, the
   module's comment and run): a request that is asked is answered, by the
   first tier of the chain that does not turn it down, and the attempts on
   record are the tiers it passed, in order, none left out. The last tier
   never turns anyone down. A restart of the process forgets the requests.  *)
EXTENDS Naturals, Sequences

CONSTANTS Request, Tiers   \* Tiers is a positive number

VARIABLES state,      \* "idle", "open" or "answered"
          attempts    \* the attempts recorded for the request

vars == <<state, attempts>>

Passed(n) == [i \in 1..n |-> [tier |-> i, ok |-> FALSE]]

Init == /\ state = [r \in Request |-> "idle"]
        /\ attempts = [r \in Request |-> << >>]

Ask(r) == /\ state[r] # "open"
          /\ state' = [state EXCEPT ![r] = "open"]
          /\ \E n \in 0..Tiers-1 : attempts' = [attempts EXCEPT ![r] = Passed(n)]

(* Further tiers turn the request down, without the last. *)
Refuse(r) == /\ state[r] = "open"
             /\ \E n \in Len(attempts[r])..Tiers-1 :
                  attempts' = [attempts EXCEPT ![r] = Passed(n)]
             /\ UNCHANGED state

Answer(r) == /\ state[r] = "open"
             /\ state' = [state EXCEPT ![r] = "answered"]
             /\ attempts' = [attempts EXCEPT ![r] =
                  Append(@, [tier |-> Len(@) + 1, ok |-> TRUE])]

Restart == /\ state' = [r \in Request |-> "idle"]
           /\ attempts' = [r \in Request |-> << >>]

Next == Restart \/ \E r \in Request : Ask(r) \/ Refuse(r) \/ Answer(r)
Safe == Init /\ [][Next]_vars

(* An open request is not left open. *)
Answered == \A r \in Request : state[r] = "open" ~> state[r] # "open"

Spec == Safe /\ Answered
==========================================================================
