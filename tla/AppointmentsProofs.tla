------------------------- MODULE AppointmentsProofs -------------------------
(***************************************************************************)
(* Theorems about Appointments, for any bookings, handlers, slots, windows *)
(* and bounds.                                                             *)
(***************************************************************************)
EXTENDS Appointments, TLAPS

USE DEF handlers, history

Works == {Idle} \cup Turns \cup Hooks \cup Patches

\* The kind of a request tells what it has in hand.
LEMMA WorkKinds ==
    ASSUME TypeOK, NEW r \in Requests
    PROVE  /\ request[r].kind = "turn" => request[r] \in Turns
           /\ request[r].kind = "hook" => request[r] \in Hooks
           /\ request[r].kind = "patch" => request[r] \in Patches
    BY DEF TypeOK, Idle, Turns, Hooks, Patches

\* What the handlers write is a row.
LEMMA MergeType ==
    ASSUME NEW now \in Rows, NEW loaded \in Rows, NEW wanted \in Rows
    PROVE  /\ Merge(now, loaded, wanted) \in Rows
           /\ Merge(now, loaded, wanted).reminded =
                Changed(now.reminded, loaded.reminded, wanted.reminded)
    BY DEF Merge, Changed, Rows

LEMMA ReconciledType ==
    ASSUME NEW e \in Events, NEW old \in Rows
    PROVE  /\ Reconciled(e, old) \in Rows
           /\ e.kind # "moved" => Reconciled(e, old).reminded = old.reminded
           /\ e.kind = "moved" => Reconciled(e, old).reminded = FALSE
    BY DEF Reconciled, Rows, Events, Statuses

\* A change of a booking is one more of those Cal.com takes.
LEMMA ChangeType ==
    ASSUME TypeOK, NEW b \in Bookings, NEW at \in Slots, NEW live \in BOOLEAN,
           NEW kind \in {"created", "moved", "cancelled"}, Change(b, kind, at, live)
    PROVE  /\ calendar' \in [Bookings -> Bookeds \cup {NoBooking}]
           /\ mail' \subseteq Events
           /\ calendar'[b] # NoBooking
           /\ \A c \in Bookings : c # b => calendar'[c] = calendar[c]
<1> DEFINE n == calendar[b].change + 1
<1>1. n \in 1..MaxChanges
    BY WindowAssumption DEF Change, TypeOK, Bookeds, NoBooking
<1>2. [at |-> at, live |-> live, change |-> n] \in Bookeds
    BY <1>1 DEF Bookeds
<1>3. [at |-> at, live |-> live, change |-> n] # NoBooking
    BY <1>1 DEF NoBooking
<1>4. [booking |-> b, kind |-> kind, at |-> at, change |-> n] \in Events
    BY <1>1 DEF Events
<1> QED
    BY <1>2, <1>3, <1>4 DEF Change, TypeOK

\* A committed row is a row, and the times the history keeps are in range.
LEMMA StoreType ==
    ASSUME TypeOK, NEW b \in Bookings, NEW new \in Rows, Store(b, new)
    PROVE  /\ row' \in [Bookings -> Rows \cup {NoRow}]
           /\ steady' \in [Bookings -> 0..Horizon]
    BY DEF Store, TypeOK

\* Rows do not vanish: what a handler or a round has loaded is still there.
Found ==
    /\ \A r \in Requests : request[r] \in Hooks => row[request[r].event.booking] # NoRow
    /\ \A r \in Requests : request[r] \in Patches => row[request[r].booking] # NoRow
    /\ \A a \in round.rows : row[a.booking] # NoRow

Typed == TypeOK /\ Found

LEMMA TypedInit == Init => Typed
    BY WindowAssumption
    DEF Init, Typed, TypeOK, Found, NoRound, InHand, Idle, Hooks, Patches

\* A row is no empty row.
LEMMA RowIsRow == \A x \in Rows : x # NoRow
    BY DEF Rows, NoRow, Statuses

\* Found holds on if rows stay, and handlers and rounds load what is there.
LEMMA FoundKept ==
    ASSUME Typed, TypeOK',
           \A b \in Bookings : row[b] # NoRow => row'[b] # NoRow,
           \A r \in Requests :
                \/ request'[r] = request[r] \/ request'[r] \notin Hooks \cup Patches
                \/ /\ request[r] \in Patches /\ request'[r] \in Patches
                   /\ request'[r].booking = request[r].booking
                \/ request'[r] \in Hooks /\ row[request'[r].event.booking] # NoRow
                \/ request'[r] \in Patches /\ row[request'[r].booking] # NoRow,
           \A a \in round'.rows : a \in round.rows \/ row[a.booking] # NoRow
    PROVE  Found'
<1>1. \A r \in Requests : request'[r] \in Hooks => request'[r].event.booking \in Bookings
    BY DEF Hooks, Events
<1>2. \A r \in Requests : request'[r] \in Patches => request'[r].booking \in Bookings
    BY DEF Patches
<1>3. \A a \in round'.rows : a.booking \in Bookings
    BY DEF TypeOK
<1>4. \A r \in Requests : ~(request'[r] \in Hooks /\ request'[r] \in Patches)
    BY DEF Hooks, Patches
<1> QED
    BY <1>1, <1>2, <1>3, <1>4 DEF Typed, Found

LEMMA TypedStep == Typed /\ [Next]_vars => Typed'
<1> SUFFICES ASSUME Typed, [Next]_vars PROVE Typed'
    OBVIOUS
<1>0. TypeOK /\ Found
    BY DEF Typed
<1>1. CASE UNCHANGED vars
    BY <1>0, <1>1 DEF vars, TypeOK, InHand, Typed, Found
<1>2. ASSUME NEW b \in Bookings, ChangeOutside(b) PROVE Typed'
  <2>1. calendar[b] \in Bookeds
    BY <1>0, <1>2 DEF ChangeOutside, Stands, TypeOK
  <2>2. /\ calendar' \in [Bookings -> Bookeds \cup {NoBooking}] /\ mail' \subseteq Events
    <3>1. CASE Change(b, "cancelled", calendar[b].at, FALSE)
        BY <1>0, <2>1, <3>1, ChangeType DEF Bookeds
    <3>2. ASSUME NEW at \in Slots, Change(b, "moved", at, TRUE)
          PROVE calendar' \in [Bookings -> Bookeds \cup {NoBooking}] /\ mail' \subseteq Events
        BY <1>0, <3>2, ChangeType
    <3> QED
        BY <1>2, <3>1, <3>2 DEF ChangeOutside
  <2> QED
    BY <1>0, <1>2, <2>2 DEF ChangeOutside, TypeOK, InHand, Typed, Found
<1>3. ASSUME NEW r \in Requests, NEW b \in Bookings, NEW at \in Slots, Book(r, b, at)
      PROVE Typed'
  <2>1. calendar' \in [Bookings -> Bookeds \cup {NoBooking}] /\ mail' \subseteq Events
    BY <1>0, <1>3, ChangeType DEF Book
  <2>2. /\ [kind |-> "turn", booking |-> b, at |-> at] \in Turns
        /\ [kind |-> "turn", booking |-> b, at |-> at] \notin Hooks \cup Patches
    BY DEF Turns, Hooks, Patches
  <2>3. TypeOK'
    BY <1>0, <1>3, <2>1, <2>2 DEF Book, TypeOK, InHand
  <2>4. Found'
    BY <1>0, <1>3, <2>2, <2>3, FoundKept DEF Book, TypeOK
  <2> QED
    BY <2>3, <2>4 DEF Typed
<1>4. ASSUME NEW r \in Requests, NEW e \in mail, Arrives(r, e) PROVE Typed'
  <2>1. e \in Events /\ e.booking \in Bookings /\ e.change \in 1..MaxChanges
    BY <1>0 DEF TypeOK, Events
  <2>2. row[e.booking] # NoRow => Hook(e) \in Hooks /\ Hook(e).event = e
    BY <1>0, <2>1 DEF Hook, Hooks, TypeOK
  <2>3. \/ UNCHANGED request
        \/ row[e.booking] # NoRow /\ request' = [request EXCEPT ![r] = Hook(e)]
    BY <1>4 DEF Arrives, Open
  <2>4. request' \in [Requests -> Works]
    BY <1>0, <2>2, <2>3 DEF TypeOK, Works
  <2>5. doubt' \subseteq Bookings /\ handled' \in [Bookings -> SUBSET (1..MaxChanges)]
    BY <1>0, <1>4, <2>1 DEF Arrives, TypeOK
  <2>6. TypeOK'
    BY <1>0, <1>4, <2>4, <2>5 DEF Arrives, TypeOK, InHand, Works
  <2>7. UNCHANGED <<row, round>>
    BY <1>4 DEF Arrives
  <2>8. Found'
    BY <1>0, <2>2, <2>3, <2>6, <2>7, FoundKept DEF TypeOK
  <2> QED
    BY <2>6, <2>8 DEF Typed
<1>5. ASSUME NEW r \in Requests, NEW b \in Bookings, NEW s \in Statuses, PatchLoads(r, b, s)
      PROVE Typed'
  <2>1. Patch(b, s) \in Patches /\ Patch(b, s).booking = b
    BY <1>0, <1>5 DEF PatchLoads, Patch, Patches, TypeOK
  <2>2. TypeOK'
    BY <1>0, <1>5, <2>1 DEF PatchLoads, Open, TypeOK, InHand
  <2>3. /\ request' = [request EXCEPT ![r] = Patch(b, s)] /\ row[b] # NoRow
        /\ UNCHANGED <<row, round>>
    BY <1>5 DEF PatchLoads, Open
  <2>4. Found'
    BY <1>0, <2>1, <2>2, <2>3, FoundKept DEF TypeOK
  <2> QED
    BY <2>2, <2>4 DEF Typed
<1>6. ASSUME NEW r \in Requests, NEW b \in Bookings, NEW new \in Rows, Store(b, new),
             Close(r), texted' \subseteq texted, doubt' \subseteq Bookings,
             reopened' \subseteq Bookings, crossed' \subseteq Bookings,
             UNCHANGED <<clock, due, calendar, mail, round, failures, handled>>
      PROVE  Typed'
  <2>1. row' \in [Bookings -> Rows \cup {NoRow}] /\ steady' \in [Bookings -> 0..Horizon]
    BY <1>0, <1>6, StoreType
  <2>2. TypeOK'
    BY <1>0, <1>6, <2>1 DEF Close, TypeOK, InHand
  <2>3. Idle \notin Hooks \cup Patches
    BY DEF Idle, Hooks, Patches
  <2>4. Found'
    BY <1>0, <1>6, <2>2, <2>3, RowIsRow, FoundKept DEF Close, Store, TypeOK
  <2> QED
    BY <2>2, <2>4 DEF Typed
<1>7. ASSUME NEW r \in Requests, TurnCommits(r) PROVE Typed'
  <2>1. request[r] \in Turns
    BY <1>0, <1>7, WorkKinds DEF TurnCommits
  <2>2. /\ request[r].booking \in Bookings
        /\ [status |-> "confirmed", at |-> request[r].at, reminded |-> FALSE] \in Rows
    BY <2>1 DEF Turns, Rows, Statuses
  <2>3. Close(r)
    BY <1>7 DEF TurnCommits
  <2> QED
    BY <1>0, <1>6, <1>7, <2>2, <2>3 DEF TurnCommits, TypeOK
<1>8. ASSUME NEW r \in Requests, HookCommits(r) PROVE Typed'
  <2>1. request[r] \in Hooks
    BY <1>0, <1>8, WorkKinds DEF HookCommits
  <2> DEFINE b == request[r].event.booking
             wanted == Reconciled(request[r].event, request[r].loaded)
             new == Merge(row[b], request[r].loaded, wanted)
  <2>2. /\ request[r].event \in Events /\ b \in Bookings /\ request[r].loaded \in Rows
        /\ row[b] \in Rows
    BY <1>0, <2>1 DEF Hooks, Events, Found, TypeOK
  <2>3. new \in Rows
    BY <2>2, MergeType, ReconciledType
  <2>4. Store(b, new) /\ Noted(request[r].event, row[b], new) /\ Close(r)
    BY <1>8 DEF HookCommits
  <2>5. /\ texted' \subseteq texted /\ reopened' \subseteq Bookings
        /\ crossed' \subseteq Bookings
    BY <1>0, <2>2, <2>4 DEF Noted, TypeOK
  <2> QED
    BY <1>0, <1>6, <1>8, <2>2, <2>3, <2>4, <2>5 DEF HookCommits, TypeOK
<1>9. ASSUME NEW r \in Requests, PatchCancels(r) PROVE Typed'
  <2>1. request[r] \in Patches
    BY <1>0, <1>9, WorkKinds DEF PatchCancels
  <2>2. /\ [request[r] EXCEPT !.calls = FALSE] \in Patches
        /\ [request[r] EXCEPT !.calls = FALSE].booking = request[r].booking
        /\ request[r].booking \in Bookings
    BY <2>1 DEF Patches
  <2>3. request' = [request EXCEPT ![r] = [request[r] EXCEPT !.calls = FALSE]]
    BY <1>9 DEF PatchCancels
  <2>4. request' \in [Requests -> Works]
    BY <1>0, <2>2, <2>3 DEF TypeOK, Works
  <2>5. /\ calendar' \in [Bookings -> Bookeds \cup {NoBooking}] /\ mail' \subseteq Events
        /\ failures' \in 0..MaxFailures
    <3>1. CASE UNCHANGED <<calendar, mail>>
      <4>1. UNCHANGED failures \/ CanFail
        BY <1>9 DEF PatchCancels
      <4> QED
        BY <1>0, <3>1, <4>1, WindowAssumption DEF CanFail, TypeOK
    <3>2. CASE ~UNCHANGED <<calendar, mail>>
      <4> DEFINE b == request[r].booking
      <4>1. /\ Stands(b) /\ Change(b, "cancelled", calendar[b].at, FALSE)
            /\ UNCHANGED failures
        BY <1>9, <3>2 DEF PatchCancels
      <4>2. calendar[b].at \in Slots
        BY <1>0, <2>2, <4>1 DEF Stands, TypeOK, Bookeds
      <4> QED
        BY <1>0, <2>2, <4>1, <4>2, ChangeType DEF TypeOK
    <3> QED
        BY <3>1, <3>2
  <2>6. TypeOK'
    BY <1>0, <1>9, <2>4, <2>5 DEF PatchCancels, TypeOK, InHand, Works
  <2>7. UNCHANGED <<row, round>>
    BY <1>9 DEF PatchCancels
  <2>8. Found'
    BY <1>0, <2>1, <2>2, <2>3, <2>6, <2>7, FoundKept DEF TypeOK
  <2> QED
    BY <2>6, <2>8 DEF Typed
<1>10. ASSUME NEW r \in Requests, PatchCommits(r) PROVE Typed'
  <2>1. request[r] \in Patches
    BY <1>0, <1>10, WorkKinds DEF PatchCommits
  <2> DEFINE b == request[r].booking
             old == request[r].loaded
             wanted == [old EXCEPT !.status = request[r].to]
             new == Merge(row[b], old, wanted)
  <2>2. b \in Bookings /\ old \in Rows /\ row[b] \in Rows /\ wanted \in Rows
    BY <1>0, <2>1 DEF Patches, Found, TypeOK, Rows
  <2>3. new \in Rows
    BY <2>2, MergeType
  <2>4. Close(r) /\ doubt' \subseteq Bookings
    BY <1>0, <1>10, <2>2 DEF PatchCommits, TypeOK
  <2>5. Store(b, new)
    BY <1>10 DEF PatchCommits
  <2> QED
    BY <1>0, <1>6, <1>10, <2>2, <2>3, <2>4, <2>5 DEF PatchCommits, TypeOK
<1>11. ASSUME NEW r \in Requests, RequestFails(r) PROVE Typed'
  <2>1. failures' \in 0..MaxFailures
    BY <1>0, <1>11, WindowAssumption DEF RequestFails, CanFail, TypeOK
  <2>2. doubt' \subseteq Bookings
    BY <1>0, <1>11, WorkKinds DEF RequestFails, TypeOK, Hooks, Events
  <2>3. TypeOK'
    BY <1>0, <1>11, <2>1, <2>2 DEF RequestFails, Close, TypeOK, InHand
  <2>4. Idle \notin Hooks \cup Patches
    BY DEF Idle, Hooks, Patches
  <2>5. Found'
    BY <1>0, <1>11, <2>3, <2>4, FoundKept DEF RequestFails, Close, TypeOK
  <2> QED
    BY <2>3, <2>5 DEF Typed
<1>12. CASE RoundBegins
  <2>1. Due \subseteq Bookings /\ \A b \in Due : row[b] \in Rows /\ row[b] # NoRow
    BY <1>0 DEF Due, TypeOK
  <2>2. {[booking |-> b, at |-> row[b].at] : b \in Due}
            \subseteq [booking : Bookings, at : Slots]
    BY <2>1 DEF Rows
  <2>3. /\ round' \in [rows : SUBSET [booking : Bookings, at : Slots],
                      left : SUBSET Bookings, told : SUBSET Bookings, open : BOOLEAN]
        /\ round'.rows = {[booking |-> b, at |-> row[b].at] : b \in Due}
        /\ round'.left = Due /\ round'.told = {}
    BY <1>12, <2>1, <2>2 DEF RoundBegins
  <2>4. InHand' = Due
    <3>1. \A a \in round'.rows : a.booking \in Due
        BY <2>3
    <3>2. ASSUME NEW b \in Due PROVE \E a \in round'.rows : a.booking = b
      <4>1. [booking |-> b, at |-> row[b].at] \in round'.rows
        BY <2>3, <3>2
      <4> QED
        BY <4>1
    <3>3. ASSUME NEW b \in InHand' PROVE b \in Due
      <4>1. PICK a \in round'.rows : b = a.booking
        BY <3>3 DEF InHand
      <4> QED
        BY <3>1, <4>1
    <3>4. Due \subseteq InHand'
        BY <3>2 DEF InHand
    <3> QED
        BY <3>3, <3>4
  <2>5. TypeOK'
    BY <1>0, <1>12, <2>3, <2>4 DEF RoundBegins, TypeOK
  <2>6. Found'
    BY <1>0, <1>12, <2>1, <2>3 DEF RoundBegins, Found
  <2> QED
    BY <2>5, <2>6 DEF Typed
<1>13. ASSUME NEW a \in round.rows, Remind(a) PROVE Typed'
  <2>1. a.booking \in Bookings /\ a.at \in Slots /\ a.booking \in InHand
    BY <1>0 DEF TypeOK, InHand
  <2>2. /\ round' \in [rows : SUBSET [booking : Bookings, at : Slots],
                      left : SUBSET Bookings, told : SUBSET Bookings, open : BOOLEAN]
        /\ round'.rows = round.rows /\ round'.left = round.left \ {a.booking}
        /\ round'.told \subseteq round.told \cup {a.booking}
    <3>1. \/ round' = [round EXCEPT !.left = @ \ {a.booking}, !.told = @ \cup {a.booking}]
          \/ round' = [round EXCEPT !.left = @ \ {a.booking}]
        BY <1>13 DEF Remind
    <3>2. /\ round \in [rows : SUBSET [booking : Bookings, at : Slots],
                        left : SUBSET Bookings, told : SUBSET Bookings, open : BOOLEAN]
          /\ round.left \in SUBSET Bookings /\ round.told \in SUBSET Bookings
        BY <1>0 DEF TypeOK
    <3>3. /\ round.left \ {a.booking} \in SUBSET Bookings
          /\ round.told \cup {a.booking} \in SUBSET Bookings
        BY <2>1, <3>2
    <3>4. CASE round' = [round EXCEPT !.left = round.left \ {a.booking},
                                      !.told = round.told \cup {a.booking}]
        BY <3>2, <3>3, <3>4
    <3>5. CASE round' = [round EXCEPT !.left = round.left \ {a.booking}]
        BY <3>2, <3>3, <3>5
    <3> QED
        BY <3>1, <3>4, <3>5
  <2>3. InHand' = InHand
    BY <2>2 DEF InHand
  <2>4. /\ failures' \in 0..MaxFailures /\ texted' \subseteq Bookings \X Slots
        /\ reopened' \subseteq Bookings
    BY <1>0, <1>13, <2>1, WindowAssumption DEF Remind, CanFail, TypeOK
  <2>5. steady' \in [Bookings -> 0..Horizon]
    BY <1>0, <1>13 DEF Remind, TypeOK
  <2>6. TypeOK'
    BY <1>0, <1>13, <2>2, <2>3, <2>4, <2>5 DEF Remind, TypeOK
  <2>7. Found'
    BY <1>0, <1>13, <2>2 DEF Remind, Found
  <2> QED
    BY <2>6, <2>7 DEF Typed
<1>14. CASE RoundEnds
  <2>1. \A b \in round.told : row[b] \in Rows
    BY <1>0 DEF TypeOK, InHand, Found
  <2>2. \A b \in round.told : [row[b] EXCEPT !.reminded = TRUE] \in Rows
    BY <2>1 DEF Rows
  <2>3. /\ row' \in [Bookings -> Rows \cup {NoRow}]
        /\ \A b \in Bookings : row[b] # NoRow => row'[b] # NoRow
    BY <1>0, <1>14, <2>2, RowIsRow DEF RoundEnds, TypeOK
  <2>4. TypeOK'
    BY <1>0, <1>14, <2>3, WindowAssumption DEF RoundEnds, TypeOK, NoRound, InHand
  <2>5. Found'
    BY <1>0, <1>14, <2>3, <2>4, FoundKept DEF RoundEnds, NoRound
  <2> QED
    BY <2>4, <2>5 DEF Typed
<1>15. CASE RoundFails \/ Restart
  <2>1. /\ failures' \in 0..MaxFailures /\ due' \in Nat
        /\ round' = NoRound /\ RolledBack
        /\ UNCHANGED <<clock, calendar, row, mail, handled>>
    BY <1>0, <1>15, WindowAssumption DEF RoundFails, Restart, CanFail, TypeOK
  <2>2. /\ texted' \subseteq Bookings \X Slots /\ steady' \in [Bookings -> 0..Horizon]
        /\ reopened' \subseteq Bookings /\ crossed' \subseteq Bookings
    BY <1>0, <2>1 DEF RolledBack, TypeOK
  <2>3. /\ request' \in [Requests -> Works] /\ doubt' \subseteq Bookings
        /\ \A r \in Requests : request'[r] \in {request[r], Idle}
    BY <1>0, <1>15 DEF RoundFails, Restart, TypeOK, Works
  <2>4. TypeOK'
    BY <1>0, <2>1, <2>2, <2>3 DEF TypeOK, NoRound, InHand, Works
  <2>5. Idle \notin Hooks \cup Patches
    BY DEF Idle, Hooks, Patches
  <2>6. Found'
    BY <1>0, <2>1, <2>3, <2>4, <2>5, FoundKept DEF NoRound
  <2> QED
    BY <2>4, <2>6 DEF Typed
<1>16. CASE Tick
    BY <1>0, <1>16, WindowAssumption DEF Tick, TypeOK, InHand, Typed, Found
<1> QED
    BY <1>1, <1>2, <1>3, <1>4, <1>5, <1>7, <1>8, <1>9, <1>10, <1>11, <1>12, <1>13,
       <1>14, <1>15, <1>16 DEF Next

THEOREM AlwaysTyped == Spec => []Typed
    BY TypedInit, TypedStep, PTL DEF Spec

-----------------------------------------------------------------------------
\* A booking is made once, by one turn, and its row comes after it.
BookedOnce ==
    /\ \A r \in Requests : request[r] \in Turns =>
            calendar[request[r].booking] # NoBooking /\ row[request[r].booking] = NoRow
    /\ \A r, q \in Requests :
            request[r] \in Turns /\ request[q] \in Turns
                /\ request[r].booking = request[q].booking => r = q
    /\ \A b \in Bookings : row[b] # NoRow => calendar[b] # NoBooking

Sound == Typed /\ BookedOnce

LEMMA SoundInit == Init => Sound
<1>1. Idle \notin Turns
    BY DEF Idle, Turns
<1>2. Init => BookedOnce
    BY <1>1 DEF Init, BookedOnce
<1> QED
    BY <1>2, TypedInit DEF Sound

LEMMA BookedKept ==
    ASSUME Sound, Typed',
           \A b \in Bookings : calendar[b] # NoBooking => calendar'[b] # NoBooking,
           \A b \in Bookings : row'[b] # NoRow => row[b] # NoRow,
           \A r \in Requests : request'[r] \in Turns => request'[r] = request[r]
    PROVE  BookedOnce'
<1>1. BookedOnce
    BY DEF Sound
<1>2. \A r \in Requests : request'[r] \in Turns => request'[r].booking \in Bookings
    BY DEF Turns
<1>3. ASSUME NEW r \in Requests, request'[r] \in Turns
      PROVE  /\ calendar'[request'[r].booking] # NoBooking
             /\ row'[request'[r].booking] = NoRow
    BY <1>1, <1>2, <1>3 DEF BookedOnce
<1>4. ASSUME NEW r \in Requests, NEW q \in Requests, request'[r] \in Turns,
             request'[q] \in Turns, request'[r].booking = request'[q].booking
      PROVE  r = q
    BY <1>1, <1>4 DEF BookedOnce
<1>5. \A b \in Bookings : row'[b] # NoRow => calendar'[b] # NoBooking
    BY <1>1 DEF BookedOnce
<1> QED
    BY <1>3, <1>4, <1>5 DEF BookedOnce

LEMMA SoundStep == Sound /\ [Next]_vars => Sound'
<1> SUFFICES ASSUME Sound, [Next]_vars PROVE BookedOnce'
    BY TypedStep DEF Sound
<1>0. Typed' /\ TypeOK /\ Found /\ BookedOnce
    BY TypedStep DEF Sound, Typed
<1>1. Idle \notin Turns /\ \A x \in Hooks \cup Patches : x \notin Turns
    BY DEF Idle, Turns, Hooks, Patches
<1>2. CASE UNCHANGED <<calendar, row, request>>
    BY <1>0, <1>2, BookedKept
<1>3. ASSUME NEW b \in Bookings, ChangeOutside(b) PROVE BookedOnce'
  <2>1. calendar[b] \in Bookeds
    BY <1>0, <1>3 DEF ChangeOutside, Stands, TypeOK
  <2>2. \A c \in Bookings : calendar[c] # NoBooking => calendar'[c] # NoBooking
    <3>1. CASE Change(b, "cancelled", calendar[b].at, FALSE)
        BY <1>0, <2>1, <3>1, ChangeType DEF Bookeds
    <3>2. ASSUME NEW at \in Slots, Change(b, "moved", at, TRUE)
          PROVE \A c \in Bookings : calendar[c] # NoBooking => calendar'[c] # NoBooking
        BY <1>0, <3>2, ChangeType
    <3> QED
        BY <1>3, <3>1, <3>2 DEF ChangeOutside
  <2>3. UNCHANGED <<row, request>>
    BY <1>3 DEF ChangeOutside
  <2> QED
    BY <1>0, <2>2, <2>3, BookedKept
<1>4. ASSUME NEW r \in Requests, NEW b \in Bookings, NEW at \in Slots, Book(r, b, at)
      PROVE BookedOnce'
  <2>1. /\ calendar'[b] # NoBooking /\ calendar[b] = NoBooking
        /\ \A c \in Bookings : c # b => calendar'[c] = calendar[c]
    BY <1>0, <1>4, ChangeType DEF Book
  <2>2. /\ request'[r] = [kind |-> "turn", booking |-> b, at |-> at]
        /\ \A q \in Requests : q # r => request'[q] = request[q]
        /\ UNCHANGED row
    BY <1>0, <1>4 DEF Book, TypeOK
  <2>3. \A q \in Requests : request[q] \in Turns => request[q].booking # b
    BY <1>0, <2>1 DEF BookedOnce
  <2> QED
    BY <1>0, <2>1, <2>2, <2>3 DEF BookedOnce, Turns
<1>5. ASSUME NEW r \in Requests, NEW e \in mail, Arrives(r, e) PROVE BookedOnce'
  <2>1. \/ UNCHANGED request
        \/ request' = [request EXCEPT ![r] = Hook(e)]
    BY <1>5 DEF Arrives, Open
  <2>2. Hook(e) \notin Turns
    BY DEF Hook, Turns
  <2>3. UNCHANGED <<calendar, row>>
    BY <1>5 DEF Arrives
  <2> QED
    BY <1>0, <2>1, <2>2, <2>3, BookedKept DEF TypeOK
<1>6. ASSUME NEW r \in Requests, NEW b \in Bookings, NEW s \in Statuses, PatchLoads(r, b, s)
      PROVE BookedOnce'
  <2>1. Patch(b, s) \notin Turns
    BY DEF Patch, Turns
  <2> QED
    BY <1>0, <1>6, <2>1, BookedKept DEF PatchLoads, Open, TypeOK
<1>7. ASSUME NEW r \in Requests, TurnCommits(r) PROVE BookedOnce'
  <2>1. request[r] \in Turns
    BY <1>0, <1>7, WorkKinds DEF TurnCommits
  <2> DEFINE b == request[r].booking
  <2>2. /\ \A c \in Bookings : c # b => row'[c] = row[c]
        /\ \A q \in Requests : q # r => request'[q] = request[q]
        /\ request'[r] = Idle /\ UNCHANGED calendar
    BY <1>0, <1>7 DEF TurnCommits, Store, Close, TypeOK
  <2>3. b \in Bookings
    BY <2>1 DEF Turns
  <2>4. \A q \in Requests : request[q] \in Turns => request[q].booking \in Bookings
    BY DEF Turns
  <2>5. ASSUME NEW q \in Requests, request'[q] \in Turns
        PROVE  /\ q # r /\ request'[q] = request[q] /\ request[q].booking # b
               /\ calendar'[request'[q].booking] # NoBooking
               /\ row'[request'[q].booking] = NoRow
    <3>1. q # r /\ request'[q] = request[q] /\ request[q] \in Turns
        BY <1>1, <2>2, <2>5
    <3>2. request[q].booking # b
        BY <1>0, <2>1, <3>1 DEF BookedOnce
    <3> QED
        BY <1>0, <2>2, <2>4, <3>1, <3>2 DEF BookedOnce
  <2>6. \A c \in Bookings : row'[c] # NoRow => calendar'[c] # NoBooking
    BY <1>0, <2>1, <2>2 DEF BookedOnce
  <2>7. \A p, q \in Requests :
            request'[p] \in Turns /\ request'[q] \in Turns
                /\ request'[p].booking = request'[q].booking => p = q
    BY <1>0, <2>5 DEF BookedOnce
  <2> QED
    BY <2>5, <2>6, <2>7 DEF BookedOnce
<1>8. ASSUME NEW r \in Requests, HookCommits(r) \/ PatchCommits(r) PROVE BookedOnce'
  <2>1. /\ \A c \in Bookings : row'[c] # NoRow => row[c] # NoRow
        /\ UNCHANGED calendar /\ Close(r)
    <3>1. request[r] \in Hooks \/ request[r] \in Patches
        BY <1>0, <1>8, WorkKinds DEF HookCommits, PatchCommits
    <3> QED
        BY <1>0, <1>8, <3>1, WorkKinds DEF HookCommits, PatchCommits, Store, Found, TypeOK
  <2>2. \A q \in Requests : request'[q] \in Turns => request'[q] = request[q]
    BY <1>0, <1>1, <2>1 DEF Close, TypeOK
  <2> QED
    BY <1>0, <2>1, <2>2, BookedKept
<1>9. ASSUME NEW r \in Requests, PatchCancels(r) PROVE BookedOnce'
  <2>1. request[r] \in Patches
    BY <1>0, <1>9, WorkKinds DEF PatchCancels
  <2>2. [request[r] EXCEPT !.calls = FALSE] \in Patches /\ request[r].booking \in Bookings
    BY <2>1 DEF Patches
  <2>3. request' = [request EXCEPT ![r] = [request[r] EXCEPT !.calls = FALSE]]
    BY <1>9 DEF PatchCancels
  <2>4. \A c \in Bookings : calendar[c] # NoBooking => calendar'[c] # NoBooking
    <3>1. CASE UNCHANGED calendar
        BY <3>1
    <3>2. CASE ~UNCHANGED calendar
      <4> DEFINE b == request[r].booking
      <4>1. Stands(b) /\ Change(b, "cancelled", calendar[b].at, FALSE)
        BY <1>9, <3>2 DEF PatchCancels
      <4>2. calendar[b].at \in Slots
        BY <1>0, <2>2, <4>1 DEF Stands, TypeOK, Bookeds
      <4> QED
        BY <1>0, <2>2, <4>1, <4>2, ChangeType
    <3> QED
        BY <3>1, <3>2
  <2>5. UNCHANGED row
    BY <1>9 DEF PatchCancels
  <2>6. \A q \in Requests : request'[q] \in Turns => request'[q] = request[q]
    BY <1>0, <1>1, <2>2, <2>3 DEF TypeOK
  <2> QED
    BY <1>0, <2>4, <2>5, <2>6, BookedKept
<1>10. ASSUME NEW r \in Requests, RequestFails(r) PROVE BookedOnce'
  <2>1. /\ UNCHANGED <<calendar, row>>
        /\ \A q \in Requests : request'[q] \in Turns => request'[q] = request[q]
    BY <1>0, <1>1, <1>10 DEF RequestFails, Close, TypeOK
  <2> QED
    BY <1>0, <2>1, BookedKept
<1>11. CASE RoundEnds
  <2>1. \A b \in Bookings : row'[b] # NoRow => row[b] # NoRow
    BY <1>0, <1>11 DEF RoundEnds, TypeOK, Found, InHand
  <2> QED
    BY <1>0, <1>11, <2>1, BookedKept DEF RoundEnds
<1>12. CASE Restart
  <2>1. \A r \in Requests : request'[r] \notin Turns
    BY <1>1, <1>12 DEF Restart
  <2> QED
    BY <1>0, <1>12, <2>1, BookedKept DEF Restart
<1>13. CASE RoundBegins \/ RoundFails \/ Tick \/ UNCHANGED vars
    BY <1>2, <1>13 DEF RoundBegins, RoundFails, Tick, vars
<1>14. ASSUME NEW a \in round.rows, Remind(a) PROVE BookedOnce'
    BY <1>2, <1>14 DEF Remind
<1> QED
    BY <1>3, <1>4, <1>5, <1>6, <1>7, <1>8, <1>9, <1>10, <1>11, <1>12, <1>13, <1>14 DEF Next

-----------------------------------------------------------------------------
\* What a text leaves behind: the mark on the row, the booking among those
\* the open round has told, or the note that the mark was taken back.
Marked ==
    /\ \A b \in Bookings, at \in Slots : <<b, at>> \in texted =>
            row[b] # NoRow /\ (row[b].reminded \/ b \in round.told \/ b \in reopened)
    /\ \A b \in InHand : ~row[b].reminded
    /\ ~round.open => round = NoRound
    /\ \A a, c \in round.rows : a.booking = c.booking => a = c

\* An appointment no move has crossed is as the round loaded it, and marked
\* only for a text of its time.
Steady ==
    \A b \in Bookings : row[b] # NoRow /\ b \notin crossed =>
        /\ row[b].reminded \/ b \in round.told => <<b, row[b].at>> \in texted
        /\ b \in InHand => [booking |-> b, at |-> row[b].at] \in round.rows

\* An appointment that is owed a text.
Waiting(b) ==
    /\ row[b] # NoRow /\ row[b].status = "confirmed" /\ b \notin crossed
    /\ steady[b] + Interval + WindowStart <= row[b].at /\ <<b, row[b].at>> \notin texted

\* The next round is in time for it, or the open one has it on its list.
Timely ==
    /\ clock <= due /\ due <= clock + Interval
    /\ \A a \in round.rows : clock + WindowStart <= a.at
    /\ \A b \in Bookings : Waiting(b) =>
            IF round.open
            THEN b \in round.left \/ clock + Interval + WindowStart <= row[b].at
            ELSE due + WindowStart <= row[b].at

Reminded == Sound /\ Marked /\ Steady /\ Timely

LEMMA RemindedInit == Init => Reminded
<1> SUFFICES ASSUME Init PROVE Reminded
    OBVIOUS
<1>1. Sound
    BY SoundInit
<1>2. Marked /\ Steady /\ Timely
    BY WindowAssumption DEF Init, Marked, Steady, Timely, Waiting, NoRound, InHand
<1> QED
    BY <1>1, <1>2 DEF Reminded

\* The facts about numbers the proofs use.
LEMMA Numbers ==
    ASSUME TypeOK
    PROVE  /\ WindowStart \in Nat /\ WindowEnd \in Nat /\ Interval \in Nat /\ Horizon \in Nat
           /\ WindowStart + Interval <= WindowEnd
           /\ clock \in Nat /\ due \in Nat
           /\ \A b \in Bookings : steady[b] \in Nat
           /\ \A b \in Bookings : row[b] # NoRow =>
                row[b] \in Rows /\ row[b].at \in Slots /\ row[b].at \in Nat
                /\ row[b].at <= Horizon /\ row[b].reminded \in BOOLEAN
           /\ \A at \in Slots : at \in Nat /\ at <= Horizon
<1>1. /\ WindowStart \in Nat /\ WindowEnd \in Nat /\ Interval \in Nat /\ Horizon \in Nat
      /\ WindowStart + Interval <= WindowEnd
    BY WindowAssumption
<1>2. \A at \in Slots : at \in Nat /\ at <= Horizon
    BY <1>1, SlotsAssumption
<1>3. \A b \in Bookings : row[b] # NoRow =>
            row[b] \in Rows /\ row[b].at \in Slots /\ row[b].reminded \in BOOLEAN
    BY DEF TypeOK, Rows
<1> QED
    BY <1>1, <1>2, <1>3 DEF TypeOK

\* A commit of one appointment: it sets no mark, and takes one back only with
\* the record of the texts or a note of it.  It leaves the time and what is
\* said of it, or sets a time no round has and no mark is for.
LEMMA RemindedByStore ==
    ASSUME Reminded, Sound', NEW b \in Bookings, NEW new \in Rows, Store(b, new),
           UNCHANGED <<clock, due, round>>, texted' \subseteq texted,
           \A c \in Bookings, at \in Slots :
                c # b /\ <<c, at>> \in texted => <<c, at>> \in texted',
           new.reminded => row[b] # NoRow /\ row[b].reminded,
           \A at \in Slots : <<b, at>> \in texted' /\ row[b].reminded /\ ~new.reminded
                => b \in reopened',
           \A c \in Bookings, at \in Slots :
                <<c, at>> \in texted' /\ c \in reopened => c \in reopened',
           \A c \in Bookings : c # b /\ c \notin crossed' => c \notin crossed,
           b \notin crossed' =>
                \/ /\ row[b] # NoRow /\ new.at = row[b].at /\ b \notin crossed
                   /\ <<b, new.at>> \in texted => <<b, new.at>> \in texted'
                \/ /\ row[b] = NoRow \/ new.at # row[b].at
                   /\ ~new.reminded /\ b \notin InHand
    PROVE  Reminded'
<1>0. TypeOK /\ TypeOK' /\ Found /\ Marked /\ Steady /\ Timely
    BY DEF Reminded, Sound, Typed
<1>1. /\ row'[b] = new /\ \A c \in Bookings : c # b => row'[c] = row[c] /\ steady'[c] = steady[c]
      /\ steady'[b] = IF row[b].status = new.status /\ row[b].at = new.at
                      THEN steady[b] ELSE clock
      /\ InHand' = InHand /\ new # NoRow /\ new.at \in Slots /\ new.reminded \in BOOLEAN
    BY <1>0, RowIsRow DEF Store, TypeOK, InHand, Rows
<1>2. b \in InHand => row[b] # NoRow
    BY <1>0 DEF Found, InHand
<1>3. Marked'
  <2>1. ASSUME NEW c \in Bookings, NEW at \in Slots, <<c, at>> \in texted'
        PROVE  row'[c] # NoRow /\ (row'[c].reminded \/ c \in round.told \/ c \in reopened')
    <3>1. /\ <<c, at>> \in texted /\ row[c] # NoRow
          /\ row[c].reminded \/ c \in round.told \/ c \in reopened
        BY <1>0, <2>1 DEF Marked
    <3>2. CASE c = b
        BY <1>1, <2>1, <3>1, <3>2
    <3>3. CASE c # b
        BY <1>1, <2>1, <3>1, <3>3
    <3> QED
        BY <3>2, <3>3
  <2>2. \A c \in InHand : ~row'[c].reminded
    BY <1>0, <1>1, <1>2 DEF Marked, InHand, TypeOK
  <2> QED
    BY <1>0, <1>1, <2>1, <2>2 DEF Marked
<1>4. round.told \subseteq InHand
    BY <1>0 DEF TypeOK
<1>5. ASSUME NEW c \in Bookings, row'[c] # NoRow, c \notin crossed'
      PROVE  /\ row'[c].reminded \/ c \in round'.told => <<c, row'[c].at>> \in texted'
             /\ c \in InHand' => [booking |-> c, at |-> row'[c].at] \in round'.rows
  <2>1. CASE c = b
    <3>1. CASE /\ row[b] # NoRow /\ new.at = row[b].at /\ b \notin crossed
               /\ <<b, new.at>> \in texted => <<b, new.at>> \in texted'
        BY <1>0, <1>1, <2>1, <3>1 DEF Steady
    <3>2. CASE ~new.reminded /\ b \notin InHand
        BY <1>1, <1>4, <2>1, <3>2
    <3> QED
        BY <1>5, <2>1, <3>1, <3>2
  <2>2. CASE c # b
    <3>1. row[c] # NoRow /\ row'[c] = row[c] /\ row[c].at \in Slots /\ c \notin crossed
        BY <1>0, <1>1, <1>5, <2>2, Numbers
    <3> QED
        BY <1>0, <1>1, <2>2, <3>1 DEF Steady
  <2> QED
    BY <2>1, <2>2
<1>6. ASSUME NEW c \in Bookings, Waiting(c)'
      PROVE  IF round'.open
             THEN c \in round'.left \/ clock' + Interval + WindowStart <= row'[c].at
             ELSE due' + WindowStart <= row'[c].at
  <2>1. new.at \in Nat
    BY <1>0, <1>1, Numbers
  <2>2. CASE c = b /\ steady'[b] = clock
    <3>1. clock + Interval + WindowStart <= new.at
        BY <1>1, <1>6, <2>2 DEF Waiting
    <3>2. due <= clock + Interval
        BY <1>0 DEF Timely
    <3>3. due + WindowStart <= new.at
        BY <1>0, <2>1, <3>1, <3>2, Numbers
    <3> QED
        BY <1>1, <2>2, <3>1, <3>3
  <2>3. CASE c = b /\ steady'[b] # clock
    <3>1. /\ row[b].status = new.status /\ row[b].at = new.at /\ steady'[b] = steady[b]
        BY <1>1, <2>3
    <3>2. row[b] # NoRow
        BY <3>1 DEF NoRow, Rows, Statuses
    <3>3. /\ b \notin crossed
          /\ <<b, new.at>> \in texted => <<b, new.at>> \in texted'
        BY <1>6, <2>3, <3>1, <3>2 DEF Waiting
    <3>4. Waiting(b)
        BY <1>1, <1>6, <2>3, <3>1, <3>2, <3>3 DEF Waiting
    <3> QED
        BY <1>0, <1>1, <2>3, <3>1, <3>4 DEF Timely
  <2>4. CASE c # b
    <3>1. Waiting(c)
        BY <1>0, <1>1, <1>6, <2>4, Numbers DEF Waiting
    <3> QED
        BY <1>0, <1>1, <2>4, <3>1 DEF Timely
  <2> QED
    BY <2>2, <2>3, <2>4
<1>7. Steady' /\ Timely'
    BY <1>0, <1>5, <1>6 DEF Steady, Timely
<1> QED
    BY <1>3, <1>7 DEF Reminded

\* A step that touches neither rows, rounds nor the clock.
LEMMA RemindedBySame ==
    ASSUME Reminded, Sound',
           UNCHANGED <<clock, due, row, round, texted, steady, reopened, crossed>>
    PROVE  Reminded'
<1>1. InHand' = InHand /\ \A b \in Bookings : Waiting(b)' <=> Waiting(b)
    BY DEF InHand, Waiting
<1>2. Marked' /\ Steady' /\ Timely'
    BY <1>1 DEF Reminded, Marked, Steady, Timely
<1> QED
    BY <1>2 DEF Reminded

\* A round takes those who wait and whose time has come within its window.
LEMMA RemindedByBegin ==
    ASSUME Reminded, Sound', RoundBegins
    PROVE  Reminded'
<1>0. TypeOK /\ Sound
    BY DEF Reminded, Sound, Typed
<1>1. /\ clock = due /\ ~round.open
      /\ round'.rows = {[booking |-> b, at |-> row[b].at] : b \in Due}
      /\ round'.left = Due /\ round'.told = {} /\ round'.open
      /\ UNCHANGED <<clock, due, row, texted, steady, reopened, crossed>>
    BY DEF RoundBegins
<1>2. round.told = {}
    BY <1>1 DEF Reminded, Marked, NoRound
<1>3. \A b \in InHand' : b \in Due
    BY <1>1 DEF InHand
<1>4. Marked'
  <2>1. \A a \in round'.rows : a.booking \in Due /\ a = [booking |-> a.booking, at |-> row[a.booking].at]
    BY <1>1
  <2>2. \A a, c \in round'.rows : a.booking = c.booking => a = c
    BY <2>1
  <2> QED
    BY <1>1, <1>2, <1>3, <2>2 DEF Reminded, Marked, Due
<1>5. Steady'
  <2>1. \A b \in Due : [booking |-> b, at |-> row[b].at] \in round'.rows
    BY <1>1
  <2> QED
    BY <1>1, <1>3, <2>1 DEF Reminded, Steady
<1>6. Timely'
  <2>1. \A a \in round'.rows : clock + WindowStart <= a.at
    BY <1>1 DEF Due
  <2>2. ASSUME NEW b \in Bookings, Waiting(b)
        PROVE  b \in Due \/ clock + Interval + WindowStart <= row[b].at
    <3>1. due + WindowStart <= row[b].at
        BY <1>1, <2>2 DEF Reminded, Timely
    <3>2. row[b].reminded = FALSE
        BY <1>0, <2>2, Numbers DEF Waiting, Reminded, Steady
    <3> QED
        BY <1>0, <1>1, <2>2, <3>1, <3>2, Numbers DEF Waiting, Due
  <2>3. \A b \in Bookings : Waiting(b)' <=> Waiting(b)
    BY <1>1 DEF Waiting
  <2> QED
    BY <1>1, <2>1, <2>2, <2>3 DEF Reminded, Timely
<1> QED
    BY <1>4, <1>5, <1>6 DEF Reminded

\* A text that leaves is noted; after one that does not, the appointment is
\* as good as new.
LEMMA RemindedByText ==
    ASSUME Reminded, Sound', NEW a \in round.rows, Remind(a)
    PROVE  Reminded'
<1> DEFINE b == a.booking
<1>0. TypeOK /\ Sound /\ Found
    BY DEF Reminded, Sound, Typed
<1>1. /\ b \in Bookings /\ a.at \in Slots /\ b \in InHand /\ row[b] # NoRow
      /\ a = [booking |-> b, at |-> a.at]
    BY <1>0 DEF TypeOK, InHand, Found
<1>2. /\ b \in round.left /\ b \notin round.told
      /\ round'.rows = round.rows /\ round'.left = round.left \ {b}
      /\ round'.open = round.open /\ InHand' = InHand
      /\ UNCHANGED <<clock, due, row, crossed>>
    BY <1>0 DEF Remind, TypeOK, InHand
<1>3. round.open
    BY <1>1 DEF Reminded, Marked, NoRound
<1>4. CASE /\ round'.told = round.told \cup {b} /\ texted' = texted \cup {<<b, a.at>>}
           /\ reopened' = reopened \ {b} /\ UNCHANGED steady
  <2>1. Marked'
    BY <1>1, <1>2, <1>3, <1>4 DEF Reminded, Marked
  <2>2. ASSUME b \notin crossed PROVE a.at = row[b].at
    <3> DEFINE c == [booking |-> b, at |-> row[b].at]
    <3>1. c \in round.rows /\ c.booking = a.booking /\ c.at = row[b].at
        BY <1>1, <2>2 DEF Reminded, Steady
    <3>2. c = a
        BY <3>1 DEF Reminded, Marked
    <3> QED
        BY <3>1, <3>2
  <2>3. Steady'
    BY <1>1, <1>2, <1>4, <2>2 DEF Reminded, Steady
  <2>4. \A c \in Bookings : Waiting(c)' => Waiting(c) /\ c # b
    <3>1. ASSUME Waiting(b)' PROVE FALSE
        BY <1>1, <1>2, <1>4, <2>2, <3>1 DEF Waiting
    <3> QED
        BY <1>2, <1>4, <3>1 DEF Waiting
  <2>5. Timely'
    BY <1>2, <1>3, <2>4 DEF Reminded, Timely
  <2> QED
    BY <2>1, <2>3, <2>5 DEF Reminded
<1>5. CASE /\ round'.told = round.told /\ UNCHANGED <<texted, reopened>>
           /\ steady' = [steady EXCEPT ![b] = clock]
  <2>1. Marked'
    BY <1>2, <1>3, <1>5 DEF Reminded, Marked
  <2>2. /\ \A c \in Bookings : c # b => steady'[c] = steady[c]
        /\ steady'[b] = clock
    BY <1>0, <1>1, <1>5 DEF TypeOK
  <2>3. Steady'
    BY <1>2, <1>5 DEF Reminded, Steady
  <2>4. Waiting(b)' => clock + Interval + WindowStart <= row[b].at
    BY <1>2, <2>2 DEF Waiting
  <2>5. \A c \in Bookings : c # b /\ Waiting(c)' => Waiting(c)
    BY <1>2, <1>5, <2>2 DEF Waiting
  <2>6. Timely'
    BY <1>2, <1>3, <2>4, <2>5 DEF Reminded, Timely
  <2> QED
    BY <2>1, <2>3, <2>6 DEF Reminded
<1> QED
  <2>1. /\ round.told \cup {b} \in SUBSET Bookings /\ round.told \in SUBSET Bookings
    BY <1>0, <1>1 DEF TypeOK
  <2> QED
    BY <1>0, <1>4, <1>5, <2>1 DEF Remind, TypeOK

LEMMA RemindedByEnd ==
    ASSUME Reminded, Sound', RoundEnds
    PROVE  Reminded'
<1>0. TypeOK /\ TypeOK' /\ Sound /\ Found
    BY DEF Reminded, Sound, Typed
<1>1. /\ round.open /\ round.left = {} /\ round' = NoRound /\ due' = clock + Interval
      /\ UNCHANGED <<clock, texted, steady, reopened, crossed>>
    BY DEF RoundEnds
<1>2. round.told \subseteq InHand /\ \A b \in InHand : row[b] # NoRow
    BY <1>0 DEF TypeOK, InHand, Found
<1>3. \A b \in Bookings :
        /\ b \in round.told => /\ row'[b] = [row[b] EXCEPT !.reminded = TRUE]
                               /\ row[b] \in Rows /\ row'[b] \in Rows
                               /\ row'[b].reminded /\ row'[b].at = row[b].at
                               /\ row'[b].status = row[b].status /\ row'[b] # NoRow
        /\ b \notin round.told => row'[b] = row[b]
  <2>1. \A b \in Bookings :
            row'[b] = IF b \in round.told THEN [row[b] EXCEPT !.reminded = TRUE] ELSE row[b]
    BY DEF RoundEnds
  <2>2. \A b \in Bookings : b \in round.told => row[b] \in Rows
    BY <1>0, <1>2 DEF TypeOK
  <2> QED
    BY <2>1, <2>2, RowIsRow DEF Rows
<1>4. round'.rows = {} /\ round'.told = {} /\ InHand' = {} /\ ~round'.open
    BY <1>1 DEF NoRound, InHand
<1>5. Marked'
    BY <1>1, <1>2, <1>3, <1>4 DEF Reminded, Marked
<1>6. Steady'
    BY <1>1, <1>2, <1>3, <1>4 DEF Reminded, Steady
<1>7. ASSUME NEW b \in Bookings, Waiting(b)'
      PROVE  due' + WindowStart <= row'[b].at
  <2>1. Waiting(b)
    BY <1>1, <1>2, <1>3, <1>7 DEF Waiting
  <2>2. clock + Interval + WindowStart <= row[b].at /\ row'[b].at = row[b].at
    BY <1>1, <1>3, <2>1 DEF Reminded, Timely, Waiting
  <2> QED
    BY <1>1, <2>2
<1>8. Timely'
    BY <1>0, <1>1, <1>4, <1>7, Numbers DEF Timely
<1> QED
    BY <1>5, <1>6, <1>8 DEF Reminded

\* A round that is rolled back leaves a note of the marks it had for its texts.
LEMMA RemindedByRollback ==
    ASSUME Reminded, Sound', round' = NoRound, due' = clock + Interval, RolledBack,
           UNCHANGED <<clock, row>>
    PROVE  Reminded'
<1>0. TypeOK /\ TypeOK' /\ Sound /\ Found
    BY DEF Reminded, Sound, Typed
<1>1. round'.rows = {} /\ round'.told = {} /\ InHand' = {} /\ ~round'.open
    BY DEF NoRound, InHand
<1>2. /\ reopened' = reopened \cup round.told /\ UNCHANGED <<texted, crossed>>
      /\ \A b \in Bookings : steady'[b] = clock
    BY DEF RolledBack
<1>3. Marked'
    BY <1>1, <1>2 DEF Reminded, Marked
<1>4. Steady'
    BY <1>1, <1>2 DEF Reminded, Steady
<1>5. ASSUME NEW b \in Bookings, Waiting(b)'
      PROVE  due' + WindowStart <= row'[b].at
    BY <1>2, <1>5 DEF Waiting
<1>6. Timely'
    BY <1>0, <1>1, <1>5, Numbers DEF Timely
<1> QED
    BY <1>3, <1>4, <1>6 DEF Reminded

LEMMA RemindedStep == Reminded /\ [Next]_vars => Reminded'
<1> SUFFICES ASSUME Reminded, [Next]_vars PROVE Reminded'
    OBVIOUS
<1>0. Sound' /\ TypeOK /\ Found /\ BookedOnce /\ Marked
    BY SoundStep DEF Reminded, Sound, Typed
<1>1. CASE UNCHANGED vars
    BY <1>0, <1>1, RemindedBySame DEF vars
<1>2. ASSUME NEW b \in Bookings, ChangeOutside(b) PROVE Reminded'
    BY <1>0, <1>2, RemindedBySame DEF ChangeOutside
<1>3. ASSUME NEW r \in Requests, NEW b \in Bookings, NEW at \in Slots, Book(r, b, at)
      PROVE Reminded'
    BY <1>0, <1>3, RemindedBySame DEF Book
<1>4. ASSUME NEW r \in Requests, NEW e \in mail, Arrives(r, e) PROVE Reminded'
    BY <1>0, <1>4, RemindedBySame DEF Arrives
<1>5. ASSUME NEW r \in Requests, NEW b \in Bookings, NEW s \in Statuses, PatchLoads(r, b, s)
      PROVE Reminded'
    BY <1>0, <1>5, RemindedBySame DEF PatchLoads
<1>6. ASSUME NEW r \in Requests, PatchCancels(r) \/ RequestFails(r) PROVE Reminded'
    BY <1>0, <1>6, RemindedBySame DEF PatchCancels, RequestFails
<1>7. ASSUME NEW r \in Requests, TurnCommits(r) PROVE Reminded'
  <2>1. request[r] \in Turns
    BY <1>0, <1>7, WorkKinds DEF TurnCommits
  <2> DEFINE b == request[r].booking
             new == [status |-> "confirmed", at |-> request[r].at, reminded |-> FALSE]
  <2>2. b \in Bookings /\ new \in Rows /\ row[b] = NoRow /\ ~new.reminded
    BY <1>0, <2>1 DEF Turns, Rows, Statuses, BookedOnce
  <2>3. /\ Store(b, new)
        /\ UNCHANGED <<clock, due, round, texted, reopened, crossed>>
    BY <1>7 DEF TurnCommits
  <2>4. b \notin InHand /\ \A at \in Slots : <<b, at>> \notin texted
    BY <1>0, <2>2 DEF Found, InHand, Marked
  <2> HIDE DEF b, new
  <2> QED
    BY <1>0, <2>2, <2>3, <2>4, RemindedByStore
<1>8. ASSUME NEW r \in Requests, HookCommits(r) PROVE Reminded'
  <2>1. request[r] \in Hooks
    BY <1>0, <1>8, WorkKinds DEF HookCommits
  <2> DEFINE e == request[r].event
             b == e.booking
             old == request[r].loaded
             wanted == Reconciled(e, old)
             new == Merge(row[b], old, wanted)
  <2>2. e \in Events /\ b \in Bookings /\ old \in Rows /\ row[b] \in Rows
        /\ row[b] # NoRow
    BY <1>0, <2>1 DEF Hooks, Events, Found, TypeOK
  <2>3. new \in Rows /\ new.reminded = Changed(row[b].reminded, old.reminded, wanted.reminded)
    BY <2>2, MergeType, ReconciledType
  <2>4. /\ Store(b, new) /\ UNCHANGED <<clock, due, round>> /\ Noted(e, row[b], new)
    BY <1>8 DEF HookCommits
  <2>5. /\ new.reminded => row[b].reminded
        /\ e.kind # "moved" => new.reminded = row[b].reminded
        /\ new.reminded \in BOOLEAN /\ row[b].reminded \in BOOLEAN
    BY <2>2, <2>3, ReconciledType DEF Changed, Rows
  <2> HIDE DEF new, wanted, old
  <2>6. CASE new.at # row[b].at
    <3>1. /\ texted' = {t \in texted : t[1] # b} /\ reopened' = reopened \ {b}
          /\ crossed' = IF new.reminded \/ b \in InHand
                        THEN crossed \cup {b} ELSE crossed \ {b}
        BY <2>4, <2>6 DEF Noted
    <3>2. /\ texted' \subseteq texted
          /\ \A c \in Bookings, at \in Slots :
                c # b /\ <<c, at>> \in texted => <<c, at>> \in texted'
          /\ \A at \in Slots : <<b, at>> \notin texted'
        BY <3>1
    <3>3. \A c \in Bookings, at \in Slots :
                <<c, at>> \in texted' /\ c \in reopened => c \in reopened'
        BY <3>1, <3>2
    <3>4. /\ \A c \in Bookings : c # b /\ c \notin crossed' => c \notin crossed
          /\ b \notin crossed' => ~new.reminded /\ b \notin InHand
        BY <3>1
    <3> HIDE DEF b, e
    <3> QED
        BY <1>0, <2>2, <2>3, <2>4, <2>5, <2>6, <3>2, <3>3, <3>4, RemindedByStore
  <2>7. CASE new.at = row[b].at
    <3>1. /\ UNCHANGED <<texted, crossed>> /\ reopened \subseteq reopened'
          /\ row[b].reminded /\ ~new.reminded => b \in reopened'
        BY <2>4, <2>5, <2>7 DEF Noted
    <3> HIDE DEF b, e
    <3> QED
        BY <1>0, <2>2, <2>3, <2>4, <2>5, <2>7, <3>1, RemindedByStore
  <2> QED
    BY <2>6, <2>7
<1>9. ASSUME NEW r \in Requests, PatchCommits(r) PROVE Reminded'
  <2>1. request[r] \in Patches
    BY <1>0, <1>9, WorkKinds DEF PatchCommits
  <2> DEFINE b == request[r].booking
             old == request[r].loaded
             wanted == [old EXCEPT !.status = request[r].to]
             new == Merge(row[b], old, wanted)
  <2>2. /\ b \in Bookings /\ old \in Rows /\ row[b] \in Rows /\ row[b] # NoRow
        /\ wanted \in Rows /\ wanted.reminded = old.reminded /\ wanted.at = old.at
    BY <1>0, <2>1 DEF Patches, Found, TypeOK, Rows
  <2>3. new \in Rows /\ new.reminded = row[b].reminded /\ new.at = row[b].at
    <3>1. new \in Rows
        BY <2>2, MergeType
    <3>2. /\ new.reminded = Changed(row[b].reminded, old.reminded, wanted.reminded)
          /\ new.at = Changed(row[b].at, old.at, wanted.at)
        BY DEF Merge
    <3> QED
        BY <2>2, <3>1, <3>2 DEF Changed
  <2>4. UNCHANGED <<clock, due, round, texted, reopened, crossed>>
    BY <1>9 DEF PatchCommits
  <2>5. Store(b, new)
    BY <1>9 DEF PatchCommits
  <2> HIDE DEF b, old, wanted, new
  <2> QED
    BY <1>0, <2>2, <2>3, <2>4, <2>5, RemindedByStore
<1>10. CASE RoundBegins
    BY <1>0, <1>10, RemindedByBegin
<1>11. ASSUME NEW a \in round.rows, Remind(a) PROVE Reminded'
    BY <1>0, <1>11, RemindedByText
<1>12. CASE RoundEnds
    BY <1>0, <1>12, RemindedByEnd
<1>13. CASE RoundFails \/ Restart
    BY <1>0, <1>13, RemindedByRollback DEF RoundFails, Restart
<1>14. CASE Tick
  <2>1. /\ clock' = clock + 1 /\ clock # due /\ ~round.open
        /\ UNCHANGED <<due, row, round, texted, steady, reopened, crossed>>
    BY <1>14 DEF Tick
  <2>2. round.rows = {} /\ InHand' = InHand /\ \A b \in Bookings : Waiting(b)' <=> Waiting(b)
    BY <2>1 DEF Reminded, Marked, NoRound, InHand, Waiting
  <2>3. Marked' /\ Steady'
    BY <2>1, <2>2 DEF Reminded, Marked, Steady
  <2>4. Timely'
    BY <1>0, <2>1, <2>2, Numbers DEF Reminded, Timely
  <2> QED
    BY <1>0, <2>3, <2>4 DEF Reminded
<1> QED
    BY <1>1, <1>2, <1>3, <1>4, <1>5, <1>6, <1>7, <1>8, <1>9, <1>10, <1>11, <1>12, <1>13,
       <1>14 DEF Next

\* The inductive invariant of the reminders.
THEOREM AlwaysReminded == Spec => []Reminded
    BY RemindedInit, RemindedStep, PTL DEF Spec

-----------------------------------------------------------------------------
\* However rounds, webhooks and dashboard changes overlap and repeat, a second
\* text of a time was opened by a repeated reschedule or by a round that was
\* rolled back (booking_agent.py:173-184, webhooks.py:210-213).
THEOREM RepeatsWereReopened == Spec => RepeatedOnlyIfReopened
<1>1. Reminded /\ [Next]_vars =>
        [\A a \in round.rows :
            a.booking \in round'.told \ round.told /\ <<a.booking, a.at>> \in texted
                => a.booking \in reopened]_vars
  <2> SUFFICES ASSUME Reminded, [Next]_vars, NEW a \in round.rows,
                      a.booking \in round'.told \ round.told, <<a.booking, a.at>> \in texted
               PROVE  a.booking \in reopened
    OBVIOUS
  <2>1. TypeOK /\ Marked
    BY DEF Reminded, Sound, Typed
  <2>2. a.booking \in InHand /\ a.booking \in Bookings /\ a.at \in Slots
    BY <2>1 DEF TypeOK, InHand
  <2> QED
    BY <2>1, <2>2 DEF Marked
<1> QED
    BY <1>1, AlwaysReminded, PTL DEF Spec, RepeatedOnlyIfReopened

\* Who has stood for a pause of the loop when the window ends, and was not
\* moved under a round or a mark, has the text by then (booking_agent.py:159,
\* main.py:39).
THEOREM RemindedUnlessCrossedAlways == Spec => []RemindedUnlessCrossed
<1>1. Reminded => RemindedUnlessCrossed
  <2> SUFFICES ASSUME Reminded, NEW b \in Bookings, row[b] # NoRow,
                      row[b].status = "confirmed", b \notin crossed,
                      clock + WindowStart > row[b].at,
                      steady[b] + Interval + WindowStart <= row[b].at,
                      <<b, row[b].at>> \notin texted
               PROVE  FALSE
    BY DEF RemindedUnlessCrossed
  <2>1. TypeOK /\ Timely /\ Steady
    BY DEF Reminded, Sound, Typed
  <2>2. Waiting(b)
    BY <2>1 DEF Waiting
  <2>3. CASE ~round.open
    BY <2>1, <2>2, <2>3, Numbers DEF Timely
  <2>4. CASE round.open /\ clock + Interval + WindowStart <= row[b].at
    BY <2>1, <2>4, Numbers
  <2>5. CASE b \in round.left
    <3>1. [booking |-> b, at |-> row[b].at] \in round.rows
        BY <2>1, <2>2, <2>5 DEF Steady, TypeOK
    <3>2. clock + WindowStart <= row[b].at
        BY <2>1, <3>1 DEF Timely
    <3> QED
        BY <2>1, <3>2, Numbers
  <2> QED
    BY <2>1, <2>2, <2>3, <2>4, <2>5 DEF Timely
<1> QED
    BY <1>1, AlwaysReminded, PTL

-----------------------------------------------------------------------------
\* What Cal.com has told of a booking: one event for each change, the last
\* one as the calendar is.  A cancellation is the last, and of the time the
\* change before it set.
EventsOf(b) == {e \in mail : e.booking = b}

Told(b) ==
    /\ \A e \in EventsOf(b) :
        /\ e.change <= calendar[b].change
        /\ e.kind = "created" <=> e.change = 1
        /\ e.kind = "cancelled" =>
            /\ e.change = calendar[b].change
            /\ \E f \in EventsOf(b) : f.change + 1 = e.change /\ f.at = e.at
    /\ \A e, f \in EventsOf(b) : e.change = f.change => e = f
    /\ calendar[b] # NoBooking =>
        \E e \in EventsOf(b) :
            /\ e.change = calendar[b].change /\ e.at = calendar[b].at
            /\ e.kind = "cancelled" <=> ~calendar[b].live

\* What has arrived was sent; before there is a row, the turn that booked
\* has the time of the first event, and only that event was of no use.
Heard(b) ==
    /\ \A n \in handled[b] : \E e \in EventsOf(b) : e.change = n
    /\ \A r \in Requests : request[r].kind = "turn" /\ request[r].booking = b =>
            \A e \in EventsOf(b) : e.change = 1 => e.at = request[r].at
    /\ row[b] = NoRow /\ b \notin doubt => handled[b] \subseteq {1}

\* While nothing puts a booking in doubt, the handlers that have an event of
\* it have the same one, the last to arrive, and what they would not write,
\* because the row they loaded has it, the row still has.
Carries(r, b) == request[r].kind = "hook" /\ request[r].event.booking = b
Carried(b, kind) == \E r \in Requests : Carries(r, b) /\ request[r].event.kind = kind

HooksAgree(b) ==
    \A r \in Requests : Carries(r, b) =>
        LET e == request[r].event
        IN /\ e \in mail /\ e.change \in handled[b]
           /\ \A n \in handled[b] : n <= e.change
           /\ \A q \in Requests : Carries(q, b) => request[q].event = e
           /\ e.kind = "cancelled" /\ request[r].loaded.status = "cancelled" =>
                row[b].status = "cancelled"
           /\ e.kind = "moved" /\ request[r].loaded.at = e.at => row[b].at = e.at

\* The row is cancelled once the cancellation was handled, and not before.
StatusAgrees(b) ==
    row[b] # NoRow =>
        /\ calendar[b].live => row[b].status # "cancelled"
        /\ \A e \in EventsOf(b) :
            e.kind = "cancelled" /\ e.change \in handled[b] /\ ~Carried(b, "cancelled") =>
                row[b].status = "cancelled"

\* Unless an event was overtaken, the row is at the time of the last one.
Overtaken(b) ==
    \E e \in EventsOf(b) : e.change \notin handled[b] /\ \E n \in handled[b] : n > e.change
TimeAgrees(b) ==
    row[b] # NoRow /\ ~Overtaken(b) /\ ~Carried(b, "moved") =>
        \A e \in EventsOf(b) :
            /\ e.change \in handled[b] \/ e.change = 1
            /\ \A n \in handled[b] : n <= e.change
            => row[b].at = e.at

Follows(b) == HooksAgree(b) /\ StatusAgrees(b) /\ TimeAgrees(b)
Follow == \A b \in Bookings : b \notin doubt => Follows(b)
Telling == \A b \in Bookings : Told(b) /\ Heard(b)
Stepping == Sound /\ Telling /\ Follow

\* Changes are numbers, and a row has a booking.
LEMMA Changes ==
    ASSUME Sound
    PROVE  /\ TypeOK /\ Found /\ BookedOnce
           /\ \A e \in mail : /\ e \in Events /\ e.booking \in Bookings /\ e.at \in Slots
                              /\ e.change \in Nat /\ 1 <= e.change
                              /\ e.kind \in {"created", "moved", "cancelled"}
           /\ \A b \in Bookings : \A n \in handled[b] : n \in Nat /\ 1 <= n
           /\ \A b \in Bookings :
                /\ calendar[b].change \in Nat
                /\ calendar[b] = NoBooking => calendar[b].change = 0
                /\ calendar[b] # NoBooking =>
                    /\ calendar[b] \in Bookeds /\ 1 <= calendar[b].change
                    /\ calendar[b].live \in BOOLEAN /\ calendar[b].at \in Slots
                /\ row[b] # NoRow => calendar[b] # NoBooking /\ row[b] \in Rows
           /\ \A r \in Requests : request[r].kind = "hook" =>
                /\ request[r] \in Hooks /\ request[r].event.booking \in Bookings
                /\ row[request[r].event.booking] # NoRow
<1>1. TypeOK /\ Found /\ BookedOnce
    BY DEF Sound, Typed
<1>2. MaxChanges \in Nat
    BY WindowAssumption
<1>3. \A e \in mail : /\ e \in Events /\ e.booking \in Bookings /\ e.at \in Slots
                      /\ e.change \in Nat /\ 1 <= e.change
                      /\ e.kind \in {"created", "moved", "cancelled"}
    BY <1>1, <1>2 DEF TypeOK, Events
<1>4. \A b \in Bookings : \A n \in handled[b] : n \in Nat /\ 1 <= n
    BY <1>1, <1>2 DEF TypeOK
<1>5. \A b \in Bookings :
        /\ calendar[b].change \in Nat
        /\ calendar[b] = NoBooking => calendar[b].change = 0
        /\ calendar[b] # NoBooking =>
            /\ calendar[b] \in Bookeds /\ 1 <= calendar[b].change
            /\ calendar[b].live \in BOOLEAN /\ calendar[b].at \in Slots
    BY <1>1, <1>2 DEF TypeOK, Bookeds, NoBooking
<1>6. \A b \in Bookings : row[b] # NoRow => calendar[b] # NoBooking /\ row[b] \in Rows
    BY <1>1 DEF BookedOnce, TypeOK
<1>7. \A r \in Requests : request[r].kind = "hook" =>
        /\ request[r] \in Hooks /\ request[r].event.booking \in Bookings
        /\ row[request[r].event.booking] # NoRow
    BY <1>1, WorkKinds DEF Found, Hooks, Events
<1> QED
    BY <1>1, <1>3, <1>4, <1>5, <1>6, <1>7

LEMMA SteppingInit == Init => Stepping
<1> SUFFICES ASSUME Init PROVE Stepping
    OBVIOUS
<1>1. /\ mail = {} /\ \A r \in Requests : request[r].kind = "idle"
      /\ \A b \in Bookings : calendar[b] = NoBooking /\ row[b] = NoRow /\ handled[b] = {}
    BY DEF Init, Idle
<1>2. Sound
    BY SoundInit
<1>3. Telling /\ Follow
    BY <1>1 DEF Telling, Told, Heard, EventsOf, Follow, Follows, HooksAgree, Carries,
                StatusAgrees, TimeAgrees
<1> QED
    BY <1>2, <1>3 DEF Stepping

\* A booking whose row, handlers and arrived events a step leaves as they are
\* goes on agreeing; that Cal.com has another change does not matter yet.
LEMMA FollowsOn ==
    ASSUME Stepping, NEW b \in Bookings, b \notin doubt,
           row[b] # NoRow <=> row'[b] # NoRow,
           row[b] # NoRow => row'[b].status = row[b].status /\ row'[b].at = row[b].at,
           row[b] # NoRow /\ calendar'[b].live => calendar[b].live,
           handled'[b] = handled[b],
           EventsOf(b) \subseteq EventsOf(b)',
           row[b] # NoRow => \A e \in EventsOf(b)' \ EventsOf(b) :
                e.change \notin handled[b] /\ e.change # 1,
           \A r \in Requests : Carries(r, b)' <=> Carries(r, b),
           \A r \in Requests : Carries(r, b) =>
                request'[r].event = request[r].event /\ request'[r].loaded = request[r].loaded
    PROVE  Follows(b)'
<1>1. Follows(b) /\ \A r \in Requests : Carries(r, b) => row[b] # NoRow
    BY Changes DEF Stepping, Follow, Carries
<1>2. \A kind \in {"moved", "cancelled"} : Carried(b, kind)' <=> Carried(b, kind)
    BY DEF Carried
<1>3. \A r \in Requests : Carries(r, b) => request[r].event \in mail'
    BY <1>1 DEF Follows, HooksAgree, EventsOf, Carries
<1>4. HooksAgree(b)'
    BY <1>1, <1>3 DEF Follows, HooksAgree
<1>5. StatusAgrees(b)'
    BY <1>1, <1>2 DEF Follows, StatusAgrees
<1>6. Overtaken(b) => Overtaken(b)'
    BY DEF Overtaken
<1>7. TimeAgrees(b)'
    BY <1>1, <1>2, <1>6 DEF Follows, TimeAgrees
<1> QED
    BY <1>4, <1>5, <1>7 DEF Follows

\* A step that writes no time or status, has Cal.com do nothing and takes no
\* event: a handler that gives up leaves doubt.
LEMMA SteppingOn ==
    ASSUME Stepping, Sound', UNCHANGED <<calendar, mail, handled>>, doubt \subseteq doubt',
           \A b \in Bookings :
                /\ row[b] # NoRow <=> row'[b] # NoRow
                /\ row[b] # NoRow => row'[b].status = row[b].status /\ row'[b].at = row[b].at,
           \A r \in Requests :
                \/ request'[r] = request[r]
                \/ /\ request'[r].kind \notin {"hook", "turn"}
                   /\ request[r].kind = "hook" => request[r].event.booking \in doubt'
    PROVE  Stepping'
<1>1. \A b \in Bookings : EventsOf(b)' = EventsOf(b)
    BY DEF EventsOf
<1>2. ASSUME NEW b \in Bookings PROVE Told(b)' /\ Heard(b)'
  <2>1. Told(b) /\ Heard(b)
    BY DEF Stepping, Telling
  <2>2. Told(b)'
    BY <1>1, <2>1 DEF Told
  <2>3. \A r \in Requests : request'[r].kind = "turn" => request'[r] = request[r]
    OBVIOUS
  <2>4. row'[b] = NoRow /\ b \notin doubt' => handled'[b] \subseteq {1}
    BY <2>1 DEF Heard
  <2>5. \A r \in Requests : request'[r].kind = "turn" /\ request'[r].booking = b =>
            \A e \in EventsOf(b)' : e.change = 1 => e.at = request'[r].at
    BY <1>1, <2>1, <2>3 DEF Heard
  <2>6. \A n \in handled'[b] : \E e \in EventsOf(b)' : e.change = n
    BY <1>1, <2>1 DEF Heard
  <2> QED
    BY <2>2, <2>4, <2>5, <2>6 DEF Heard
<1>3. ASSUME NEW b \in Bookings, b \notin doubt' PROVE Follows(b)'
  <2>1. \A r \in Requests : Carries(r, b)' \/ Carries(r, b) => request'[r] = request[r]
    BY <1>3 DEF Carries
  <2>2. \A r \in Requests : Carries(r, b)' <=> Carries(r, b)
    BY <2>1 DEF Carries
  <2> QED
    BY <1>1, <1>3, <2>1, <2>2, FollowsOn
<1> QED
    BY <1>2, <1>3 DEF Stepping, Telling, Follow

\* A change Cal.com takes: the booking of a turn, a move, or a cancellation
\* of what stands.
TakenChange(b, kind, at, live) ==
    /\ Change(b, kind, at, live)
    /\ \/ kind = "created" /\ calendar[b] = NoBooking /\ live
       \/ kind = "moved" /\ Stands(b) /\ live
       \/ kind = "cancelled" /\ Stands(b) /\ ~live /\ at = calendar[b].at

\* It is one more event, with the next number.
LEMMA ChangeEffect ==
    ASSUME Stepping, NEW b \in Bookings, NEW at \in Slots, NEW live \in BOOLEAN,
           NEW kind \in {"created", "moved", "cancelled"}, TakenChange(b, kind, at, live)
    PROVE  LET n == calendar[b].change + 1
               x == [booking |-> b, kind |-> kind, at |-> at, change |-> n]
           IN /\ EventsOf(b)' = EventsOf(b) \cup {x}
              /\ \A e \in EventsOf(b) : e.change < n /\ e.kind # "cancelled"
              /\ calendar'[b].at = at /\ calendar'[b].live = live /\ calendar'[b].change = n
              /\ n = 1 <=> kind = "created"
              /\ \A c \in Bookings : c # b => calendar'[c] = calendar[c] /\ EventsOf(c)' = EventsOf(c)
<1> DEFINE n == calendar[b].change + 1
           x == [booking |-> b, kind |-> kind, at |-> at, change |-> n]
<1>1. /\ calendar' = [calendar EXCEPT ![b] = [at |-> at, live |-> live, change |-> n]]
      /\ mail' = mail \cup {x} /\ x.booking = b
    BY DEF TakenChange, Change
<1>2. EventsOf(b)' = EventsOf(b) \cup {x}
    BY <1>1 DEF EventsOf
<1>3. \A c \in Bookings : c # b => EventsOf(c)' = EventsOf(c)
    BY <1>1 DEF EventsOf
<1>4. /\ Told(b) /\ calendar[b].change \in Nat
      /\ \A e \in EventsOf(b) : e.change \in Nat /\ 1 <= e.change
      /\ calendar \in [Bookings -> Bookeds \cup {NoBooking}]
      /\ calendar[b] = NoBooking => calendar[b].change = 0
      /\ calendar[b] # NoBooking => 1 <= calendar[b].change
    BY Changes DEF Stepping, Telling, EventsOf, TypeOK
<1>5. \A e \in EventsOf(b) : e.change < n
    BY <1>4 DEF Told
<1>6. n = 1 <=> kind = "created"
    BY <1>4 DEF TakenChange, Stands
<1>7. ASSUME NEW e \in EventsOf(b), e.kind = "cancelled" PROVE FALSE
  <2>1. e.change = calendar[b].change
    BY <1>4, <1>7 DEF Told
  <2>2. calendar[b] # NoBooking /\ calendar[b].live
    BY <1>4, <2>1 DEF TakenChange, Stands
  <2> QED
    BY <1>4, <1>7, <2>1, <2>2 DEF Told
<1>8. /\ calendar'[b] = [at |-> at, live |-> live, change |-> n]
      /\ \A c \in Bookings : c # b => calendar'[c] = calendar[c]
    BY <1>1, <1>4
<1> QED
    BY <1>2, <1>3, <1>5, <1>6, <1>7, <1>8

LEMMA SteppingByChange ==
    ASSUME Stepping, Sound', NEW b \in Bookings, NEW at \in Slots, NEW live \in BOOLEAN,
           NEW kind \in {"created", "moved", "cancelled"}, TakenChange(b, kind, at, live),
           UNCHANGED <<row, handled, doubt>>,
           \A r \in Requests :
                \/ request'[r] = request[r]
                \/ request[r].kind = "patch" /\ request'[r].kind = "patch"
                \/ /\ request[r] = Idle /\ request'[r].kind = "turn"
                   /\ kind = "created" /\ request'[r].booking = b /\ request'[r].at = at
    PROVE  Stepping'
<1>0. Sound
    BY DEF Stepping
<1> DEFINE n == calendar[b].change + 1
           x == [booking |-> b, kind |-> kind, at |-> at, change |-> n]
<1>1. /\ EventsOf(b)' = EventsOf(b) \cup {x}
      /\ \A e \in EventsOf(b) : e.change < n /\ e.kind # "cancelled"
      /\ calendar'[b].at = at /\ calendar'[b].live = live /\ calendar'[b].change = n
      /\ n = 1 <=> kind = "created"
      /\ \A c \in Bookings : c # b => calendar'[c] = calendar[c] /\ EventsOf(c)' = EventsOf(c)
    BY ChangeEffect
<1>2. /\ x.kind = kind /\ x.change = n /\ x.at = at
      /\ calendar[b].change \in Nat /\ \A e \in EventsOf(b) : e.change \in Nat
      /\ \A m \in handled[b] : m \in Nat
    BY <1>0, Changes DEF EventsOf
<1> HIDE DEF n, x
<1>3. \A c \in Bookings : Told(c) /\ Heard(c)
    BY DEF Stepping, Telling
<1>4. Told(b)'
  <2>1. kind = "cancelled" => \E f \in EventsOf(b) : f.change + 1 = n /\ f.at = at
    <3>1. kind = "cancelled" => calendar[b] # NoBooking /\ at = calendar[b].at
        BY DEF TakenChange, Stands
    <3> QED
        BY <1>3, <3>1 DEF Told, n
  <2>2. \A e \in EventsOf(b)' :
            /\ e.change <= calendar'[b].change
            /\ e.kind = "created" <=> e.change = 1
            /\ e.kind = "cancelled" =>
                /\ e.change = calendar'[b].change
                /\ \E f \in EventsOf(b)' : f.change + 1 = e.change /\ f.at = e.at
    BY <1>1, <1>2, <1>3, <2>1 DEF Told, n
  <2>3. \A e, f \in EventsOf(b)' : e.change = f.change => e = f
    BY <1>1, <1>2, <1>3 DEF Told, n
  <2>4. x \in EventsOf(b)' /\ (kind = "cancelled" <=> ~live)
    BY <1>1 DEF TakenChange
  <2> QED
    BY <1>1, <1>2, <2>2, <2>3, <2>4 DEF Told
<1>5. Heard(b)'
  <2>1. \A m \in handled'[b] : \E e \in EventsOf(b)' : e.change = m
    BY <1>1, <1>3 DEF Heard
  <2>2. ASSUME NEW r \in Requests, request'[r].kind = "turn", request'[r].booking = b,
               NEW e \in EventsOf(b)', e.change = 1
        PROVE  e.at = request'[r].at
    <3>1. CASE request'[r] = request[r]
      <4>1. request[r] \in Turns
        BY <1>0, <2>2, <3>1, WorkKinds, Changes
      <4>2. calendar[b] # NoBooking
        BY <1>0, <2>2, <3>1, <4>1, Changes DEF BookedOnce
      <4>3. e \in EventsOf(b)
        BY <1>1, <1>2, <2>2, <4>2 DEF TakenChange
      <4> QED
        BY <1>3, <2>2, <3>1, <4>3 DEF Heard
    <3>2. CASE kind = "created" /\ request'[r].at = at
      <4>1. e = x
        BY <1>0, <1>1, <1>2, <2>2, <3>2, Changes DEF EventsOf
      <4> QED
        BY <1>2, <3>2, <4>1
    <3> QED
        BY <2>2, <3>1, <3>2
  <2> QED
    BY <1>3, <2>1, <2>2 DEF Heard
<1>6. ASSUME NEW c \in Bookings, c # b PROVE Told(c)' /\ Heard(c)'
  <2>1. \A r \in Requests : request'[r].kind = "turn" /\ request'[r].booking = c =>
            request'[r] = request[r]
    BY <1>6
  <2>2. Told(c)'
    BY <1>1, <1>3, <1>6 DEF Told
  <2>3. Heard(c)'
    BY <1>1, <1>3, <1>6, <2>1 DEF Heard
  <2> QED
    BY <2>2, <2>3
<1>7. ASSUME NEW c \in Bookings, c \notin doubt' PROVE Follows(c)'
  <2>1. \A r \in Requests : request'[r].kind = "hook" \/ request[r].kind = "hook" =>
            request'[r] = request[r]
    BY DEF Idle
  <2>2. \A r \in Requests : Carries(r, c)' <=> Carries(r, c)
    BY <2>1 DEF Carries
  <2>3. \A r \in Requests : Carries(r, c) =>
            request'[r].event = request[r].event /\ request'[r].loaded = request[r].loaded
    BY <2>1 DEF Carries
  <2>4. CASE c # b
    BY <1>1, <1>7, <2>2, <2>3, <2>4, FollowsOn
  <2>5. CASE c = b
    <3>1. \A m \in handled[b] : m < n
        BY <1>1, <1>3 DEF Heard
    <3>2. \A e \in EventsOf(b)' \ EventsOf(b) : e.change \notin handled[b]
        BY <1>1, <1>2, <3>1 DEF n
    <3>3. row[b] # NoRow => calendar[b] # NoBooking
        BY <1>0, Changes
    <3>4. row[b] # NoRow => kind # "created" /\ calendar[b].live
        BY <3>3 DEF TakenChange, Stands
    <3>5. row[b] # NoRow => \A e \in EventsOf(b)' \ EventsOf(b) :
            e.change \notin handled[b] /\ e.change # 1
        BY <1>1, <1>2, <3>2, <3>4
    <3> QED
        BY <1>1, <1>7, <2>2, <2>3, <2>5, <3>4, <3>5, FollowsOn
  <2> QED
    BY <2>4, <2>5
<1> QED
    BY <1>4, <1>5, <1>6, <1>7 DEF Stepping, Telling, Follow

\* A commit concerns its booking only.
LEMMA SteppingByStore ==
    ASSUME Stepping, Sound', NEW r \in Requests, NEW b \in Bookings, NEW new \in Rows,
           Store(b, new), Close(r),
           request[r].kind = "hook" => request[r].event.booking = b,
           UNCHANGED <<calendar, mail, handled>>,
           doubt \subseteq doubt', doubt' \subseteq doubt \cup {b},
           b \notin doubt' => Follows(b)'
    PROVE  Stepping'
<1>0. Sound /\ TypeOK
    BY Changes DEF Stepping
<1>1. /\ row'[b] = new /\ new # NoRow
      /\ \A c \in Bookings : c # b => row'[c] = row[c]
      /\ request'[r].kind = "idle"
      /\ \A q \in Requests : q # r => request'[q] = request[q]
      /\ \A c \in Bookings : EventsOf(c)' = EventsOf(c)
    BY <1>0, RowIsRow DEF Store, Close, TypeOK, EventsOf, Idle
<1>2. ASSUME NEW c \in Bookings PROVE Told(c)' /\ Heard(c)'
  <2>1. Told(c) /\ Heard(c)
    BY DEF Stepping, Telling
  <2>2. Told(c)'
    BY <1>1, <2>1 DEF Told
  <2>3. row'[c] = NoRow /\ c \notin doubt' => handled'[c] \subseteq {1}
    BY <1>1, <2>1 DEF Heard
  <2>4. \A q \in Requests : request'[q].kind = "turn" => request'[q] = request[q]
    BY <1>1
  <2> QED
    BY <1>1, <2>1, <2>2, <2>3, <2>4 DEF Heard
<1>3. ASSUME NEW c \in Bookings, c \notin doubt', c # b PROVE Follows(c)'
  <2>1. \A q \in Requests : Carries(q, c)' <=> Carries(q, c)
    BY <1>1, <1>3 DEF Carries
  <2>2. \A q \in Requests : Carries(q, c) =>
            request'[q].event = request[q].event /\ request'[q].loaded = request[q].loaded
    BY <1>1, <1>3 DEF Carries
  <2> QED
    BY <1>1, <1>3, <2>1, <2>2, FollowsOn
<1> QED
    BY <1>2, <1>3 DEF Stepping, Telling, Follow

\* The turn commits the row at the time of the first event, the only one
\* that may have arrived.
LEMMA SteppingByTurn ==
    ASSUME Stepping, Sound', NEW r \in Requests, TurnCommits(r)
    PROVE  Stepping'
<1>0. Sound /\ TypeOK
    BY Changes DEF Stepping
<1>1. request[r] \in Turns /\ request[r].kind = "turn"
    BY <1>0, WorkKinds DEF TurnCommits
<1> PICK b \in Bookings : b = request[r].booking
    BY <1>1 DEF Turns
<1> DEFINE new == [status |-> "confirmed", at |-> request[r].at, reminded |-> FALSE]
<1>2. b \in Bookings /\ new \in Rows /\ row[b] = NoRow
    BY <1>0, <1>1, Changes DEF Turns, Rows, Statuses, BookedOnce
<1>3. /\ Store(b, new) /\ Close(r) /\ UNCHANGED <<calendar, mail, handled, doubt>>
      /\ new.status = "confirmed" /\ new.at = request[r].at
    BY DEF TurnCommits
<1> HIDE DEF new
<1>4. /\ row'[b] = new /\ EventsOf(b)' = EventsOf(b)
      /\ \A q \in Requests : request'[q].kind = "hook" => request'[q] = request[q]
    BY <1>0, <1>2, <1>3 DEF Store, Close, TypeOK, EventsOf, Idle
<1>5. Told(b) /\ Heard(b)
    BY <1>2 DEF Stepping, Telling
<1>6. \A q \in Requests : ~Carries(q, b)'
    BY <1>0, <1>2, <1>4, Changes DEF Carries
<1>7. ASSUME b \notin doubt PROVE Follows(b)'
  <2>1. handled[b] \subseteq {1}
    BY <1>2, <1>5, <1>7 DEF Heard
  <2>2. \A e \in EventsOf(b) : e.change = 1 => e.at = request[r].at
    BY <1>1, <1>2, <1>5 DEF Heard
  <2>3. \A e \in EventsOf(b) : e.change = 1 => e.kind # "cancelled"
    BY <1>5 DEF Told
  <2> QED
    BY <1>3, <1>4, <1>6, <2>1, <2>2, <2>3 DEF Follows, HooksAgree, StatusAgrees, TimeAgrees
<1> QED
    BY <1>1, <1>2, <1>3, <1>7, SteppingByStore

\* A status from the dashboard: the time stays, and unless it leaves doubt,
\* the status becomes what Cal.com has or stays as it was.
LEMMA SteppingByPatch ==
    ASSUME Stepping, Sound', NEW r \in Requests, PatchCommits(r)
    PROVE  Stepping'
<1>0. Sound /\ TypeOK /\ Found
    BY Changes DEF Stepping
<1>1. request[r] \in Patches /\ request[r].kind = "patch"
    BY <1>0, WorkKinds DEF PatchCommits
<1> PICK b \in Bookings : b = request[r].booking
    BY <1>1 DEF Patches
<1> DEFINE old == request[r].loaded
           wanted == [old EXCEPT !.status = request[r].to]
           new == Merge(row[b], old, wanted)
<1>2. /\ b \in Bookings /\ old \in Rows /\ row[b] \in Rows /\ row[b] # NoRow
      /\ wanted \in Rows /\ wanted.at = old.at
    BY <1>0, <1>1 DEF Patches, Found, TypeOK, Rows
<1>3. new \in Rows /\ new.at = row[b].at
  <2>1. new \in Rows
    BY <1>2, MergeType
  <2>2. new.at = Changed(row[b].at, old.at, wanted.at)
    BY DEF Merge
  <2> QED
    BY <1>2, <2>1, <2>2 DEF Changed
<1>4. /\ Close(r) /\ UNCHANGED <<calendar, mail, handled>>
      /\ doubt' = IF new # row[b] /\ (new.status = "cancelled") = Stands(b)
                  THEN doubt \cup {b} ELSE doubt
      /\ Store(b, new)
    BY DEF PatchCommits
<1> HIDE DEF new, old, wanted
<1>5. CASE new = row[b]
  <2>0. UNCHANGED row
    BY <1>0, <1>2, <1>4, <1>5 DEF Store, TypeOK
  <2>1. \A q \in Requests : \/ request'[q] = request[q]
                            \/ request'[q].kind = "idle" /\ request[q].kind = "patch"
    BY <1>0, <1>1, <1>4 DEF Close, TypeOK, Idle
  <2> QED
    BY <1>4, <1>5, <2>0, <2>1, SteppingOn
<1>6. CASE new # row[b]
  <2>1. Store(b, new)
    BY <1>4
  <2>2. /\ row'[b] = new /\ EventsOf(b)' = EventsOf(b) /\ calendar[b] # NoBooking
        /\ calendar[b].live \in BOOLEAN
    BY <1>0, <1>2, <1>4, <2>1, Changes DEF Store, TypeOK, EventsOf
  <2>3. ASSUME b \notin doubt' PROVE Follows(b)'
    <3>1. Told(b) /\ Follows(b)
        BY <1>2, <1>4, <2>3 DEF Stepping, Telling, Follow
    <3>2. new.status = "cancelled" <=> ~calendar[b].live
        BY <1>4, <1>6, <2>2, <2>3 DEF Stands
    <3>3. ASSUME NEW e \in EventsOf(b), e.kind = "cancelled" PROVE ~calendar[b].live
        BY <2>2, <3>1, <3>3 DEF Told
    <3>4. \A q \in Requests : Carries(q, b)' <=> Carries(q, b)
        BY <1>0, <1>1, <1>4 DEF Carries, Close, TypeOK, Idle
    <3>5. \A q \in Requests : Carries(q, b) => request'[q] = request[q]
        BY <1>0, <1>1, <1>4 DEF Carries, Close, TypeOK, Idle
    <3>6. HooksAgree(b)'
      <4>1. \A q \in Requests : Carries(q, b) =>
                request[q].event \in EventsOf(b)
        BY <3>1 DEF Follows, HooksAgree, Carries, EventsOf
      <4> QED
        BY <1>3, <1>4, <2>2, <3>1, <3>2, <3>3, <3>4, <3>5, <4>1 DEF Follows, HooksAgree
    <3>7. StatusAgrees(b)'
        BY <1>4, <2>2, <3>2, <3>3 DEF StatusAgrees
    <3>8. (Carried(b, "moved")' <=> Carried(b, "moved")) /\ (Overtaken(b)' <=> Overtaken(b))
        BY <1>4, <2>2, <3>4, <3>5 DEF Carried, Overtaken
    <3>9. TimeAgrees(b)'
        BY <1>2, <1>3, <1>4, <2>2, <3>1, <3>8 DEF Follows, TimeAgrees
    <3> QED
        BY <3>6, <3>7, <3>9 DEF Follows
  <2>4. doubt \subseteq doubt' /\ doubt' \subseteq doubt \cup {b}
    BY <1>4
  <2> QED
    BY <1>1, <1>2, <1>3, <1>4, <2>1, <2>3, <2>4, SteppingByStore
<1> QED
    BY <1>5, <1>6

\* What a handler writes for an event, given the row it loaded and the one it
\* finds when it commits.
Written(e, loaded, now, new) ==
    /\ new \in Rows
    /\ e.kind = "cancelled" =>
        new.status = IF loaded.status = "cancelled" THEN now.status ELSE "cancelled"
    /\ e.kind = "moved" =>
        new.status = now.status /\ new.at = IF loaded.at = e.at THEN now.at ELSE e.at
    /\ e.kind = "created" => new.status \in {now.status, "confirmed"}
    /\ e.kind # "moved" => new.at = now.at

LEMMA HookWrites ==
    ASSUME NEW now \in Rows, NEW loaded \in Rows, NEW e \in Events
    PROVE  Written(e, loaded, now, Merge(now, loaded, Reconciled(e, loaded)))
<1> DEFINE wanted == Reconciled(e, loaded)
           new == Merge(now, loaded, wanted)
<1>1. wanted \in Rows
    BY ReconciledType
<1>2. new \in Rows
    BY <1>1, MergeType
<1>3. /\ new.status = Changed(now.status, loaded.status, wanted.status)
      /\ new.at = Changed(now.at, loaded.at, wanted.at)
    BY DEF Merge
<1>4. /\ e.kind = "cancelled" => wanted.status = "cancelled" /\ wanted.at = loaded.at
      /\ e.kind = "moved" => wanted.status = loaded.status /\ wanted.at = e.at
      /\ e.kind = "created" => wanted.status = "confirmed" /\ wanted.at = loaded.at
      /\ e.kind \in {"cancelled", "moved", "created"}
    BY DEF Reconciled, Rows, Events
<1> HIDE DEF wanted, new
<1>5. Written(e, loaded, now, new)
    BY <1>2, <1>3, <1>4 DEF Changed, Written
<1> QED
    BY <1>5 DEF new, wanted

\* A handler commits what its event asks for.  Where there is no doubt, that
\* is the last event to have arrived, and nobody has another.
LEMMA SteppingByHook ==
    ASSUME Stepping, Sound', NEW r \in Requests, HookCommits(r)
    PROVE  Stepping'
<1>0. Sound /\ TypeOK
    BY Changes DEF Stepping
<1>1. request[r] \in Hooks /\ request[r].kind = "hook" /\ row[request[r].event.booking] # NoRow
    BY <1>0, Changes DEF HookCommits
<1> PICK e \in Events : e = request[r].event
    BY <1>1 DEF Hooks
<1> PICK b \in Bookings : b = e.booking
    BY DEF Events
<1> PICK old : old = request[r].loaded
    OBVIOUS
<1> PICK new : new = Merge(row[b], old, Reconciled(e, old))
    OBVIOUS
<1>2. /\ old \in Rows /\ row[b] \in Rows /\ row[b] # NoRow
      /\ calendar[b] # NoBooking /\ calendar[b].live \in BOOLEAN
    BY <1>0, <1>1, Changes DEF Hooks
<1>3. Store(b, new) /\ Close(r) /\ UNCHANGED <<calendar, mail, handled, doubt>>
    BY DEF HookCommits
<1>4. Written(e, old, row[b], new)
    BY <1>2, HookWrites
<1>5. ASSUME b \notin doubt PROVE Follows(b)'
  <2>1. Told(b) /\ Follows(b) /\ Carries(r, b)
    BY <1>1, <1>5 DEF Stepping, Telling, Follow, Carries
  <2>2. /\ e \in EventsOf(b) /\ e.change \in handled[b] /\ \A n \in handled[b] : n <= e.change
        /\ \A q \in Requests : Carries(q, b) => request[q].event = e
        /\ e.kind = "cancelled" /\ old.status = "cancelled" => row[b].status = "cancelled"
        /\ e.kind = "moved" /\ old.at = e.at => row[b].at = e.at
    BY <2>1 DEF Follows, HooksAgree, EventsOf
  <2>3. /\ e.kind = "cancelled" => new.status = "cancelled"
        /\ e.kind = "moved" => new.at = e.at
    BY <1>4, <2>2 DEF Written
  <2>4. /\ row'[b] = new /\ EventsOf(b)' = EventsOf(b) /\ mail' = mail
        /\ \A q \in Requests : Carries(q, b)' => Carries(q, b) /\ request'[q] = request[q]
    BY <1>0, <1>3 DEF Store, Close, TypeOK, EventsOf, Carries, Idle
  <2>5. /\ \A f \in EventsOf(b) : f.change \in Nat /\ 1 <= f.change
        /\ \A n \in handled[b] : n \in Nat /\ calendar[b].change \in Nat
        /\ e.kind \in {"created", "moved", "cancelled"}
    BY <1>0, Changes DEF EventsOf, Events
  <2>6. ASSUME NEW f \in EventsOf(b), f.kind = "cancelled", f.change \in handled[b]
        PROVE  f = e
    <3>1. f.change = calendar[b].change /\ e.change <= calendar[b].change
        BY <2>1, <2>2, <2>6 DEF Told
    <3>2. f.change = e.change
        BY <2>2, <2>5, <2>6, <3>1
    <3> QED
        BY <2>1, <2>2, <3>2 DEF Told
  <2>7. HooksAgree(b)'
    BY <1>3, <2>2, <2>3, <2>4 DEF HooksAgree, EventsOf
  <2>8. StatusAgrees(b)'
    <3>1. e.kind = "cancelled" => ~calendar[b].live
      <4>1. e.kind = "cancelled" => e.change = calendar[b].change
        BY <2>1, <2>2 DEF Told
      <4> QED
        BY <1>2, <2>1, <2>2, <4>1 DEF Told
    <3>2. calendar[b].live => row[b].status # "cancelled"
        BY <1>2, <2>1 DEF Follows, StatusAgrees
    <3>3. calendar[b].live => new.status # "cancelled"
        BY <1>4, <2>5, <3>1, <3>2 DEF Written
    <3> QED
        BY <1>3, <2>3, <2>4, <2>6, <3>3 DEF StatusAgrees
  <2>9. TimeAgrees(b)'
    <3> SUFFICES ASSUME ~Overtaken(b)', NEW f \in EventsOf(b),
                        f.change \in handled[b] \/ f.change = 1,
                        \A n \in handled[b] : n <= f.change
                 PROVE  new.at = f.at
        BY <1>3, <2>4 DEF TimeAgrees
    <3>1. f.change = e.change
        BY <2>2, <2>5
    <3>2. f = e
        BY <2>1, <2>2, <3>1 DEF Told
    <3>3. CASE e.kind = "moved"
        BY <2>3, <3>2, <3>3
    <3>4. CASE e.kind # "moved"
      <4>1. ~Carried(b, "moved")
        BY <2>2, <3>4 DEF Carried
      <4>2. ~Overtaken(b)
        BY <1>3, <2>4 DEF Overtaken
      <4>3. row[b].at = f.at
        BY <1>2, <2>1, <4>1, <4>2 DEF Follows, TimeAgrees
      <4> QED
        BY <1>4, <3>4, <4>3 DEF Written
    <3> QED
        BY <3>3, <3>4
  <2> QED
    BY <2>7, <2>8, <2>9 DEF Follows
<1>6. doubt' = doubt
    BY <1>3
<1>7. new \in Rows
    BY <1>4 DEF Written
<1> QED
    BY <1>1, <1>3, <1>5, <1>6, <1>7, SteppingByStore

\* An event arrives: in its turn, or the booking is in doubt.
LEMMA SteppingByArrival ==
    ASSUME Stepping, Sound', NEW r \in Requests, NEW e \in mail, Arrives(r, e)
    PROVE  Stepping'
<1> PICK b : b = e.booking
    OBVIOUS
<1>0. Sound /\ TypeOK /\ b \in Bookings /\ e \in EventsOf(b)
    BY Changes DEF Stepping, EventsOf
<1>1. /\ request[r] = Idle /\ UNCHANGED <<calendar, row, mail>>
      /\ handled' = [handled EXCEPT ![b] = @ \cup {e.change}]
      /\ doubt \subseteq doubt' /\ doubt' \subseteq doubt \cup {b}
    BY DEF Arrives
<1>2. b \notin doubt' =>
        /\ \A q \in Requests : Carries(q, b) => request[q].event = e
        /\ row[b] = NoRow => e.kind = "created"
        /\ \A n \in handled[b] : ~(n > e.change)
    BY DEF Arrives, Carries
<1>3. \/ row[b] = NoRow /\ request' = request
      \/ /\ row[b] # NoRow /\ request'[r] = Hook(e)
         /\ \A q \in Requests : q # r => request'[q] = request[q]
    BY <1>0 DEF Arrives, Open, TypeOK
<1>4. /\ Hook(e).kind = "hook" /\ Hook(e).event = e /\ Hook(e).loaded = row[b]
      /\ request[r].kind = "idle"
    BY <1>1 DEF Hook, Idle
<1>5. /\ handled'[b] = handled[b] \cup {e.change}
      /\ \A c \in Bookings : c # b => handled'[c] = handled[c]
      /\ \A c \in Bookings : EventsOf(c)' = EventsOf(c)
    BY <1>0, <1>1 DEF TypeOK, EventsOf
<1>6. \A c \in Bookings : Told(c) /\ Heard(c)
    BY DEF Stepping, Telling
<1>7. ASSUME NEW c \in Bookings PROVE Told(c)' /\ Heard(c)'
  <2>1. Told(c)'
    BY <1>1, <1>5, <1>6 DEF Told
  <2>2. \A n \in handled'[c] : \E f \in EventsOf(c)' : f.change = n
    BY <1>0, <1>5, <1>6 DEF Heard
  <2>3. \A q \in Requests : request'[q].kind = "turn" => request'[q] = request[q]
    BY <1>3, <1>4
  <2>4. row'[c] = NoRow /\ c \notin doubt' => handled'[c] \subseteq {1}
    <3>1. b \notin doubt' /\ row[b] = NoRow => e.change = 1
        BY <1>0, <1>2, <1>6 DEF Told
    <3> QED
        BY <1>1, <1>5, <1>6, <3>1 DEF Heard
  <2> QED
    BY <1>5, <1>6, <2>1, <2>2, <2>3, <2>4 DEF Heard
<1>8. ASSUME NEW c \in Bookings, c \notin doubt', c # b PROVE Follows(c)'
  <2>1. \A q \in Requests : Carries(q, c)' <=> Carries(q, c)
    BY <1>0, <1>3, <1>4, <1>8 DEF Carries, EventsOf
  <2>2. \A q \in Requests : Carries(q, c) => request'[q] = request[q]
    BY <1>3, <1>4 DEF Carries
  <2> QED
    BY <1>1, <1>5, <1>8, <2>1, <2>2, FollowsOn
<1>9. ASSUME b \notin doubt' PROVE Follows(b)'
  <2>1. Follows(b)
    BY <1>0, <1>1, <1>9 DEF Stepping, Follow
  <2>2. CASE row[b] = NoRow
    <3>1. \A q \in Requests : ~Carries(q, b)'
        BY <1>0, <1>3, <2>2, Changes DEF Carries
    <3> QED
        BY <1>1, <2>2, <3>1 DEF Follows, HooksAgree, StatusAgrees, TimeAgrees
  <2>3. CASE row[b] # NoRow
    <3>1. /\ \A f \in EventsOf(b) : f.change \in Nat /\ 1 <= f.change
          /\ \A n \in handled[b] : n \in Nat
          /\ calendar[b].change \in Nat
        BY <1>0, Changes DEF EventsOf
    <3>2. \A n \in handled[b] : n <= e.change
        BY <1>0, <1>2, <1>9, <3>1
    <3>3. \A q \in Requests : Carries(q, b)' =>
            /\ request'[q].event = e
            /\ request'[q].loaded = row[b] \/ (Carries(q, b) /\ request'[q] = request[q])
        BY <1>2, <1>3, <1>4, <1>9, <2>3 DEF Carries
    <3>4. HooksAgree(b)'
        BY <1>0, <1>1, <1>5, <2>1, <3>1, <3>2, <3>3 DEF Follows, HooksAgree
    <3>5. e.kind # "cancelled" /\ ~Carried(b, "cancelled")' => ~Carried(b, "cancelled")
        BY <1>2, <1>9 DEF Carried
    <3>6. StatusAgrees(b)'
      <4> SUFFICES ASSUME NEW f \in EventsOf(b), f.kind = "cancelled", f.change \in handled'[b],
                          ~Carried(b, "cancelled")'
                   PROVE  row[b].status = "cancelled"
        BY <1>0, <1>1, <1>5, <2>1, <2>3 DEF Follows, StatusAgrees
      <4>1. e.kind # "cancelled"
        BY <1>3, <1>4, <2>3 DEF Carried, Carries
      <4>2. f # e /\ f.change # e.change
        BY <1>0, <1>6, <4>1 DEF Told
      <4>3. f.change \in handled[b]
        BY <1>5, <4>2
      <4> QED
        BY <2>1, <2>3, <3>5, <4>1, <4>3 DEF Follows, StatusAgrees
    <3>7. TimeAgrees(b)'
      <4> SUFFICES ASSUME ~Overtaken(b)', ~Carried(b, "moved")', NEW f \in EventsOf(b),
                          f.change \in handled'[b] \/ f.change = 1,
                          \A n \in handled'[b] : n <= f.change
                   PROVE  row[b].at = f.at
        BY <1>0, <1>1, <1>5, <2>3 DEF TimeAgrees
      <4>1. e.kind # "moved" /\ ~Carried(b, "moved")
        BY <1>2, <1>3, <1>4, <1>9, <2>3 DEF Carried, Carries
      <4>2. f = e
        <5>1. e.change <= f.change /\ f.change <= e.change
            BY <1>0, <1>5, <3>1, <3>2
        <5> QED
            BY <1>0, <1>6, <3>1, <5>1 DEF Told
      <4>3. ~Overtaken(b)
        BY <1>0, <1>2, <1>5, <1>9, <3>1, <3>2 DEF Overtaken
      <4>4. CASE e.change \in handled[b] \/ e.change = 1
        BY <2>1, <2>3, <3>2, <4>1, <4>2, <4>3, <4>4 DEF Follows, TimeAgrees
      <4>5. CASE e.change \notin handled[b] /\ e.change # 1
        <5>1. e.kind = "cancelled"
            BY <1>0, <1>6, <4>1, <4>5, Changes DEF Told
        <5>2. PICK g \in EventsOf(b) : g.change + 1 = e.change /\ g.at = e.at
            BY <1>0, <1>6, <5>1 DEF Told
        <5>3. g.change \in handled[b]
          <6>1. g \in EventsOf(b)' /\ e.change \in handled'[b] /\ e.change > g.change
            BY <1>0, <1>5, <3>1, <5>2
          <6>2. g.change \in handled'[b]
            BY <6>1 DEF Overtaken
          <6> QED
            BY <1>0, <1>5, <3>1, <5>2, <6>2
        <5>4. \A n \in handled[b] : n <= g.change
            BY <1>0, <3>1, <3>2, <4>5, <5>2
        <5> QED
            BY <2>1, <2>3, <4>1, <4>2, <4>3, <5>2, <5>3, <5>4 DEF Follows, TimeAgrees
      <4> QED
        BY <4>4, <4>5
    <3> QED
        BY <3>4, <3>6, <3>7 DEF Follows
  <2> QED
    BY <2>2, <2>3
<1> QED
    BY <1>7, <1>8, <1>9 DEF Stepping, Telling, Follow

LEMMA SteppingStep == Stepping /\ [Next]_vars => Stepping'
<1> SUFFICES ASSUME Stepping, [Next]_vars PROVE Stepping'
    OBVIOUS
<1>0. Sound /\ Sound' /\ TypeOK /\ Found
    BY SoundStep, Changes DEF Stepping
<1>1. CASE UNCHANGED vars
    BY <1>0, <1>1, SteppingOn DEF vars
<1>2. ASSUME NEW b \in Bookings, ChangeOutside(b) PROVE Stepping'
  <2>1. calendar[b].at \in Slots
    BY <1>0, <1>2, Changes DEF ChangeOutside, Stands
  <2>2. UNCHANGED <<row, handled, doubt, request>> /\ Stands(b)
    BY <1>2 DEF ChangeOutside
  <2>3. CASE Change(b, "cancelled", calendar[b].at, FALSE)
    <3>1. TakenChange(b, "cancelled", calendar[b].at, FALSE)
        BY <2>2, <2>3 DEF TakenChange
    <3> QED
        BY <1>0, <2>1, <2>2, <3>1, SteppingByChange
  <2>4. ASSUME NEW at \in Slots, Change(b, "moved", at, TRUE) PROVE Stepping'
    <3>1. TakenChange(b, "moved", at, TRUE)
        BY <2>2, <2>4 DEF TakenChange
    <3> QED
        BY <1>0, <2>2, <3>1, SteppingByChange
  <2> QED
    BY <1>2, <2>3, <2>4 DEF ChangeOutside
<1>3. ASSUME NEW r \in Requests, NEW b \in Bookings, NEW at \in Slots, Book(r, b, at)
      PROVE Stepping'
  <2>1. TakenChange(b, "created", at, TRUE)
    BY <1>3 DEF Book, TakenChange
  <2>2. /\ UNCHANGED <<row, handled, doubt>> /\ request[r] = Idle
        /\ request'[r].kind = "turn" /\ request'[r].booking = b /\ request'[r].at = at
        /\ \A q \in Requests : q # r => request'[q] = request[q]
    BY <1>0, <1>3 DEF Book, TypeOK
  <2>3. \A q \in Requests :
            \/ request'[q] = request[q]
            \/ /\ request[q] = Idle /\ request'[q].kind = "turn"
               /\ request'[q].booking = b /\ request'[q].at = at
    BY <2>2
  <2> QED
    BY <1>0, <2>1, <2>2, <2>3, SteppingByChange
<1>4. ASSUME NEW r \in Requests, NEW e \in mail, Arrives(r, e) PROVE Stepping'
    BY <1>0, <1>4, SteppingByArrival
<1>5. ASSUME NEW r \in Requests, NEW b \in Bookings, NEW s \in Statuses, PatchLoads(r, b, s)
      PROVE Stepping'
  <2>1. /\ request[r].kind = "idle" /\ request'[r].kind = "patch"
        /\ \A q \in Requests : q # r => request'[q] = request[q]
    BY <1>0, <1>5 DEF PatchLoads, Open, Patch, Idle, TypeOK
  <2>2. UNCHANGED <<calendar, mail, handled, doubt, row>>
    BY <1>5 DEF PatchLoads
  <2> QED
    BY <1>0, <2>1, <2>2, SteppingOn
<1>6. ASSUME NEW r \in Requests, PatchCancels(r) PROVE Stepping'
  <2>1. request[r] \in Patches
    BY <1>0, <1>6, WorkKinds DEF PatchCancels
  <2> PICK b \in Bookings : b = request[r].booking
    BY <2>1 DEF Patches
  <2>2. /\ request[r].kind = "patch" /\ request'[r].kind = "patch"
        /\ \A q \in Requests : q # r => request'[q] = request[q]
        /\ UNCHANGED <<row, handled, doubt>>
    BY <1>0, <1>6, <2>1 DEF PatchCancels, Patches, TypeOK
  <2>3. CASE UNCHANGED <<calendar, mail>>
    BY <1>0, <2>2, <2>3, SteppingOn
  <2>4. CASE ~UNCHANGED <<calendar, mail>>
    <3>1. Stands(b) /\ Change(b, "cancelled", calendar[b].at, FALSE)
        BY <1>6, <2>4 DEF PatchCancels
    <3>2. TakenChange(b, "cancelled", calendar[b].at, FALSE) /\ calendar[b].at \in Slots
        BY <1>0, <3>1, Changes DEF TakenChange, Stands
    <3> QED
        BY <1>0, <2>2, <3>2, SteppingByChange
  <2> QED
    BY <2>3, <2>4
<1>7. ASSUME NEW r \in Requests, TurnCommits(r) \/ HookCommits(r) \/ PatchCommits(r)
      PROVE Stepping'
    BY <1>0, <1>7, SteppingByTurn, SteppingByHook, SteppingByPatch
<1>8. ASSUME NEW r \in Requests, RequestFails(r) PROVE Stepping'
  <2>1. /\ request'[r].kind = "idle" /\ request[r].kind = "hook" => request[r].event.booking \in doubt'
        /\ \A q \in Requests : q # r => request'[q] = request[q]
        /\ doubt \subseteq doubt' /\ UNCHANGED <<calendar, mail, handled, row>>
    BY <1>0, <1>8 DEF RequestFails, Close, Idle, TypeOK
  <2> QED
    BY <1>0, <1>8, <2>1, SteppingOn DEF RequestFails, Close, Idle, TypeOK
<1>9. CASE RoundEnds
  <2>1. \A b \in Bookings :
            /\ row[b] # NoRow <=> row'[b] # NoRow
            /\ row[b] # NoRow => row'[b].status = row[b].status /\ row'[b].at = row[b].at
    <3> SUFFICES ASSUME NEW b \in Bookings
                 PROVE  /\ row[b] # NoRow <=> row'[b] # NoRow
                        /\ row[b] # NoRow =>
                            row'[b].status = row[b].status /\ row'[b].at = row[b].at
        OBVIOUS
    <3>1. row'[b] = IF b \in round.told THEN [row[b] EXCEPT !.reminded = TRUE] ELSE row[b]
        BY <1>9 DEF RoundEnds
    <3>2. b \in round.told => row[b] \in Rows
        BY <1>0 DEF TypeOK, Found, InHand
    <3>3. b \in round.told => [row[b] EXCEPT !.reminded = TRUE] \in Rows
        BY <3>2 DEF Rows
    <3>4. b \in round.told => row'[b].status = row[b].status /\ row'[b].at = row[b].at
        BY <3>1, <3>2 DEF Rows
    <3> QED
        BY <3>1, <3>2, <3>3, <3>4, RowIsRow
  <2>2. UNCHANGED <<calendar, mail, handled, doubt, request>>
    BY <1>9 DEF RoundEnds
  <2> QED
    BY <1>0, <2>1, <2>2, SteppingOn
<1>10. CASE Restart
  <2>1. \A r \in Requests : request'[r].kind = "idle"
    BY <1>10 DEF Restart, Idle
  <2>2. /\ \A r \in Requests : request[r].kind = "hook" => request[r].event.booking \in doubt'
        /\ doubt \subseteq doubt' /\ UNCHANGED <<calendar, mail, handled, row>>
    BY <1>0, <1>10, Changes DEF Restart
  <2> QED
    BY <1>0, <2>1, <2>2, SteppingOn
<1>11. CASE RoundBegins \/ RoundFails \/ Tick
    BY <1>0, <1>11, SteppingOn DEF RoundBegins, RoundFails, Tick
<1>12. ASSUME NEW a \in round.rows, Remind(a) PROVE Stepping'
    BY <1>0, <1>12, SteppingOn DEF Remind
<1> QED
    BY <1>1, <1>2, <1>3, <1>4, <1>5, <1>6, <1>7, <1>8, <1>9, <1>10, <1>11, <1>12 DEF Next

\* Once the events of a booking were handled, each after the one before, the
\* row and the calendar agree (webhooks.py:190), unless the dashboard wrote a
\* status Cal.com does not hold.
THEOREM RowsKeepInStep == Spec => []InStep
<1>1. Stepping => InStep
  <2> SUFFICES ASSUME Stepping, NEW b \in Bookings, row[b] # NoRow, Quiet(b), b \notin doubt
               PROVE  /\ row[b].status = "cancelled" <=> ~calendar[b].live
                      /\ row[b].at = calendar[b].at
    BY DEF InStep
  <2>1. Sound /\ Told(b) /\ Heard(b) /\ Follows(b)
    BY DEF Stepping, Telling, Follow
  <2>2. calendar[b] # NoBooking /\ calendar[b].live \in BOOLEAN
    BY <2>1, Changes
  <2>3. PICK e \in EventsOf(b) :
            /\ e.change = calendar[b].change /\ e.at = calendar[b].at
            /\ e.kind = "cancelled" <=> ~calendar[b].live
    BY <2>1, <2>2 DEF Told
  <2>4. \A f \in EventsOf(b) : f.change \in handled[b]
    BY DEF Quiet, EventsOf
  <2>5. \A kind \in {"moved", "cancelled"} : ~Carried(b, kind)
    BY DEF Quiet, Carried, Carries
  <2>6. ~Overtaken(b)
    BY <2>4 DEF Overtaken
  <2>7. \A n \in handled[b] : n <= e.change
    BY <2>1, <2>3 DEF Told, Heard
  <2>8. row[b].at = e.at
    BY <2>1, <2>4, <2>5, <2>6, <2>7 DEF Follows, TimeAgrees
  <2>9. row[b].status = "cancelled" <=> ~calendar[b].live
    BY <2>1, <2>2, <2>3, <2>4, <2>5 DEF Follows, StatusAgrees
  <2> QED
    BY <2>3, <2>8, <2>9
<1> QED
    BY <1>1, SteppingInit, SteppingStep, PTL DEF Spec
=============================================================================
