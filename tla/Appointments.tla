---------------------------- MODULE Appointments ----------------------------
(***************************************************************************)
(* An appointment after the call that booked it: the row in the database,  *)
(* the booking in Cal.com, Cal.com's webhooks (api/routes/webhooks.py,     *)
(* cal_webhook), the status a user sets on the dashboard                   *)
(* (api/routes/appointments.py, update_status) and the reminders of the    *)
(* half-hourly loop (agents/booking_agent.py, send_due_reminders, called   *)
(* from main.py, _background_loop).                                        *)
(*                                                                         *)
(* A handler loads the row, awaits, and commits: SQLAlchemy writes the     *)
(* columns whose value differs from the one loaded, so two handlers that   *)
(* overlap merge column by column.  The clock counts units in which a      *)
(* round of reminders fits; the rest is asynchronous.                      *)
(***************************************************************************)
EXTENDS Naturals, FiniteSets

CONSTANTS Bookings,     \* bookings made by calls
          Requests,     \* handlers that may be open at the same time
          Slots,        \* the times an appointment may be at
          WindowStart, WindowEnd,  \* the reminder window, 23 and 25 hours
          Interval,     \* the pause of the background loop
          Horizon,      \* bound: the clock stops there
          MaxChanges,   \* bound: changes of one booking in Cal.com
          MaxFailures   \* bound: failures of any kind

ASSUME SlotsAssumption == Slots \subseteq 0..Horizon
ASSUME WindowAssumption ==
    /\ {WindowStart, WindowEnd, Interval, Horizon, MaxChanges, MaxFailures} \subseteq Nat
    /\ 0 < Interval /\ WindowStart + Interval <= WindowEnd

VARIABLES
    clock,     \* now
    due,       \* when the next round begins
    calendar,  \* Cal.com's booking: its time, whether it stands, its changes
    row,       \* the committed appointment
    mail,      \* the webhook events Cal.com has sent, once or more often
    request,   \* what each handler has in hand
    round,     \* the rows a round loaded, those still to text, those texted
    failures,
    \* history, read by the properties only
    handled,   \* the changes of each booking whose webhook has arrived
    doubt,     \* bookings whose row may rightly differ from Cal.com
    texted,    \* reminders sent since the row got its time, as <<booking, time>>
    steady,    \* when the row last changed its status or time, or a text failed
    reopened,  \* bookings whose mark was taken back though the time is the same
    crossed    \* bookings moved while a round had them, or under their mark

handlers == <<mail, request>>
history == <<handled, doubt, texted, steady, reopened, crossed>>
vars == <<clock, due, calendar, row, mail, request, round, failures, history>>

Statuses == {"confirmed", "cancelled", "no_show"}
Rows == [status : Statuses, at : Slots, reminded : BOOLEAN]
NoRow == [status |-> "none"]
Bookeds == [at : Slots, live : BOOLEAN, change : 1..MaxChanges]
NoBooking == [change |-> 0]
Events == [booking : Bookings, kind : {"created", "moved", "cancelled"},
           at : Slots, change : 1..MaxChanges]

Idle == [kind |-> "idle"]
Hook(e) == [kind |-> "hook", event |-> e, loaded |-> row[e.booking]]
Patch(b, status) ==
    [kind |-> "patch", booking |-> b, to |-> status, loaded |-> row[b],
     calls |-> status = "cancelled" /\ row[b].status # "cancelled"]
\* What a handler has in hand, of each kind.
Turns == [kind : {"turn"}, booking : Bookings, at : Slots]
Hooks == [kind : {"hook"}, event : Events, loaded : Rows]
Patches == [kind : {"patch"}, booking : Bookings, to : Statuses, loaded : Rows,
            calls : BOOLEAN]

NoRound == [rows |-> {}, left |-> {}, told |-> {}, open |-> FALSE]

\* The bookings a round holds: it has loaded their row and not committed.
InHand == {a.booking : a \in round.rows}

CanFail == failures < MaxFailures /\ failures' = failures + 1

TypeOK ==
    /\ clock \in 0..Horizon /\ due \in Nat /\ failures \in 0..MaxFailures
    /\ calendar \in [Bookings -> Bookeds \cup {NoBooking}]
    /\ row \in [Bookings -> Rows \cup {NoRow}]
    /\ mail \subseteq Events
    /\ request \in [Requests -> {Idle} \cup Turns \cup Hooks \cup Patches]
    /\ round \in [rows : SUBSET [booking : Bookings, at : Slots],
                  left : SUBSET Bookings, told : SUBSET Bookings, open : BOOLEAN]
    /\ round.left \subseteq InHand /\ round.told \subseteq InHand \ round.left
    /\ handled \in [Bookings -> SUBSET (1..MaxChanges)]
    /\ doubt \subseteq Bookings /\ texted \subseteq Bookings \X Slots
    /\ steady \in [Bookings -> 0..Horizon]
    /\ reopened \subseteq Bookings /\ crossed \subseteq Bookings

Init ==
    /\ clock = 0 /\ due = Interval /\ failures = 0
    /\ calendar = [b \in Bookings |-> NoBooking]
    /\ row = [b \in Bookings |-> NoRow]
    /\ mail = {} /\ request = [r \in Requests |-> Idle] /\ round = NoRound
    /\ handled = [b \in Bookings |-> {}]
    /\ doubt = {} /\ texted = {} /\ steady = [b \in Bookings |-> 0]
    /\ reopened = {} /\ crossed = {}

-----------------------------------------------------------------------------
\* Cal.com, as the code uses it.

Stands(b) == calendar[b] # NoBooking /\ calendar[b].live

\* Cal.com takes a change and will send the webhook for it.
Change(b, kind, at, live) ==
    LET n == calendar[b].change + 1
        \* a list, so that the fields cannot be mixed up
        booked == [at |-> at, live |-> live, change |-> n]
    IN /\ n <= MaxChanges
       /\ calendar' = [calendar EXCEPT ![b] = booked]
       /\ mail' = mail \cup {[booking |-> b, kind |-> kind, at |-> at, change |-> n]}

\* The customer or the owner cancels or moves the booking in Cal.com.
ChangeOutside(b) ==
    /\ Stands(b)
    /\ \/ Change(b, "cancelled", calendar[b].at, FALSE)
       \/ \E at \in Slots \ {calendar[b].at} : at > clock /\ Change(b, "moved", at, TRUE)
    /\ UNCHANGED <<clock, due, row, request, round, failures, history>>

-----------------------------------------------------------------------------
\* Mutant of Merge: every column is written, not only the changed ones.
MergeWhole(now, loaded, wanted) == wanted

\* A commit of the columns in which `wanted` differs from what was loaded.
Changed(now, loaded, wanted) == IF wanted # loaded THEN wanted ELSE now
Merge(now, loaded, wanted) ==
    [status |-> Changed(now.status, loaded.status, wanted.status),
     at |-> Changed(now.at, loaded.at, wanted.at),
     reminded |-> Changed(now.reminded, loaded.reminded, wanted.reminded)]

Store(b, new) ==
    /\ row' = [row EXCEPT ![b] = new]
    /\ steady' = [steady EXCEPT ![b] =
            IF row[b].status = new.status /\ row[b].at = new.at THEN @ ELSE clock]

Open(r, handler) == request[r] = Idle /\ request' = [request EXCEPT ![r] = handler]
Close(r) == request' = [request EXCEPT ![r] = Idle]

\* A turn of the call has Cal.com book the slot; its transaction is open.
Book(r, b, at) ==
    /\ calendar[b] = NoBooking /\ at > clock
    /\ Change(b, "created", at, TRUE)
    /\ request[r] = Idle
    /\ request' = [request EXCEPT ![r] = [kind |-> "turn", booking |-> b, at |-> at]]
    /\ UNCHANGED <<clock, due, row, round, failures, history>>

\* The turn commits, and the row is there for others to find.
TurnCommits(r) ==
    /\ request[r].kind = "turn"
    /\ Store(request[r].booking,
             [status |-> "confirmed", at |-> request[r].at, reminded |-> FALSE])
    /\ Close(r)
    /\ UNCHANGED <<clock, due, calendar, mail, round, failures, handled, doubt, texted,
                   reopened, crossed>>

\* A webhook arrives, for the first time or again.  An event of a booking
\* without a row is ignored.  One that comes after a later change, or while
\* another of the booking is being handled, leaves the row in doubt.
Arrives(r, e) ==
    /\ e \in mail /\ request[r] = Idle
    /\ LET b == e.booking
           overlaps == \E q \in Requests : request[q].kind = "hook" /\
                            request[q].event.booking = b /\ request[q].event # e
           missed == row[b] = NoRow /\ e.kind # "created"
           late == \E n \in handled[b] : n > e.change
       IN /\ IF row[b] = NoRow THEN UNCHANGED request ELSE Open(r, Hook(e))
          /\ doubt' = IF overlaps \/ missed \/ late
                      THEN doubt \cup {b} ELSE doubt
          /\ handled' = [handled EXCEPT ![b] = @ \cup {e.change}]
    /\ UNCHANGED <<clock, due, calendar, row, mail, round, failures, texted, steady,
                   reopened, crossed>>

\* Mutant of Reconciled: a repeated BOOKING_CREATED resets the reminder too.
ReconciledAnew(e, old) ==
    CASE e.kind = "cancelled" -> [old EXCEPT !.status = "cancelled"]
      [] e.kind = "moved" -> [old EXCEPT !.at = e.at, !.reminded = FALSE]
      [] e.kind = "created" -> [old EXCEPT !.status = "confirmed", !.reminded = FALSE]

\* What an event asks of the row it found.
Reconciled(e, old) ==
    CASE e.kind = "cancelled" -> [old EXCEPT !.status = "cancelled"]
      [] e.kind = "moved" -> [old EXCEPT !.at = e.at, !.reminded = FALSE]
      [] e.kind = "created" -> [old EXCEPT !.status = "confirmed"]

\* What the history keeps of a webhook's commit.  A new time has no reminder
\* yet; it is crossed if a round has the row in hand or the mark stays on it.
\* A repeated reschedule takes the mark back for the time it was set for.
Noted(e, old, new) ==
    LET b == e.booking
    IN IF new.at # old.at
       THEN /\ texted' = {t \in texted : t[1] # b}
            /\ reopened' = reopened \ {b}
            /\ crossed' = IF new.reminded \/ b \in InHand
                          THEN crossed \cup {b} ELSE crossed \ {b}
       ELSE /\ reopened' = IF e.kind = "moved" /\ old.reminded /\ ~new.reminded
                           THEN reopened \cup {b} ELSE reopened
            /\ UNCHANGED <<texted, crossed>>

HookCommits(r) ==
    /\ request[r].kind = "hook"
    /\ LET e == request[r].event
           b == e.booking
           wanted == Reconciled(e, request[r].loaded)
           \* the row is locked by the flush, so that others write before or after
           new == Merge(row[b], request[r].loaded, wanted)
       IN Store(b, new) /\ Noted(e, row[b], new)
    /\ Close(r)
    /\ UNCHANGED <<clock, due, calendar, mail, round, failures, handled, doubt>>

-----------------------------------------------------------------------------
\* A user sets a status on the dashboard.
PatchLoads(r, b, status) ==
    /\ row[b] # NoRow
    /\ Open(r, Patch(b, status))
    /\ UNCHANGED <<clock, due, calendar, row, mail, round, failures, history>>

\* Cal.com is asked to cancel; what it answers, or whether it does, is not
\* looked at.
PatchCancels(r) ==
    /\ request[r].kind = "patch" /\ request[r].calls
    /\ request' = [request EXCEPT ![r].calls = FALSE]
    /\ LET b == request[r].booking
       IN \/ /\ Stands(b) /\ Change(b, "cancelled", calendar[b].at, FALSE)
             /\ UNCHANGED failures
          \/ ~Stands(b) /\ UNCHANGED <<calendar, mail, failures>>
          \/ Stands(b) /\ CanFail /\ UNCHANGED <<calendar, mail>>
    /\ UNCHANGED <<clock, due, row, round, history>>

\* The status is stored.  The row is in doubt if the status written is not
\* what Cal.com holds.
PatchCommits(r) ==
    /\ request[r].kind = "patch" /\ ~request[r].calls
    /\ LET b == request[r].booking
           old == request[r].loaded
           new == Merge(row[b], old, [old EXCEPT !.status = request[r].to])
       IN /\ Store(b, new)
          /\ doubt' = IF new # row[b] /\ (new.status = "cancelled") = Stands(b)
                      THEN doubt \cup {b} ELSE doubt
    /\ Close(r)
    /\ UNCHANGED <<clock, due, calendar, mail, round, failures, handled, texted,
                   reopened, crossed>>

\* A handler fails before it commits: its writes are rolled back, and an
\* event it had taken is lost.
RequestFails(r) ==
    /\ request[r] # Idle /\ CanFail
    /\ doubt' = IF request[r].kind = "hook"
                THEN doubt \cup {request[r].event.booking} ELSE doubt
    /\ Close(r)
    /\ UNCHANGED <<clock, due, calendar, row, mail, round, handled, texted, steady,
                   reopened, crossed>>

-----------------------------------------------------------------------------
\* The rows a round of reminders selects.
Due == {b \in Bookings :
            /\ row[b] # NoRow
            /\ row[b].status = "confirmed" /\ ~row[b].reminded
            /\ clock + WindowStart <= row[b].at /\ row[b].at <= clock + WindowEnd}

RoundBegins ==
    /\ clock = due /\ ~round.open
    /\ round' = [rows |-> {[booking |-> b, at |-> row[b].at] : b \in Due},
                 left |-> Due, told |-> {}, open |-> TRUE]
    /\ UNCHANGED <<clock, due, calendar, row, handlers, failures, history>>

\* Mutant of Remind: a text that did not leave is marked all the same.
RemindUnsent(a) ==
    LET b == a.booking
    IN /\ a \in round.rows /\ b \in round.left
       /\ round' = [round EXCEPT !.left = @ \ {b}, !.told = @ \cup {b}]
       /\ \/ texted' = texted \cup {<<b, a.at>>} /\ reopened' = reopened \ {b}
             /\ UNCHANGED <<failures, steady>>
          \/ CanFail /\ steady' = [steady EXCEPT ![b] = clock]
             /\ UNCHANGED <<texted, reopened>>
       /\ UNCHANGED <<clock, due, calendar, row, handlers, handled, doubt, crossed>>

\* The next text, of the time that was loaded.  Only a text that left is
\* marked; one that did not is for the next round.
Remind(a) ==
    LET b == a.booking
    IN /\ a \in round.rows /\ b \in round.left
       /\ \/ /\ round' = [round EXCEPT !.left = @ \ {b}, !.told = @ \cup {b}]
             /\ texted' = texted \cup {<<b, a.at>>}
             /\ reopened' = reopened \ {b}
             /\ UNCHANGED <<failures, steady>>
          \/ /\ CanFail
             /\ round' = [round EXCEPT !.left = @ \ {b}]
             /\ steady' = [steady EXCEPT ![b] = clock]
             /\ UNCHANGED <<texted, reopened>>
       /\ UNCHANGED <<clock, due, calendar, row, handlers, handled, doubt, crossed>>

\* One commit for the whole round.
RoundEnds ==
    /\ round.open /\ round.left = {}
    /\ row' = [b \in Bookings |->
                IF b \in round.told THEN [row[b] EXCEPT !.reminded = TRUE] ELSE row[b]]
    /\ round' = NoRound /\ due' = clock + Interval
    /\ UNCHANGED <<clock, calendar, handlers, failures, history>>

\* What the history keeps of a round that is rolled back: the marks are gone,
\* the texts are not, and the next round is a pause away.
RolledBack ==
    /\ reopened' = reopened \cup round.told
    /\ steady' = [b \in Bookings |-> clock]
    /\ UNCHANGED <<texted, crossed>>

\* The retention sweep, a query or the commit fails: the loop logs it and
\* sleeps.
RoundFails ==
    /\ round.open /\ CanFail
    /\ round' = NoRound /\ due' = clock + Interval
    /\ RolledBack
    /\ UNCHANGED <<clock, calendar, row, handlers, handled, doubt>>

\* The process restarts: what was open is rolled back, and the loop begins
\* with its pause.
Restart ==
    /\ CanFail
    /\ request' = [r \in Requests |-> Idle]
    /\ doubt' = doubt \cup {b \in Bookings : \E r \in Requests :
                    request[r].kind = "hook" /\ request[r].event.booking = b}
    /\ round' = NoRound /\ due' = clock + Interval
    /\ RolledBack
    /\ UNCHANGED <<clock, calendar, row, mail, handled>>

\* A round fits in one unit of the clock, and begins when it is due.
Tick ==
    /\ clock < Horizon /\ clock # due /\ ~round.open
    /\ clock' = clock + 1
    /\ UNCHANGED <<due, calendar, row, handlers, round, failures, history>>

Next ==
    \/ \E b \in Bookings : ChangeOutside(b)
    \/ \E r \in Requests, b \in Bookings, at \in Slots : Book(r, b, at)
    \/ \E r \in Requests, e \in mail : Arrives(r, e)
    \/ \E r \in Requests, b \in Bookings, s \in Statuses : PatchLoads(r, b, s)
    \/ \E r \in Requests : \/ TurnCommits(r) \/ HookCommits(r)
                           \/ PatchCancels(r) \/ PatchCommits(r) \/ RequestFails(r)
    \/ RoundBegins \/ RoundEnds \/ RoundFails \/ Restart \/ Tick
    \/ \E a \in round.rows : Remind(a)

Spec == Init /\ [][Next]_vars

-----------------------------------------------------------------------------
\* Nothing about the booking is under way.
Quiet(b) ==
    /\ \A e \in mail : e.booking = b => e.change \in handled[b]
    /\ \A r \in Requests :
        /\ request[r].kind = "hook" => request[r].event.booking # b
        /\ request[r].kind \in {"turn", "patch"} => request[r].booking # b

\* webhooks.py:190, "keep our rows in step with the calendar": once the
\* events of a booking were handled, each after the one before, the row and
\* Cal.com agree on whether the appointment stands and when, whatever
\* dashboard changes and reminder rounds ran in between, unless the dashboard
\* wrote a status Cal.com does not hold.
InStep ==
    \A b \in Bookings :
        row[b] # NoRow /\ Quiet(b) /\ b \notin doubt =>
            /\ row[b].status = "cancelled" <=> ~calendar[b].live
            /\ row[b].at = calendar[b].at

\* However rounds, webhooks and dashboard changes overlap and repeat, a time
\* is texted a second time only if its mark was taken back since the first:
\* by a reschedule Cal.com repeats, or with a round that was rolled back
\* (cal_webhook, send_due_reminders).
RepeatedOnlyIfReopened ==
    [][\A a \in round.rows :
        a.booking \in round'.told \ round.told /\ <<a.booking, a.at>> \in texted
            => a.booking \in reopened]_vars

\* A confirmed appointment whose status and time have stood for a pause of the
\* loop when its window ends, with no failure since, has been texted its time
\* by then, unless a move crossed a round or left the old mark
\* (send_due_reminders, cal_webhook, _background_loop).
RemindedUnlessCrossed ==
    \A b \in Bookings :
        (/\ row[b] # NoRow /\ row[b].status = "confirmed" /\ b \notin crossed
         /\ clock + WindowStart > row[b].at
         /\ steady[b] + Interval + WindowStart <= row[b].at) => <<b, row[b].at>> \in texted

-----------------------------------------------------------------------------
(* What the repository says of the program and the code does not do.       *)

\* booking_agent.py: "Text anyone with an appointment 24-48h out who hasn't
\* been reminded."  A BOOKING_RESCHEDULED that Cal.com delivers again, with
\* the time the row has, resets the mark, and the next round texts again.
NoSecondReminder ==
    [][\A a \in round.rows :
        a.booking \in round'.told \ round.told => <<a.booking, a.at>> \notin texted]_vars

\* The same sentence: anyone who has not been reminded is texted.  A round
\* commits its mark over a move it has not seen, or a move that was loaded
\* before the round's commit leaves the mark: nobody texts the new time.
RemindedInTime ==
    \A b \in Bookings :
        (/\ row[b] # NoRow /\ row[b].status = "confirmed"
         /\ clock + WindowStart > row[b].at
         /\ steady[b] + Interval + WindowStart <= row[b].at) => <<b, row[b].at>> \in texted

\* appointments.py:105, "Cancelling here must also free the slot in Cal.com".
CancelFreesSlot ==
    [][\A r \in Requests :
        (/\ request[r].kind = "patch" /\ request[r].to = "cancelled"
         /\ ~request[r].calls /\ request'[r] = Idle /\ failures' = failures)
            => ~Stands(request[r].booking)]_vars
=============================================================================
