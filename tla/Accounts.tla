------------------------------ MODULE Accounts ------------------------------
(***************************************************************************)
(* The accounts of the dashboard: users of businesses, created and removed *)
(* by their colleagues (api/routes/settings.py), businesses provisioned    *)
(* and removed by platform operators (api/routes/admin.py), sign-in        *)
(* (api/routes/auth.py), the user and the business a request runs as       *)
(* (api/deps.py) and the middleware that keeps viewers from writing        *)
(* (main.py, api/readonly.py).                                             *)
(*                                                                         *)
(* A request loads its user, then checks what its operation asks, then     *)
(* commits; each is a query of its own, and what others commit between two *)
(* of them is only noticed by the database's own constraints.              *)
(***************************************************************************)
EXTENDS Naturals, FiniteSets

CONSTANTS People,     \* ids of users, each given once
          Emails, Businesses, Requests,
          Founder,    \* the operator the seed script creates
          Home, FounderEmail   \* and the business and address it is given

ASSUME FounderAssumption ==
    Founder \in People /\ Home \in Businesses /\ FounderEmail \in Emails

VARIABLES
    user,      \* the committed user rows
    business,  \* the committed businesses
    signedIn,  \* users who hold a token, for as long as its role claim lives
    request,   \* what each handler has in hand
    used,      \* ids given so far
    \* history, read by the properties only
    crowded    \* businesses two removals of which were under way at once

vars == <<user, business, signedIn, request, used, crowded>>

Roles == {"admin", "operator", "viewer"}
User == [email : Emails, role : Roles, business : Businesses]
Absent == [role |-> "none"]
Users == {p \in People : user[p] # Absent}
Of(b) == {p \in Users : user[p].business = b}

Idle == [step |-> "idle"]
\* What a handler has in hand: rows to insert, a user to remove, a business
\* to close.
Insertions == [step : {"writing"}, op : {"create", "provision"}, email : Emails,
               role : Roles, business : Businesses]
Removals == [step : {"counting", "writing"}, op : {"remove"}, target : People,
             business : Businesses]
Closings == [step : {"writing"}, op : {"close"}, business : Businesses]

TypeOK ==
    /\ user \in [People -> User \cup {Absent}]
    /\ business \subseteq Businesses
    /\ signedIn \subseteq People /\ Users \subseteq used /\ used \subseteq People
    /\ request \in [Requests -> {Idle} \cup Insertions \cup Removals \cup Closings]
    /\ crowded \subseteq Businesses

\* What is left of the accounts of the seed script when the operator has
\* removed the other two.
Init ==
    /\ user = [p \in People |->
                IF p = Founder
                THEN [email |-> FounderEmail, role |-> "operator", business |-> Home]
                ELSE Absent]
    /\ business = {Home} /\ used = {Founder}
    /\ signedIn = {} /\ request = [r \in Requests |-> Idle] /\ crowded = {}

-----------------------------------------------------------------------------
\* A user signs in with a password, or a visitor as the configured demo
\* account, which must be a viewer's.  The token outlives the account.
SignIn(p) ==
    /\ p \in Users
    /\ signedIn' = signedIn \cup {p}
    /\ UNCHANGED <<user, business, request, used, crowded>>

\* The middleware lets no viewer change anything.
ViewerAllowed(p) == user[p].role # "viewer"

\* What every changing route asks: a token whose role is not the viewer's,
\* and a user who still exists.
MayWrite(p) == p \in signedIn \cap Users /\ ViewerAllowed(p)
IsOperator(p) == MayWrite(p) /\ user[p].role = "operator"

EmailFree(email) == \A p \in Users : user[p].email # email

Opens(r, work) == request[r] = Idle /\ request' = [request EXCEPT ![r] = work]
Close(r) == request' = [request EXCEPT ![r] = Idle]

\* POST /settings/users: only an operator makes operators, and the address
\* must not be taken.
AskUser(r, p, email, role) ==
    /\ MayWrite(p) /\ (role = "operator" => IsOperator(p))
    /\ EmailFree(email)
    /\ Opens(r, [step |-> "writing", op |-> "create", email |-> email, role |-> role,
                 business |-> user[p].business])
    /\ UNCHANGED <<user, business, signedIn, used, crowded>>

\* POST /admin/businesses: a business and its first administrator.
AskBusiness(r, p, b, email) ==
    /\ IsOperator(p) /\ b \notin business /\ EmailFree(email)
    /\ Opens(r, [step |-> "writing", op |-> "provision", email |-> email,
                 role |-> "admin", business |-> b])
    /\ UNCHANGED <<user, business, signedIn, used, crowded>>

\* Mutant of Admissible: the column is not unique.
AdmissibleTwice(work) == (work.op = "create") = (work.business \in business)

\* What the database lets a new row in for: a free address and a business.
Admissible(work) ==
    /\ EmailFree(work.email)
    /\ (work.op = "create") = (work.business \in business)

\* The rows are inserted in one transaction, or the request fails.
Insert(r) ==
    /\ request[r].step = "writing" /\ request[r].op \in {"create", "provision"}
    /\ LET work == request[r]
       IN \/ /\ Admissible(work)
             /\ \E new \in People \ used :
                  /\ user' = [user EXCEPT ![new] =
                        [email |-> work.email, role |-> work.role,
                         business |-> work.business]]
                  /\ used' = used \cup {new}
             /\ business' = business \cup {work.business}
          \/ ~Admissible(work) /\ UNCHANGED <<user, used, business>>
    /\ Close(r)
    /\ UNCHANGED <<signedIn, crowded>>

-----------------------------------------------------------------------------
\* DELETE /settings/users: a colleague of the same business, not oneself.
AskRemoval(r, p, target) ==
    /\ MayWrite(p) /\ p # target
    /\ target \in Of(user[p].business)
    /\ Opens(r, [step |-> "counting", op |-> "remove", target |-> target,
                 business |-> user[p].business])
    /\ UNCHANGED <<user, business, signedIn, used, crowded>>

Removing(r, b) ==
    request[r].step = "writing" /\ request[r].op = "remove" /\ request[r].business = b

\* Mutant of Count: the users of all businesses are counted.
CountAll(r) ==
    /\ request[r].step = "counting"
    /\ LET b == request[r].business
       IN /\ IF Cardinality(Users) <= 1 THEN Close(r)
             ELSE request' = [request EXCEPT ![r].step = "writing"]
          /\ crowded' = IF \E q \in Requests : Removing(q, b)
                        THEN crowded \cup {b} ELSE crowded
    /\ UNCHANGED <<user, business, signedIn, used>>

\* The users that are left are counted; the last one stays.
Count(r) ==
    /\ request[r].step = "counting"
    /\ LET b == request[r].business
       IN /\ IF Cardinality(Of(b)) <= 1 THEN Close(r)
             ELSE request' = [request EXCEPT ![r].step = "writing"]
          /\ crowded' = IF \E q \in Requests : Removing(q, b)
                        THEN crowded \cup {b} ELSE crowded
    /\ UNCHANGED <<user, business, signedIn, used>>

Remove(r) ==
    /\ request[r].step = "writing" /\ request[r].op = "remove"
    /\ user' = [user EXCEPT ![request[r].target] = Absent]
    /\ Close(r)
    /\ UNCHANGED <<business, signedIn, used, crowded>>

\* DELETE /admin/businesses: the business and everything under it.
AskClosing(r, p, b) ==
    /\ IsOperator(p) /\ b \in business
    /\ Opens(r, [step |-> "writing", op |-> "close", business |-> b])
    /\ UNCHANGED <<user, business, signedIn, used, crowded>>

CloseBusiness(r) ==
    /\ request[r].step = "writing" /\ request[r].op = "close"
    /\ LET b == request[r].business
       IN /\ business' = business \ {b}
          /\ user' = [p \in People |-> IF p \in Of(b) THEN Absent ELSE user[p]]
    /\ Close(r)
    /\ UNCHANGED <<signedIn, used, crowded>>

\* A request fails on its way: nothing it did is kept.
RequestFails(r) ==
    /\ request[r] # Idle /\ Close(r)
    /\ UNCHANGED <<user, business, signedIn, used, crowded>>

Next ==
    \/ \E p \in People : SignIn(p)
    \/ \E r \in Requests, p \in People :
        \/ \E email \in Emails, role \in Roles : AskUser(r, p, email, role)
        \/ \E email \in Emails, b \in Businesses : AskBusiness(r, p, b, email)
        \/ \E target \in People : AskRemoval(r, p, target)
        \/ \E b \in Businesses : AskClosing(r, p, b)
    \/ \E r \in Requests :
        \/ Insert(r) \/ Count(r) \/ Remove(r) \/ CloseBusiness(r) \/ RequestFails(r)

Spec == Init /\ [][Next]_vars

-----------------------------------------------------------------------------
\* models/user.py, a unique address: two accounts never share one, although
\* creation and provisioning look for it long before they insert.
OneAccountPerEmail ==
    \A p, q \in Users : user[p].email = user[q].email => p = q

\* settings.py:280, "a business must keep at least one user": no business is
\* left without one, through removals, closed businesses and failures, as
\* long as no removal counts while another that has counted is not committed.
KeepsAUser == \A b \in business \ crowded : Of(b) # {}

\* The same without the exception, which two users who remove each other at
\* once refute.
AlwaysAUser == \A b \in business : Of(b) # {}
=============================================================================
