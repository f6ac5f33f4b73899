--------------------------- MODULE AccountsProofs ---------------------------
(***************************************************************************)
(* Theorems about Accounts, for any people, addresses, businesses and      *)
(* number of requests.                                                     *)
(***************************************************************************)
EXTENDS Accounts, FiniteSetTheorems, TLAPS

Works == {Idle} \cup Insertions \cup Removals \cup Closings

\* Ids are given one at a time, so that the users can be counted.
Counted == TypeOK /\ IsFiniteSet(used)

\* What is under way, of each kind, tells what the request has in hand.
LEMMA WorkKinds ==
    ASSUME TypeOK, NEW r \in Requests
    PROVE  /\ request[r].step = "counting" => request[r] \in Removals
           /\ request[r].step = "writing" /\ request[r].op = "remove"
                => request[r] \in Removals
           /\ request[r].step = "writing" /\ request[r].op \in {"create", "provision"}
                => request[r] \in Insertions
           /\ request[r].step = "writing" /\ request[r].op = "close"
                => request[r] \in Closings
    BY DEF TypeOK, Idle, Insertions, Removals, Closings

\* A removal that has counted is a removal.
LEMMA RemovingIsRemoval ==
    ASSUME TypeOK, NEW r \in Requests, NEW b, Removing(r, b)
    PROVE  /\ request[r] \in Removals /\ request[r].step = "writing"
           /\ request[r].business = b
    BY WorkKinds DEF Removing

LEMMA CountedInit == Init => Counted
<1> SUFFICES ASSUME Init PROVE Counted
    OBVIOUS
<1>1. user \in [People -> User \cup {Absent}]
    BY FounderAssumption DEF Init, User, Roles
<1>2. Users \subseteq used
    BY DEF Init, Users
<1>3. IsFiniteSet(used)
    BY FS_Singleton DEF Init
<1> QED
    BY <1>1, <1>2, <1>3, FounderAssumption DEF Init, Counted, TypeOK

\* Every step keeps the types, and gives at most one id.
LEMMA CountedStep == Counted /\ [Next]_vars => Counted'
<1> SUFFICES ASSUME Counted, [Next]_vars PROVE Counted'
    OBVIOUS
<1> USE DEF Counted
<1>1. CASE UNCHANGED vars
    BY <1>1 DEF vars, TypeOK, Users
<1>2. ASSUME NEW p \in People, SignIn(p) PROVE Counted'
    BY <1>2 DEF SignIn, TypeOK, Users
<1>3. ASSUME NEW r \in Requests, NEW p \in People, NEW email \in Emails, NEW role \in Roles,
             AskUser(r, p, email, role) PROVE Counted'
  <2>1. p \in Users /\ user[p].business \in Businesses
    BY <1>3 DEF AskUser, MayWrite, TypeOK, Users, User
  <2>2. [step |-> "writing", op |-> "create", email |-> email, role |-> role,
         business |-> user[p].business] \in Insertions
    BY <2>1 DEF Insertions
  <2> QED
    BY <1>3, <2>2 DEF AskUser, Opens, TypeOK, Users
<1>4. ASSUME NEW r \in Requests, NEW p \in People, NEW email \in Emails,
             NEW b \in Businesses, AskBusiness(r, p, b, email) PROVE Counted'
  <2>1. [step |-> "writing", op |-> "provision", email |-> email, role |-> "admin",
         business |-> b] \in Insertions
    BY DEF Insertions, Roles
  <2> QED
    BY <1>4, <2>1 DEF AskBusiness, Opens, TypeOK, Users
<1>5. ASSUME NEW r \in Requests, NEW p \in People, NEW target \in People,
             AskRemoval(r, p, target) PROVE Counted'
  <2>1. p \in Users /\ user[p].business \in Businesses
    BY <1>5 DEF AskRemoval, MayWrite, TypeOK, Users, User
  <2>2. [step |-> "counting", op |-> "remove", target |-> target,
         business |-> user[p].business] \in Removals
    BY <2>1 DEF Removals
  <2> QED
    BY <1>5, <2>2 DEF AskRemoval, Opens, TypeOK, Users
<1>6. ASSUME NEW r \in Requests, NEW p \in People, NEW b \in Businesses,
             AskClosing(r, p, b) PROVE Counted'
  <2>1. [step |-> "writing", op |-> "close", business |-> b] \in Closings
    BY DEF Closings
  <2> QED
    BY <1>6, <2>1 DEF AskClosing, Opens, TypeOK, Users
<1>7. ASSUME NEW r \in Requests, Insert(r) PROVE Counted'
  <2>1. request[r] \in Insertions
    BY <1>7, WorkKinds DEF Insert
  <2>2. request' \in [Requests -> Works]
    BY <1>7 DEF Insert, Close, TypeOK, Works
  <2>3. CASE UNCHANGED <<user, used, business>>
    BY <1>7, <2>2, <2>3 DEF Insert, TypeOK, Users, Works
  <2>4. CASE ~UNCHANGED <<user, used, business>>
    <3>1. PICK new \in People \ used :
            /\ user' = [user EXCEPT ![new] =
                    [email |-> request[r].email, role |-> request[r].role,
                     business |-> request[r].business]]
            /\ used' = used \cup {new}
        BY <1>7, <2>4 DEF Insert
    <3>2. user' \in [People -> User \cup {Absent}]
        BY <2>1, <3>1 DEF TypeOK, User, Insertions
    <3>3. (Users \subseteq used /\ used \subseteq People)'
        BY <3>1 DEF Users, TypeOK
    <3>4. IsFiniteSet(used')
        BY <3>1, FS_AddElement
    <3>5. business' \subseteq Businesses
        BY <1>7, <2>1, <2>4 DEF Insert, TypeOK, Insertions
    <3> QED
        BY <1>7, <2>2, <3>2, <3>3, <3>4, <3>5 DEF Insert, TypeOK, Works
  <2> QED
    BY <2>3, <2>4
<1>8. ASSUME NEW r \in Requests, Count(r) PROVE Counted'
  <2>1. request[r] \in Removals
    BY <1>8, WorkKinds DEF Count
  <2>2. [request[r] EXCEPT !.step = "writing"] \in Removals
    BY <2>1 DEF Removals
  <2>3. request' \in [Requests -> Works]
    BY <1>8, <2>2 DEF Count, Close, TypeOK, Works
  <2>4. crowded' \subseteq Businesses
    BY <1>8, <2>1 DEF Count, TypeOK, Removals
  <2> QED
    BY <1>8, <2>3, <2>4 DEF Count, TypeOK, Users, Works
<1>9. ASSUME NEW r \in Requests, Remove(r) PROVE Counted'
  <2>1. user' \in [People -> User \cup {Absent}] /\ Users' \subseteq Users
    BY <1>9 DEF Remove, TypeOK, Users
  <2> QED
    BY <1>9, <2>1 DEF Remove, Close, TypeOK
<1>10. ASSUME NEW r \in Requests, CloseBusiness(r) PROVE Counted'
  <2>1. user' \in [People -> User \cup {Absent}] /\ Users' \subseteq Users
    BY <1>10 DEF CloseBusiness, TypeOK, Users
  <2> QED
    BY <1>10, <2>1 DEF CloseBusiness, Close, TypeOK
<1>11. ASSUME NEW r \in Requests, RequestFails(r) PROVE Counted'
    BY <1>11 DEF RequestFails, Close, TypeOK, Users
<1> QED
    BY <1>1, <1>2, <1>3, <1>4, <1>5, <1>6, <1>7, <1>8, <1>9, <1>10, <1>11 DEF Next

THEOREM AlwaysCounted == Spec => []Counted
    BY CountedInit, CountedStep, PTL DEF Spec

-----------------------------------------------------------------------------
\* What a step may do to the rows: one new user whose address was free, or
\* fewer of the users there were.
LEMMA RowsStep ==
    ASSUME Counted, [Next]_vars
    PROVE  \/ \A p \in Users' : p \in Users /\ user'[p] = user[p]
           \/ \E new \in People \ used :
                /\ used' = used \cup {new}
                /\ \A p \in Users' : p # new => p \in Users /\ user'[p] = user[p]
                /\ \A p \in Users : p # new /\ user[p].email # user'[new].email
<1> USE DEF Counted
<1>1. CASE UNCHANGED user
    BY <1>1 DEF Users
<1>2. ASSUME NEW r \in Requests, Insert(r), ~UNCHANGED user
      PROVE  \E new \in People \ used :
                /\ used' = used \cup {new}
                /\ \A p \in Users' : p # new => p \in Users /\ user'[p] = user[p]
                /\ \A p \in Users : p # new /\ user[p].email # user'[new].email
  <2>1. PICK new \in People \ used :
            /\ user' = [user EXCEPT ![new] =
                    [email |-> request[r].email, role |-> request[r].role,
                     business |-> request[r].business]]
            /\ used' = used \cup {new}
    BY <1>2 DEF Insert
  <2>2. EmailFree(request[r].email)
    BY <1>2 DEF Insert, Admissible
  <2>3. user'[new].email = request[r].email
    BY <2>1 DEF TypeOK
  <2>4. \A p \in Users' : p # new => p \in Users /\ user'[p] = user[p]
    BY <2>1 DEF TypeOK, Users
  <2>5. \A p \in Users : p # new /\ user[p].email # user'[new].email
    BY <2>1, <2>2, <2>3 DEF TypeOK, EmailFree
  <2> QED
    BY <2>1, <2>4, <2>5
<1>3. ASSUME NEW r \in Requests, Remove(r) \/ CloseBusiness(r)
      PROVE  \A p \in Users' : p \in Users /\ user'[p] = user[p]
    BY <1>3 DEF Remove, CloseBusiness, TypeOK, Users
<1>4. \/ UNCHANGED user
      \/ \E r \in Requests : Insert(r) \/ Remove(r) \/ CloseBusiness(r)
    BY DEF Next, vars, SignIn, AskUser, AskBusiness, AskRemoval, AskClosing, Count,
           RequestFails
<1> QED
    BY <1>1, <1>2, <1>3, <1>4

\* No two accounts share an address, whatever creations and provisionings
\* overlap (models/user.py:32).
THEOREM UniqueAddresses == Spec => []OneAccountPerEmail
<1>1. Init => OneAccountPerEmail
    BY DEF Init, Users, OneAccountPerEmail, Absent
<1>2. Counted /\ OneAccountPerEmail /\ [Next]_vars => OneAccountPerEmail'
    BY RowsStep DEF OneAccountPerEmail
<1> QED
    BY <1>1, <1>2, AlwaysCounted, PTL DEF Spec

-----------------------------------------------------------------------------
\* KeepsAUser is not inductive: a removal that has counted will take one user
\* more.  It takes one of its own business, it is the only one of a business
\* that is not crowded, and it has counted somebody else there.

Targets ==
    \A r \in Requests : request[r] \in Removals =>
        /\ request[r].target \in used
        /\ request[r].target \in Users =>
                user[request[r].target].business = request[r].business

Alone ==
    \A b \in Businesses \ crowded : \A r, q \in Requests :
        Removing(r, b) /\ Removing(q, b) => r = q

Spared ==
    \A b \in business \ crowded : \A r \in Requests :
        Removing(r, b) => \E p \in Of(b) : p # request[r].target

Kept == Counted /\ Targets /\ Alone /\ KeepsAUser /\ Spared

LEMMA KeptInit == Init => Kept
<1> SUFFICES ASSUME Init PROVE Kept
    OBVIOUS
<1>1. Counted
    BY CountedInit
<1>2. \A r \in Requests : request[r] = Idle
    BY DEF Init
<1>3. Targets /\ Alone /\ Spared
    BY <1>2 DEF Targets, Alone, Spared, Removing, Removals, Idle
<1>4. KeepsAUser
  <2>1. Founder \in Of(Home)
    BY FounderAssumption DEF Init, Of, Users, Absent
  <2> QED
    BY <2>1 DEF Init, KeepsAUser
<1> QED
    BY <1>1, <1>3, <1>4 DEF Kept

\* More than one user: one other than the target.
LEMMA Another ==
    ASSUME NEW S, IsFiniteSet(S), NEW t, ~(Cardinality(S) <= 1)
    PROVE  \E p \in S : p # t
<1> SUFFICES ASSUME \A p \in S : p = t PROVE FALSE
    OBVIOUS
<1>1. S \subseteq {t}
    OBVIOUS
<1>2. IsFiniteSet({t}) /\ Cardinality({t}) = 1
    BY FS_Singleton
<1>3. Cardinality(S) \in Nat /\ Cardinality(S) <= Cardinality({t})
    BY <1>1, <1>2, FS_Subset, FS_CardinalityType
<1> QED
    BY <1>2, <1>3

\* A step that leaves the rows and the removals alone.
LEMMA KeptBySame ==
    ASSUME Kept, Counted', UNCHANGED <<user, business, crowded, used>>,
           \A r \in Requests : request'[r] \in Removals => request'[r] = request[r]
    PROVE  Kept'
<1>1. \A r \in Requests, b \in Businesses :
            Removing(r, b)' => Removing(r, b) /\ request'[r] = request[r]
    BY RemovingIsRemoval DEF Kept, Counted, Removing, TypeOK, Idle, Insertions, Removals, Closings
<1>2. business \subseteq Businesses
    BY DEF Kept, Counted, TypeOK
<1>3. \A b : Of(b)' = Of(b)
    BY DEF Of, Users
<1> QED
    BY <1>1, <1>2, <1>3 DEF Kept, Targets, Alone, Spared, KeepsAUser, Users

\* A request that ends by Insert: at most one user more, who is no target.
LEMMA KeptByInsert ==
    ASSUME Kept, Counted', NEW r \in Requests, Insert(r)
    PROVE  Kept'
<1> USE DEF Kept
<1>1. request[r] \in Insertions
    BY WorkKinds DEF Insert, Counted
<1>2. \A q \in Requests : request'[q] \in Removals => request'[q] = request[q]
    BY DEF Insert, Close, Counted, TypeOK, Idle, Removals
<1>3. CASE UNCHANGED <<user, used, business>>
    BY <1>2, <1>3, KeptBySame DEF Insert
<1>4. CASE ~UNCHANGED <<user, used, business>>
  <2>1. PICK new \in People \ used :
            /\ user' = [user EXCEPT ![new] =
                    [email |-> request[r].email, role |-> request[r].role,
                     business |-> request[r].business]]
            /\ used' = used \cup {new}
    BY <1>4 DEF Insert
  <2>2. /\ business' = business \cup {request[r].business}
        /\ request[r].business \in Businesses
    BY <1>1, <1>4 DEF Insert, Insertions
  <2>3. /\ user'[new].business = request[r].business /\ user'[new].role \in Roles
        /\ \A p \in People : p # new => user'[p] = user[p]
    BY <1>1, <2>1 DEF Counted, TypeOK, Insertions
  <2>4. \A b : b = request[r].business => new \in Of(b)'
    BY <2>1, <2>3 DEF Of, Users, Absent, Roles
  <2>5. \A b : Of(b) \subseteq Of(b)'
    BY <2>1, <2>3 DEF Of, Users, Counted, TypeOK
  <2>6. \A q \in Requests, b \in Businesses :
            Removing(q, b)' => Removing(q, b) /\ request'[q] = request[q]
    BY <1>2, RemovingIsRemoval DEF Removing, Counted, TypeOK, Insertions, Removals, Closings, Idle
  <2>7. Targets'
    BY <1>2, <2>1, <2>3 DEF Targets, Users, Counted, TypeOK
  <2>8. Alone'
    BY <2>6 DEF Alone, Insert
  <2>9. KeepsAUser'
    BY <2>2, <2>4, <2>5 DEF KeepsAUser, Insert
  <2>10. ASSUME NEW b \in business' \ crowded', NEW q \in Requests, Removing(q, b)'
         PROVE  \E p \in Of(b)' : p # request'[q].target
    <3>1. Removing(q, b) /\ request'[q] = request[q] /\ request[q].target \in used
        BY <2>2, <2>6, <2>10, RemovingIsRemoval DEF Targets, Counted, TypeOK
    <3>2. CASE b \in business
        BY <2>5, <2>10, <3>1, <3>2 DEF Spared, Insert
    <3>3. CASE b \notin business
        BY <2>1, <2>2, <2>4, <2>10, <3>1, <3>3
    <3> QED
        BY <3>2, <3>3
  <2> QED
    BY <2>7, <2>8, <2>9, <2>10 DEF Spared
<1> QED
    BY <1>3, <1>4

\* A removal that counts others beside its target may go on.
LEMMA KeptByCount ==
    ASSUME Kept, Counted', NEW r \in Requests, Count(r)
    PROVE  Kept'
<1> USE DEF Kept
<1> DEFINE b == request[r].business
<1>1. request[r] \in Removals /\ b \in Businesses
    BY WorkKinds DEF Count, Counted, Removals
<1>2. \A q \in Requests : q # r => request'[q] = request[q]
    BY DEF Count, Close, Counted, TypeOK
<1>3. UNCHANGED <<user, business, used>> /\ crowded \subseteq crowded'
    BY DEF Count
<1>4. \A c : Of(c)' = Of(c)
    BY <1>3 DEF Of, Users
<1>5. business \subseteq Businesses
    BY DEF Counted, TypeOK
<1>6. \A q \in Requests, c \in Businesses : q # r =>
            (Removing(q, c)' <=> Removing(q, c))
    BY <1>2 DEF Removing
<1>7. CASE Cardinality(Of(b)) <= 1
  <2>1. request'[r] = Idle
    BY <1>7 DEF Count, Close, Counted, TypeOK
  <2>2. \A c \in Businesses : ~Removing(r, c)'
    BY <2>1 DEF Removing, Idle
  <2>3. Targets'
    BY <1>2, <1>3, <2>1 DEF Targets, Users, Removals, Idle
  <2> QED
    BY <1>2, <1>3, <1>4, <1>5, <1>6, <2>2, <2>3 DEF Alone, Spared, KeepsAUser
<1>8. CASE ~(Cardinality(Of(b)) <= 1)
  <2>1. request'[r] = [request[r] EXCEPT !.step = "writing"]
    BY <1>8 DEF Count, Counted, TypeOK
  <2>2. /\ request'[r] \in Removals /\ request'[r].target = request[r].target
        /\ request'[r].business = b
    BY <1>1, <2>1 DEF Removals
  <2>3. Targets'
    BY <1>1, <1>2, <1>3, <2>2 DEF Targets, Users
  <2>4. \A c \in Businesses : Removing(r, c)' => c = b
    BY <2>2 DEF Removing
  <2>5. (\E q \in Requests : Removing(q, b)) => b \in crowded'
    BY DEF Count
  <2>6. Alone'
    BY <1>3, <1>6, <2>4, <2>5 DEF Alone
  <2>7. \E p \in Of(b) : p # request[r].target
    <3>1. Of(b) \subseteq used
        BY DEF Of, Counted, TypeOK
    <3>2. IsFiniteSet(Of(b))
        BY <3>1, FS_Subset DEF Counted
    <3> QED
        BY <1>8, <3>2, Another
  <2>8. Spared'
    BY <1>2, <1>3, <1>4, <1>5, <1>6, <2>2, <2>4, <2>7 DEF Spared
  <2> QED
    BY <1>3, <1>4, <2>3, <2>6, <2>8 DEF KeepsAUser
<1> QED
    BY <1>7, <1>8

\* The one removal of a business takes the target, and the other stays.
LEMMA KeptByRemove ==
    ASSUME Kept, Counted', NEW r \in Requests, Remove(r)
    PROVE  Kept'
<1> USE DEF Kept
<1> DEFINE t == request[r].target
           b == request[r].business
<1>1. request[r] \in Removals /\ b \in Businesses /\ t \in People
    BY WorkKinds DEF Remove, Counted, Removals
<1>2. Removing(r, b)
    BY DEF Remove, Removing
<1>3. /\ \A q \in Requests : q # r => request'[q] = request[q]
      /\ request'[r] = Idle
    BY DEF Remove, Close, Counted, TypeOK
<1>4. Users' = Users \ {t} /\ \A p \in Users' : user'[p] = user[p]
    BY <1>1 DEF Remove, Users, Counted, TypeOK
<1>5. \A c : Of(c)' = Of(c) \ {t}
    BY <1>4 DEF Of
<1>6. \A c : c # b => Of(c)' = Of(c)
    BY <1>1, <1>5 DEF Targets, Of
<1>7. \A q \in Requests, c \in Businesses :
            Removing(q, c)' => q # r /\ Removing(q, c)
    BY <1>3 DEF Removing, Idle
<1>8. business \subseteq Businesses /\ UNCHANGED <<business, crowded, used>>
    BY DEF Remove, Counted, TypeOK
<1>9. Targets'
    BY <1>3, <1>4, <1>8 DEF Targets, Removals, Idle
<1>10. Alone'
    BY <1>7, <1>8 DEF Alone
<1>11. KeepsAUser'
    BY <1>2, <1>5, <1>6, <1>8 DEF KeepsAUser, Spared
<1>12. Spared'
    BY <1>2, <1>3, <1>6, <1>7, <1>8 DEF Spared, Alone
<1> QED
    BY <1>9, <1>10, <1>11, <1>12

\* Closing a business takes its users only.
LEMMA KeptByClosing ==
    ASSUME Kept, Counted', NEW r \in Requests, CloseBusiness(r)
    PROVE  Kept'
<1> USE DEF Kept
<1> DEFINE b == request[r].business
<1>1. /\ \A q \in Requests : q # r => request'[q] = request[q]
      /\ request'[r] = Idle
    BY DEF CloseBusiness, Close, Counted, TypeOK
<1>2. Users' = Users \ Of(b) /\ \A p \in Users' : user'[p] = user[p]
    BY DEF CloseBusiness, Users, Of, Counted, TypeOK
<1>3. \A c : c # b => Of(c)' = Of(c)
    BY <1>2 DEF Of
<1>4. \A q \in Requests, c \in Businesses :
            Removing(q, c)' => q # r /\ Removing(q, c)
    BY <1>1 DEF Removing, Idle
<1>5. /\ business \subseteq Businesses /\ UNCHANGED <<crowded, used>>
      /\ business' = business \ {b}
    BY DEF CloseBusiness, Counted, TypeOK
<1>6. Targets'
    BY <1>1, <1>2, <1>5 DEF Targets, Removals, Idle
<1>7. Alone' /\ KeepsAUser'
    BY <1>3, <1>4, <1>5 DEF Alone, KeepsAUser
<1>8. Spared'
    BY <1>1, <1>3, <1>4, <1>5 DEF Spared
<1> QED
    BY <1>6, <1>7, <1>8

\* A removal that opens has counted nobody yet.
LEMMA KeptByAsking ==
    ASSUME Kept, Counted', NEW r \in Requests, NEW p \in People, NEW target \in People,
           AskRemoval(r, p, target)
    PROVE  Kept'
<1> USE DEF Kept
<1>1. /\ \A q \in Requests : q # r => request'[q] = request[q]
      /\ request'[r] = [step |-> "counting", op |-> "remove", target |-> target,
                       business |-> user[p].business]
    BY DEF AskRemoval, Opens, Counted, TypeOK
<1>2. UNCHANGED <<user, business, used, crowded>> /\ business \subseteq Businesses
    BY DEF AskRemoval, Counted, TypeOK
<1>3. target \in used /\ user[target].business = user[p].business
    BY DEF AskRemoval, Of, Counted, TypeOK
<1>4. \A q \in Requests, c \in Businesses :
            Removing(q, c)' => Removing(q, c) /\ request'[q] = request[q]
    BY <1>1 DEF Removing
<1>5. \A c : Of(c)' = Of(c)
    BY <1>2 DEF Of, Users
<1>6. Targets'
    BY <1>1, <1>2, <1>3 DEF Targets, Users
<1> QED
    BY <1>2, <1>4, <1>5, <1>6 DEF Alone, Spared, KeepsAUser

LEMMA KeptStep == Kept /\ [Next]_vars => Kept'
<1> SUFFICES ASSUME Kept, [Next]_vars PROVE Kept'
    OBVIOUS
<1>1. Counted'
    BY CountedStep DEF Kept
<1>2. TypeOK
    BY DEF Kept, Counted
<1>3. CASE UNCHANGED vars
    BY <1>1, <1>3, KeptBySame DEF vars
<1>4. ASSUME NEW p \in People, SignIn(p) PROVE Kept'
    BY <1>1, <1>4, KeptBySame DEF SignIn
<1>5. ASSUME NEW r \in Requests, NEW p \in People, NEW email \in Emails, NEW role \in Roles,
             AskUser(r, p, email, role) PROVE Kept'
    BY <1>1, <1>2, <1>5, KeptBySame DEF AskUser, Opens, TypeOK, Removals
<1>6. ASSUME NEW r \in Requests, NEW p \in People, NEW email \in Emails,
             NEW b \in Businesses, AskBusiness(r, p, b, email) PROVE Kept'
    BY <1>1, <1>2, <1>6, KeptBySame DEF AskBusiness, Opens, TypeOK, Removals
<1>7. ASSUME NEW r \in Requests, NEW p \in People, NEW target \in People,
             AskRemoval(r, p, target) PROVE Kept'
    BY <1>1, <1>7, KeptByAsking
<1>8. ASSUME NEW r \in Requests, NEW p \in People, NEW b \in Businesses,
             AskClosing(r, p, b) PROVE Kept'
    BY <1>1, <1>2, <1>8, KeptBySame DEF AskClosing, Opens, TypeOK, Removals
<1>9. ASSUME NEW r \in Requests, Insert(r) \/ Count(r) \/ Remove(r) \/ CloseBusiness(r)
      PROVE Kept'
    BY <1>1, <1>9, KeptByInsert, KeptByCount, KeptByRemove, KeptByClosing
<1>10. ASSUME NEW r \in Requests, RequestFails(r) PROVE Kept'
    BY <1>1, <1>2, <1>10, KeptBySame DEF RequestFails, Close, TypeOK, Removals, Idle
<1> QED
    BY <1>3, <1>4, <1>5, <1>6, <1>7, <1>8, <1>9, <1>10 DEF Next

\* A business keeps a user as long as no removal counts while another that
\* has counted is not committed (settings.py:280).
THEOREM LastUserStays == Spec => []KeepsAUser
<1>1. Kept => KeepsAUser
    BY DEF Kept
<1> QED
    BY <1>1, KeptInit, KeptStep, PTL DEF Spec
=============================================================================
