----------------------- MODULE ProviderChainProofs -----------------------
(* Proofs about PlatformSettings and ProviderChain, for any settings, any
   values, any number of updates, requests and chains.                     *)
EXTENDS ProviderChain, SequenceTheorems, TLAPS

(* Shapes of the settings state. *)
Shape ==
  /\ stored \in [Key -> Row]
  /\ live \in [Key -> Value]
  /\ baseline \in [Key -> Value]
  /\ baseline = env
  /\ pc \in [Update -> {"idle", "select", "apply", "flush", "commit"}]
  /\ DOMAIN batch = Update /\ DOMAIN seen = Update
  /\ \A u \in Update : pc[u] # "idle" =>
       DOMAIN batch[u] \subseteq Key /\ \A k \in DOMAIN batch[u] : batch[u][k] \in Value \cup {Unset}
  /\ torn \subseteq Key

(* What an update that has changed the live object relies on: for a key that
   is not torn it is alone, the row is the one it read, and the live value is
   the one it will have stored.                                             *)
Hold(u) ==
  \A k \in Keys(u) \ torn :
    /\ live[k] = (IF batch[u][k] = Unset THEN baseline[k] ELSE batch[u][k])
    /\ seen[u][k] = stored[k]
    /\ \A v \in Applied : k \in Keys(v) => v = u

SettingsInv ==
  /\ Shape
  /\ LiveFollowsStored
  /\ \A u \in Applied : Hold(u)

LEMMA SettingsStart == SettingsInit => SettingsInv
  BY SettingsAssumption DEF SettingsInit, SettingsInv, Shape, LiveFollowsStored, Applied, Row, Overlay

LEMMA SelectSafe ==
  ASSUME SettingsInv, NEW u \in Update, Submit(u) \/ Select(u)
  PROVE  SettingsInv'
<1>1. Shape'
  BY SettingsAssumption DEF SettingsInv, Shape, Submit, Select, Row, Keys
<1>2. /\ Applied' = Applied
      /\ \A v \in Applied : batch'[v] = batch[v] /\ seen'[v] = seen[v]
      /\ UNCHANGED <<stored, live, baseline, env, torn>>
  BY DEF SettingsInv, Shape, Submit, Select, Applied
<1>3. LiveFollowsStored'
  BY <1>2 DEF SettingsInv, LiveFollowsStored, Overlay, Keys
<1>4. \A v \in Applied' : Hold(v)'
  BY <1>2 DEF SettingsInv, Hold, Keys
<1> QED BY <1>1, <1>3, <1>4 DEF SettingsInv

LEMMA ApplySafe ==
  ASSUME SettingsInv, NEW u \in Update, Apply(u)
  PROVE  SettingsInv'
<1>1. Shape'
  BY SettingsAssumption DEF SettingsInv, Shape, Apply, Live, Row, Keys
<1>2. Applied' = Applied \cup {u} /\ u \notin Applied
  BY DEF SettingsInv, Shape, Apply, Applied
<1>3. UNCHANGED <<stored, baseline, env, batch, seen>>
  BY DEF Apply, Live
<1>4. \A k \in Key \ Keys(u) : live'[k] = live[k] /\ (k \in torn' <=> k \in torn)
  BY DEF Apply, Live
<1>5. LiveFollowsStored'
  BY <1>2, <1>3, <1>4 DEF SettingsInv, Shape, LiveFollowsStored, Overlay, Keys
<1>6. Keys(u) \subseteq Key
  BY DEF SettingsInv, Shape, Apply, Keys
<1>7. Hold(u)'
  <2> SUFFICES ASSUME NEW k \in Keys(u) \ torn'
               PROVE  /\ live'[k] = (IF batch[u][k] = Unset THEN baseline[k] ELSE batch[u][k])
                      /\ seen[u][k] = stored[k]
                      /\ \A v \in Applied' : k \in Keys(v) => v = u
    BY <1>3 DEF Hold, Keys
  <2>1. live'[k] = (IF batch[u][k] = Unset THEN baseline[k] ELSE batch[u][k])
    BY <1>6 DEF Apply, Live
  <2>2. seen[u][k] = stored[k] /\ \A v \in Applied : k \notin Keys(v)
    BY DEF Apply, Live
  <2> QED BY <1>2, <2>1, <2>2
<1>8. ASSUME NEW v \in Applied PROVE Hold(v)'
  <2> SUFFICES ASSUME NEW k \in Keys(v) \ torn'
               PROVE  /\ live'[k] = (IF batch[v][k] = Unset THEN baseline[k] ELSE batch[v][k])
                      /\ seen[v][k] = stored[k]
                      /\ \A w \in Applied' : k \in Keys(w) => w = v
    BY <1>3 DEF Hold, Keys
  <2>1. k \notin Keys(u)
    BY DEF Apply, Live
  <2>2. k \in Key
    BY DEF SettingsInv, Shape, Applied, Keys
  <2> QED BY <1>2, <1>4, <2>1, <2>2 DEF SettingsInv, Hold
<1> QED BY <1>1, <1>2, <1>5, <1>7, <1>8 DEF SettingsInv

LEMMA FlushSafe ==
  ASSUME SettingsInv, NEW u \in Update, Flush(u)
  PROVE  SettingsInv'
<1>1. Shape'
  BY DEF SettingsInv, Shape, Flush
<1>2. Applied' = Applied /\ UNCHANGED <<stored, live, baseline, env, batch, seen, torn>>
  BY DEF SettingsInv, Shape, Flush, Applied
<1> QED BY <1>1, <1>2 DEF SettingsInv, LiveFollowsStored, Overlay, Hold, Keys

LEMMA CommitSafe ==
  ASSUME SettingsInv, NEW u \in Update, Commit(u)
  PROVE  SettingsInv'
<1>0. u \in Applied /\ Keys(u) \subseteq Key /\ Hold(u)
  BY DEF SettingsInv, Shape, Commit, Applied, Keys
<1>1. Shape'
  BY SettingsAssumption DEF SettingsInv, Shape, Commit, Idle, Empty, Row, Keys, Writes, Deletes, Inserts, Rewrites
<1>2. Applied' = Applied \ {u}
  BY DEF SettingsInv, Shape, Commit, Idle, Applied
<1>3. /\ UNCHANGED <<live, baseline, env, torn>>
      /\ \A v \in Applied' : batch'[v] = batch[v] /\ seen'[v] = seen[v]
      /\ \A k \in Key \ Keys(u) : stored'[k] = stored[k]
  BY <1>2 DEF SettingsInv, Shape, Commit, Idle, Writes, Deletes, Inserts, Rewrites, Applied
<1>4. ASSUME NEW k \in Keys(u) \ torn
      PROVE  live[k] = Overlay(stored', env)[k]
  <2>0. /\ k \in Key
        /\ live[k] = (IF batch[u][k] = Unset THEN baseline[k] ELSE batch[u][k])
        /\ seen[u][k] = stored[k]
        /\ baseline[k] = env[k]
    BY <1>0 DEF Hold, SettingsInv, Shape
  <2>1. CASE batch[u][k] = Unset
    <3>1. stored'[k] = NoRow
      BY <2>0, <2>1 DEF Commit, Deletes, Writes, Inserts, Rewrites
    <3> QED BY <2>0, <2>1, <3>1, SettingsAssumption DEF Overlay
  <2>2. CASE batch[u][k] # Unset
    <3>1. stored'[k] = batch[u][k]
      BY <2>0, <2>2 DEF Commit, Deletes, Writes, Inserts, Rewrites
    <3>2. batch[u][k] \in Value
      BY <1>0, <2>2 DEF SettingsInv, Shape, Applied, Keys
    <3> QED BY <2>0, <2>2, <3>1, <3>2 DEF Overlay
  <2> QED BY <2>1, <2>2
<1>5. LiveFollowsStored'
  <2> SUFFICES ASSUME NEW k \in Key \ torn, \A v \in Applied' : k \notin Keys(v)
               PROVE  live[k] = Overlay(stored', env)[k]
    BY <1>3 DEF LiveFollowsStored, Keys
  <2>1. CASE k \in Keys(u)
    BY <2>1, <1>4
  <2>2. CASE k \notin Keys(u)
    BY <2>2, <1>2, <1>3 DEF SettingsInv, LiveFollowsStored, Overlay
  <2> QED BY <2>1, <2>2
<1>6. ASSUME NEW v \in Applied' PROVE Hold(v)'
  <2> SUFFICES ASSUME NEW k \in Keys(v) \ torn
               PROVE  /\ live[k] = (IF batch[v][k] = Unset THEN baseline[k] ELSE batch[v][k])
                      /\ seen[v][k] = stored'[k]
                      /\ \A w \in Applied' : k \in Keys(w) => w = v
    BY <1>3 DEF Hold, Keys
  <2>1. v \in Applied /\ v # u /\ Hold(v)
    BY <1>2 DEF SettingsInv
  <2>2. k \notin Keys(u) /\ k \in Key
    BY <2>1, <1>0 DEF Hold, SettingsInv, Shape, Applied, Keys
  <2> QED BY <1>2, <1>3, <2>1, <2>2 DEF Hold
<1> QED BY <1>1, <1>5, <1>6 DEF SettingsInv

LEMMA FailSafe ==
  ASSUME SettingsInv, NEW u \in Update, Fail(u)
  PROVE  SettingsInv'
<1>1. Shape'
  BY DEF SettingsInv, Shape, Fail, Idle, Empty, Keys, Applied
<1>2. Applied' = Applied \ {u}
  BY DEF SettingsInv, Shape, Fail, Idle, Applied
<1>3. /\ UNCHANGED <<stored, live, baseline, env>>
      /\ \A v \in Applied' : batch'[v] = batch[v] /\ seen'[v] = seen[v]
      /\ torn \subseteq torn' /\ (u \in Applied => Keys(u) \subseteq torn')
  BY <1>2 DEF SettingsInv, Shape, Fail, Idle, Applied
<1>4. LiveFollowsStored'
  BY <1>2, <1>3 DEF SettingsInv, LiveFollowsStored, Overlay, Keys
<1>5. \A v \in Applied' : Hold(v)'
  BY <1>2, <1>3 DEF SettingsInv, Hold, Keys
<1> QED BY <1>1, <1>4, <1>5 DEF SettingsInv

LEMMA RestartSafe ==
  ASSUME SettingsInv, NEW loaded \in BOOLEAN, Restart(loaded)
  PROVE  SettingsInv'
<1>1. Applied' = {}
  BY DEF Restart, Applied
<1>2. stored' \in [Key -> Row] /\ env' \in [Key -> Value] /\ baseline' = env'
  BY SettingsAssumption DEF Restart, SettingsInv, Shape, Row
<1>3. Shape'
  BY <1>2, SettingsAssumption DEF Restart, SettingsInv, Shape, Overlay, Row, Empty
<1>4. LiveFollowsStored'
  BY <1>2, SettingsAssumption DEF Restart, LiveFollowsStored, Overlay, Row
<1> QED BY <1>1, <1>3, <1>4 DEF SettingsInv

LEMMA SettingsInductive ==
  ASSUME SettingsInv, [SettingsNext]_settingsVars
  PROVE  SettingsInv'
<1>1. CASE UNCHANGED settingsVars
  BY <1>1 DEF settingsVars, SettingsInv, Shape, LiveFollowsStored, Overlay, Hold, Applied, Keys
<1>2. ASSUME NEW u \in Update, Step(u) PROVE SettingsInv'
  BY <1>2, SelectSafe, ApplySafe, FlushSafe, CommitSafe, FailSafe DEF Step
<1>3. ASSUME NEW loaded \in BOOLEAN, Restart(loaded) PROVE SettingsInv'
  BY <1>3, RestartSafe
<1> QED BY <1>1, <1>2, <1>3 DEF SettingsNext

(* A key that no update has in hand, and that is not marked as torn, runs on
   its row or on the environment (PlatformSettings).                        *)
THEOREM LiveSound == SettingsSpec => []LiveFollowsStored
<1>1. SettingsInv => LiveFollowsStored
  BY DEF SettingsInv
<1> QED BY SettingsStart, SettingsInductive, <1>1, PTL DEF SettingsSpec

---------------------------------------------------------------------------
(* Every step of the composition is a step of the settings alone, or none.  *)
LEMMA SettingsStep == [Next]_allVars => [SettingsNext]_settingsVars
BY DEF Next, allVars, Edit, Announce, EditFails, Boot, SettingsNext, Step

LEMMA SettingsPart == Spec => SettingsSpec
<1>1. Init => SettingsInit
  BY DEF Init
<1> QED BY <1>1, SettingsStep, PTL DEF Spec, SettingsSpec

(* The same for the composition. *)
THEOREM LiveSoundInChain == Spec => []LiveFollowsStored
BY SettingsPart, LiveSound, PTL

---------------------------------------------------------------------------
ChainShape ==
  /\ health \in [Component -> [Tier -> {"unknown", "up", "down"}]]
  /\ \A c \in Component : health[c][Mock] # "down"
  /\ at \in [Client -> {"idle", "status", "probing", "calling", "answered"}]
  /\ component \in [Client -> Component]
  /\ tier \in [Client -> Tier]
  /\ attempts = [p \in Client |-> attempts[p]]
  /\ \A p \in Client : at[p] = "probing" => tier[p] = Local
  /\ pc = [u \in Update |-> pc[u]]

(* A request under way has on record exactly the tiers before its own. *)
LogInv ==
  \A r \in Request : at[r] \in {"status", "probing", "calling"} => attempts[r] = Passed(Local, tier[r])

(* A paid provider passes for healthy in local-only mode only until the
   registry is told, or after an update failed to tell it.                  *)
CacheInv == \A c \in Component : health[c][Cloud] = "up" /\ LocalOnly => Excused

ChainInv == ChainShape /\ LogInv /\ CacheInv

LEMMA FirstOpenIsOpen ==
  ASSUME NEW h, NEW t \in Tier, h[Mock] # "down"
  PROVE  FirstOpen(h, t) \in t..Mock /\ h[FirstOpen(h, t)] # "down"
<1>1. \E n \in t..Mock : h[n] # "down" /\ \A i \in t..(n - 1) : h[i] = "down"
  <2>1. CASE h[t] # "down"
    BY <2>1 DEF Tier, Local, Mock
  <2>2. CASE h[t] = "down" /\ t = 2
    BY <2>2 DEF Tier, Local, Mock
  <2>3. CASE h[t] = "down" /\ t = 1 /\ h[2] # "down"
    BY <2>3 DEF Tier, Local, Mock
  <2>4. CASE h[t] = "down" /\ t = 1 /\ h[2] = "down"
    <3>1. \A i \in 1..(3 - 1) : h[i] = "down"
      BY <2>4
    <3> QED BY <3>1, <2>4 DEF Tier, Local, Mock
  <2> QED BY <2>1, <2>2, <2>3, <2>4 DEF Tier, Local, Mock
<1> QED BY <1>1 DEF FirstOpen

LEMMA PassedOn ==
  ASSUME NEW t \in Tier, NEW n \in t..Mock
  PROVE  /\ Passed(Local, t) \o Passed(t, n) = Passed(Local, n)
         /\ Append(Passed(Local, t), Refused(t)) = Passed(Local, t + 1)
         /\ << >> \o Passed(Local, n) = Passed(Local, n)
         /\ Passed(Local, t) \in Seq([tier : Nat, ok : BOOLEAN]) /\ Len(Passed(Local, t)) = t - 1
<1> DEFINE Entry == [tier : Nat, ok : BOOLEAN]
           a == Passed(Local, t)
           b == Passed(t, n)
           c == Passed(Local, n)
           d == Passed(Local, t + 1)
<1>0. t \in Nat /\ n \in Nat /\ 1 <= t /\ t <= n /\ Refused(t) \in Entry
  BY DEF Tier, Local, Mock, Refused
<1>1. /\ a \in Seq(Entry) /\ Len(a) = t - 1 /\ \A i \in 1..(t - 1) : a[i] = Refused(i)
      /\ c \in Seq(Entry) /\ Len(c) = n - 1 /\ \A i \in 1..(n - 1) : c[i] = Refused(i)
      /\ d \in Seq(Entry) /\ Len(d) = t /\ \A i \in 1..t : d[i] = Refused(i)
  BY <1>0 DEF Passed, Refused, Local
<1>2. b \in Seq(Entry) /\ Len(b) = n - t /\ \A i \in 1..(n - t) : b[i] = Refused(t + i - 1)
  BY <1>0 DEF Passed, Refused
<1> HIDE DEF a, b, c, d, Entry
<1>3. a \o b = c
  <2>1. /\ a \o b \in Seq(Entry) /\ Len(a \o b) = n - 1
        /\ \A i \in 1..(n - 1) : (a \o b)[i] = IF i <= t - 1 THEN a[i] ELSE b[i - (t - 1)]
    BY <1>0, <1>1, <1>2, ConcatProperties
  <2>2. ASSUME NEW i \in 1..(n - 1), ~(i <= t - 1) PROVE b[i - (t - 1)] = Refused(i)
    <3>1. i - (t - 1) \in 1..(n - t) /\ t + (i - (t - 1)) - 1 = i
      BY <1>0, <2>2
    <3> QED BY <1>2, <3>1
  <2>3. \A i \in 1..(n - 1) : (a \o b)[i] = c[i]
    <3> SUFFICES ASSUME NEW i \in 1..(n - 1) PROVE (a \o b)[i] = c[i]
      OBVIOUS
    <3>1. CASE i <= t - 1
      <4>1. i \in 1..(t - 1)
        BY <1>0, <3>1
      <4> QED BY <1>1, <2>1, <3>1, <4>1
    <3>2. CASE ~(i <= t - 1)
      BY <1>1, <2>1, <2>2, <3>2
    <3> QED BY <3>1, <3>2
  <2> QED BY <1>1, <2>1, <2>3, SeqEqual
<1>4. Append(a, Refused(t)) = d
  <2>1. /\ Append(a, Refused(t)) \in Seq(Entry) /\ Len(Append(a, Refused(t))) = t
        /\ \A i \in 1..(t - 1) : Append(a, Refused(t))[i] = a[i]
        /\ Append(a, Refused(t))[t] = Refused(t)
    BY <1>0, <1>1, AppendProperties
  <2>2. \A i \in 1..t : Append(a, Refused(t))[i] = d[i]
    BY <1>0, <1>1, <2>1
  <2> QED BY <1>1, <2>1, <2>2, SeqEqual
<1>5. << >> \o c = c
  BY <1>1, ConcatEmptySeq
<1> QED BY <1>1, <1>3, <1>4, <1>5 DEF a, b, c, d, Entry

LEMMA SamePassed ==
  ASSUME NEW t \in Tier
  PROVE  Passed(Local, t) = Promise!Passed(t - 1)
BY DEF Passed, Refused, Promise!Passed, Tier, Local, Mock

(* What a walk does to the request, and to no other process. *)
LEMMA WalkEffect ==
  ASSUME ChainShape, NEW r \in Request, NEW c \in Component, NEW t \in Tier,
         NEW h \in [Tier -> {"unknown", "up", "down"}], h[Mock] # "down",
         WalkOn(r, c, h, t, Passed(Local, t))
  PROVE  /\ at' \in [Client -> {"idle", "status", "probing", "calling", "answered"}]
         /\ tier' \in [Client -> Tier]
         /\ attempts' = [p \in Client |-> attempts'[p]]
         /\ at'[r] \in {"status", "calling"} /\ tier'[r] \in t..Mock
         /\ attempts'[r] = Passed(Local, tier'[r])
         /\ at'[r] = "calling" /\ tier'[r] = Cloud => h[Cloud] = "up"
         /\ \A p \in Client \ {r} : at'[p] = at[p] /\ tier'[p] = tier[p] /\ attempts'[p] = attempts[p]
<1> DEFINE n == FirstOpen(h, t)
<1>1. n \in t..Mock /\ n \in Tier
  BY FirstOpenIsOpen DEF Tier, Local, Mock
<1>2. r \in Client
  BY DEF Client
<1>3. tier'[r] = n /\ at'[r] = (IF h[n] = "up" THEN "calling" ELSE "status")
  BY <1>1, <1>2 DEF WalkOn, ChainShape
<1>4. attempts'[r] = Passed(Local, n)
  <2>1. attempts'[r] = Passed(Local, t) \o Passed(t, n)
    BY <1>2 DEF WalkOn, ChainShape
  <2> QED BY <2>1, <1>1, PassedOn
<1>5. attempts' = [p \in Client |-> attempts'[p]]
  BY DEF WalkOn, ChainShape
<1> HIDE DEF n
<1>6. /\ at' \in [Client -> {"idle", "status", "probing", "calling", "answered"}]
      /\ tier' \in [Client -> Tier]
      /\ \A p \in Client \ {r} : at'[p] = at[p] /\ tier'[p] = tier[p] /\ attempts'[p] = attempts[p]
  BY <1>1 DEF WalkOn, ChainShape, n
<1> QED BY <1>1, <1>3, <1>4, <1>5, <1>6

(* Walking is a step the abstract chain allows, with the invariant kept. *)
PaidStep == \A r \in Request : Begins(r) => ~LocalOnly \/ Excused
AbstractStep == Promise!Next \/ UNCHANGED Promise!vars
Good == ChainShape' /\ LogInv' /\ AbstractStep

LEMMA WalkGood ==
  ASSUME ChainInv, NEW r \in Request, NEW c \in Component, NEW t \in Tier,
         NEW h \in [Tier -> {"unknown", "up", "down"}], h[Mock] # "down",
         WalkOn(r, c, h, t, Passed(Local, t)), UNCHANGED pc,
         \/ at[r] \in {"idle", "answered"} /\ t = Local
         \/ at[r] \in {"status", "probing", "calling"} /\ tier[r] <= t,
         component' \in [Client -> Component],
         health' \in [Component -> [Tier -> {"unknown", "up", "down"}]],
         \A d \in Component : health'[d][Mock] # "down",
         h[Cloud] = "up" => ~LocalOnly \/ Excused
  PROVE  Good /\ PaidStep
<1>1. /\ at' \in [Client -> {"idle", "status", "probing", "calling", "answered"}]
      /\ tier' \in [Client -> Tier]
      /\ attempts' = [p \in Client |-> attempts'[p]]
      /\ at'[r] \in {"status", "calling"} /\ tier'[r] \in t..Mock
      /\ attempts'[r] = Passed(Local, tier'[r])
      /\ at'[r] = "calling" /\ tier'[r] = Cloud => h[Cloud] = "up"
      /\ \A p \in Client \ {r} : at'[p] = at[p] /\ tier'[p] = tier[p] /\ attempts'[p] = attempts[p]
  BY WalkEffect DEF ChainInv
<1>2. ChainShape' /\ LogInv'
  BY <1>1 DEF ChainInv, ChainShape, LogInv, Client
<1>3. PaidStep
  BY <1>1 DEF PaidStep, Begins, Client
<1>4. attempts'[r] = Promise!Passed(tier'[r] - 1) /\ tier'[r] - 1 \in 0..(Mock - 1)
  <2>1. tier'[r] \in Tier /\ attempts'[r] = Passed(Local, tier'[r])
    BY <1>1 DEF Client
  <2> QED BY <2>1, SamePassed DEF Tier, Local, Mock
<1>5. [q \in Request |-> attempts[q]]' = [[q \in Request |-> attempts[q]] EXCEPT ![r] = Promise!Passed(tier'[r] - 1)]
  <2>1. \A q \in Request \ {r} : attempts'[q] = attempts[q]
    BY <1>1 DEF Client
  <2> QED BY <1>4, <2>1
<1>6. [q \in Request |-> Standing(q)]' = [[q \in Request |-> Standing(q)] EXCEPT ![r] = "open"]
  BY <1>1 DEF Standing, Client
<1>7. CASE at[r] \in {"idle", "answered"}
  <2>1. [q \in Request |-> Standing(q)][r] # "open"
    BY <1>7 DEF Standing
  <2>2. Promise!Ask(r)
    BY <1>4, <1>5, <1>6, <2>1 DEF Promise!Ask
  <2> QED BY <1>2, <1>3, <2>2 DEF Promise!Next, AbstractStep, Good
<1>8. CASE at[r] \in {"status", "probing", "calling"} /\ tier[r] <= t
  <2>1. attempts[r] = Passed(Local, tier[r]) /\ tier[r] \in Tier
    BY <1>8 DEF ChainInv, LogInv, ChainShape, Client
  <2>2. Len(attempts[r]) = tier[r] - 1
    <3>1. tier[r] \in tier[r]..Mock
      BY <2>1 DEF Tier, Local, Mock
    <3> QED BY <2>1, <3>1, PassedOn
  <2>3. tier'[r] - 1 \in Len(attempts[r])..(Mock - 1)
    BY <1>1, <1>8, <2>1, <2>2 DEF Tier, Local, Mock
  <2>4. [q \in Request |-> Standing(q)]' = [q \in Request |-> Standing(q)]
    BY <1>1, <1>8 DEF Standing, Client
  <2>5. Standing(r) = "open"
    BY <1>8 DEF Standing
  <2>6. Promise!Refuse(r)
    BY <1>5, <2>3, <2>4, <2>5 DEF Promise!Refuse
  <2> QED BY <1>2, <1>3, <2>6 DEF Promise!Next, AbstractStep, Good
<1> QED BY <1>2, <1>3, <1>7, <1>8 DEF Good

(* A step that leaves every request where it is. *)
LEMMA Undisturbed ==
  ASSUME ChainInv, ChainShape',
         \A r \in Request : at'[r] = at[r] \/ (at[r] = "status" /\ at'[r] = "probing"),
         \A r \in Request : tier'[r] = tier[r] /\ attempts'[r] = attempts[r]
  PROVE  Good /\ PaidStep
<1>1. \A r \in Request : Standing(r)' = Standing(r)
  BY DEF Standing
<1>2. LogInv'
  BY DEF ChainInv, LogInv
<1>3. AbstractStep
  BY <1>1 DEF AbstractStep, Promise!vars
<1>4. PaidStep
  BY DEF PaidStep, Begins
<1> QED BY <1>2, <1>3, <1>4 DEF Good

LEMMA AskGood ==
  ASSUME ChainInv, NEW r \in Request, Ask(r), UNCHANGED settingsVars
  PROVE  Good /\ PaidStep /\ CacheInv'
<1>1. PICK c \in Component : /\ component' = [component EXCEPT ![r] = c]
                             /\ WalkOn(r, c, health[c], Local, << >>)
  BY DEF Ask
<1>2. << >> = Passed(Local, Local)
  BY DEF Passed, Local
<1>3. CacheInv'
  BY DEF ChainInv, CacheInv, Ask, settingsVars, LocalOnly, Excused
<1>4. /\ health[c] \in [Tier -> {"unknown", "up", "down"}] /\ health[c][Mock] # "down"
      /\ health[c][Cloud] = "up" => ~LocalOnly \/ Excused
      /\ Local \in Tier
  BY DEF ChainInv, ChainShape, CacheInv, Tier, Local, Mock
<1>5. /\ component' \in [Client -> Component] /\ UNCHANGED <<pc, health>>
      /\ at[r] \in {"idle", "answered"}
  BY <1>1 DEF ChainInv, ChainShape, Ask, settingsVars
<1> QED BY <1>1, <1>2, <1>3, <1>4, <1>5, WalkGood DEF ChainInv, ChainShape

(* What a probe or a call teaches. *)
LEMMA LearnEffect ==
  ASSUME ChainInv, NEW p \in Client, NEW v \in {"up", "down"}, Learn(p, v),
         tier[p] = Mock => v = "up"
  PROVE  LET h == [health[component[p]] EXCEPT ![tier[p]] = v] IN
         /\ h \in [Tier -> {"unknown", "up", "down"}] /\ h[Mock] # "down"
         /\ health' \in [Component -> [Tier -> {"unknown", "up", "down"}]]
         /\ \A d \in Component : health'[d][Mock] # "down"
         /\ tier[p] # Cloud => \A d \in Component : health'[d][Cloud] = health[d][Cloud]
         /\ \A d \in Component : health'[d][Cloud] = "up" =>
              health[d][Cloud] = "up" \/ (d = component[p] /\ tier[p] = Cloud /\ v = "up")
BY DEF ChainInv, ChainShape, Learn, Tier, Local, Cloud, Mock

LEMMA ProbeEndsGood ==
  ASSUME ChainInv, NEW r \in Request, ProbeEnds(r), UNCHANGED settingsVars
  PROVE  Good /\ PaidStep /\ CacheInv'
<1> DEFINE c == component[r]
           h == [health[c] EXCEPT ![Local] = Seen(r)]
<1>1. /\ r \in Client /\ tier[r] = Local /\ c \in Component /\ Seen(r) \in {"up", "down"}
      /\ at[r] = "probing" /\ Local \in Tier /\ Local # Mock /\ Local # Cloud
  BY DEF ProbeEnds, ChainInv, ChainShape, Client, Seen, Tier, Local, Mock, Cloud
<1>2. attempts[r] = Passed(Local, Local)
  BY <1>1 DEF ChainInv, LogInv
<1>3. /\ h \in [Tier -> {"unknown", "up", "down"}] /\ h[Mock] # "down"
      /\ health' \in [Component -> [Tier -> {"unknown", "up", "down"}]]
      /\ \A d \in Component : health'[d][Mock] # "down" /\ health'[d][Cloud] = health[d][Cloud]
  BY <1>1, LearnEffect DEF ProbeEnds
<1>4. h[Cloud] = health[c][Cloud]
  BY <1>1 DEF ChainInv, ChainShape, Tier, Cloud, Mock, Local
<1>5. h[Cloud] = "up" => ~LocalOnly \/ Excused
  BY <1>1, <1>4 DEF ChainInv, CacheInv
<1>6. CacheInv'
  BY <1>3 DEF ChainInv, CacheInv, ProbeEnds, settingsVars, LocalOnly, Excused
<1>7. component' \in [Client -> Component] /\ pc' = pc /\ WalkOn(r, c, h, Local, Passed(Local, Local))
  BY <1>2 DEF ChainInv, ChainShape, ProbeEnds, settingsVars
<1> HIDE DEF h, c
<1>8. tier[r] <= Local
  BY <1>1 DEF Local
<1> QED BY <1>1, <1>3, <1>5, <1>6, <1>7, <1>8, WalkGood

LEMMA ProbeRemoteGood ==
  ASSUME ChainInv, NEW r \in Request, ProbeRemote(r), UNCHANGED settingsVars
  PROVE  Good /\ PaidStep /\ CacheInv'
<1> DEFINE c == component[r]
           t == tier[r]
           v == Verdict(c, t)
           h == [health[c] EXCEPT ![t] = v]
<1>1. /\ r \in Client /\ t \in Tier /\ c \in Component /\ v \in {"up", "down"}
      /\ at[r] = "status" /\ (t = Mock => v = "up") /\ t <= t
  BY DEF ProbeRemote, ChainInv, ChainShape, Client, Verdict, Tier, Local, Mock
<1>2. attempts[r] = Passed(Local, t)
  BY <1>1 DEF ChainInv, LogInv
<1>3. t = Cloud /\ v = "up" => ~LocalOnly
  <2> SUFFICES ASSUME t = Cloud, v = "up" PROVE ~LocalOnly
    OBVIOUS
  <2>1. Configured(live, c)
    BY DEF Verdict, Cloud, Mock
  <2> QED BY <2>1 DEF Configured, LocalOnly
<1>4. /\ h \in [Tier -> {"unknown", "up", "down"}] /\ h[Mock] # "down"
      /\ health' \in [Component -> [Tier -> {"unknown", "up", "down"}]]
      /\ \A d \in Component : health'[d][Mock] # "down"
      /\ \A d \in Component : health'[d][Cloud] = "up" =>
           health[d][Cloud] = "up" \/ (t = Cloud /\ v = "up")
  BY <1>1, LearnEffect DEF ProbeRemote
<1>5. h[Cloud] = "up" => ~LocalOnly \/ Excused
  BY <1>1, <1>3 DEF ChainInv, ChainShape, CacheInv, Tier, Cloud, Mock, Local
<1>6. CacheInv'
  BY <1>3, <1>4 DEF ChainInv, CacheInv, ProbeRemote, settingsVars, LocalOnly, Excused
<1>7. component' \in [Client -> Component] /\ pc' = pc /\ WalkOn(r, c, h, t, Passed(Local, t))
  BY <1>2 DEF ChainInv, ChainShape, ProbeRemote, settingsVars
<1> HIDE DEF h, c, v, t
<1> QED BY <1>1, <1>4, <1>5, <1>6, <1>7, WalkGood DEF t

LEMMA CallFailsGood ==
  ASSUME ChainInv, NEW r \in Request, CallFails(r), UNCHANGED settingsVars
  PROVE  Good /\ PaidStep /\ CacheInv'
<1> DEFINE c == component[r]
           t == tier[r] + 1
           h == health[c]
<1>1. /\ r \in Client /\ t \in Tier /\ tier[r] \in Tier /\ tier[r] <= t /\ c \in Component
      /\ at[r] = "calling" /\ tier[r] # Mock
  BY DEF CallFails, ChainInv, ChainShape, Client, Tier, Local, Mock
<1>2. Append(attempts[r], Refused(tier[r])) = Passed(Local, t)
  <2>1. attempts[r] = Passed(Local, tier[r])
    BY <1>1 DEF ChainInv, LogInv
  <2>2. tier[r] \in tier[r]..Mock
    BY <1>1 DEF Tier, Local, Mock
  <2> QED BY <1>1, <2>1, <2>2, PassedOn
<1>3. /\ h \in [Tier -> {"unknown", "up", "down"}] /\ h[Mock] # "down"
      /\ h[Cloud] = "up" => ~LocalOnly \/ Excused
  BY <1>1 DEF ChainInv, ChainShape, CacheInv
<1>4. /\ health' \in [Component -> [Tier -> {"unknown", "up", "down"}]]
      /\ \A d \in Component : health'[d][Mock] # "down"
      /\ \A d \in Component : health'[d][Cloud] = "up" => health[d][Cloud] = "up"
  BY <1>1, LearnEffect DEF CallFails
<1>5. CacheInv'
  BY <1>4 DEF ChainInv, CacheInv, CallFails, settingsVars, LocalOnly, Excused
<1>6. component' \in [Client -> Component] /\ pc' = pc /\ WalkOn(r, c, h, t, Passed(Local, t))
  BY <1>2 DEF ChainInv, ChainShape, CallFails, settingsVars
<1> HIDE DEF h, c, t
<1> QED BY <1>1, <1>3, <1>4, <1>5, <1>6, WalkGood DEF ChainInv

LEMMA CallAnsweredGood ==
  ASSUME ChainInv, NEW r \in Request, CallAnswered(r), UNCHANGED settingsVars
  PROVE  Good /\ PaidStep /\ CacheInv'
<1>1. r \in Client /\ tier[r] \in Tier /\ at[r] = "calling"
  BY DEF CallAnswered, ChainInv, ChainShape, Client
<1>2. /\ at' = [at EXCEPT ![r] = "answered"]
      /\ attempts' = [attempts EXCEPT ![r] = Append(@, [tier |-> tier[r], ok |-> TRUE])]
      /\ UNCHANGED <<health, component, tier, pc, live, unannounced>>
  BY DEF CallAnswered, settingsVars
<1>3. ChainShape'
  BY <1>1, <1>2 DEF ChainInv, ChainShape
<1>4. LogInv'
  BY <1>1, <1>2 DEF ChainInv, ChainShape, LogInv, Client
<1>5. PaidStep
  BY <1>1, <1>2 DEF PaidStep, Begins, ChainInv, ChainShape, Client
<1>6. CacheInv'
  BY <1>2 DEF ChainInv, CacheInv, LocalOnly, Excused
<1>7. Len(attempts[r]) + 1 = tier[r]
  <2>1. attempts[r] = Passed(Local, tier[r]) /\ tier[r] \in tier[r]..Mock
    BY <1>1 DEF ChainInv, LogInv, Tier, Local, Mock
  <2>2. Len(attempts[r]) = tier[r] - 1
    BY <1>1, <2>1, PassedOn
  <2> QED BY <1>1, <2>2 DEF Tier, Local, Mock
<1>8. [q \in Request |-> Standing(q)]' = [[q \in Request |-> Standing(q)] EXCEPT ![r] = "answered"]
  BY <1>1, <1>2 DEF Standing, ChainInv, ChainShape, Client
<1>9. [q \in Request |-> attempts[q]]' =
      [[q \in Request |-> attempts[q]] EXCEPT ![r] = Append(attempts[r], [tier |-> Len(attempts[r]) + 1, ok |-> TRUE])]
  BY <1>1, <1>2, <1>7 DEF ChainInv, ChainShape, Client
<1>10. Standing(r) = "open"
  BY <1>1 DEF Standing
<1>11. Promise!Answer(r)
  BY <1>8, <1>9, <1>10 DEF Promise!Answer
<1> QED BY <1>3, <1>4, <1>5, <1>6, <1>11 DEF Good, AbstractStep, Promise!Next

LEMMA PassShape ==
  ASSUME ChainShape, NEW v \in Client, Pass(v, tier[v])
  PROVE  /\ at' \in [Client -> {"idle", "status", "probing", "calling", "answered"}]
         /\ tier' \in [Client -> Tier]
         /\ \A p \in Client : at'[p] = "probing" => tier'[p] = Local
         /\ UNCHANGED <<component, attempts>>
<1>1. at' = [at EXCEPT ![v] = IF tier[v] = Mock THEN "idle" ELSE "status"]
  BY DEF Pass
<1>2. tier' = [tier EXCEPT ![v] = IF tier[v] = Mock THEN Local ELSE tier[v] + 1]
  BY DEF Pass
<1>3. (IF tier[v] = Mock THEN Local ELSE tier[v] + 1) \in Tier
  BY DEF ChainShape, Tier, Local, Mock
<1>4. UNCHANGED <<component, attempts>>
  BY DEF Pass
<1> QED BY <1>1, <1>2, <1>3, <1>4 DEF ChainShape

(* The steps that start nothing for a request: probes sent out, the health
   map, expiry, the world outside.                                         *)
LEMMA OthersGood ==
  ASSUME ChainInv, UNCHANGED settingsVars,
         \/ \E p \in Client : ProbeLocal(p)
         \/ \E v \in Viewer : Look(v) \/ LookCached(v) \/ LookRemote(v) \/ LookEnds(v)
         \/ \E c \in Component, t \in Tier : Expire(c, t)
         \/ \E s \in Server : ServerChanges(s)
  PROVE  Good /\ PaidStep /\ CacheInv'
<1>0. pc' = pc /\ live' = live
  BY DEF settingsVars
<1>1. ASSUME NEW p \in Client, ProbeLocal(p) PROVE Good /\ PaidStep /\ CacheInv'
  <2>1. ChainShape'
    BY <1>0, <1>1 DEF ChainInv, ChainShape, ProbeLocal
  <2>2. CacheInv'
    BY <1>0, <1>1 DEF ChainInv, CacheInv, ProbeLocal, LocalOnly, Excused
  <2>3. /\ \A r \in Request : at'[r] = at[r] \/ (at[r] = "status" /\ at'[r] = "probing")
        /\ \A r \in Request : tier'[r] = tier[r] /\ attempts'[r] = attempts[r]
    BY <1>1 DEF ChainInv, ChainShape, ProbeLocal, Client
  <2> QED BY <2>1, <2>2, <2>3, Undisturbed
<1>2. ASSUME NEW v \in Viewer, Look(v) \/ LookCached(v) \/ LookRemote(v) \/ LookEnds(v)
      PROVE  Good /\ PaidStep /\ CacheInv'
  <2>0. v \in Client /\ v \notin Request
    BY ChainAssumption DEF Client
  <2>1. /\ \A r \in Request : at'[r] = at[r] /\ tier'[r] = tier[r] /\ attempts'[r] = attempts[r]
        /\ attempts' = attempts
    BY <1>2, <2>0 DEF ChainInv, ChainShape, Client, Look, LookCached, LookRemote, LookEnds, Pass
  <2>2. CASE Look(v)
    <3>1. /\ UNCHANGED <<health, unannounced, tier, attempts>>
          /\ at' = [at EXCEPT ![v] = "status"] /\ component' \in [Client -> Component]
      BY <2>0, <2>2 DEF ChainInv, ChainShape, Look
    <3>2. ChainShape'
      BY <1>0, <2>0, <3>1 DEF ChainInv, ChainShape
    <3>3. CacheInv'
      BY <1>0, <3>1 DEF ChainInv, CacheInv, LocalOnly, Excused
    <3> QED BY <2>1, <3>2, <3>3, Undisturbed
  <2>4. CASE LookCached(v)
    <3>1. Pass(v, tier[v]) /\ UNCHANGED health
      BY <2>4 DEF LookCached
    <3>2. ChainShape'
      BY <1>0, <2>0, <3>1, PassShape DEF ChainInv, ChainShape
    <3>3. CacheInv'
      BY <1>0, <3>1 DEF ChainInv, CacheInv, Pass, LocalOnly, Excused
    <3> QED BY <2>1, <3>2, <3>3, Undisturbed
  <2>3. CASE LookRemote(v) \/ LookEnds(v)
    <3> DEFINE x == IF LookRemote(v) THEN Verdict(component[v], tier[v]) ELSE Seen(v)
    <3>1. x \in {"up", "down"} /\ Learn(v, x) /\ (tier[v] = Mock => x = "up")
      BY <2>0, <2>3 DEF LookRemote, LookEnds, Verdict, Seen, ChainInv, ChainShape, Local, Mock
    <3>2. tier[v] = Cloud /\ x = "up" => ~LocalOnly
      <4> SUFFICES ASSUME tier[v] = Cloud, x = "up" PROVE ~LocalOnly
        OBVIOUS
      <4>1. LookRemote(v)
        BY <2>0, <2>3 DEF LookEnds, ChainInv, ChainShape, Local, Cloud
      <4>2. Configured(live, component[v])
        BY <4>1 DEF Verdict, Cloud, Mock
      <4> QED BY <4>2 DEF Configured, LocalOnly
    <3>3. /\ health' \in [Component -> [Tier -> {"unknown", "up", "down"}]]
          /\ \A d \in Component : health'[d][Mock] # "down"
          /\ \A d \in Component : health'[d][Cloud] = "up" =>
               health[d][Cloud] = "up" \/ (tier[v] = Cloud /\ x = "up")
      BY <2>0, <3>1, LearnEffect
    <3>4. Pass(v, tier[v]) /\ tier[v] \in Tier
      BY <2>0, <2>3 DEF LookRemote, LookEnds, ChainInv, ChainShape
    <3> HIDE DEF x
    <3>5. ChainShape'
      BY <1>0, <2>0, <3>3, <3>4, PassShape DEF ChainInv, ChainShape
    <3>6. CacheInv'
      BY <1>0, <3>2, <3>3, <3>4 DEF ChainInv, CacheInv, Pass, LocalOnly, Excused
    <3> QED BY <2>1, <3>5, <3>6, Undisturbed
  <2> QED BY <1>2, <2>2, <2>3, <2>4
<1>3. ASSUME NEW c \in Component, NEW t \in Tier, Expire(c, t) PROVE Good /\ PaidStep /\ CacheInv'
  <2>1. ChainShape'
    BY <1>0, <1>3 DEF ChainInv, ChainShape, Expire, callVars, Tier, Local, Mock
  <2>2. \A d \in Component : health'[d][Cloud] = "up" => health[d][Cloud] = "up"
    BY <1>3 DEF ChainInv, ChainShape, Expire, Tier, Local, Cloud, Mock
  <2>3. CacheInv'
    BY <1>0, <1>3, <2>2 DEF ChainInv, CacheInv, Expire, LocalOnly, Excused
  <2>4. UNCHANGED <<at, tier, attempts>>
    BY <1>3 DEF Expire, callVars
  <2> QED BY <2>1, <2>3, <2>4, Undisturbed
<1>4. ASSUME NEW s \in Server, ServerChanges(s) PROVE Good /\ PaidStep /\ CacheInv'
  <2>1. UNCHANGED <<at, component, tier, attempts, health, unannounced>>
    BY <1>4 DEF ServerChanges, callVars
  <2>2. ChainShape' /\ CacheInv'
    BY <1>0, <2>1 DEF ChainInv, ChainShape, CacheInv, LocalOnly, Excused
  <2> QED BY <2>1, <2>2, Undisturbed
<1> QED BY <1>1, <1>2, <1>3, <1>4

LEMMA ChainStepGood ==
  ASSUME ChainInv, ChainStep, UNCHANGED settingsVars
  PROVE  Good /\ PaidStep /\ CacheInv'
<1>1. CASE \E r \in Request : Ask(r)
  BY <1>1, AskGood
<1>2. CASE \E v \in Viewer : Look(v) \/ LookCached(v)
  BY <1>2, OthersGood
<1>3. CASE \E p \in Client : Probe(p) \/ Return(p)
  <2> PICK p \in Client : Probe(p) \/ Return(p)
    BY <1>3
  <2>1. CASE Probe(p)
    BY <2>1, OthersGood, ProbeRemoteGood DEF Probe
  <2>2. CASE Return(p)
    BY <2>2, ProbeEndsGood, CallAnsweredGood, CallFailsGood, OthersGood DEF Return, Client
  <2> QED BY <2>1, <2>2
<1>4. CASE \E c \in Component, t \in Tier : Expire(c, t)
  BY <1>4, OthersGood
<1>5. CASE \E s \in Flaky : ServerChanges(s)
  BY <1>5, OthersGood, ChainAssumption
<1> QED BY <1>1, <1>2, <1>3, <1>4, <1>5 DEF ChainStep

(* The settings steps. *)
LEMMA EditGood ==
  ASSUME ChainInv, NEW u \in Update, Edit(u) \/ Announce(u) \/ EditFails(u)
  PROVE  Good /\ PaidStep /\ CacheInv'
<1>1. /\ UNCHANGED <<at, component, tier, attempts>>
      /\ pc' = [w \in Update |-> pc'[w]]
      /\ \A w \in Update \ {u} : pc'[w] = pc[w]
  BY DEF ChainInv, ChainShape, Edit, Announce, EditFails, chainVars, callVars,
         Submit, Select, Apply, Commit, Flush, Fail, Idle
<1>2. health' = health \/ health' = Unknown
  BY DEF Edit, Announce, EditFails, chainVars
<1>3. ChainShape'
  BY <1>1, <1>2 DEF ChainInv, ChainShape, Unknown, Tier, Local, Mock
<1>4. CASE Edit(u)
  <2>1. UNCHANGED <<health, unannounced>>
    BY <1>4 DEF Edit, chainVars
  <2>2. CASE Apply(u)
    <3>1. pc'[u] = "flush"
      BY <2>2 DEF Apply, ChainInv, ChainShape
    <3>2. CacheInv'
      BY <3>1 DEF CacheInv, Excused
    <3> QED BY <1>1, <1>3, <3>2, Undisturbed
  <2>3. CASE Submit(u) \/ Select(u) \/ Commit(u)
    <3>1. live' = live /\ pc[u] # "flush"
      BY <2>3 DEF Submit, Select, Commit
    <3>2. CacheInv'
      BY <1>1, <2>1, <3>1 DEF ChainInv, CacheInv, LocalOnly, Excused
    <3> QED BY <1>1, <1>3, <3>2, Undisturbed
  <2> QED BY <1>4, <2>2, <2>3 DEF Edit
<1>5. CASE Announce(u)
  <2>1. CacheInv'
    BY <1>5 DEF Announce, CacheInv, Unknown, Tier, Local, Cloud, Mock
  <2> QED BY <1>1, <1>3, <2>1, Undisturbed
<1>6. CASE EditFails(u)
  <2>1. /\ UNCHANGED <<health, live>>
        /\ unannounced' = (unannounced \/ (pc[u] = "flush" /\ health # Unknown))
    BY <1>6 DEF EditFails, Fail
  <2>2. \A c \in Component : health[c][Cloud] = "up" => health # Unknown
    BY DEF Unknown, Tier, Local, Cloud, Mock
  <2>3. CacheInv'
    BY <1>1, <2>1, <2>2 DEF ChainInv, CacheInv, LocalOnly, Excused
  <2> QED BY <1>1, <1>3, <2>3, Undisturbed
<1> QED BY <1>4, <1>5, <1>6

LEMMA Tiers == Local \in Tier /\ Cloud \in Tier /\ Mock \in Tier
BY DEF Tier, Local, Cloud, Mock

LEMMA BootGood ==
  ASSUME ChainInv, NEW loaded \in BOOLEAN, Boot(loaded)
  PROVE  Good /\ PaidStep /\ CacheInv'
<1>1. /\ at' = [p \in Client |-> "idle"] /\ tier' = [p \in Client |-> Local]
      /\ attempts' = [p \in Client |-> << >>] /\ component' = component
      /\ health' = [c \in Component |-> [t \in Tier |-> Probed(live', c, t)]]
      /\ pc' = [u \in Update |-> "idle"]
  BY DEF Boot, Restart
<1>2. \A c \in Component, t \in Tier : health'[c][t] \in {"unknown", "up", "down"}
  BY <1>1 DEF Probed
<1>3. \A c \in Component : health'[c][Mock] = "up"
  BY <1>1, Tiers DEF Probed, Local, Cloud, Mock
<1>4. ChainShape'
  <2>1. /\ health' \in [Component -> [Tier -> {"unknown", "up", "down"}]]
        /\ \A c \in Component : health'[c][Mock] # "down"
    <3>1. health' = [c \in Component |-> [t \in Tier |-> health'[c][t]]]
      BY <1>1
    <3> QED BY <1>2, <1>3, <3>1
  <2>2. at' \in [Client -> {"idle", "status", "probing", "calling", "answered"}] /\ tier' \in [Client -> Tier]
    BY <1>1, Tiers
  <2>3. component' \in [Client -> Component]
    BY <1>1 DEF ChainInv, ChainShape
  <2>4. attempts' = [p \in Client |-> attempts'[p]] /\ pc' = [u \in Update |-> pc'[u]]
    BY <1>1
  <2>5. \A p \in Client : at'[p] = "probing" => tier'[p] = Local
    BY <1>1
  <2> QED BY <2>1, <2>2, <2>3, <2>4, <2>5 DEF ChainShape
<1>5. CacheInv'
  <2> SUFFICES ASSUME NEW c \in Component, health'[c][Cloud] = "up" PROVE ~LocalOnly'
    BY DEF CacheInv
  <2>1. health'[c][Cloud] = IF Configured(live', c) THEN "up" ELSE "down"
    BY <1>1, Tiers DEF Probed, Local, Cloud, Mock
  <2>2. Configured(live', c)
    BY <2>1
  <2> QED BY <2>2 DEF Configured, LocalOnly
<1>6. LogInv' /\ PaidStep
  BY <1>1 DEF LogInv, PaidStep, Begins, Client
<1>7. Promise!Restart
  BY <1>1 DEF Promise!Restart, Standing, Client
<1> QED BY <1>4, <1>5, <1>6, <1>7 DEF Good, AbstractStep, Promise!Next

LEMMA ChainStart == Init => ChainInv /\ Promise!Init
<1> SUFFICES ASSUME Init PROVE ChainInv /\ Promise!Init
  OBVIOUS
<1>1. ChainShape
  <2>1. /\ health \in [Component -> [Tier -> {"unknown", "up", "down"}]]
        /\ \A c \in Component : health[c][Mock] # "down"
    BY Tiers DEF Init, Unknown
  <2>2. /\ at \in [Client -> {"idle", "status", "probing", "calling", "answered"}]
        /\ tier \in [Client -> Tier] /\ component \in [Client -> Component]
    BY Tiers DEF Init
  <2>3. attempts = [p \in Client |-> attempts[p]] /\ pc = [u \in Update |-> pc[u]]
    BY DEF Init, SettingsInit
  <2>4. \A p \in Client : at[p] = "probing" => tier[p] = Local
    BY DEF Init
  <2> QED BY <2>1, <2>2, <2>3, <2>4 DEF ChainShape
<1>2. LogInv /\ CacheInv
  <2>1. \A r \in Request : at[r] = "idle"
    BY DEF Init, Client
  <2>2. \A c \in Component : health[c][Cloud] = "unknown"
    BY Tiers DEF Init, Unknown
  <2> QED BY <2>1, <2>2 DEF LogInv, CacheInv
<1>3. Promise!Init
  BY DEF Init, Promise!Init, Standing, Client
<1> QED BY <1>1, <1>2, <1>3 DEF ChainInv

LEMMA ChainInductive ==
  ChainInv /\ [Next]_allVars => ChainInv' /\ [PaidStep]_allVars /\ [Promise!Next]_(Promise!vars)
<1> SUFFICES ASSUME ChainInv, [Next]_allVars
             PROVE  ChainInv' /\ [PaidStep]_allVars /\ [Promise!Next]_(Promise!vars)
  OBVIOUS
<1>1. CASE UNCHANGED allVars
  <2>1. UNCHANGED <<at, component, tier, attempts, health, unannounced, pc, live>>
    BY <1>1 DEF allVars, settingsVars, chainVars, callVars
  <2>2. ChainInv'
    BY <2>1 DEF ChainInv, ChainShape, LogInv, CacheInv, LocalOnly, Excused
  <2>3. UNCHANGED Promise!vars
    BY <2>1 DEF Promise!vars, Standing
  <2> QED BY <1>1, <2>2, <2>3
<1>2. CASE Next
  <2>1. Good /\ PaidStep /\ CacheInv'
    BY <1>2, EditGood, BootGood, ChainStepGood DEF Next
  <2> QED BY <2>1 DEF Good, AbstractStep, ChainInv
<1> QED BY <1>1, <1>2

(* No call of a paid provider begins in local-only mode, outside the window
   of an update under way or failed (run, callsentry_local_only).           *)
THEOREM LocalOnlySafe == Spec => LocalOnlyHolds
BY ChainStart, ChainInductive, PTL DEF Spec, LocalOnlyHolds, PaidStep

(* The chain implements FirstAnswer, its liveness apart: whatever the cache,
   the probes and the settings do, attempts are recorded in the order of the
   tiers, none left out, and the answer comes from the first one not turned
   down; the mock tier is never refused (run).                              *)
THEOREM KeepsPromise == Spec => Promise!Safe
BY ChainStart, ChainInductive, PTL DEF Spec, Promise!Safe

---------------------------------------------------------------------------
(* The rest of the types: what a PUT carries and has read, the lock, the
   servers and the key inside the Anthropic client, which is only ever a live
   setting.                                                                 *)
PutShape ==
  /\ env \in Envs
  /\ \A u \in Update : batch[u] \in Batch \cup {Empty} /\ DOMAIN seen[u] \subseteq Key

WorldShape ==
  /\ lock \in Client \cup {Nobody}
  /\ server \in [Server -> {"up", "sick", "down"}]
  /\ client \in Value \cup {""}
  /\ unannounced \in BOOLEAN

LEMMA PutTyped ==
  ASSUME SettingsInv, PutShape, [SettingsNext]_settingsVars
  PROVE  PutShape'
<1>0. DOMAIN batch = Update /\ DOMAIN seen = Update /\ DOMAIN Empty = {}
  BY DEF SettingsInv, Shape, Empty
<1>1. CASE UNCHANGED settingsVars
  BY <1>1 DEF settingsVars, PutShape
<1>2. ASSUME NEW u \in Update, Submit(u) PROVE PutShape'
  BY <1>0, <1>2 DEF PutShape, Submit
<1>3. ASSUME NEW u \in Update, Select(u) PROVE PutShape'
  <2>1. Keys(u) \subseteq Key
    BY <1>3 DEF Select, SettingsInv, Shape, Keys
  <2>2. seen' = [seen EXCEPT ![u] = [k \in Keys(u) |-> stored[k]]] /\ UNCHANGED <<env, batch>>
    BY <1>3 DEF Select
  <2>3. \A v \in Update : DOMAIN seen'[v] \subseteq Key
    BY <1>0, <2>1, <2>2 DEF PutShape
  <2> QED BY <2>2, <2>3 DEF PutShape
<1>4. ASSUME NEW u \in Update, Apply(u) \/ Flush(u) PROVE PutShape'
  BY <1>4 DEF PutShape, Apply, Flush
<1>5. ASSUME NEW u \in Update, Commit(u) \/ Fail(u) PROVE PutShape'
  <2>1. Idle(u) /\ UNCHANGED env
    BY <1>5 DEF Commit, Fail
  <2> QED BY <1>0, <2>1 DEF PutShape, Idle
<1>6. ASSUME NEW loaded \in BOOLEAN, Restart(loaded) PROVE PutShape'
  BY <1>0, <1>6 DEF PutShape, Restart
<1> QED BY <1>1, <1>2, <1>3, <1>4, <1>5, <1>6 DEF SettingsNext, Step

(* A walk builds the client, if it builds one, from a live setting. *)
LEMMA WalkTyped ==
  ASSUME Shape, WorldShape, NEW r, NEW c \in Component, NEW t, NEW h, NEW log, WalkOn(r, c, h, t, log)
  PROVE  client' \in Value \cup {""}
<1> DEFINE n == FirstOpen(h, t)
<1>1. live[KeyOf[c]] \in Value
  <2>1. KeyOf[c] \in Key
    BY ChainAssumption
  <2> QED BY <2>1 DEF Shape
<1>2. CallWith(c, Cloud) \in Value
  <2>1. CallWith(c, Cloud) = IF c = "llm" /\ client # "" THEN client ELSE live[KeyOf[c]]
    BY DEF CallWith, Local, Cloud
  <2> QED BY <1>1, <2>1 DEF WorldShape
<1>3. client' = IF h[n] = "up" /\ n = Cloud /\ c = "llm" THEN CallWith(c, n) ELSE client
  BY DEF WalkOn
<1> QED BY <1>2, <1>3 DEF WorldShape

LEMMA WorldTyped ==
  ASSUME Shape, ChainShape, WorldShape, [Next]_allVars
  PROVE  WorldShape'
<1>0. Request \subseteq Client /\ Viewer \subseteq Client
  BY DEF Client
<1>1. CASE UNCHANGED allVars
  BY <1>1 DEF allVars, chainVars, WorldShape
<1>2. ASSUME NEW u \in Update, Edit(u) \/ Announce(u) \/ EditFails(u) PROVE WorldShape'
  BY <1>2 DEF Edit, Announce, EditFails, chainVars, WorldShape
<1>3. ASSUME NEW loaded \in BOOLEAN, Boot(loaded) PROVE WorldShape'
  BY <1>3 DEF Boot, WorldShape
<1>4. ASSUME NEW r \in Request, Ask(r) PROVE WorldShape'
  BY <1>4, WalkTyped DEF Ask, WorldShape
<1>5. ASSUME NEW p \in Client,
             \/ ProbeLocal(p) \/ Look(p) \/ LookCached(p) \/ LookRemote(p) \/ LookEnds(p)
             \/ CallAnswered(p)
      PROVE  WorldShape'
  BY <1>5 DEF ProbeLocal, Look, LookCached, LookRemote, LookEnds, Pass, CallAnswered, WorldShape
<1>6. ASSUME NEW r \in Request, ProbeRemote(r) \/ ProbeEnds(r) \/ CallFails(r) PROVE WorldShape'
  <2>1. component[r] \in Component
    BY <1>0 DEF ChainShape
  <2>2. lock' \in {lock, Nobody} /\ UNCHANGED <<server, unannounced>>
    BY <1>6 DEF ProbeRemote, ProbeEnds, CallFails
  <2>3. client' \in Value \cup {""}
    BY <1>6, <2>1, WalkTyped DEF ProbeRemote, ProbeEnds, CallFails
  <2> QED BY <2>2, <2>3 DEF WorldShape
<1>7. ASSUME NEW c \in Component, NEW t \in Tier, Expire(c, t) PROVE WorldShape'
  BY <1>7 DEF Expire, WorldShape
<1>8. ASSUME NEW s \in Flaky, ServerChanges(s) PROVE WorldShape'
  BY <1>8 DEF ServerChanges, WorldShape
<1>9. CASE ChainStep
  <2>1. CASE \E p \in Client : Probe(p) \/ Return(p)
    <3> PICK p \in Client : Probe(p) \/ Return(p)
      BY <2>1
    <3>1. \/ ProbeLocal(p) \/ LookRemote(p) \/ LookEnds(p) \/ CallAnswered(p)
          \/ p \in Request /\ (ProbeRemote(p) \/ ProbeEnds(p) \/ CallFails(p))
      BY DEF Probe, Return
    <3> QED BY <1>5, <1>6, <3>1
  <2> QED BY <1>0, <1>9, <1>4, <1>5, <1>7, <1>8, <2>1 DEF ChainStep
<1> QED BY <1>1, <1>2, <1>3, <1>9 DEF Next

(* The types of the registry and of the settings under it (ProviderChain). *)
THEOREM TypeCorrect == Spec => []TypeOK
<1> DEFINE IInv == SettingsInv /\ ChainInv /\ PutShape /\ WorldShape
<1>1. Init => IInv
  <2>1. Init => PutShape
    <3> SUFFICES ASSUME Init PROVE PutShape
      OBVIOUS
    <3>1. DOMAIN Empty = {}
      BY DEF Empty
    <3>2. env \in Envs /\ \A u \in Update : batch[u] = Empty /\ seen[u] = Empty
      BY DEF Init, SettingsInit
    <3> QED BY <3>1, <3>2 DEF PutShape
  <2>2. Init => WorldShape
    BY DEF Init, WorldShape
  <2> QED BY <2>1, <2>2, SettingsStart, ChainStart DEF Init
<1>2. IInv /\ [Next]_allVars => IInv'
  BY SettingsStep, SettingsInductive, ChainInductive, PutTyped, WorldTyped DEF SettingsInv, ChainInv
<1>3. IInv => TypeOK
  BY DEF SettingsInv, Shape, ChainInv, ChainShape, PutShape, WorldShape, TypeOK, SettingsTypeOK
<1> QED BY <1>1, <1>2, <1>3, PTL DEF Spec
==========================================================================
