------------------------- MODULE PlatformSettings -------------------------
(* The settings an operator can edit while the API runs: the rows of
   platform_settings, laid over the environment on the one Settings object
   every service reads (services/platform_settings.py), the PUT request that
   changes them and the process start that loads them.

   A step of an update is the code between two awaits: the SELECT of the rows,
   the assignments to the live object, the flush, the commit of the session.
   The statements of a flush are one step, which waits until no other open
   transaction has written one of its rows; the database may abort it, which
   is a Fail like any other.                                               *)
EXTENDS FiniteSets, Functions

CONSTANTS Key,        \* FIELDS: the settings that can be overridden
          Secret,     \* those of kind "secret", stored encrypted
          Value,      \* what coerce can return, over all the keys
          Envs,       \* the environments a process may be started with
          Batch,      \* what a PUT may carry: some keys, a text for each
          Update,     \* the PUT requests
          Unset,      \* a null or blank text: remove the override
          Bad,        \* a text coerce refuses
          NoRow,      \* no row for the key
          Orphan      \* a row the current ENCRYPTION_KEY does not open

ASSUME SettingsAssumption ==
  /\ Secret \subseteq Key
  /\ Envs \subseteq [Key -> Value]
  /\ \A b \in Batch : DOMAIN b \subseteq Key /\ \A k \in DOMAIN b : b[k] \in Value \cup {Unset, Bad}
  /\ Unset # Bad /\ Unset \notin Value /\ Bad \notin Value
  /\ NoRow # Orphan /\ NoRow \notin Value /\ Orphan \notin Value

VARIABLES stored,     \* the committed row of each key
          live,       \* the fields of the Settings object in memory
          baseline,   \* _baseline: what clearing an override restores
          env,        \* the environment this process was started with
          pc,         \* where each PUT stands
          batch,      \* what it carries
          seen,       \* the rows its SELECT returned, for its keys
          torn        \* keys whose live value may differ from the row: a
                      \* failed or overlapping update, or a failed load

settingsVars == <<stored, live, baseline, env, pc, batch, seen, torn>>

Row == Value \cup {NoRow, Orphan}
Empty == [k \in {} |-> Unset]
Keys(u) == DOMAIN batch[u]

SettingsTypeOK ==
  /\ stored \in [Key -> Row]
  /\ live \in [Key -> Value]
  /\ baseline \in [Key -> Value]
  /\ env \in Envs
  /\ pc \in [Update -> {"idle", "select", "apply", "flush", "commit"}]
  /\ \A u \in Update : batch[u] \in Batch \cup {Empty}
  /\ \A u \in Update : DOMAIN seen[u] \subseteq Key
  /\ torn \subseteq Key

(* The live object over an environment: a legible row wins. *)
Overlay(rows, e) == [k \in Key |-> IF rows[k] \in Value THEN rows[k] ELSE e[k]]

(* Updates that have changed the live object and not ended. *)
Applied == {u \in Update : pc[u] \in {"flush", "commit"}}

(* What the ORM sends for a key: nothing when the new value is the one it
   loaded, except for a secret, whose envelope is new every time.           *)
Deletes(u)  == {k \in Keys(u) : batch[u][k] = Unset /\ seen[u][k] # NoRow}
Inserts(u)  == {k \in Keys(u) : batch[u][k] # Unset /\ seen[u][k] = NoRow}
Rewrites(u) == {k \in Keys(u) : /\ batch[u][k] # Unset /\ seen[u][k] # NoRow
                                /\ k \in Secret \/ seen[u][k] # batch[u][k]}
Writes(u) == Deletes(u) \cup Inserts(u) \cup Rewrites(u)

Idle(u) == /\ pc' = [pc EXCEPT ![u] = "idle"]
           /\ batch' = [batch EXCEPT ![u] = Empty]
           /\ seen' = [seen EXCEPT ![u] = Empty]

---------------------------------------------------------------------------
(* Validation: one bad text refuses the whole batch. *)
Submit(u) ==
  /\ pc[u] = "idle"
  /\ \E b \in Batch :
       /\ \A k \in DOMAIN b : b[k] # Bad
       /\ batch' = [batch EXCEPT ![u] = b]
  /\ pc' = [pc EXCEPT ![u] = "select"]
  /\ UNCHANGED <<stored, live, baseline, env, seen, torn>>

Select(u) ==
  /\ pc[u] = "select"
  /\ seen' = [seen EXCEPT ![u] = [k \in Keys(u) |-> stored[k]]]
  /\ pc' = [pc EXCEPT ![u] = "apply"]
  /\ UNCHANGED <<stored, live, baseline, env, batch, torn>>

(* The loop over the batch: every live field is set before anything is
   written, without an await in between.                                   *)
\* Mutant of Live: a cleared key keeps its value until the next start.
LiveLeavesCleared(u, k) ==
  IF k \in Keys(u) /\ batch[u][k] # Unset THEN batch[u][k] ELSE live[k]

Live(u, k) == IF k \notin Keys(u) THEN live[k]
              ELSE IF batch[u][k] = Unset THEN baseline[k] ELSE batch[u][k]

Apply(u) ==
  /\ pc[u] = "apply"
  /\ live' = [k \in Key |-> Live(u, k)]
  /\ torn' = (torn \ Keys(u)) \cup
             {k \in Keys(u) : stored[k] # seen[u][k] \/ \E v \in Applied : k \in Keys(v)}
  /\ pc' = [pc EXCEPT ![u] = "flush"]
  /\ UNCHANGED <<stored, baseline, env, batch, seen>>

(* An INSERT of a row that has appeared, or an UPDATE of one that has gone,
   fails; deleting a row that has gone does not. The registry forgets what it
   knows right after (see ProviderChain).                                  *)
Flush(u) ==
  /\ pc[u] = "flush"
  /\ \A v \in Update : pc[v] = "commit" => Writes(u) \cap Writes(v) = {}
  /\ \A k \in Inserts(u) : stored[k] = NoRow
  /\ \A k \in Rewrites(u) : stored[k] # NoRow
  /\ pc' = [pc EXCEPT ![u] = "commit"]
  /\ UNCHANGED <<stored, live, baseline, env, batch, seen, torn>>

Commit(u) ==
  /\ pc[u] = "commit"
  /\ stored' = [k \in Key |-> IF k \in Deletes(u) THEN NoRow
                              ELSE IF k \in Writes(u) THEN batch[u][k] ELSE stored[k]]
  /\ Idle(u)
  /\ UNCHANGED <<live, baseline, env, torn>>

(* Any await may raise: the session rolls back, the live object does not. *)
Fail(u) ==
  /\ pc[u] # "idle"
  /\ torn' = IF u \in Applied THEN torn \cup Keys(u) ELSE torn
  /\ Idle(u)
  /\ UNCHANGED <<stored, live, baseline, env>>

(* The process is restarted, perhaps with other variables and another
   ENCRYPTION_KEY. The baseline is taken before the rows are applied; rows
   that cannot be loaded are only a warning.                               *)
Restart(loaded) ==
  /\ env' \in Envs
  /\ baseline' = env'
  /\ \E lost \in SUBSET {k \in Secret : stored[k] \in Value} :
       stored' = [k \in Key |-> IF k \in lost THEN Orphan ELSE stored[k]]
  /\ live' = IF loaded THEN Overlay(stored', env') ELSE env'
  /\ torn' = IF loaded THEN {} ELSE {k \in Key : stored'[k] \in Value}
  /\ pc' = [u \in Update |-> "idle"]
  /\ batch' = [u \in Update |-> Empty]
  /\ seen' = [u \in Update |-> Empty]

SettingsInit ==
  /\ stored = [k \in Key |-> NoRow]
  /\ env \in Envs
  /\ live = env
  /\ baseline = env
  /\ pc = [u \in Update |-> "idle"]
  /\ batch = [u \in Update |-> Empty]
  /\ seen = [u \in Update |-> Empty]
  /\ torn = {}

Step(u) == Submit(u) \/ Select(u) \/ Apply(u) \/ Flush(u) \/ Commit(u) \/ Fail(u)
SettingsNext == (\E u \in Update : Step(u)) \/ (\E loaded \in BOOLEAN : Restart(loaded))
SettingsSpec == SettingsInit /\ [][SettingsNext]_settingsVars

---------------------------------------------------------------------------
(* What the process runs on is what the rows say, else what it was started
   with, for every key no update has in hand. After an update that failed
   half-way, two that overlapped, or rows that could not be loaded at the
   start, a key may be off until it is set again or the process restarts
   (update, load_overrides).                                               *)
LiveFollowsStored ==
  \A k \in Key \ torn :
    (\A u \in Applied : k \notin Keys(u)) => live[k] = Overlay(stored, env)[k]
===========================================================================
