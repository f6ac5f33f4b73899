-------------------------- MODULE ProviderChain --------------------------
(* The provider registry (core/providers.py) and the services over it
   (services/llm.py, transcription.py, tts.py, embeddings.py), while the
   settings change under them (PlatformSettings).

   Every component has a chain local, cloud, mock. A request walks it; a step
   is the code between two awaits, so that a tier known to be healthy is
   called, and one known to be down passed over, without a pause. A tier of
   which nothing fresh is known is probed under the one lock of the registry:
   a local one over HTTP, the others by looking at the settings. The result
   of a probe is stored whatever has happened meanwhile.                    *)
EXTENDS PlatformSettings, Naturals, Sequences

CONSTANTS Component,  \* the chains in use
          Request,    \* concurrent calls of the services' public methods
          Server,     \* the URLs local servers are looked for at
          Flaky,      \* those whose condition changes (a bound of the runs)
          Viewer,     \* requests for the health map
          Nobody      \* holder of a free lock

ServerOf == [llm |-> "ollama_base_url", embeddings |-> "ollama_base_url",
             stt |-> "worker_base_url", tts |-> "worker_base_url"]
KeyOf == [llm |-> "claude_api_key", embeddings |-> "openai_api_key",
          stt |-> "deepgram_api_key", tts |-> "elevenlabs_api_key"]

Local == 1
Cloud == 2
Mock == 3
Tier == Local..Mock

ASSUME ChainAssumption ==
  /\ Component \subseteq DOMAIN KeyOf
  /\ Component # {}
  /\ Flaky \subseteq Server
  /\ "callsentry_local_only" \in Key
  /\ \A c \in Component : ServerOf[c] \in Key /\ KeyOf[c] \in Key
  /\ Nobody \notin Request \cup Viewer /\ Request \cap Viewer = {}

VARIABLES health,     \* _health, while fresh, for each component and tier
          lock,       \* who holds the registry's lock
          at,         \* where each request or viewer stands
          component,  \* what it is for
          tier,       \* the tier it has come to
          target,     \* the server a probe, or the server or key a call, uses
          attempts,   \* what a request has recorded
          client,     \* the key inside the cached Anthropic client, "" if none
          server,     \* each local server: "up", "sick" (healthy, but fails
                      \* its calls) or "down"
          unannounced \* live values may differ from those the registry's
                      \* knowledge is from, and no flush is to come

callVars == <<at, component, tier, target, attempts>>
chainVars == <<health, lock, callVars, client, server, unannounced>>
allVars == <<settingsVars, chainVars>>

Client == Request \cup Viewer
LocalOnly == live["callsentry_local_only"] = "true"
Unknown == [c \in Component |-> [t \in Tier |-> "unknown"]]
Refused(t) == [tier |-> t, ok |-> FALSE]
Passed(s, e) == [i \in 1..(e - s) |-> Refused(s + i - 1)]

TypeOK ==
  /\ SettingsTypeOK
  /\ health \in [Component -> [Tier -> {"unknown", "up", "down"}]]
  /\ lock \in Client \cup {Nobody}
  /\ at \in [Client -> {"idle", "status", "probing", "calling", "answered"}]
  /\ component \in [Client -> Component]
  /\ tier \in [Client -> Tier]
  /\ server \in [Server -> {"up", "sick", "down"}]
  /\ client \in Value \cup {""}
  /\ unannounced \in BOOLEAN

\* Mutant of Configured: the mode is not looked at.
ConfiguredByKey(s, c) == s[KeyOf[c]] # ""

(* Whether a cloud provider is eligible, over a Settings object. *)
Configured(s, c) == s["callsentry_local_only"] # "true" /\ s[KeyOf[c]] # ""

(* The result of a probe that needs no request. *)
Verdict(c, t) == IF t = Mock \/ Configured(live, c) THEN "up" ELSE "down"

(* The first tier from t on that is not known to be down. *)
FirstOpen(h, t) ==
  CHOOSE n \in t..Mock : h[n] # "down" /\ \A i \in t..(n - 1) : h[i] = "down"

(* What a call of a tier is made with. The local servers and the other APIs
   get the setting of the moment; Claude the key its client was built with. *)
CallWith(c, t) ==
  CASE t = Local -> live[ServerOf[c]]
    [] t = Cloud -> IF c = "llm" /\ client # "" THEN client ELSE live[KeyOf[c]]
    [] OTHER -> ""

(* Walk on from tier t, the health of the chain being h: pass the tiers known
   to be down, then call a healthy one or ask about an unknown one.         *)
WalkOn(r, c, h, t, log) ==
  LET n == FirstOpen(h, t) IN
    /\ attempts' = [attempts EXCEPT ![r] = log \o Passed(t, n)]
    /\ tier' = [tier EXCEPT ![r] = n]
    /\ at' = [at EXCEPT ![r] = IF h[n] = "up" THEN "calling" ELSE "status"]
    /\ target' = [target EXCEPT ![r] = IF h[n] = "up" THEN CallWith(c, n) ELSE ""]
    /\ client' = IF h[n] = "up" /\ n = Cloud /\ c = "llm" THEN CallWith(c, n) ELSE client

---------------------------------------------------------------------------
Ask(r) ==
  /\ at[r] \in {"idle", "answered"}
  /\ \E c \in Component :
       /\ component' = [component EXCEPT ![r] = c]
       /\ WalkOn(r, c, health[c], Local, << >>)
  /\ UNCHANGED <<health, lock, server, unannounced>>

(* The lock is granted. A local tier is asked over HTTP, at the URL of this
   moment; the answer for another is at hand, and the walk goes on.         *)
ProbeLocal(p) ==
  /\ at[p] = "status" /\ tier[p] = Local /\ lock = Nobody
  /\ lock' = p
  /\ at' = [at EXCEPT ![p] = "probing"]
  /\ target' = [target EXCEPT ![p] = live[ServerOf[component[p]]]]
  /\ UNCHANGED <<health, component, tier, attempts, client, server, unannounced>>

(* The server answers the probe, or does not within three seconds. *)
Seen(p) == IF server[target[p]] = "down" THEN "down" ELSE "up"

Learn(p, v) == health' = [health EXCEPT ![component[p]][tier[p]] = v]

ProbeEnds(r) ==
  /\ at[r] = "probing"
  /\ lock' = Nobody
  /\ Learn(r, Seen(r))
  /\ WalkOn(r, component[r], [health[component[r]] EXCEPT ![Local] = Seen(r)], Local, attempts[r])
  /\ UNCHANGED <<component, server, unannounced>>

ProbeRemote(r) ==
  LET v == Verdict(component[r], tier[r]) IN
    /\ at[r] = "status" /\ tier[r] # Local /\ lock = Nobody
    /\ Learn(r, v)
    /\ WalkOn(r, component[r], [health[component[r]] EXCEPT ![tier[r]] = v], tier[r], attempts[r])
    /\ UNCHANGED <<lock, component, server, unannounced>>

(* The provider's answer. A local server answers when it is well. *)
CallAnswered(r) ==
  /\ at[r] = "calling"
  /\ tier[r] = Local => server[target[r]] = "up"
  /\ at' = [at EXCEPT ![r] = "answered"]
  /\ attempts' = [attempts EXCEPT ![r] = Append(@, [tier |-> tier[r], ok |-> TRUE])]
  /\ UNCHANGED <<health, lock, component, tier, target, client, server, unannounced>>

\* Mutant of CallFails: the failed attempt is not recorded.
CallFailsUnseen(r) ==
  /\ at[r] = "calling" /\ tier[r] # Mock
  /\ tier[r] = Local => server[target[r]] # "up"
  /\ Learn(r, "down")
  /\ WalkOn(r, component[r], health[component[r]], tier[r] + 1, attempts[r])
  /\ UNCHANGED <<lock, component, server, unannounced>>

(* It raises: the tier is marked, the attempt recorded, the walk goes on. *)
CallFails(r) ==
  /\ at[r] = "calling" /\ tier[r] # Mock
  /\ tier[r] = Local => server[target[r]] # "up"
  /\ Learn(r, "down")
  /\ WalkOn(r, component[r], health[component[r]], tier[r] + 1, Append(attempts[r], Refused(tier[r])))
  /\ UNCHANGED <<lock, component, server, unannounced>>

(* The health map: every tier of a chain in turn, probed again when the
   request says refresh, else only where nothing fresh is known.            *)
\* Mutant of Pass: the map stops short of the last tier.
PassShort(v, t) ==
  /\ at' = [at EXCEPT ![v] = IF t = Mock THEN "idle" ELSE "status"]
  /\ tier' = [tier EXCEPT ![v] = t + 1]
  /\ target' = [target EXCEPT ![v] = ""]
  /\ UNCHANGED <<component, attempts, client, server, unannounced>>

Pass(v, t) == /\ at' = [at EXCEPT ![v] = IF t = Mock THEN "idle" ELSE "status"]
              /\ tier' = [tier EXCEPT ![v] = IF t = Mock THEN Local ELSE t + 1]
              /\ target' = [target EXCEPT ![v] = ""]
              /\ UNCHANGED <<component, attempts, client, server, unannounced>>

Look(v) ==
  /\ at[v] = "idle"
  /\ \E c \in Component : component' = [component EXCEPT ![v] = c]
  /\ at' = [at EXCEPT ![v] = "status"]
  /\ UNCHANGED <<health, lock, tier, target, attempts, client, server, unannounced>>

LookCached(v) ==
  /\ at[v] = "status" /\ health[component[v]][tier[v]] # "unknown"
  /\ Pass(v, tier[v])
  /\ UNCHANGED <<health, lock>>

LookRemote(v) ==
  /\ at[v] = "status" /\ tier[v] # Local /\ lock = Nobody
  /\ Learn(v, Verdict(component[v], tier[v]))
  /\ Pass(v, tier[v])
  /\ UNCHANGED lock

LookEnds(v) ==
  /\ at[v] = "probing"
  /\ lock' = Nobody
  /\ Learn(v, Seen(v))
  /\ Pass(v, Local)

\* Mutant of Expire: only good news grows old.
ExpireHealthy(c, t) ==
  /\ health[c][t] = "up"
  /\ health' = [health EXCEPT ![c][t] = "unknown"]
  /\ unannounced' = (unannounced /\ \E d \in Component : health'[d][Cloud] # "unknown")
  /\ UNCHANGED <<lock, callVars, client, server>>

(* What is known of a tier is thirty seconds old. *)
Expire(c, t) ==
  /\ health[c][t] # "unknown"
  /\ health' = [health EXCEPT ![c][t] = "unknown"]
  /\ unannounced' = (unannounced /\ \E d \in Component : health'[d][Cloud] # "unknown")
  /\ UNCHANGED <<lock, callVars, client, server>>

ServerChanges(s) ==
  /\ \E h \in {"up", "sick", "down"} : server' = [server EXCEPT ![s] = h]
  /\ UNCHANGED <<health, lock, callVars, client, unannounced>>

---------------------------------------------------------------------------
(* The settings steps, and what they do to the registry: a flush that
   succeeds makes it forget, a failure before that leaves it as it is, and a
   process start rebuilds it and probes every tier before requests come in. *)
Edit(u) == (Submit(u) \/ Select(u) \/ Apply(u) \/ Commit(u)) /\ UNCHANGED chainVars

Announce(u) ==
  /\ Flush(u)
  /\ health' = Unknown
  /\ unannounced' = FALSE
  /\ UNCHANGED <<lock, callVars, client, server>>

EditFails(u) ==
  /\ Fail(u)
  /\ unannounced' = (unannounced \/ (pc[u] = "flush" /\ health # Unknown))
  /\ UNCHANGED <<health, lock, callVars, client, server>>

Probed(s, c, t) == CASE t = Local -> IF server[s[ServerOf[c]]] = "down" THEN "down" ELSE "up"
                     [] t = Cloud -> IF Configured(s, c) THEN "up" ELSE "down"
                     [] OTHER -> "up"

Boot(loaded) ==
  /\ Restart(loaded)
  /\ health' = [c \in Component |-> [t \in Tier |-> Probed(live', c, t)]]
  /\ at' = [p \in Client |-> "idle"]
  /\ tier' = [p \in Client |-> Local]
  /\ target' = [p \in Client |-> ""]
  /\ attempts' = [p \in Client |-> << >>]
  /\ lock' = Nobody /\ client' = "" /\ unannounced' = FALSE
  /\ UNCHANGED <<component, server>>

Init ==
  /\ SettingsInit
  /\ health = Unknown
  /\ at = [p \in Client |-> "idle"]
  /\ tier = [p \in Client |-> Local]
  /\ target = [p \in Client |-> ""]
  /\ attempts = [p \in Client |-> << >>]
  /\ lock = Nobody /\ client = "" /\ unannounced = FALSE
  /\ component \in [Client -> Component]
  /\ server = [s \in Server |-> "up"]

Probe(p) == ProbeLocal(p) \/ (p \in Request /\ ProbeRemote(p)) \/ (p \in Viewer /\ LookRemote(p))
Return(p) == IF p \in Request THEN ProbeEnds(p) \/ CallAnswered(p) \/ CallFails(p) ELSE LookEnds(p)

ChainStep == \/ \E r \in Request : Ask(r)
             \/ \E v \in Viewer : Look(v) \/ LookCached(v)
             \/ \E p \in Client : Probe(p) \/ Return(p)
             \/ \E c \in Component, t \in Tier : Expire(c, t)
             \/ \E s \in Flaky : ServerChanges(s)

Next == \/ \E u \in Update : Edit(u) \/ Announce(u) \/ EditFails(u)
        \/ \E loaded \in BOOLEAN : Boot(loaded)
        \/ ChainStep /\ UNCHANGED settingsVars

Spec == Init /\ [][Next]_allVars

(* asyncio.Lock is granted in order of arrival, the HTTP clients have
   timeouts, and time passes for the health cache.                          *)
Fairness ==
  /\ \A p \in Client : /\ SF_allVars(Probe(p) /\ UNCHANGED settingsVars)
                       /\ WF_allVars(Return(p) /\ UNCHANGED settingsVars)
  /\ \A c \in Component, t \in Tier : WF_allVars(Expire(c, t) /\ UNCHANGED settingsVars)
FairSpec == Spec /\ Fairness

---------------------------------------------------------------------------
(* Local-only mode: a call of a paid provider begins only while the mode is
   off, but for the moment in which an update has set it and not yet made
   the registry forget, or has failed there (callsentry_local_only).        *)
Begins(r) == at'[r] = "calling" /\ tier'[r] = Cloud /\ ~(at[r] = "calling" /\ tier[r] = Cloud)
Excused == unannounced \/ \E u \in Update : pc[u] = "flush"
LocalOnlyHolds == [][\A r \in Request : Begins(r) => ~LocalOnly \/ Excused]_allVars

(* README.md:99, "a hard switch, not a preference.  With it set, no paid
   inference API is called": a request that comes between the change of the
   live mode and the flush still finds the cloud tier healthy, and calls it. *)
LocalOnlyIsHard == [][\A r \in Request : Begins(r) => ~LocalOnly]_allVars

(* Every request is answered by the first tier that does not turn it down,
   with every tier it passed on record, and none is left waiting: the mock
   tier always answers, whatever fails or changes (run).                    *)
Standing(r) == CASE at[r] = "idle" -> "idle"
                 [] at[r] = "answered" -> "answered"
                 [] OTHER -> "open"
Promise == INSTANCE FirstAnswer WITH
  Tiers <- Mock,
  state <- [r \in Request |-> Standing(r)],
  attempts <- [r \in Request |-> attempts[r]]
AnsweredByFirst == Promise!Spec

(* Local first: when the local server of a chain is well for good and nobody
   edits the settings any more, the chain ends up calling nothing else, in
   spite of what the health cache had learned (status, run).                *)
LocalWell(c) == server[live[ServerOf[c]]] = "up"
LocalComesBack ==
  \A c \in Component :
    <>[](LocalWell(c) /\ \A u \in Update : pc[u] = "idle")
      => <>[](\A r \in Request : at[r] = "calling" /\ component[r] = c => tier[r] = Local)

(* A call is made with the key in force when it begins: every service that
   reads a setting at call time sees the new value without a restart
   (services/platform_settings.py:6).                                       *)
CallsUseTheKeyInForce ==
  [][\A r \in Request : Begins(r) => target'[r] = live[KeyOf[component'[r]]]]_allVars
===========================================================================
