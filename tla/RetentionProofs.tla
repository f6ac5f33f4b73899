--------------------------- MODULE RetentionProofs ---------------------------
(***************************************************************************)
(* Theorems about Retention, for any calls, handlers, periods, pauses and  *)
(* bounds.                                                                 *)
(***************************************************************************)
EXTENDS Retention, TLAPS

USE DEF loop, settings

Works == {Idle} \cup Handlers \cup Erasures

\* A handler other than the voice webhook has the row of its call; a voice
\* webhook is the only one of a call that has none yet; an erasure has found
\* each row once; a closed round holds nothing, an open one rows.
Found ==
    /\ \A r \in Requests : request[r] \in Handlers =>
            IF request[r].kind = "voice"
            THEN /\ call[request[r].call] = NoCall
                 /\ \A q \in Requests \ {r} :
                        request[q] \in Handlers => request[q].call # request[r].call
            ELSE call[request[r].call] # NoCall
    /\ \A r \in Requests : request[r] \in Erasures =>
            /\ \A f \in request[r].found : call[f.call] # NoCall
            /\ \A f, g \in request[r].found : f.call = g.call => f = g
    /\ Locked \subseteq Committed
    /\ ~round.open => round = NoRound

Typed == TypeOK /\ Found

\* The kind of a request tells what it has in hand.
LEMMA WorkKinds ==
    ASSUME TypeOK, NEW r \in Requests
    PROVE  /\ request[r] \in Works
           /\ request[r].kind \in Kinds <=> request[r] \in Handlers
           /\ request[r].kind = "erase" <=> request[r] \in Erasures
    BY DEF TypeOK, Works, Idle, Handlers, Erasures, Kinds

\* No row is no row of a call.
LEMMA CallIsCall == \A x \in Call : x # NoCall
    BY DEF Call, NoCall

LEMMA TypedInit == Init => Typed
<1> SUFFICES ASSUME Init PROVE Typed
    OBVIOUS
<1>1. NoRound \in [open : BOOLEAN, recordings : SUBSET Calls, transcripts : SUBSET Calls]
    BY DEF NoRound
<1>2. Idle \notin Handlers /\ Idle \notin Erasures
    BY DEF Idle, Handlers, Erasures, Kinds
<1>3. TypeOK
    BY <1>1, BoundsAssumption DEF Init, TypeOK
<1>4. Found
    BY <1>2 DEF Init, Found, Locked, NoRound
<1> QED
    BY <1>3, <1>4 DEF Typed

\* A request that ends, or a row that is written, leaves what others have in
\* hand.
LEMMA StillFound ==
    ASSUME Typed, TypeOK', UNCHANGED round,
           \A r \in Requests : request'[r] = request[r] \/ request'[r] = Idle,
           \A c \in Calls : call[c] # NoCall => call'[c] # NoCall,
           \A c \in Calls : call'[c] # NoCall =>
                call[c] # NoCall
                \/ \A r \in Requests : request'[r] \in Handlers => request'[r].call # c
    PROVE  Found'
<1>1. Idle \notin Handlers /\ Idle \notin Erasures
    BY DEF Idle, Handlers, Erasures, Kinds
<1>2. ASSUME NEW r \in Requests, request'[r] \in Handlers
      PROVE  IF request'[r].kind = "voice"
             THEN /\ call'[request'[r].call] = NoCall
                  /\ \A q \in Requests \ {r} :
                        request'[q] \in Handlers => request'[q].call # request'[r].call
             ELSE call'[request'[r].call] # NoCall
  <2>1. request'[r] = request[r] /\ request[r] \in Handlers /\ request[r].call \in Calls
    BY <1>1, <1>2 DEF Handlers
  <2>2. CASE request[r].kind = "voice"
    <3>1. /\ call[request[r].call] = NoCall
          /\ \A q \in Requests \ {r} :
                request[q] \in Handlers => request[q].call # request[r].call
        BY <2>1, <2>2 DEF Typed, Found
    <3>2. call'[request[r].call] = NoCall
        BY <2>1, <3>1, <1>2
    <3>3. \A q \in Requests \ {r} :
                request'[q] \in Handlers => request'[q].call # request'[r].call
        BY <1>1, <2>1, <3>1
    <3> QED
        BY <2>1, <2>2, <3>2, <3>3
  <2>3. CASE request[r].kind # "voice"
    BY <2>1, <2>3 DEF Typed, Found
  <2> QED
    BY <2>2, <2>3
<1>3. ASSUME NEW r \in Requests, request'[r] \in Erasures
      PROVE  /\ \A f \in request'[r].found : call'[f.call] # NoCall
             /\ \A f, g \in request'[r].found : f.call = g.call => f = g
    BY <1>1, <1>3 DEF Typed, Found, Erasures
<1>4. (Locked \subseteq Committed)' /\ (~round.open => round = NoRound)'
    BY DEF Typed, Found, Locked, Committed
<1> QED
    BY <1>2, <1>3, <1>4 DEF Found

\* What a commit of a call's row writes.
LEMMA WrittenType ==
    ASSUME NEW q, NEW filled \in Fills(q), NEW cols \in Written(q, filled)
    PROVE  cols \subseteq filled
    BY DEF Written

LEMMA FillsType ==
    ASSUME NEW q \in Handlers, q.kind # "voice", NEW filled \in Fills(q)
    PROVE  filled \subseteq Columns
<1>1. q.kind \in {"turn", "status", "hangup"}
    BY DEF Handlers, Kinds
<1>2. CASE q.kind = "turn"
    BY <1>2 DEF Fills, Columns
<1>3. CASE q.kind = "status"
    BY <1>3 DEF Fills, Columns
<1>4. CASE q.kind = "hangup"
    BY <1>4 DEF Fills, Columns
<1> QED
    BY <1>1, <1>2, <1>3, <1>4

\* A commit adds columns to a row, an erasure takes some.
LEMMA FilledType ==
    ASSUME NEW x \in Call, NEW cols \in SUBSET Columns
    PROVE  /\ [x EXCEPT !.held = @ \cup cols] \in Call
           /\ [x EXCEPT !.held = @ \ cols] \in Call
           /\ Stripped(x, cols) \in Call
    BY DEF Call, Stripped

LEMMA TypedStep == Typed /\ [Next]_vars => Typed'
<1> SUFFICES ASSUME Typed, [Next]_vars PROVE Typed'
    OBVIOUS
<1> USE DEF Typed
<1>1. Idle \notin Handlers /\ Idle \notin Erasures
    BY DEF Idle, Handlers, Erasures, Kinds
<1>2. CASE UNCHANGED vars
    BY <1>2 DEF vars, TypeOK, Found, Locked, Committed
<1>3. ASSUME NEW r \in Requests, NEW k \in Kinds, NEW c \in Calls, Arrives(r, k, c)
      PROVE  Typed'
  <2>1. Handler(k, c) \in Handlers /\ Handler(k, c) \notin Erasures
    BY <1>3, CallIsCall DEF Arrives, Handler, Handlers, Erasures, TypeOK, Call, Columns, Kinds
  <2>2. request' = [request EXCEPT ![r] = Handler(k, c)] /\ request[r] = Idle
    BY <1>3 DEF Arrives
  <2>3. TypeOK'
    BY <1>3, <2>1, <2>2 DEF Arrives, TypeOK
  <2>4. ASSUME NEW q \in Requests, request'[q] \in Handlers
        PROVE  IF request'[q].kind = "voice"
               THEN /\ call'[request'[q].call] = NoCall
                    /\ \A p \in Requests \ {q} :
                          request'[p] \in Handlers => request'[p].call # request'[q].call
               ELSE call'[request'[q].call] # NoCall
    <3>0. UNCHANGED call
        BY <1>3 DEF Arrives
    <3>1. CASE q = r
      <4>1. request'[q] = Handler(k, c)
        BY <2>2, <3>1 DEF TypeOK
      <4>2. CASE k = "voice"
        <5>1. call[c] = NoCall /\ ~InHand(c, r)
            BY <1>3, <4>2 DEF Arrives
        <5>2. \A p \in Requests \ {r} : request[p] \in Handlers => request[p].call # c
            BY <5>1 DEF InHand, Handlers
        <5> QED
            BY <2>2, <3>0, <3>1, <4>1, <4>2, <5>1, <5>2 DEF Handler, TypeOK
      <4>3. CASE k # "voice"
        BY <1>3, <3>0, <4>1, <4>3 DEF Arrives, Handler
      <4> QED
        BY <4>2, <4>3
    <3>2. CASE q # r
      <4>1. request'[q] = request[q]
        BY <2>2, <3>2 DEF TypeOK
      <4>2. CASE request[q].kind = "voice"
        <5>1. call[request[q].call] = NoCall /\ request[q].call \in Calls
            BY <2>4, <4>1, <4>2 DEF Found, Handlers
        <5>2. c # request[q].call
          <6>1. ASSUME c = request[q].call PROVE FALSE
            <7>1. k = "voice" /\ ~InHand(c, r)
                BY <1>3, <5>1, <6>1 DEF Arrives
            <7> QED
                BY <2>4, <3>2, <4>1, <6>1, <7>1 DEF InHand, Handlers
          <6> QED
            BY <6>1
        <5>3. ASSUME NEW p \in Requests \ {q}, request'[p] \in Handlers
              PROVE  request'[p].call # request[q].call
          <6>1. CASE p = r
            BY <2>2, <5>2, <6>1 DEF Handler, TypeOK
          <6>2. CASE p # r
            BY <2>2, <2>4, <4>1, <4>2, <5>3, <6>2 DEF Found, TypeOK
          <6> QED
            BY <6>1, <6>2
        <5> QED
            BY <3>0, <4>1, <4>2, <5>1, <5>3
      <4>3. CASE request[q].kind # "voice"
        BY <2>4, <3>0, <4>1, <4>3 DEF Found
      <4> QED
        BY <4>2, <4>3
    <3> QED
        BY <3>1, <3>2
  <2>5. ASSUME NEW q \in Requests, request'[q] \in Erasures
        PROVE  /\ \A f \in request'[q].found : call'[f.call] # NoCall
               /\ \A f, g \in request'[q].found : f.call = g.call => f = g
    BY <1>3, <2>1, <2>2, <2>5 DEF Found, TypeOK, Arrives
  <2>6. (Locked \subseteq Committed)' /\ (~round.open => round = NoRound)'
    BY <1>3 DEF Arrives, Found, Locked, Committed
  <2> QED
    BY <2>3, <2>4, <2>5, <2>6 DEF Found
<1>4. ASSUME NEW r \in Requests, VoiceCommits(r) PROVE Typed'
  <2>1. request[r] \in Handlers /\ request[r].call \in Calls
    BY <1>4, WorkKinds DEF VoiceCommits, Kinds, Handlers
  <2>2. clock + policy.recording \in Nat
    <3>1. clock \in Nat /\ policy.recording \in Periods
        BY BoundsAssumption DEF TypeOK
    <3>2. \A a, b \in Nat : a + b \in Nat
        OBVIOUS
    <3>3. policy.recording \in Nat
        BY <3>1, PeriodsAssumption
    <3> QED
        BY <3>1, <3>2, <3>3
  <2>3. [number |-> "phone", held |-> {}, created |-> clock,
         expires |-> clock + policy.recording] \in Call
    BY <2>2 DEF Call, TypeOK
  <2>4. TypeOK'
    BY <1>4, <2>1, <2>2, <2>3 DEF VoiceCommits, Close, TypeOK
  <2>5. \A q \in Requests : request'[q] \in Handlers => request'[q].call # request[r].call
    BY <1>1, <1>4, <2>1 DEF VoiceCommits, Close, Found, TypeOK
  <2>6. \A c \in Calls : c # request[r].call => call'[c] = call[c]
    BY <1>4 DEF VoiceCommits, TypeOK
  <2>7. call'[request[r].call] # NoCall
    BY <1>4, <2>1, <2>3, CallIsCall DEF VoiceCommits, TypeOK
  <2>8. UNCHANGED round
    BY <1>4 DEF VoiceCommits
  <2>9. \A q \in Requests : request'[q] = request[q] \/ request'[q] = Idle
    BY <1>4 DEF VoiceCommits, Close, TypeOK
  <2> QED
    BY <2>4, <2>5, <2>6, <2>7, <2>8, <2>9, StillFound
<1>5. ASSUME NEW r \in Requests, Commits(r) PROVE Typed'
  <2>1. request[r] \in Handlers /\ request[r].call \in Calls /\ request[r].kind # "voice"
    BY <1>5, WorkKinds DEF Commits, Handlers
  <2>2. call[request[r].call] \in Call
    BY <2>1 DEF Found, TypeOK
  <2>0. PICK filled \in Fills(request[r]) : \E cols \in Written(request[r], filled) :
            /\ call' = [call EXCEPT ![request[r].call].held = @ \cup cols]
            /\ since' = [since EXCEPT ![request[r].call] = IF cols = {} THEN @ ELSE clock]
    BY <1>5 DEF Commits
  <2>3. PICK cols \in Written(request[r], filled) :
            /\ call' = [call EXCEPT ![request[r].call].held = @ \cup cols]
            /\ since' = [since EXCEPT ![request[r].call] = IF cols = {} THEN @ ELSE clock]
    BY <2>0
  <2>4. cols \subseteq Columns
    BY <2>1, <2>3, FillsType, WrittenType
  <2>5. call' \in [Calls -> Call \cup {NoCall}] /\ call'[request[r].call] \in Call
        /\ \A c \in Calls : c # request[r].call => call'[c] = call[c]
    BY <2>1, <2>2, <2>3, <2>4, FilledType DEF TypeOK
  <2>6. TypeOK'
    BY <1>5, <2>1, <2>3, <2>5 DEF Commits, Close, TypeOK
  <2>7. UNCHANGED round
    BY <1>5 DEF Commits
  <2>8. \A q \in Requests : request'[q] = request[q] \/ request'[q] = Idle
    BY <1>5 DEF Commits, Close, TypeOK
  <2> QED
    BY <2>1, <2>2, <2>5, <2>6, <2>7, <2>8, CallIsCall, StillFound
<1>6. ASSUME NEW r \in Requests, RequestFails(r) PROVE Typed'
  <2>1. TypeOK'
    BY <1>6 DEF RequestFails, Close, TypeOK
  <2>2. \A q \in Requests : request'[q] = request[q] \/ request'[q] = Idle
    BY <1>6 DEF RequestFails, Close, TypeOK
  <2>3. UNCHANGED <<call, round>>
    BY <1>6 DEF RequestFails
  <2> QED
    BY <2>1, <2>2, <2>3, StillFound
<1>7. ASSUME NEW r \in Requests, EraseLoads(r) PROVE Typed'
  <2>1. \A c \in Committed : call[c] \in Call
    BY DEF Committed, TypeOK
  <2>2. Erasure \in Erasures /\ Erasure \notin Handlers
    BY <2>1 DEF Erasure, Erasures, Handlers, Committed, Call, Kinds
  <2>3. TypeOK'
    BY <1>7, <2>2 DEF EraseLoads, TypeOK
  <2>4. /\ \A f \in Erasure.found : call[f.call] # NoCall
        /\ \A f, g \in Erasure.found : f.call = g.call => f = g
    BY DEF Erasure, Committed
  <2>5. request[r] = Idle /\ request' = [request EXCEPT ![r] = Erasure]
        /\ UNCHANGED <<call, round>>
    BY <1>7 DEF EraseLoads
  <2>6. ASSUME NEW q \in Requests, request'[q] \in Erasures
        PROVE  /\ \A f \in request'[q].found : call'[f.call] # NoCall
               /\ \A f, g \in request'[q].found : f.call = g.call => f = g
    <3>1. CASE q = r
        BY <2>4, <2>5, <3>1 DEF TypeOK
    <3>2. CASE q # r
        BY <2>5, <2>6, <3>2 DEF TypeOK, Found
    <3> QED
        BY <3>1, <3>2
  <2>7. \A q \in Requests : request'[q] \in Handlers =>
            request'[q] = request[q]
    BY <2>2, <2>5 DEF TypeOK
  <2>8. \A q \in Requests : request'[q] \in Handlers =>
            IF request'[q].kind = "voice"
            THEN /\ call'[request'[q].call] = NoCall
                 /\ \A p \in Requests \ {q} :
                        request'[p] \in Handlers => request'[p].call # request'[q].call
            ELSE call'[request'[q].call] # NoCall
    BY <2>5, <2>7 DEF Found
  <2>9. (Locked \subseteq Committed)' /\ (~round.open => round = NoRound)'
    BY <2>5 DEF Found, Locked, Committed
  <2> QED
    BY <2>3, <2>6, <2>8, <2>9 DEF Found
<1>8. ASSUME NEW r \in Requests, EraseCommits(r) PROVE Typed'
  <2> DEFINE found == request[r].found
             calls == {f.call : f \in found}
  <2>1. request[r] \in Erasures
    BY <1>8, WorkKinds DEF EraseCommits
  <2>2. \A f \in found : f.call \in Calls /\ f.held \subseteq Columns /\ call[f.call] # NoCall
    BY <2>1 DEF Erasures, Found
  <2>3. ASSUME NEW c \in calls
        PROVE  Stripped(call[c], (CHOOSE f \in found : f.call = c).held) \in Call
    <3>1. (CHOOSE f \in found : f.call = c) \in found
        OBVIOUS
    <3>2. call[c] \in Call
        BY <2>2 DEF TypeOK
    <3> QED
        BY <2>2, <3>1, <3>2, FilledType
  <2>4. call' = [c \in Calls |-> IF c \in calls
                    THEN Stripped(call[c], (CHOOSE f \in found : f.call = c).held)
                    ELSE call[c]]
    BY <1>8 DEF EraseCommits
  <2>5. call' \in [Calls -> Call \cup {NoCall}]
    BY <2>3, <2>4 DEF TypeOK
  <2>6. \A c \in Calls : call[c] # NoCall <=> call'[c] # NoCall
    BY <2>2, <2>3, <2>4, CallIsCall DEF TypeOK
  <2>7. erased' \subseteq Calls
    <3>1. erased' = erased \cup
                {f.call : f \in {g \in found : /\ call[g.call].held \subseteq g.held
                                               /\ ~InHand(g.call, r)}}
        BY <1>8 DEF EraseCommits
    <3> QED
        BY <2>2, <3>1 DEF TypeOK
  <2>8. TypeOK'
    BY <1>8, <2>5, <2>7 DEF EraseCommits, Close, TypeOK
  <2>9. \A q \in Requests : request'[q] = request[q] \/ request'[q] = Idle
    BY <1>8 DEF EraseCommits, Close, TypeOK
  <2>10. UNCHANGED round
    BY <1>8 DEF EraseCommits
  <2> QED
    BY <2>6, <2>8, <2>9, <2>10, StillFound
<1>9. CASE RoundBegins
  <2>1. /\ round' = [open |-> TRUE, recordings |-> ExpiredRecordings,
                     transcripts |-> ExpiredTranscripts]
        /\ UNCHANGED <<request, call>>
    BY <1>9 DEF RoundBegins
  <2>2. ExpiredRecordings \subseteq Committed /\ ExpiredTranscripts \subseteq Committed
        /\ Committed \subseteq Calls
    BY DEF ExpiredRecordings, ExpiredTranscripts, Committed
  <2>3. TypeOK'
    BY <1>9, <2>1, <2>2 DEF RoundBegins, TypeOK
  <2>4. (Locked \subseteq Committed)' /\ (~round.open => round = NoRound)'
    BY <2>1, <2>2 DEF Locked, Committed
  <2> QED
    BY <2>1, <2>3, <2>4 DEF Found
<1>10. CASE RoundEnds
  <2>1. \A c \in Locked : call[c] \in Call
    BY DEF Found, Committed, TypeOK
  <2>2. call' = [c \in Calls |->
            IF c \in Locked THEN [call[c] EXCEPT !.held = @ \ Cleared(c)] ELSE call[c]]
    BY <1>10 DEF RoundEnds
  <2>3. \A c \in Calls : Cleared(c) \subseteq Columns
    BY DEF Cleared, Columns
  <2>4. \A c \in Locked \cap Calls : [call[c] EXCEPT !.held = @ \ Cleared(c)] \in Call
    BY <2>1, <2>3, FilledType
  <2>5. call' \in [Calls -> Call \cup {NoCall}]
        /\ \A c \in Calls : call[c] # NoCall <=> call'[c] # NoCall
    BY <2>1, <2>2, <2>4, CallIsCall DEF TypeOK
  <2>6. due' \in Nat /\ round' = NoRound /\ UNCHANGED request
    BY <1>10, BoundsAssumption DEF RoundEnds, TypeOK
  <2>7. TypeOK'
    <3>1. round' \in [open : BOOLEAN, recordings : SUBSET Calls, transcripts : SUBSET Calls]
        BY <2>6 DEF NoRound
    <3>2. UNCHANGED <<clock, policy, edits, failures, visit, promised, since, erased>>
        BY <1>10 DEF RoundEnds
    <3> QED
        BY <2>5, <2>6, <3>1, <3>2 DEF TypeOK
  <2>8. (Locked \subseteq Committed)'
    BY <2>6 DEF Locked, NoRound
  <2>9. \A q \in Requests : request[q] \in Handlers => request[q].call \in Calls
    BY DEF Handlers
  <2>10. \A q \in Requests : request[q] \in Erasures =>
            \A f \in request[q].found : f.call \in Calls
    BY DEF Erasures
  <2> QED
    BY <2>5, <2>6, <2>7, <2>8, <2>9, <2>10 DEF Found
<1>11. CASE RoundFails
  <2>1. due' \in Nat /\ round' = NoRound /\ UNCHANGED <<call, request>>
    BY <1>11, BoundsAssumption DEF RoundFails, TypeOK
  <2>2. since' \in [Calls -> 0..Horizon] /\ failures' \in 0..MaxFailures
    BY <1>11, BoundsAssumption DEF RoundFails, TypeOK
  <2>3. TypeOK'
    BY <1>11, <2>1, <2>2 DEF RoundFails, TypeOK, NoRound
  <2>4. (Locked \subseteq Committed)'
    BY <2>1 DEF Locked, NoRound
  <2> QED
    BY <2>1, <2>3, <2>4 DEF Found
<1>12. CASE SetPolicy
  <2>1. TypeOK'
    BY <1>12, BoundsAssumption DEF SetPolicy, TypeOK
  <2>2. UNCHANGED <<call, request, round>>
    BY <1>12 DEF SetPolicy
  <2> QED
    BY <2>1, <2>2, StillFound
<1>13. CASE Tick
  <2>1. TypeOK'
    BY <1>13, BoundsAssumption DEF Tick, TypeOK
  <2>2. UNCHANGED <<call, request, round>>
    BY <1>13 DEF Tick
  <2> QED
    BY <2>1, <2>2, StillFound
<1> QED
    BY <1>2, <1>3, <1>4, <1>5, <1>6, <1>7, <1>8, <1>9, <1>10, <1>11, <1>12, <1>13 DEF Next

THEOREM AlwaysTyped == Spec => []Typed
    BY TypedInit, TypedStep, PTL DEF Spec

-----------------------------------------------------------------------------
\* A recording is locked by a round only past the time stamped on its row,
\* which is the time that was promised.
Stamped ==
    /\ \A c \in Committed : call[c].expires = promised[c]
    /\ \A c \in round.recordings : promised[c] <= clock

LEMMA StampedStep ==
    ASSUME Typed, Stamped, [Next]_vars
    PROVE  /\ Stamped'
           /\ \A c \in Committed :
                "recording" \in call[c].held /\ "recording" \notin call'[c].held =>
                    clock >= promised[c] \/ call'[c].number = "[erased]"
<1> DEFINE Safe == \A c \in Committed :
                "recording" \in call[c].held /\ "recording" \notin call'[c].held =>
                    clock >= promised[c] \/ call'[c].number = "[erased]"
<1> USE DEF Typed
<1>1. Locked \subseteq Committed /\ Committed \subseteq Calls
    BY DEF Found, Committed
<1>2. ASSUME UNCHANGED <<call, promised, round, clock>> PROVE Stamped' /\ Safe
    BY <1>2 DEF Stamped, Committed
<1>3. ASSUME NEW r \in Requests, VoiceCommits(r) PROVE Stamped' /\ Safe
  <2>1. request[r] \in Handlers /\ request[r].call \in Calls /\ request[r].kind = "voice"
    BY <1>3, WorkKinds DEF VoiceCommits, Kinds, Handlers
  <2>2. request[r].call \notin Committed
    BY <2>1 DEF Found, Committed
  <2>3. \A c \in Calls : c # request[r].call =>
            call'[c] = call[c] /\ promised'[c] = promised[c]
    BY <1>3 DEF VoiceCommits, TypeOK
  <2>4. call'[request[r].call].expires = promised'[request[r].call]
    BY <1>3, <2>1 DEF VoiceCommits, TypeOK
  <2>5. UNCHANGED <<clock, round>>
    BY <1>3 DEF VoiceCommits
  <2>6. round.recordings \subseteq Committed
    BY <1>1 DEF Locked
  <2> QED
    BY <1>1, <2>2, <2>3, <2>4, <2>5, <2>6 DEF Stamped, Committed
<1>4. ASSUME NEW r \in Requests, Commits(r) PROVE Stamped' /\ Safe
  <2>1. request[r] \in Handlers /\ request[r].call \in Calls /\ request[r].kind # "voice"
    BY <1>4, WorkKinds DEF Commits, Handlers
  <2>2. call[request[r].call] \in Call
    BY <2>1 DEF Found, TypeOK
  <2>3. PICK cols : call' = [call EXCEPT ![request[r].call].held = @ \cup cols]
    BY <1>4 DEF Commits
  <2>4. \A c \in Calls : /\ call[c] # NoCall => call'[c].expires = call[c].expires
                         /\ "recording" \in call[c].held => "recording" \in call'[c].held
                         /\ call'[c] # NoCall => call[c] # NoCall
    BY <2>1, <2>2, <2>3, CallIsCall DEF TypeOK, Call
  <2>5. UNCHANGED <<clock, round, promised>>
    BY <1>4 DEF Commits
  <2>6. Safe
    BY <1>1, <2>4
  <2>7. \A c \in Committed' : c \in Committed /\ call'[c].expires = call[c].expires
    BY <2>4 DEF Committed
  <2>8. Stamped'
    BY <2>5, <2>7 DEF Stamped
  <2> QED
    BY <2>6, <2>8
<1>5. ASSUME NEW r \in Requests, EraseCommits(r) PROVE Stamped' /\ Safe
  <2> DEFINE found == request[r].found
             calls == {f.call : f \in found}
  <2>1. request[r] \in Erasures
    BY <1>5, WorkKinds DEF EraseCommits
  <2>2. \A f \in found : f.call \in Calls /\ call[f.call] # NoCall
    BY <2>1 DEF Erasures, Found
  <2>3. call' = [c \in Calls |-> IF c \in calls
                    THEN Stripped(call[c], (CHOOSE f \in found : f.call = c).held)
                    ELSE call[c]]
    BY <1>5 DEF EraseCommits
  <2>4. ASSUME NEW c \in Calls
        PROVE  IF c \in calls
               THEN /\ call[c] # NoCall /\ call'[c].number = "[erased]"
                    /\ call'[c].expires = call[c].expires
               ELSE call'[c] = call[c]
    <3>1. CASE c \in calls
      <4>1. call[c] \in Call
        BY <2>2, <3>1 DEF TypeOK
      <4>2. call'[c] = Stripped(call[c], (CHOOSE f \in found : f.call = c).held)
        BY <2>3, <3>1
      <4>3. ASSUME NEW held PROVE /\ Stripped(call[c], held).number = "[erased]"
                                  /\ Stripped(call[c], held).expires = call[c].expires
        BY <4>1 DEF Stripped, Call
      <4> HIDE DEF calls, found
      <4> QED
        BY <2>2, <3>1, <4>1, <4>2, <4>3, CallIsCall
    <3>2. CASE c \notin calls
        BY <2>3, <3>2
    <3> QED
        BY <3>1, <3>2
  <2>5. UNCHANGED <<clock, round, promised>>
    BY <1>5 DEF EraseCommits
  <2> HIDE DEF calls
  <2> QED
    BY <1>1, <2>4, <2>5 DEF Stamped, Committed
<1>6. ASSUME RoundBegins PROVE Stamped' /\ Safe
  <2>1. UNCHANGED <<clock, promised, call>> /\ round'.recordings = ExpiredRecordings
    BY <1>6 DEF RoundBegins
  <2>2. \A c \in ExpiredRecordings : c \in Committed /\ call[c].expires <= clock
    BY DEF ExpiredRecordings
  <2> QED
    BY <2>1, <2>2 DEF Stamped, Committed
<1>7. ASSUME RoundEnds PROVE Stamped' /\ Safe
  <2>1. UNCHANGED <<clock, promised>> /\ round'.recordings = {}
    BY <1>7 DEF RoundEnds, NoRound
  <2>2. call' = [c \in Calls |->
            IF c \in Locked THEN [call[c] EXCEPT !.held = @ \ Cleared(c)] ELSE call[c]]
    BY <1>7 DEF RoundEnds
  <2>3. ASSUME NEW c \in Committed
        PROVE  /\ call'[c].expires = call[c].expires
               /\ "recording" \in call[c].held /\ "recording" \notin call'[c].held
                    => c \in round.recordings
    <3>1. call[c] \in Call
        BY <1>1 DEF Committed, TypeOK
    <3>2. CASE c \in Locked
      <4>1. call'[c] = [call[c] EXCEPT !.held = @ \ Cleared(c)]
        BY <1>1, <2>2, <3>2
      <4>2. "recording" \in Cleared(c) => c \in round.recordings
        BY DEF Cleared
      <4> QED
        BY <3>1, <4>1, <4>2 DEF Call
    <3>3. CASE c \notin Locked
        BY <1>1, <2>2, <3>3
    <3> QED
        BY <3>2, <3>3
  <2>4. \A c \in Calls : call'[c] # NoCall => c \in Committed
    BY <1>1, <2>2 DEF Committed
  <2>5. ASSUME NEW c \in round.recordings PROVE clock >= promised[c]
    <3>1. promised[c] <= clock /\ promised[c] \in Nat /\ clock \in Nat
        BY <1>1, BoundsAssumption DEF Stamped, TypeOK, Locked
    <3> QED
        BY <3>1
  <2> QED
    BY <1>1, <2>1, <2>3, <2>4, <2>5 DEF Stamped, Committed
<1>8. ASSUME RoundFails PROVE Stamped' /\ Safe
    BY <1>8 DEF RoundFails, NoRound, Stamped, Committed
<1>9. ASSUME Tick PROVE Stamped' /\ Safe
  <2>1. UNCHANGED <<call, promised, round>> /\ clock' = clock + 1 /\ clock \in Nat
    BY <1>9, BoundsAssumption DEF Tick, TypeOK
  <2>2. \A c \in round.recordings : promised[c] \in Nat
    BY <1>1 DEF Locked, TypeOK
  <2> QED
    BY <2>1, <2>2 DEF Stamped, Committed
<1>10. CASE \E r \in Requests, c \in Calls, k \in Kinds : Arrives(r, k, c)
    BY <1>2, <1>10 DEF Arrives
<1>11. CASE \E r \in Requests : RequestFails(r) \/ EraseLoads(r)
    BY <1>2, <1>11 DEF RequestFails, EraseLoads
<1>12. CASE SetPolicy
    BY <1>2, <1>12 DEF SetPolicy
<1>13. CASE UNCHANGED vars
    BY <1>2, <1>13 DEF vars
<1> QED
    BY <1>3, <1>4, <1>5, <1>6, <1>7, <1>8, <1>9, <1>10, <1>11, <1>12, <1>13 DEF Next

\* README.md:201 of the repository: however sweeps, erasures and changes of
\* the policy run, no recording goes before the time stamped on its row, but
\* by the erasure of its caller (sweep, erase_caller).
THEOREM RecordingsKept == Spec => RecordingKept
<1>1. Init => Stamped
    BY DEF Init, Stamped, Committed, NoRound
<1>2. Typed /\ Stamped /\ [Next]_vars =>
        /\ Stamped'
        /\ [\A c \in Committed :
                "recording" \in call[c].held /\ "recording" \notin call'[c].held =>
                    clock >= promised[c] \/ call'[c].number = "[erased]"]_vars
    BY StampedStep
<1> QED
    BY <1>1, <1>2, AlwaysTyped, PTL DEF Spec, RecordingKept

-----------------------------------------------------------------------------
\* MediaNotOverdue holds because the next round always comes in time: when none
\* is open it is due within a pause of the expiry or of what reset the count;
\* when one is open it either clears the column or has nothing to clear yet.
Limited(held, c, column, expiry) ==
    column \in held =>
        LET from == Larger(expiry, since[c])
            cleared == IF column = "recording" THEN round.recordings
                       ELSE round.transcripts
        IN /\ clock <= from + Interval
           /\ IF round.open THEN c \in cleared \/ clock <= from
              ELSE due <= from + Interval

Timely ==
    /\ clock <= due /\ due <= clock + Interval
    /\ round.open => clock = due
    /\ \A c \in Committed :
        /\ Limited(call[c].held, c, "recording", call[c].expires)
        /\ Limited(call[c].held, c, "transcript", call[c].created + policy.transcript)

LEMMA Ages ==
    ASSUME NEW x \in Call, NEW p \in [recording : Periods, transcript : Periods]
    PROVE  x.expires \in Nat /\ x.created + p.transcript \in Nat
<1>1. x.expires \in Nat /\ x.created \in Nat
    BY BoundsAssumption DEF Call
<1>2. p.transcript \in Nat
  <2>1. p.transcript \in Periods
    OBVIOUS
  <2> QED
    BY <2>1, PeriodsAssumption
<1>3. \A i, j \in Nat : i + j \in Nat
    OBVIOUS
<1> QED
    BY <1>1, <1>2, <1>3

LEMMA Numbers ==
    ASSUME TypeOK
    PROVE  /\ clock \in Nat /\ due \in Nat /\ Interval \in Nat
           /\ \A c \in Calls : since[c] \in Nat
           /\ \A c \in Committed : /\ call[c].expires \in Nat
                                   /\ call[c].created + policy.transcript \in Nat
<1>1. clock \in Nat /\ due \in Nat /\ Interval \in Nat
    BY BoundsAssumption DEF TypeOK
<1>2. \A c \in Calls : since[c] \in Nat
    BY BoundsAssumption DEF TypeOK
<1>3. \A c \in Committed : call[c] \in Call
    BY DEF TypeOK, Committed
<1> QED
    BY <1>1, <1>2, <1>3, Ages DEF TypeOK

LEMMA TimelyInit == Init => Timely
    BY BoundsAssumption DEF Init, Timely, Committed, NoRound

LEMMA TimelyStep == Typed /\ Timely /\ [Next]_vars => Timely'
<1> SUFFICES ASSUME Typed, Timely, [Next]_vars PROVE Timely'
    OBVIOUS
<1> USE DEF Typed
<1>0. TypeOK'
    BY TypedStep
<1>1. Locked \subseteq Committed /\ Committed \subseteq Calls
    BY DEF Found, Committed
<1>2. ASSUME UNCHANGED <<clock, due, round, policy>>,
             \A c \in Committed' :
                /\ call[c] # NoCall => /\ call'[c].expires = call[c].expires
                                       /\ call'[c].created = call[c].created
                /\ \/ call[c] # NoCall /\ since'[c] = since[c]
                        /\ call'[c].held \subseteq call[c].held
                   \/ since'[c] = clock
      PROVE  Timely'
  <2>1. ASSUME NEW c \in Committed'
        PROVE  /\ Limited(call[c].held, c, "recording", call[c].expires)'
               /\ Limited(call[c].held, c, "transcript", call[c].created + policy.transcript)'
    <3>1. CASE /\ call[c] # NoCall /\ since'[c] = since[c]
               /\ call'[c].held \subseteq call[c].held
      <4>1. c \in Committed
        BY <3>1 DEF Committed
      <4>2. call'[c].expires = call[c].expires /\ call'[c].created = call[c].created
        BY <1>2, <3>1
      <4> QED
        BY <1>2, <3>1, <4>1, <4>2 DEF Timely, Limited
    <3>2. CASE since'[c] = clock
      <4> DEFINE a == call'[c].expires
                 b == call'[c].created + policy'.transcript
      <4>1. a \in Nat /\ b \in Nat
        BY <1>0, <2>1, Ages DEF TypeOK, Committed
      <4>2. clock \in Nat /\ due \in Nat /\ Interval \in Nat
        BY Numbers
      <4>3. due <= clock + Interval
        BY DEF Timely
      <4> HIDE DEF a, b
      <4>4. ASSUME NEW e \in Nat
            PROVE  /\ clock <= Larger(e, clock) /\ clock <= Larger(e, clock) + Interval
                   /\ due <= Larger(e, clock) + Interval
        BY <4>2, <4>3 DEF Larger
      <4>5. /\ clock <= Larger(a, clock) /\ clock <= Larger(a, clock) + Interval
            /\ due <= Larger(a, clock) + Interval
            /\ clock <= Larger(b, clock) /\ clock <= Larger(b, clock) + Interval
            /\ due <= Larger(b, clock) + Interval
        BY <4>1, <4>4
      <4> QED
        BY <1>2, <3>2, <4>5 DEF Limited, a, b
    <3> QED
        BY <1>2, <3>1, <3>2
  <2> QED
    BY <1>2, <2>1 DEF Timely
<1>3. ASSUME UNCHANGED <<clock, due, round, policy, call, since>> PROVE Timely'
    BY <1>2, <1>3 DEF Committed
<1>4. ASSUME NEW r \in Requests, VoiceCommits(r) PROVE Timely'
  <2>1. request[r] \in Handlers /\ request[r].call \in Calls /\ request[r].kind = "voice"
    BY <1>4, WorkKinds DEF VoiceCommits, Kinds, Handlers
  <2>2. call[request[r].call] = NoCall
    BY <2>1 DEF Found
  <2>3. \A c \in Calls : c # request[r].call => call'[c] = call[c] /\ since'[c] = since[c]
    BY <1>4 DEF VoiceCommits, TypeOK
  <2>4. since'[request[r].call] = clock
    BY <1>4, <2>1 DEF VoiceCommits, TypeOK
  <2>5. UNCHANGED <<clock, due, round, policy>>
    BY <1>4 DEF VoiceCommits
  <2> QED
    BY <1>2, <2>2, <2>3, <2>4, <2>5 DEF Committed
<1>5. ASSUME NEW r \in Requests, Commits(r) PROVE Timely'
  <2>1. request[r] \in Handlers /\ request[r].call \in Calls /\ request[r].kind # "voice"
    BY <1>5, WorkKinds DEF Commits, Handlers
  <2>2. call[request[r].call] \in Call
    BY <2>1 DEF Found, TypeOK
  <2>3. PICK cols :
            /\ call' = [call EXCEPT ![request[r].call].held = @ \cup cols]
            /\ since' = [since EXCEPT ![request[r].call] = IF cols = {} THEN @ ELSE clock]
    BY <1>5 DEF Commits
  <2>4. \A c \in Calls : c # request[r].call => call'[c] = call[c] /\ since'[c] = since[c]
    BY <2>3 DEF TypeOK
  <2>5. call'[request[r].call] = [call[request[r].call] EXCEPT !.held = @ \cup cols]
        /\ since'[request[r].call] = IF cols = {} THEN since[request[r].call] ELSE clock
    BY <2>1, <2>3 DEF TypeOK
  <2>6. /\ call'[request[r].call].expires = call[request[r].call].expires
        /\ call'[request[r].call].created = call[request[r].call].created
        /\ cols = {} => call'[request[r].call].held \subseteq call[request[r].call].held
    BY <2>2, <2>5 DEF Call
  <2>7. UNCHANGED <<clock, due, round, policy>>
    BY <1>5 DEF Commits
  <2>8. call[request[r].call] # NoCall
    BY <2>2, CallIsCall
  <2> QED
    BY <1>2, <2>4, <2>5, <2>6, <2>7, <2>8 DEF Committed
<1>6. ASSUME NEW r \in Requests, EraseCommits(r) PROVE Timely'
  <2> DEFINE found == request[r].found
             calls == {f.call : f \in found}
  <2>1. request[r] \in Erasures
    BY <1>6, WorkKinds DEF EraseCommits
  <2>2. \A f \in found : f.call \in Calls /\ call[f.call] # NoCall
    BY <2>1 DEF Erasures, Found
  <2>3. call' = [c \in Calls |-> IF c \in calls
                    THEN Stripped(call[c], (CHOOSE f \in found : f.call = c).held)
                    ELSE call[c]]
    BY <1>6 DEF EraseCommits
  <2>4. ASSUME NEW c \in Calls
        PROVE  IF c \in calls
               THEN /\ call[c] # NoCall
                    /\ call'[c].expires = call[c].expires
                    /\ call'[c].created = call[c].created
                    /\ call'[c].held \subseteq call[c].held
               ELSE call'[c] = call[c]
    <3>1. CASE c \in calls
      <4>1. call[c] \in Call
        BY <2>2, <3>1 DEF TypeOK
      <4>2. call'[c] = Stripped(call[c], (CHOOSE f \in found : f.call = c).held)
        BY <2>3, <3>1
      <4>3. ASSUME NEW held
            PROVE  /\ Stripped(call[c], held).expires = call[c].expires
                   /\ Stripped(call[c], held).created = call[c].created
                   /\ Stripped(call[c], held).held \subseteq call[c].held
        BY <4>1 DEF Stripped, Call
      <4> HIDE DEF calls, found
      <4> QED
        BY <2>2, <3>1, <4>1, <4>2, <4>3, CallIsCall
    <3>2. CASE c \notin calls
        BY <2>3, <3>2
    <3> QED
        BY <3>1, <3>2
  <2>5. UNCHANGED <<clock, due, round, policy, since>>
    BY <1>6 DEF EraseCommits
  <2> HIDE DEF calls
  <2> QED
    BY <1>2, <2>4, <2>5 DEF Committed
<1>7. ASSUME RoundBegins PROVE Timely'
  <2>1. UNCHANGED <<clock, due, policy, call, since>> /\ clock = due /\ ~round.open
    BY <1>7 DEF RoundBegins
  <2>2. /\ round'.open /\ round'.recordings = ExpiredRecordings
        /\ round'.transcripts = ExpiredTranscripts
    BY <1>7 DEF RoundBegins
  <2>3. ASSUME NEW c \in Committed
        PROVE  /\ Limited(call[c].held, c, "recording", call[c].expires)'
               /\ Limited(call[c].held, c, "transcript", call[c].created + policy.transcript)'
    <3> DEFINE a == call[c].expires
               b == call[c].created + policy.transcript
    <3>1. a \in Nat /\ b \in Nat /\ clock \in Nat /\ since[c] \in Nat /\ Interval \in Nat
        BY <1>1, Numbers
    <3>2. "recording" \in call[c].held => c \in ExpiredRecordings \/ ~(a <= clock)
        BY DEF ExpiredRecordings
    <3>3. "transcript" \in call[c].held => c \in ExpiredTranscripts \/ ~(b <= clock)
        BY DEF ExpiredTranscripts
    <3>4. /\ Limited(call[c].held, c, "recording", a)
          /\ Limited(call[c].held, c, "transcript", b)
        BY DEF Timely
    <3> HIDE DEF a, b
    <3>5. ASSUME NEW e \in Nat, ~(e <= clock) PROVE clock <= Larger(e, since[c])
        BY <3>1, <3>5 DEF Larger
    <3>6. Limited(call[c].held, c, "recording", a)'
        BY <2>1, <2>2, <3>1, <3>2, <3>4, <3>5 DEF Limited, a
    <3>7. Limited(call[c].held, c, "transcript", b)'
        BY <2>1, <2>2, <3>1, <3>3, <3>4, <3>5 DEF Limited, b
    <3> QED
        BY <3>6, <3>7 DEF a, b
  <2> QED
    BY <2>1, <2>2, <2>3 DEF Timely, Committed
<1>8. ASSUME RoundEnds PROVE Timely'
  <2>1. UNCHANGED <<clock, policy, since>> /\ due' = clock + Interval /\ ~round'.open
    BY <1>8 DEF RoundEnds, NoRound
  <2>2. call' = [c \in Calls |->
            IF c \in Locked THEN [call[c] EXCEPT !.held = @ \ Cleared(c)] ELSE call[c]]
    BY <1>8 DEF RoundEnds
  <2>3. ASSUME NEW c \in Committed'
        PROVE  /\ Limited(call[c].held, c, "recording", call[c].expires)'
               /\ Limited(call[c].held, c, "transcript", call[c].created + policy.transcript)'
    <3> DEFINE a == call[c].expires
               b == call[c].created + policy.transcript
    <3>1. c \in Committed /\ call[c] \in Call
        BY <1>1, <2>2 DEF Committed, TypeOK
    <3>2. /\ call'[c].expires = call[c].expires /\ call'[c].created = call[c].created
          /\ "recording" \in call'[c].held =>
                "recording" \in call[c].held /\ c \notin round.recordings
          /\ "transcript" \in call'[c].held =>
                "transcript" \in call[c].held /\ c \notin round.transcripts
      <4>1. CASE c \in Locked
        <5>1. call'[c] = [call[c] EXCEPT !.held = @ \ Cleared(c)]
            BY <1>1, <2>2, <3>1, <4>1
        <5>2. /\ c \in round.recordings => "recording" \in Cleared(c)
              /\ c \in round.transcripts => "transcript" \in Cleared(c)
            BY DEF Cleared
        <5> QED
            BY <3>1, <5>1, <5>2 DEF Call
      <4>2. CASE c \notin Locked
        BY <1>1, <2>2, <3>1, <4>2 DEF Locked
      <4> QED
        BY <4>1, <4>2
    <3>3. a \in Nat /\ b \in Nat /\ clock \in Nat /\ since[c] \in Nat /\ Interval \in Nat
        BY <1>1, <3>1, Numbers
    <3>4. /\ Limited(call[c].held, c, "recording", a)
          /\ Limited(call[c].held, c, "transcript", b)
        BY <3>1 DEF Timely
    <3>5. round.open
        BY <1>8 DEF RoundEnds
    <3> HIDE DEF a, b
    <3>6. ASSUME NEW e \in Nat
          PROVE  clock <= Larger(e, since[c]) => clock + Interval <= Larger(e, since[c]) + Interval
        BY <3>3 DEF Larger
    <3>7. Limited(call[c].held, c, "recording", call[c].expires)'
        BY <2>1, <3>2, <3>3, <3>4, <3>5, <3>6 DEF Limited, a
    <3>8. Limited(call[c].held, c, "transcript", call[c].created + policy.transcript)'
        BY <2>1, <3>2, <3>3, <3>4, <3>5, <3>6 DEF Limited, b
    <3> QED
        BY <3>7, <3>8
  <2>4. clock \in Nat /\ Interval \in Nat
    BY Numbers
  <2> QED
    BY <2>1, <2>3, <2>4 DEF Timely
<1>9. ASSUME RoundFails \/ SetPolicy PROVE Timely'
  <2>1. UNCHANGED <<clock, call>> /\ (\A c \in Calls : since'[c] = clock)
    BY <1>9 DEF RoundFails, SetPolicy
  <2>2. clock <= due' /\ due' <= clock + Interval /\ (round'.open => clock = due')
    BY <1>9, Numbers DEF RoundFails, SetPolicy, NoRound, Timely
  <2>3. ASSUME NEW c \in Committed'
        PROVE  /\ Limited(call[c].held, c, "recording", call[c].expires)'
               /\ Limited(call[c].held, c, "transcript", call[c].created + policy.transcript)'
    <3> DEFINE a == call'[c].expires
               b == call'[c].created + policy'.transcript
    <3>1. a \in Nat /\ b \in Nat /\ clock \in Nat /\ Interval \in Nat /\ due' \in Nat
      <4>1. a \in Nat /\ b \in Nat
        BY <1>0, <2>3, Ages DEF TypeOK, Committed
      <4> QED
        BY <1>0, <4>1, Numbers DEF TypeOK
    <3>2. since'[c] = clock /\ clock' = clock
        BY <2>1 DEF Committed
    <3> HIDE DEF a, b
    <3>3. ASSUME NEW e \in Nat
          PROVE  /\ clock <= Larger(e, clock) /\ clock <= Larger(e, clock) + Interval
                 /\ due' <= Larger(e, clock) + Interval
        BY <2>2, <3>1 DEF Larger
    <3>4. /\ clock <= Larger(a, clock) /\ clock <= Larger(a, clock) + Interval
          /\ due' <= Larger(a, clock) + Interval
          /\ clock <= Larger(b, clock) /\ clock <= Larger(b, clock) + Interval
          /\ due' <= Larger(b, clock) + Interval
        BY <3>1, <3>3
    <3> QED
        BY <3>2, <3>4 DEF Limited, a, b
  <2> QED
    BY <2>1, <2>2, <2>3 DEF Timely
<1>10. ASSUME Tick PROVE Timely'
  <2>1. /\ UNCHANGED <<due, round, policy, call, since>> /\ clock' = clock + 1
        /\ clock # due /\ ~round.open
    BY <1>10 DEF Tick
  <2>2. clock + 1 <= due /\ due <= clock + 1 + Interval
    BY <2>1, Numbers DEF Timely
  <2>3. ASSUME NEW c \in Committed
        PROVE  /\ Limited(call[c].held, c, "recording", call[c].expires)'
               /\ Limited(call[c].held, c, "transcript", call[c].created + policy.transcript)'
    <3> DEFINE a == call[c].expires
               b == call[c].created + policy.transcript
    <3>1. /\ a \in Nat /\ b \in Nat /\ clock \in Nat /\ since[c] \in Nat
          /\ Interval \in Nat /\ due \in Nat
        BY <1>1, Numbers
    <3>2. /\ Limited(call[c].held, c, "recording", a)
          /\ Limited(call[c].held, c, "transcript", b)
        BY DEF Timely
    <3> HIDE DEF a, b
    <3>3. ASSUME NEW e \in Nat, due <= Larger(e, since[c]) + Interval
          PROVE  clock + 1 <= Larger(e, since[c]) + Interval
        BY <2>2, <3>1, <3>3 DEF Larger
    <3>4. Limited(call[c].held, c, "recording", a)'
        BY <2>1, <3>1, <3>2, <3>3 DEF Limited, a
    <3>5. Limited(call[c].held, c, "transcript", b)'
        BY <2>1, <3>1, <3>2, <3>3 DEF Limited, b
    <3> QED
        BY <3>4, <3>5 DEF a, b
  <2> QED
    BY <2>1, <2>2, <2>3 DEF Timely, Committed
<1>11. CASE \E r \in Requests, c \in Calls, k \in Kinds : Arrives(r, k, c)
    BY <1>3, <1>11 DEF Arrives
<1>12. CASE \E r \in Requests : RequestFails(r) \/ EraseLoads(r)
    BY <1>3, <1>12 DEF RequestFails, EraseLoads
<1>13. CASE UNCHANGED vars
    BY <1>3, <1>13 DEF vars
<1> QED
    BY <1>4, <1>5, <1>6, <1>7, <1>8, <1>9, <1>10, <1>11, <1>12, <1>13 DEF Next

\* For any periods and pause, no recording and no transcript outlives its
\* period by more than one pause of the loop, counted as MediaNotOverdue says
\* (sweep, _background_loop).
THEOREM MediaNeverOverdue == Spec => []MediaNotOverdue
<1>1. Timely => MediaNotOverdue
    BY DEF Timely, Limited, MediaNotOverdue
<1> QED
    BY <1>1, TimelyInit, TimelyStep, AlwaysTyped, PTL DEF Spec

-----------------------------------------------------------------------------
\* No handler has an erased call in hand, so none can write it, and a round
\* or another erasure only takes from it.
Gone ==
    \A c \in erased :
        /\ call[c] # NoCall /\ call[c].number = "[erased]" /\ call[c].held = {}
        /\ c \notin visit
        /\ \A r \in Requests : request[r] \in Handlers => request[r].call # c

\* Requests may end and rows stay as they are.
LEMMA StillGone ==
    ASSUME Gone, UNCHANGED <<call, visit>>, erased' \subseteq erased,
           \A r \in Requests : request'[r] \in Handlers =>
                request'[r] = request[r] \/ request'[r].call \notin erased'
    PROVE  Gone'
    BY DEF Gone

LEMMA GoneStep == Typed /\ Gone /\ [Next]_vars => Gone'
<1> SUFFICES ASSUME Typed, Gone, [Next]_vars PROVE Gone'
    OBVIOUS
<1> USE DEF Typed
<1>0. Idle \notin Handlers /\ Idle \notin Erasures /\ erased \subseteq Calls
    BY DEF Idle, Handlers, Erasures, Kinds, TypeOK
<1>1. ASSUME NEW r \in Requests, NEW k \in Kinds, NEW c \in Calls, Arrives(r, k, c)
      PROVE  Gone'
  <2>1. /\ request' = [request EXCEPT ![r] = Handler(k, c)]
        /\ erased' = erased \ {c} /\ UNCHANGED <<call, visit>>
    BY <1>1 DEF Arrives
  <2>2. Handler(k, c).call = c
    BY DEF Handler
  <2> QED
    BY <2>1, <2>2, StillGone DEF TypeOK
<1>2. ASSUME NEW r \in Requests, VoiceCommits(r) PROVE Gone'
  <2>1. request[r] \in Handlers /\ request[r].call \in Calls
    BY <1>2, WorkKinds DEF VoiceCommits, Kinds, Handlers
  <2>2. request[r].call \notin erased
    BY <2>1 DEF Gone
  <2>3. \A c \in Calls : c # request[r].call => call'[c] = call[c]
    BY <1>2 DEF VoiceCommits, TypeOK
  <2>4. UNCHANGED <<visit, erased>>
    BY <1>2 DEF VoiceCommits
  <2>5. \A q \in Requests : request'[q] = request[q] \/ request'[q] = Idle
    BY <1>2 DEF VoiceCommits, Close, TypeOK
  <2> QED
    BY <1>0, <2>2, <2>3, <2>4, <2>5 DEF Gone
<1>3. ASSUME NEW r \in Requests, Commits(r) PROVE Gone'
  <2>1. request[r] \in Handlers /\ request[r].call \in Calls
    BY <1>3, WorkKinds DEF Commits, Handlers
  <2>2. request[r].call \notin erased
    BY <2>1 DEF Gone
  <2>3. \A c \in Calls : c # request[r].call => call'[c] = call[c]
    BY <1>3 DEF Commits, TypeOK
  <2>4. UNCHANGED erased /\ visit' \subseteq visit \cup {request[r].call}
    BY <1>3 DEF Commits
  <2>5. \A q \in Requests : request'[q] = request[q] \/ request'[q] = Idle
    BY <1>3 DEF Commits, Close, TypeOK
  <2> QED
    BY <1>0, <2>2, <2>3, <2>4, <2>5 DEF Gone
<1>4. ASSUME NEW r \in Requests, EraseCommits(r) PROVE Gone'
  <2> DEFINE found == request[r].found
             calls == {f.call : f \in found}
  <2>1. request[r] \in Erasures
    BY <1>4, WorkKinds DEF EraseCommits
  <2>2. /\ \A f \in found : f.call \in Calls /\ call[f.call] # NoCall
        /\ \A f, g \in found : f.call = g.call => f = g
    BY <2>1 DEF Erasures, Found
  <2>3. /\ call' = [c \in Calls |-> IF c \in calls
                    THEN Stripped(call[c], (CHOOSE f \in found : f.call = c).held)
                    ELSE call[c]]
        /\ visit' = {}
        /\ erased' = erased \cup
                {f.call : f \in {g \in found : /\ call[g.call].held \subseteq g.held
                                               /\ ~InHand(g.call, r)}}
    BY <1>4 DEF EraseCommits
  <2>4. \A q \in Requests : request'[q] = request[q] \/ request'[q] = Idle
    BY <1>4 DEF EraseCommits, Close, TypeOK
  <2>5. request'[r] = Idle
    BY <1>4 DEF EraseCommits, Close, TypeOK
  <2>6. ASSUME NEW c \in Calls, NEW held, call[c] # NoCall
        PROVE  /\ Stripped(call[c], held) # NoCall
               /\ Stripped(call[c], held).number = "[erased]"
               /\ Stripped(call[c], held).held = call[c].held \ held
    <3>1. call[c] \in Call
        BY <2>6 DEF TypeOK
    <3> QED
        BY <3>1 DEF Stripped, Call, NoCall
  <2>7. ASSUME NEW g \in found, call[g.call].held \subseteq g.held, ~InHand(g.call, r)
        PROVE  /\ call'[g.call] # NoCall /\ call'[g.call].number = "[erased]"
               /\ call'[g.call].held = {}
               /\ \A q \in Requests : request'[q] \in Handlers => request'[q].call # g.call
    <3>1. (CHOOSE f \in found : f.call = g.call) = g
        BY <2>2
    <3>2. call'[g.call] = Stripped(call[g.call], g.held)
        BY <2>2, <2>3, <3>1
    <3>3. \A q \in Requests \ {r} : request[q] \in Handlers => request[q].call # g.call
        BY <2>7 DEF InHand, Handlers
    <3>4. /\ Stripped(call[g.call], g.held) # NoCall
          /\ Stripped(call[g.call], g.held).number = "[erased]"
          /\ Stripped(call[g.call], g.held).held = call[g.call].held \ g.held
        BY <2>2, <2>6
    <3>5. \A q \in Requests : request'[q] \in Handlers => request'[q].call # g.call
        BY <1>0, <2>4, <2>5, <3>3
    <3> QED
        BY <2>7, <3>2, <3>4, <3>5
  <2>8. ASSUME NEW c \in erased
        PROVE  /\ call'[c] # NoCall /\ call'[c].number = "[erased]" /\ call'[c].held = {}
               /\ \A q \in Requests : request'[q] \in Handlers => request'[q].call # c
    <3>1. /\ call[c] # NoCall /\ call[c].number = "[erased]" /\ call[c].held = {}
          /\ \A q \in Requests : request[q] \in Handlers => request[q].call # c
        BY DEF Gone
    <3>2. CASE c \in calls
      <4>1. call'[c] = Stripped(call[c], (CHOOSE f \in found : f.call = c).held)
        BY <1>0, <2>3, <3>2
      <4> DEFINE loaded == (CHOOSE f \in found : f.call = c).held
      <4>2. /\ Stripped(call[c], loaded) # NoCall
            /\ Stripped(call[c], loaded).number = "[erased]"
            /\ Stripped(call[c], loaded).held = call[c].held \ loaded
        BY <1>0, <2>6, <3>1
      <4>3. \A q \in Requests : request'[q] \in Handlers => request'[q].call # c
        BY <1>0, <2>4, <3>1
      <4> HIDE DEF loaded
      <4> QED
        BY <3>1, <4>1, <4>2, <4>3 DEF loaded
    <3>3. CASE c \notin calls
        BY <1>0, <2>3, <2>4, <3>1, <3>3
    <3> QED
        BY <3>2, <3>3
  <2>9. \A c \in erased' :
            \/ c \in erased
            \/ \E g \in found : /\ c = g.call /\ call[g.call].held \subseteq g.held
                                /\ ~InHand(g.call, r)
    BY <2>3
  <2>10. ASSUME NEW c \in erased'
         PROVE  /\ call'[c] # NoCall /\ call'[c].number = "[erased]" /\ call'[c].held = {}
                /\ \A q \in Requests : request'[q] \in Handlers => request'[q].call # c
    <3>1. CASE c \in erased
        BY <2>8, <3>1
    <3>2. CASE c \notin erased
      <4>1. PICK g \in found : /\ c = g.call /\ call[g.call].held \subseteq g.held
                               /\ ~InHand(g.call, r)
        BY <2>9, <3>2
      <4> QED
        BY <2>7, <4>1
    <3> QED
        BY <3>1, <3>2
  <2>11. visit' = {}
    BY <2>3
  <2> QED
    BY <2>10, <2>11 DEF Gone
<1>5. ASSUME RoundEnds PROVE Gone'
  <2>1. UNCHANGED <<visit, request, erased>>
    BY <1>5 DEF RoundEnds
  <2>2. call' = [c \in Calls |->
            IF c \in Locked THEN [call[c] EXCEPT !.held = @ \ Cleared(c)] ELSE call[c]]
    BY <1>5 DEF RoundEnds
  <2>3. ASSUME NEW c \in erased
        PROVE  call'[c] # NoCall /\ call'[c].number = "[erased]" /\ call'[c].held = {}
    <3>1. call[c] \in Call /\ call[c].number = "[erased]" /\ call[c].held = {}
        BY <1>0 DEF Gone, TypeOK
    <3>2. call'[c] = [call[c] EXCEPT !.held = @ \ Cleared(c)] \/ call'[c] = call[c]
        BY <1>0, <2>2
    <3> QED
        BY <3>1, <3>2 DEF Call, NoCall
  <2> QED
    BY <2>1, <2>3 DEF Gone
<1>6. CASE \E r \in Requests : RequestFails(r)
    BY <1>0, <1>6, StillGone DEF RequestFails, Close, TypeOK
<1>7. CASE \E r \in Requests : EraseLoads(r)
  <2>1. PICK r \in Requests : EraseLoads(r)
    BY <1>7
  <2>2. request' = [request EXCEPT ![r] = Erasure] /\ UNCHANGED <<call, visit, erased>>
    BY <2>1 DEF EraseLoads
  <2>3. Erasure \notin Handlers
    BY DEF Erasure, Handlers, Kinds
  <2> QED
    BY <2>2, <2>3, StillGone DEF TypeOK
<1>8. CASE RoundBegins \/ RoundFails \/ SetPolicy \/ Tick
    BY <1>8, StillGone DEF RoundBegins, RoundFails, SetPolicy, Tick
<1>9. CASE UNCHANGED vars
    BY <1>9, StillGone DEF vars
<1> QED
    BY <1>1, <1>2, <1>3, <1>4, <1>5, <1>6, <1>7, <1>8, <1>9 DEF Next

\* A call erased while no handler had it in hand, and for which none came
\* since, holds nothing of the caller and has no visit, whatever rounds and
\* other erasures, one that loaded the row earlier included, ran meanwhile
\* (erase_caller, sweep).
THEOREM ErasureKept == Spec => []ErasureHolds
<1>1. Init => Gone
    BY DEF Init, Gone
<1>2. Gone => ErasureHolds
    BY DEF Gone, ErasureHolds
<1> QED
    BY <1>1, <1>2, GoneStep, AlwaysTyped, PTL DEF Spec
=============================================================================
