------------------------ MODULE VoicePipelineProofs ------------------------
(* Proofs about VoicePipeline, for any number of turns.                    *)
EXTENDS VoicePipeline, TLAPS

\* What the two halves of FlagsSet ask of a task.
AsksHangup(t) == pc[t] = "done" /\ (reply[t] \in Closing \/ line[t] = "apology")
AsksTransfer(t) == pc[t] = "done" /\ reply[t] = "transfer" /\ line[t] = "reply"

\* What StreamsAwaited says of a task.
Awaited(t) ==
    /\ stream[t] = "ended" => pc[t] \in {"playing", "done"}
    /\ stream[t] = "stopped" => pc[t] \in {"playing", "cancelled"}

\* The types of what _cancel_playback and _stream share.
AudioOK ==
    /\ stream \in [Task -> {"none", "created", "playing", "dropped", "cancelled"}
                                \cup Finished]
    /\ playback \in Task \cup {None}
    /\ target \in [Task \cup {Loop} -> Task \cup {None}]
    /\ speaking \in BOOLEAN

\* A stream that is not under way.
AtRest(t) == stream[t] \in {"none"} \cup Finished

-----------------------------------------------------------------------------
\* Cancelling a playback leaves every other stream as it is, and the one it
\* cancels is under way until it has seen the cancellation.
LEMMA CancelAudio ==
    ASSUME AudioOK, NEW who \in Task \cup {Loop}, CancelPlayback(who)
    PROVE  /\ AudioOK'
           /\ speaking' => speaking
           /\ \A t \in Task : /\ AtRest(t) => stream'[t] = stream[t]
                              /\ Running(t) => Running(t)'
<1>1. CASE Cancellable
  <2>1. /\ playback \in Task
        /\ playback' = None
        /\ target' = [target EXCEPT ![who] = playback]
        /\ stream' = [stream EXCEPT ![playback] =
                         IF @ = "created" THEN "dropped" ELSE "cancelled"]
        /\ speaking' = speaking
    BY <1>1 DEF CancelPlayback, Cancellable, AudioOK
  <2>2. stream[playback] \in {"created", "playing"}
    BY <1>1 DEF Cancellable
  <2>3. AudioOK'
    BY <2>1 DEF AudioOK
  <2>4. ASSUME NEW t \in Task
        PROVE  /\ AtRest(t) => stream'[t] = stream[t]
               /\ Running(t) => Running(t)'
    BY <2>1, <2>2, <2>4 DEF AudioOK, AtRest, Running, Finished
  <2> QED
    BY <2>1, <2>3, <2>4
<1>2. CASE ~Cancellable
  BY <1>2 DEF CancelPlayback, AudioOK, AtRest, Running
<1> QED
  BY <1>1, <1>2

\* An interrupted playback is gone: nobody is speaking, no stream changes.
LEMMA GoneAudio ==
    ASSUME AudioOK, NEW who, PlaybackGone(who)
    PROVE  AudioOK' /\ speaking' = FALSE /\ stream' = stream
  BY DEF PlaybackGone, AudioOK

\* A step that keeps the streams under way and does not start to speak keeps
\* the caller heard.
LEMMA DeafKept ==
    ASSUME DeafOnlyWhilePlaying, speaking' => speaking,
           \A t \in Task : Running(t) => Running(t)'
    PROVE  DeafOnlyWhilePlaying'
  BY DEF DeafOnlyWhilePlaying

\* A task with a stream under way waits for it; a step that ends no stream but
\* those, and moves no task on, leaves it to the one that plays it.
LEMMA AwaitedKept ==
    ASSUME StreamOwned, StreamsAwaited, NEW t \in Task, pc'[t] = pc[t],
           AtRest(t) => stream'[t] = stream[t]
    PROVE  Awaited(t)'
  BY DEF StreamOwned, StreamsAwaited, Awaited, AtRest

\* A step after which the same tasks ask for the same keeps the flags exact.
LEMMA ExactKept ==
    ASSUME FlagsSet, UNCHANGED flags,
           \A t \in Task : /\ AsksHangup(t)' <=> AsksHangup(t)
                           /\ AsksTransfer(t)' <=> AsksTransfer(t)
    PROVE  FlagsSet'
  BY DEF FlagsSet, Closes, Transfers, flags, AsksHangup, AsksTransfer

-----------------------------------------------------------------------------
\* The initial state satisfies the invariant.
LEMMA InitInv == Init => IInv
  BY Distinct DEF Init, IInv, TypeOK, GreetingWaits, StreamOwned, Logged, AnswerInPlace, Task, Line,
                  DeafOnlyWhilePlaying, FlagsSet, Closes, Transfers, StreamsAwaited, Closing,
                  Ended, Finished

\* A task with no stream under way begins to say something.
LEMMA SayInv ==
    ASSUME IInv, NEW t \in Task, NEW what \in {"reply", "apology"},
           BeginSay(t, what), stream[t] \in {"none", "broken"},
           pc[t] \notin Ended \cup {"idle"},
           UNCHANGED <<control, flags, report>>,
           \/ UNCHANGED <<reply, transcript>>
           \/ /\ pc[t] = "dispatching"
              /\ \E asks \in {"goon"} \cup Closing : reply' = [reply EXCEPT ![t] = asks]
              /\ transcript' = transcript \cup {<<"Assistant", t>>}
    PROVE  IInv'
<1> USE DEF IInv
<1>1. /\ pc' = [pc EXCEPT ![t] = IF Cancellable THEN "cancelling" ELSE "synthesising"]
      /\ line' = [line EXCEPT ![t] = what]
  BY DEF BeginSay, Goto
<1>2. AudioOK /\ AtRest(t)
  BY DEF TypeOK, AudioOK, AtRest, Finished
<1>3. /\ AudioOK'
      /\ speaking' => speaking
      /\ \A u \in Task : /\ AtRest(u) => stream'[u] = stream[u]
                         /\ Running(u) => Running(u)'
  BY <1>2, CancelAudio DEF BeginSay
<1>4. TypeOK'
  <2>1. pc' \in [Task -> {"idle", "starting", "transcribing", "dispatching",
                          "cancelling", "synthesising", "playing"} \cup Ended]
    BY <1>1 DEF TypeOK
  <2>2. line' \in [Task -> {"reply", "apology"}]
    BY <1>1 DEF TypeOK
  <2>3. reply' \in [Task -> {None, "goon"} \cup Closing] /\ transcript' \in SUBSET Line
    BY DEF TypeOK, Line
  <2> QED
    BY <1>3, <2>1, <2>2, <2>3 DEF TypeOK, AudioOK, control, flags
<1>5. StreamOwned'
  BY <1>1, <1>2, <1>3 DEF StreamOwned, TypeOK, AtRest
<1>6. Logged'
  BY <1>1 DEF Logged, TypeOK
<1>7. AnswerInPlace'
  BY <1>1 DEF AnswerInPlace, TypeOK
<1>8. DeafOnlyWhilePlaying'
  BY <1>3, DeafKept
<1>9. GreetingWaits'
  BY <1>1 DEF GreetingWaits, TypeOK, control
<1>10. FlagsSet'
  <2>1. ASSUME NEW u \in Task
        PROVE  /\ AsksHangup(u)' <=> AsksHangup(u)
               /\ AsksTransfer(u)' <=> AsksTransfer(u)
    BY <1>1, <2>1 DEF AsksHangup, AsksTransfer, TypeOK, Ended
  <2> QED
    BY <2>1, ExactKept
<1>11. StreamsAwaited'
  <2>1. ASSUME NEW u \in Task, u # t PROVE Awaited(u)'
    BY <1>1, <1>3, <2>1, AwaitedKept DEF TypeOK
  <2>2. Awaited(t)'
    BY <1>2, <1>3 DEF Awaited
  <2> QED
    BY <2>1, <2>2 DEF StreamsAwaited, Awaited
<1> QED
  BY <1>4, <1>5, <1>6, <1>7, <1>8, <1>9, <1>10, <1>11

\* A task ends without having said its line: an empty transcription, a failed
\* request, a cancellation or an exception.
LEMMA EndInv ==
    ASSUME IInv, NEW t \in Task, NEW how \in Ended,
           Goto(t, how), AtRest(t), pc[t] \notin Ended \cup {"idle"},
           how = "done" => pc[t] \in {"transcribing", "dispatching"},
           stream[t] # "ended", stream[t] = "stopped" => how = "cancelled",
           UNCHANGED <<control, line, reply, audio, flags, log>>
    PROVE  IInv'
<1> USE DEF IInv
<1>1. pc' = [pc EXCEPT ![t] = how]
  BY DEF Goto
<1>2. TypeOK'
  BY <1>1 DEF TypeOK, control, audio, flags, log
<1>3. StreamOwned'
  BY <1>1 DEF StreamOwned, TypeOK, AtRest, audio
<1>4. Logged'
  BY <1>1 DEF Logged, TypeOK, Ended, log
<1>5. AnswerInPlace'
  BY <1>1 DEF AnswerInPlace, TypeOK, Ended
<1>6. DeafOnlyWhilePlaying'
  BY DEF DeafOnlyWhilePlaying, Running, audio
<1>7. FlagsSet'
  <2>1. ASSUME NEW u \in Task
        PROVE  /\ AsksHangup(u)' <=> AsksHangup(u)
               /\ AsksTransfer(u)' <=> AsksTransfer(u)
    <3>1. CASE u = t
      <4>1. how = "done" => reply[t] = None /\ line[t] = "reply"
        BY DEF AnswerInPlace
      <4> QED
        BY <1>1, <3>1, <4>1, Distinct DEF AsksHangup, AsksTransfer, TypeOK, Ended, Closing
    <3>2. CASE u # t
      BY <1>1, <2>1, <3>2 DEF AsksHangup, AsksTransfer, TypeOK
    <3> QED
      BY <3>1, <3>2
  <2> QED
    BY <2>1, ExactKept
<1>8. GreetingWaits'
  BY <1>1 DEF GreetingWaits, TypeOK, control
<1>9. StreamsAwaited'
  BY <1>1 DEF StreamsAwaited, TypeOK, audio
<1> QED
  BY <1>2, <1>3, <1>4, <1>5, <1>6, <1>7, <1>8, <1>9

\* The line of a task has been played to its end, or had no audio to play.
LEMMA ReturnInv ==
    ASSUME IInv, NEW t \in Task, SayReturns(t), AtRest(t), stream[t] # "stopped",
           pc[t] \in {"synthesising", "playing"},
           UNCHANGED <<control, line, reply, audio, log>>
    PROVE  IInv'
<1> USE DEF IInv
<1>1. /\ pc' = [pc EXCEPT ![t] = "done"]
      /\ transfer_to' = (transfer_to \/ (line[t] = "reply" /\ reply[t] = "transfer"))
      /\ should_hangup' = (should_hangup \/ line[t] = "apology" \/ reply[t] \in Closing)
  BY DEF SayReturns, Goto
<1>2. TypeOK'
  <2>1. pc' \in [Task -> {"idle", "starting", "transcribing", "dispatching",
                          "cancelling", "synthesising", "playing"} \cup Ended]
    BY <1>1 DEF TypeOK, Ended
  <2>2. should_hangup' \in BOOLEAN /\ transfer_to' \in BOOLEAN
    BY <1>1 DEF TypeOK
  <2> QED
    BY <2>1, <2>2 DEF TypeOK, control, audio, log
<1>3. StreamOwned'
  BY <1>1 DEF StreamOwned, TypeOK, AtRest, audio
<1>4. Logged'
  BY <1>1 DEF Logged, TypeOK, log
<1>5. AnswerInPlace'
  BY <1>1 DEF AnswerInPlace, TypeOK
<1>6. DeafOnlyWhilePlaying'
  BY DEF DeafOnlyWhilePlaying, Running, audio
<1>7. FlagsSet'
  <2>1. ASSUME NEW u \in Task, u # t
        PROVE  /\ AsksHangup(u)' <=> AsksHangup(u)
               /\ AsksTransfer(u)' <=> AsksTransfer(u)
    BY <1>1, <2>1 DEF AsksHangup, AsksTransfer, TypeOK
  <2>2. ~AsksHangup(t) /\ ~AsksTransfer(t)
    BY DEF AsksHangup, AsksTransfer
  <2>3. /\ AsksHangup(t)' <=> (line[t] = "apology" \/ reply[t] \in Closing)
        /\ AsksTransfer(t)' <=> (line[t] = "reply" /\ reply[t] = "transfer")
    BY <1>1 DEF AsksHangup, AsksTransfer, TypeOK
  <2>4. /\ should_hangup <=> \E u \in Task : AsksHangup(u)
        /\ transfer_to <=> \E u \in Task : AsksTransfer(u)
    BY DEF FlagsSet, Closes, Transfers, AsksHangup, AsksTransfer
  <2>5. should_hangup' <=> \E u \in Task : AsksHangup(u)'
    BY <1>1, <2>1, <2>2, <2>3, <2>4
  <2>6. transfer_to' <=> \E u \in Task : AsksTransfer(u)'
    BY <1>1, <2>1, <2>2, <2>3, <2>4
  <2> QED
    BY <2>5, <2>6 DEF FlagsSet, Closes, Transfers, AsksHangup, AsksTransfer
<1>8. GreetingWaits'
  BY <1>1 DEF GreetingWaits, TypeOK, control
<1>9. StreamsAwaited'
  BY <1>1 DEF StreamsAwaited, TypeOK, audio
<1> QED
  BY <1>2, <1>3, <1>4, <1>5, <1>6, <1>7, <1>8, <1>9

\* A step of the loop, of a stream or of the line: no task moves and no line
\* is logged, and nobody starts to speak unless a stream does.
LEMMA AudioInv ==
    ASSUME IInv, UNCHANGED <<pc, line, reply, flags, transcript>>,
           AudioOK',
           loop' \in {"receiving", "interrupting", "clearing", "closing",
                      "reporting", "stopping", "closed"} \cup {loop},
           up' \in BOOLEAN,
           report' \in {report, transcript},
           DeafOnlyWhilePlaying',
           \A t \in Task : AtRest(t) => stream'[t] = stream[t]
    PROVE  IInv'
<1> USE DEF IInv
<1>1. TypeOK'
  BY DEF TypeOK, AudioOK, flags
<1>2. StreamOwned' /\ GreetingWaits'
  BY DEF StreamOwned, GreetingWaits, AtRest
<1>3. Logged' /\ AnswerInPlace'
  BY DEF Logged, AnswerInPlace
<1>4. FlagsSet'
  BY DEF FlagsSet, Closes, Transfers, flags
<1>5. StreamsAwaited'
  <2>1. \A t \in Task : Awaited(t)'
    BY AwaitedKept
  <2> QED
    BY <2>1 DEF StreamsAwaited, Awaited
<1> QED
  BY <1>1, <1>2, <1>3, <1>4, <1>5

\* Every step of a task.
LEMMA TaskInv == ASSUME IInv, NEW t \in Task, TaskStep(t) PROVE IInv'
<1>1. pc[t] # "playing" => AtRest(t)
  BY DEF IInv, StreamOwned, AtRest
<1>2. TypeOK
  BY DEF IInv
<1>3. pc[t] \notin {"playing"} \cup Ended => stream[t] \in {"none", "broken"}
  BY DEF IInv, StreamOwned, StreamsAwaited, Ended, Finished
<1>4. CASE Transcribe(t)
  <2>1. CASE /\ transcript' = transcript \cup {<<"Caller", t>>}
             /\ Goto(t, "dispatching")
             /\ UNCHANGED <<line, audio>>
    <3>1. /\ pc[t] = "transcribing"
          /\ pc' = [pc EXCEPT ![t] = "dispatching"]
          /\ UNCHANGED <<control, line, reply, audio, flags, report>>
      BY <1>4, <2>1 DEF Transcribe, Goto
    <3>2. TypeOK'
      BY <1>2, <2>1, <3>1 DEF TypeOK, Line, control, audio, flags
    <3>3. StreamOwned'
      BY <1>1, <1>2, <3>1 DEF IInv, StreamOwned, TypeOK, AtRest, audio
    <3>4. Logged'
      BY <1>2, <2>1, <3>1 DEF IInv, Logged, TypeOK
    <3>5. AnswerInPlace'
      BY <1>2, <3>1 DEF IInv, AnswerInPlace, TypeOK
    <3>6. DeafOnlyWhilePlaying'
      BY <3>1 DEF IInv, DeafOnlyWhilePlaying, Running, audio
    <3>7. FlagsSet'
      <4>1. ASSUME NEW u \in Task
            PROVE  /\ AsksHangup(u)' <=> AsksHangup(u)
                   /\ AsksTransfer(u)' <=> AsksTransfer(u)
        BY <1>2, <3>1, <4>1 DEF AsksHangup, AsksTransfer, TypeOK
      <4> QED
        BY <3>1, <4>1, ExactKept DEF IInv
    <3>8. GreetingWaits'
      BY <1>2, <3>1 DEF IInv, GreetingWaits, TypeOK, control
    <3>9. StreamsAwaited'
      BY <1>2, <1>3, <3>1 DEF IInv, StreamsAwaited, TypeOK, Ended, audio
    <3> QED
      BY <3>2, <3>3, <3>4, <3>5, <3>6, <3>7, <3>8, <3>9 DEF IInv
  <2>2. CASE Goto(t, "done") /\ UNCHANGED <<line, audio, transcript>>
    BY <1>1, <1>3, <1>4, <2>2, EndInv DEF Transcribe, Ended, log
  <2>3. CASE Raise(t) /\ UNCHANGED transcript
    <3>1. CASE BeginSay(t, "apology")
      BY <1>1, <1>3, <1>4, <2>3, <3>1, SayInv DEF Transcribe, Ended
    <3>2. CASE Goto(t, "failed") /\ UNCHANGED <<line, audio>>
      BY <1>1, <1>3, <1>4, <2>3, <3>2, EndInv DEF Transcribe, Ended, log
    <3> QED
      BY <2>3, <3>1, <3>2 DEF Raise
  <2> QED
    BY <1>4, <2>1, <2>2, <2>3 DEF Transcribe
<1>5. CASE Dispatch(t)
  <2>1. CASE Answered(t)
    BY <1>1, <1>3, <1>5, <2>1, SayInv DEF Dispatch, Answered, Ended
  <2>2. CASE Goto(t, "done") /\ UNCHANGED <<line, reply, audio, transcript>>
    BY <1>1, <1>3, <1>5, <2>2, EndInv DEF Dispatch, Ended, log
  <2>3. CASE Raise(t) /\ UNCHANGED <<reply, transcript>>
    <3>1. CASE BeginSay(t, "apology")
      BY <1>1, <1>3, <1>5, <2>3, <3>1, SayInv DEF Dispatch, Ended
    <3>2. CASE Goto(t, "failed") /\ UNCHANGED <<line, audio>>
      BY <1>1, <1>3, <1>5, <2>3, <3>2, EndInv DEF Dispatch, Ended, log
    <3> QED
      BY <2>3, <3>1, <3>2 DEF Raise
  <2> QED
    BY <1>5, <2>1, <2>2, <2>3 DEF Dispatch
<1>6. CASE t = Greeting /\ Greet
  BY <1>1, <1>3, <1>6, SayInv DEF Greet, Ended, log
<1>7. CASE Silenced(t)
  <2>1. /\ pc[t] = "cancelling" /\ PlaybackGone(t)
        /\ pc' = [pc EXCEPT ![t] = "synthesising"]
        /\ UNCHANGED <<control, line, reply, flags, log>>
    BY <1>7 DEF Silenced, Goto
  <2>2. AudioOK' /\ speaking' = FALSE /\ stream' = stream
    BY <1>2, <2>1, GoneAudio DEF TypeOK, AudioOK
  <2>3. TypeOK'
    <3>1. pc' \in [Task -> {"idle", "starting", "transcribing", "dispatching",
                            "cancelling", "synthesising", "playing"} \cup Ended]
      BY <1>2, <2>1 DEF TypeOK
    <3> QED
      BY <1>2, <2>1, <2>2, <3>1 DEF TypeOK, AudioOK, control, flags, log
  <2>4. StreamOwned'
    BY <1>1, <1>2, <2>1, <2>2 DEF IInv, StreamOwned, TypeOK, AtRest
  <2>5. Logged' /\ AnswerInPlace'
    BY <1>2, <2>1 DEF IInv, Logged, AnswerInPlace, TypeOK, log
  <2>6. DeafOnlyWhilePlaying'
    BY <2>2 DEF DeafOnlyWhilePlaying
  <2>7. FlagsSet'
    <3>1. ASSUME NEW u \in Task
          PROVE  /\ AsksHangup(u)' <=> AsksHangup(u)
                 /\ AsksTransfer(u)' <=> AsksTransfer(u)
      BY <1>2, <2>1, <3>1 DEF AsksHangup, AsksTransfer, TypeOK
    <3> QED
      BY <2>1, <3>1, ExactKept DEF IInv
  <2>8. GreetingWaits'
    BY <1>2, <2>1 DEF IInv, GreetingWaits, TypeOK, control
  <2>9. StreamsAwaited'
    BY <1>2, <1>3, <2>1, <2>2 DEF IInv, StreamsAwaited, TypeOK, Ended
  <2> QED
    BY <2>3, <2>4, <2>5, <2>6, <2>7, <2>8, <2>9 DEF IInv
<1>8. CASE Synthesise(t)
  <2>1. CASE /\ stream' = [stream EXCEPT ![t] = "created"]
             /\ playback' = t
             /\ Goto(t, "playing")
             /\ UNCHANGED <<line, target, speaking, flags>>
    <3>1. /\ pc[t] = "synthesising"
          /\ pc' = [pc EXCEPT ![t] = "playing"]
          /\ UNCHANGED <<control, reply, log>>
      BY <1>8, <2>1 DEF Synthesise, Goto
    <3>2. TypeOK'
      <4>1. pc' \in [Task -> {"idle", "starting", "transcribing", "dispatching",
                              "cancelling", "synthesising", "playing"} \cup Ended]
        BY <1>2, <3>1 DEF TypeOK
      <4>2. stream' \in [Task -> {"none", "created", "playing", "dropped", "cancelled"}
                                      \cup Finished]
        BY <1>2, <2>1 DEF TypeOK
      <4> QED
        BY <1>2, <2>1, <3>1, <4>1, <4>2 DEF TypeOK, control, flags, log
    <3>3. StreamOwned'
      BY <1>2, <2>1, <3>1 DEF IInv, StreamOwned, TypeOK
    <3>4. Logged' /\ AnswerInPlace'
      BY <1>2, <2>1, <3>1 DEF IInv, Logged, AnswerInPlace, TypeOK, log
    <3>5. \A u \in Task : Running(u) => Running(u)'
      <4>1. ~Running(t)
        BY <1>1, <3>1 DEF AtRest, Running, Finished
      <4> QED
        BY <1>2, <2>1, <4>1 DEF Running, TypeOK
    <3>6. DeafOnlyWhilePlaying'
      BY <2>1, <3>5, DeafKept DEF IInv
    <3>7. FlagsSet'
      <4>1. ASSUME NEW u \in Task
            PROVE  /\ AsksHangup(u)' <=> AsksHangup(u)
                   /\ AsksTransfer(u)' <=> AsksTransfer(u)
        BY <1>2, <2>1, <3>1, <4>1 DEF AsksHangup, AsksTransfer, TypeOK
      <4> QED
        BY <2>1, <4>1, ExactKept DEF IInv
    <3>8. GreetingWaits'
      BY <1>2, <3>1 DEF IInv, GreetingWaits, TypeOK, control
    <3>9. StreamsAwaited'
      BY <1>2, <2>1, <3>1 DEF IInv, StreamsAwaited, TypeOK
    <3> QED
      BY <3>2, <3>3, <3>4, <3>6, <3>7, <3>8, <3>9 DEF IInv
  <2>2. CASE SayReturns(t) /\ UNCHANGED <<line, audio>>
    BY <1>1, <1>3, <1>8, <2>2, ReturnInv DEF Synthesise, Ended
  <2>3. CASE Raise(t) /\ UNCHANGED flags
    <3>1. CASE BeginSay(t, "apology")
      BY <1>1, <1>3, <1>8, <2>3, <3>1, SayInv DEF Synthesise, Ended, log
    <3>2. CASE Goto(t, "failed") /\ UNCHANGED <<line, audio>>
      BY <1>1, <1>3, <1>8, <2>3, <3>2, EndInv DEF Synthesise, Ended
    <3> QED
      BY <2>3, <3>1, <3>2 DEF Raise
  <2> QED
    BY <1>8, <2>1, <2>2, <2>3 DEF Synthesise
<1>9. CASE Played(t)
  <2>1. stream[t] \in Finished => AtRest(t)
    BY DEF AtRest
  <2>2. CASE stream[t] = "ended" /\ SayReturns(t) /\ UNCHANGED <<line, audio>>
    BY <1>9, <2>1, <2>2, ReturnInv DEF Played, Finished
  <2>3. CASE stream[t] = "stopped" /\ Goto(t, "cancelled") /\ UNCHANGED <<line, audio, flags>>
    BY <1>9, <2>1, <2>3, EndInv DEF Played, Ended, Finished
  <2>4. CASE stream[t] = "broken" /\ Raise(t) /\ UNCHANGED flags
    <3>1. CASE BeginSay(t, "apology")
      BY <1>9, <2>1, <2>4, <3>1, SayInv DEF Played, Ended, Finished, log
    <3>2. CASE Goto(t, "failed") /\ UNCHANGED <<line, audio>>
      BY <1>9, <2>1, <2>4, <3>2, EndInv DEF Played, Ended, Finished
    <3> QED
      BY <2>4, <3>1, <3>2 DEF Raise
  <2> QED
    BY <1>9, <2>2, <2>3, <2>4 DEF Played
<1> QED
  BY <1>4, <1>5, <1>6, <1>7, <1>8, <1>9 DEF TaskStep

\* Every step of a stream.
LEMMA StreamInv == ASSUME IInv, NEW t \in Task, StreamStep(t) PROVE IInv'
<1>1. TypeOK /\ AudioOK
  BY DEF IInv, TypeOK, AudioOK
<1>2. UNCHANGED <<control, pc, line, reply, playback, target, flags, log>>
  BY DEF StreamStep
<1>3. ASSUME NEW how \in {"playing"} \cup Finished,
             stream' = [stream EXCEPT ![t] = how], ~AtRest(t),
             speaking' \in BOOLEAN, DeafOnlyWhilePlaying'
      PROVE  IInv'
  <2>1. AudioOK'
    BY <1>1, <1>2, <1>3 DEF AudioOK
  <2>2. \A u \in Task : AtRest(u) => stream'[u] = stream[u]
    BY <1>1, <1>3 DEF AtRest, AudioOK
  <2> QED
    BY <1>1, <1>2, <1>3, <2>1, <2>2, AudioInv DEF control, log, TypeOK
<1>4. CASE StreamStarts(t)
  <2>1. /\ stream[t] = "created" /\ speaking' = TRUE
        /\ stream' = [stream EXCEPT ![t] = "playing"]
    BY <1>4 DEF StreamStarts
  <2>2. DeafOnlyWhilePlaying'
    BY <1>1, <2>1 DEF DeafOnlyWhilePlaying, Running, TypeOK
  <2> QED
    BY <1>3, <2>1, <2>2 DEF AtRest, Finished
<1>5. CASE \E how \in Finished :
             stream[t] \in {"playing", "cancelled"} /\ StreamEnds(t, how)
  <2>1. PICK how \in Finished :
            stream[t] \in {"playing", "cancelled"} /\ StreamEnds(t, how)
    BY <1>5
  <2>2. DeafOnlyWhilePlaying'
    BY <2>1 DEF StreamEnds, DeafOnlyWhilePlaying
  <2> QED
    BY <1>3, <2>1, <2>2 DEF StreamEnds, AtRest, Finished
<1>6. CASE /\ stream[t] = "dropped"
           /\ stream' = [stream EXCEPT ![t] = "stopped"]
           /\ UNCHANGED speaking
  <2>1. \A u \in Task : Running(u) => Running(u)'
    BY <1>1, <1>6 DEF Running, TypeOK
  <2>2. DeafOnlyWhilePlaying'
    BY <1>6, <2>1, DeafKept DEF IInv
  <2> QED
    BY <1>1, <1>3, <1>6, <2>2 DEF AtRest, Finished, TypeOK
<1> QED
  BY <1>4, <1>5, <1>6 DEF StreamStep, Finished

\* A task that has said nothing yet comes to life.
LEMMA SpawnInv ==
    ASSUME IInv, NEW t \in Task, pc[t] = "idle",
           NEW place \in {"starting", "transcribing"}, Goto(t, place),
           loop' \in {"receiving", "closing"},
           transcript \subseteq transcript', transcript' \in SUBSET Line,
           UNCHANGED <<up, line, reply, audio, flags, report>>
    PROVE  IInv'
<1> USE DEF IInv
<1>1. pc' = [pc EXCEPT ![t] = place]
  BY DEF Goto
<1>2. TypeOK'
  <2>1. pc' \in [Task -> {"idle", "starting", "transcribing", "dispatching",
                          "cancelling", "synthesising", "playing"} \cup Ended]
    BY <1>1 DEF TypeOK
  <2> QED
    BY <2>1 DEF TypeOK, audio, flags
<1>3. StreamOwned' /\ GreetingWaits'
  BY <1>1 DEF StreamOwned, GreetingWaits, TypeOK, audio
<1>4. Logged' /\ AnswerInPlace'
  BY <1>1 DEF Logged, AnswerInPlace, TypeOK
<1>5. DeafOnlyWhilePlaying'
  BY DEF DeafOnlyWhilePlaying, Running, audio
<1>6. FlagsSet'
  <2>1. ASSUME NEW u \in Task
        PROVE  /\ AsksHangup(u)' <=> AsksHangup(u)
               /\ AsksTransfer(u)' <=> AsksTransfer(u)
    BY <1>1, <2>1 DEF AsksHangup, AsksTransfer, TypeOK
  <2> QED
    BY <2>1, ExactKept
<1>7. StreamsAwaited'
  BY <1>1 DEF StreamsAwaited, TypeOK, audio
<1> QED
  BY <1>2, <1>3, <1>4, <1>5, <1>6, <1>7

\* Every step of the loop and of the line.
LEMMA LoopInv ==
    ASSUME IInv, Start \/ Frame \/ Stop \/ LoopStep \/ Disconnect
    PROVE  IInv'
<1>1. TypeOK /\ AudioOK
  BY DEF IInv, TypeOK, AudioOK
<1>2. ASSUME UNCHANGED <<pc, line, reply, flags, transcript>>,
             loop' \in {"receiving", "interrupting", "clearing", "closing",
                        "reporting", "stopping", "closed"} \cup {loop},
             up' \in BOOLEAN, report' \in {report, transcript},
             \/ CancelPlayback(Loop) \/ PlaybackGone(Loop) \/ UNCHANGED audio
      PROVE  IInv'
  <2>1. /\ AudioOK' /\ DeafOnlyWhilePlaying'
        /\ \A t \in Task : AtRest(t) => stream'[t] = stream[t]
    <3>1. CASE CancelPlayback(Loop)
      <4>1. /\ AudioOK'
            /\ speaking' => speaking
            /\ \A t \in Task : /\ AtRest(t) => stream'[t] = stream[t]
                               /\ Running(t) => Running(t)'
        BY <1>1, <3>1, CancelAudio
      <4> QED
        BY <4>1, DeafKept DEF IInv, AtRest
    <3>2. CASE PlaybackGone(Loop)
      BY <1>1, <3>2, GoneAudio DEF DeafOnlyWhilePlaying, AtRest
    <3>3. CASE UNCHANGED audio
      BY <1>1, <3>3 DEF IInv, audio, AudioOK, DeafOnlyWhilePlaying, Running, AtRest
    <3> QED
      BY <1>2, <3>1, <3>2, <3>3
  <2> QED
    BY <1>1, <1>2, <2>1, AudioInv DEF TypeOK
<1>3. ASSUME Finish PROVE IInv'
  BY <1>1, <1>2, <1>3 DEF Finish, TypeOK
<1>4. CASE Start
  <2>1. CASE UNCHANGED <<pc, transcript>>
    BY <1>1, <1>2, <1>4, <2>1 DEF Start, TypeOK
  <2>2. CASE /\ Goto(Greeting, "starting")
             /\ transcript' = transcript \cup {<<"Assistant", Greeting>>}
    <3>1. pc[Greeting] = "idle"
      BY <1>4 DEF Start, IInv, GreetingWaits
    <3>2. transcript' \in SUBSET Line
      BY <1>1, <2>2 DEF TypeOK, Line, Task
    <3> QED
      BY <1>4, <2>2, <3>1, <3>2, SpawnInv DEF Start, Task
  <2> QED
    BY <1>4, <2>1, <2>2 DEF Start
<1>5. CASE Frame
  <2>1. CASE Unremarkable
    BY <1>1, <1>2, <1>5, <2>1 DEF Frame, Unremarkable, AfterFrame, TypeOK, log
  <2>2. CASE BargeIn
    BY <1>1, <1>2, <1>5, <2>2 DEF Frame, BargeIn, TypeOK, log
  <2>3. ASSUME NEW t \in Turn, Utter(t) PROVE IInv'
    BY <1>1, <1>5, <2>3, SpawnInv DEF Frame, Utter, AfterFrame, Task, TypeOK, log
  <2> QED
    BY <1>5, <2>1, <2>2, <2>3 DEF Frame
<1>6. CASE Stop
  BY <1>3, <1>6 DEF Stop
<1>7. CASE Interrupted
  BY <1>1, <1>2, <1>7 DEF Interrupted, TypeOK, log
<1>8. CASE Clear
  BY <1>1, <1>2, <1>3, <1>8 DEF Clear, AfterFrame, TypeOK, log
<1>9. CASE HangUp
  BY <1>3, <1>9 DEF HangUp
<1>10. CASE Reported
  BY <1>1, <1>2, <1>10 DEF Reported, TypeOK, log
<1>11. CASE Closed
  BY <1>1, <1>2, <1>11 DEF Closed, TypeOK, log
<1>12. CASE Disconnect
  BY <1>1, <1>2, <1>12 DEF Disconnect, TypeOK, log
<1> QED
  BY <1>4, <1>5, <1>6, <1>7, <1>8, <1>9, <1>10, <1>11, <1>12 DEF LoopStep

\* The invariant is inductive.
LEMMA StepInv == IInv /\ [Next]_vars => IInv'
<1> SUFFICES ASSUME IInv, [Next]_vars PROVE IInv'
  OBVIOUS
<1>1. CASE UNCHANGED vars
  <2>1. UNCHANGED <<control, pc, line, reply, audio, flags, log>>
    BY <1>1 DEF vars
  <2> QED
    BY <2>1 DEF IInv, TypeOK, GreetingWaits, StreamOwned, Logged, AnswerInPlace,
                DeafOnlyWhilePlaying, FlagsSet, Closes, Transfers, StreamsAwaited, Running,
                control, audio, flags, log
<1> QED
  BY <1>1, TaskInv, StreamInv, LoopInv DEF Next

\* Every task owns at most the stream it waits for, and what is logged, asked
\* and spoken follows from where the tasks are.
THEOREM Inductive == Spec => []IInv
  BY InitInv, StepInv, PTL DEF Spec

-----------------------------------------------------------------------------
(* The properties.                                                         *)

\* For any number of turns, and any overlap of them, the pipeline ignores the
\* caller only while something is played.
THEOREM NeverDeaf == Spec => []DeafOnlyWhilePlaying
<1>1. IInv => DeafOnlyWhilePlaying
  BY DEF IInv
<1> QED
  BY <1>1, Inductive, PTL

\* For any number of turns, a closing line that was played to its end drops or
\* transfers the call, and one that was interrupted never does.
THEOREM HangupsExact == Spec => []HangupExact
<1>1. IInv => HangupExact
  <2> SUFFICES ASSUME IInv PROVE HangupExact
    OBVIOUS
  <2>1. \A t \in Task : PlayedOut(t) => pc[t] = "done"
    BY DEF IInv, StreamsAwaited, PlayedOut
  <2>2. \A t \in Task : pc[t] = "done" => Uninterrupted(t)
    BY DEF IInv, StreamsAwaited, Uninterrupted
  <2> QED
    BY <2>1, <2>2 DEF IInv, FlagsSet, HangupExact
<1> QED
  BY <1>1, Inductive, PTL

\* No task but finish itself writes the report.
LEMMA ReportStep ==
    ASSUME Next, report' # report
    PROVE  Finish
<1>1. \A t \in Task : ~TaskStep(t) /\ ~StreamStep(t)
  BY DEF TaskStep, StreamStep, Transcribe, Dispatch, Greet, Silenced, Synthesise,
         Played, log
<1>2. ~Start /\ ~Frame /\ ~Disconnect /\ ~Interrupted /\ ~Reported /\ ~Closed
  BY DEF Start, Frame, Disconnect, Interrupted, Reported, Closed, log
<1> QED
  BY <1>1, <1>2 DEF Next, Stop, LoopStep, Clear, HangUp, log

\* Whatever was answered before the end is in the report, for any number of
\* turns still under way.
THEOREM ReportComplete == Spec => ReportHoldsAnswered
<1>1. IInv /\ [Next]_vars =>
        [ report' # report =>
            \A t \in Turn : reply[t] # None
                => {<<"Caller", t>>, <<"Assistant", t>>} \subseteq report' ]_vars
  <2> SUFFICES ASSUME IInv, Next, report' # report, NEW t \in Turn, reply[t] # None
               PROVE  {<<"Caller", t>>, <<"Assistant", t>>} \subseteq report'
    OBVIOUS
  <2>1. report' = transcript
    BY ReportStep DEF Finish
  <2> QED
    BY <2>1 DEF IInv, Logged, Task
<1> QED
  BY <1>1, Inductive, PTL DEF Spec, ReportHoldsAnswered
=============================================================================
