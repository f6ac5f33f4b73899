--------------------------- MODULE VoicePipeline ---------------------------
(***************************************************************************)
(* The tasks of one live call in the media server: the websocket loop      *)
(* (pipecat/agent/main.py: media_stream) and the turns, playbacks and      *)
(* barge-ins of its CallPipeline (pipecat/agent/pipeline.py).              *)
(*                                                                         *)
(* They share one event loop: a step is what a task does between two       *)
(* awaits, and the steps of different tasks interleave.  The greeting and  *)
(* every turn are tasks that say something; each say() plays it in a       *)
(* stream, a task of its own that another one may cancel.  Where an        *)
(* utterance ends is the matter of module Endpointer; here any frame that  *)
(* is listened to may be the one that completes it, and any frame during   *)
(* playback the one that makes a barge-in.                                 *)
(***************************************************************************)
EXTENDS Naturals, FiniteSets

CONSTANTS
    Turn,              \* utterances that may become turns
    Greeting,          \* the task that says the greeting
    Loop,              \* the websocket loop
    None

Task == Turn \cup {Greeting}

\* What an answer may ask for besides going on.
Closing == {"end", "transfer"}

ASSUME Distinct ==
    /\ Greeting \notin Turn
    /\ Loop \notin Task
    /\ None \notin Task \cup {Loop} \cup {"goon"} \cup Closing

VARIABLES
    loop,              \* where the websocket loop is
    up,                \* the caller is still connected
    pc,                \* where each task is
    line,              \* what a task says last: its reply, or the apology
    reply,             \* what the answer of /internal/turn asks for
    stream,            \* the playback each task has started
    playback,          \* _playback_task: whose stream it is
    target,            \* whose stream a task waits for after cancelling it
    speaking,
    should_hangup,
    transfer_to,       \* a number to transfer to was stored
    transcript,        \* the lines logged, as speaker and task
    report             \* the transcript that finish reported, or None

control == <<loop, up>>
flags == <<should_hangup, transfer_to>>
log == <<transcript, report>>
audio == <<stream, playback, target, speaking>>
vars == <<control, pc, line, reply, audio, flags, log>>

Ended == {"done", "cancelled", "failed"}     \* returned, CancelledError, raised
Finished == {"ended", "stopped", "broken"}   \* the same of a stream
Line == {"Caller", "Assistant"} \X Task

TypeOK ==
    /\ loop \in {"waiting", "receiving", "interrupting", "clearing", "closing",
                 "reporting", "stopping", "closed"}
    /\ up \in BOOLEAN
    /\ pc \in [Task -> {"idle", "starting", "transcribing", "dispatching",
                        "cancelling", "synthesising", "playing"} \cup Ended]
    /\ line \in [Task -> {"reply", "apology"}]
    /\ reply \in [Task -> {None, "goon"} \cup Closing]
    /\ stream \in [Task -> {"none", "created", "playing", "dropped", "cancelled"}
                                \cup Finished]
    /\ playback \in Task \cup {None}
    /\ target \in [Task \cup {Loop} -> Task \cup {None}]
    /\ speaking \in BOOLEAN
    /\ should_hangup \in BOOLEAN
    /\ transfer_to \in BOOLEAN
    /\ transcript \in SUBSET Line
    /\ report \in (SUBSET Line) \cup {None}

Init ==
    /\ loop = "waiting"
    /\ up = TRUE
    /\ pc = [t \in Task |-> "idle"]
    /\ line = [t \in Task |-> "reply"]
    /\ reply = [t \in Task |-> None]
    /\ stream = [t \in Task |-> "none"]
    /\ playback = None
    /\ target = [t \in Task \cup {Loop} |-> None]
    /\ speaking = FALSE
    /\ should_hangup = FALSE
    /\ transfer_to = FALSE
    /\ transcript = {}
    /\ report = None

Goto(t, place) == pc' = [pc EXCEPT ![t] = place]

-----------------------------------------------------------------------------
(* _cancel_playback: up to its await, and after it.                        *)

Cancellable == playback # None /\ stream[playback] \in {"created", "playing"}

\* A stream that has not run yet never will; one that is playing gets the
\* CancelledError at its next await.
CancelPlayback(who) ==
    /\ playback' = None
    /\ IF Cancellable
       THEN /\ target' = [target EXCEPT ![who] = playback]
            /\ stream' = [stream EXCEPT ![playback] =
                             IF @ = "created" THEN "dropped" ELSE "cancelled"]
            /\ UNCHANGED speaking
       ELSE speaking' = FALSE /\ UNCHANGED <<target, stream>>

\* Mutant of PlaybackGone: waits for the audio to have been played.
PlaybackPlayed(who) ==
    /\ stream[target[who]] = "ended"
    /\ speaking' = FALSE
    /\ UNCHANGED <<stream, playback, target>>

PlaybackGone(who) ==
    /\ stream[target[who]] \in Finished
    /\ speaking' = FALSE
    /\ UNCHANGED <<stream, playback, target>>

-----------------------------------------------------------------------------
(* _stream: a task for each playback.                                      *)

StreamStarts(t) ==
    /\ stream[t] = "created"
    /\ stream' = [stream EXCEPT ![t] = "playing"]
    /\ speaking' = TRUE

\* Mutant of StreamEnds: only a playback that runs to its end resets speaking.
StreamEndsKeeping(t, how) ==
    /\ stream' = [stream EXCEPT ![t] = how]
    /\ speaking' = IF how = "ended" THEN FALSE ELSE speaking

\* The finally clause.
StreamEnds(t, how) ==
    /\ stream' = [stream EXCEPT ![t] = how]
    /\ speaking' = FALSE

StreamStep(t) ==
    /\ \/ StreamStarts(t)
       \/ stream[t] = "playing" /\ StreamEnds(t, "ended")
       \/ stream[t] = "playing" /\ ~up /\ StreamEnds(t, "broken")
       \/ stream[t] = "cancelled" /\ StreamEnds(t, "stopped")
       \/ /\ stream[t] = "dropped"
          /\ stream' = [stream EXCEPT ![t] = "stopped"]
          /\ UNCHANGED speaking
    /\ UNCHANGED <<control, pc, line, reply, playback, target, flags, log>>

-----------------------------------------------------------------------------
(* say, and the turn or greeting around it.                                *)

BeginSay(t, what) ==
    /\ line' = [line EXCEPT ![t] = what]
    /\ CancelPlayback(t)
    /\ Goto(t, IF Cancellable THEN "cancelling" ELSE "synthesising")

\* What follows when say has returned.
SayReturns(t) ==
    /\ Goto(t, "done")
    /\ transfer_to' = (transfer_to \/ (line[t] = "reply" /\ reply[t] = "transfer"))
    /\ should_hangup' = (should_hangup \/ line[t] = "apology" \/ reply[t] \in Closing)

\* An exception in a turn is answered with the apology; one in the apology,
\* or in the greeting, ends the task.
Raise(t) ==
    IF t \in Turn /\ line[t] = "reply"
    THEN BeginSay(t, "apology")
    ELSE Goto(t, "failed") /\ UNCHANGED <<line, audio>>

\* _transcribe: text, none (also when httpx reports a failure), or another
\* exception.  Once the client is closed no request succeeds.
Transcribe(t) ==
    /\ pc[t] = "transcribing"
    /\ \/ /\ loop # "closed"
          /\ transcript' = transcript \cup {<<"Caller", t>>}
          /\ Goto(t, "dispatching")
          /\ UNCHANGED <<line, audio>>
       \/ Goto(t, "done") /\ UNCHANGED <<line, audio, transcript>>
       \/ Raise(t) /\ UNCHANGED transcript
    /\ UNCHANGED <<control, reply, flags, report>>

\* Mutant of Answered: the line is said before it is logged.
AnsweredUnlogged(t) ==
    /\ loop # "closed"
    /\ \E asks \in {"goon"} \cup Closing : reply' = [reply EXCEPT ![t] = asks]
    /\ BeginSay(t, "reply")
    /\ UNCHANGED transcript

\* The API answers: the line is logged, then said.
Answered(t) ==
    /\ loop # "closed"
    /\ \E asks \in {"goon"} \cup Closing : reply' = [reply EXCEPT ![t] = asks]
    /\ transcript' = transcript \cup {<<"Assistant", t>>}
    /\ BeginSay(t, "reply")

\* _dispatch_turn.
Dispatch(t) ==
    /\ pc[t] = "dispatching"
    /\ \/ Answered(t)
       \/ Goto(t, "done") /\ UNCHANGED <<line, reply, audio, transcript>>
       \/ Raise(t) /\ UNCHANGED <<reply, transcript>>
    /\ UNCHANGED <<control, flags, report>>

Greet ==
    /\ pc[Greeting] = "starting"
    /\ BeginSay(Greeting, "reply")
    /\ UNCHANGED <<control, reply, flags, log>>

\* say goes on when the playback it cancelled is gone.
Silenced(t) ==
    /\ pc[t] = "cancelling"
    /\ PlaybackGone(t)
    /\ Goto(t, "synthesising")
    /\ UNCHANGED <<control, line, reply, flags, log>>

\* /tts: a new playback, nothing to play, or an exception.
Synthesise(t) ==
    /\ pc[t] = "synthesising"
    /\ \/ /\ loop # "closed"
          /\ stream' = [stream EXCEPT ![t] = "created"]
          /\ playback' = t
          /\ Goto(t, "playing")
          /\ UNCHANGED <<line, target, speaking, flags>>
       \/ SayReturns(t) /\ UNCHANGED <<line, audio>>
       \/ Raise(t) /\ UNCHANGED flags
    /\ UNCHANGED <<control, reply, log>>

\* Mutant of Played: an interrupted playback counts as one that was played.
PlayedOrInterrupted(t) ==
    /\ pc[t] = "playing"
    /\ \/ stream[t] \in {"ended", "stopped"} /\ SayReturns(t) /\ UNCHANGED <<line, audio>>
       \/ stream[t] = "broken" /\ Raise(t) /\ UNCHANGED flags
    /\ UNCHANGED <<control, reply, log>>

\* The await of the playback: CancelledError is no Exception, so a turn whose
\* line was interrupted ends there.
Played(t) ==
    /\ pc[t] = "playing"
    /\ \/ stream[t] = "ended" /\ SayReturns(t) /\ UNCHANGED <<line, audio>>
       \/ stream[t] = "stopped" /\ Goto(t, "cancelled") /\ UNCHANGED <<line, audio, flags>>
       \/ stream[t] = "broken" /\ Raise(t) /\ UNCHANGED flags
    /\ UNCHANGED <<control, reply, log>>

TaskStep(t) ==
    \/ Transcribe(t) \/ Dispatch(t)
    \/ t = Greeting /\ Greet
    \/ Silenced(t) \/ Synthesise(t) \/ Played(t)

-----------------------------------------------------------------------------
(* media_stream: the websocket loop.                                       *)

\* The start event; without a greeting there is nothing to say.
Start ==
    /\ loop = "waiting"
    /\ loop' = "receiving"
    /\ \/ /\ Goto(Greeting, "starting")
          /\ transcript' = transcript \cup {<<"Assistant", Greeting>>}
       \/ UNCHANGED <<pc, transcript>>
    /\ UNCHANGED <<up, line, reply, audio, flags, report>>

\* Mutant of AfterFrame: should_hangup is not looked at.
AfterFrameReceiving == "receiving"

\* What the loop does after on_media.
AfterFrame == IF should_hangup THEN "closing" ELSE "receiving"

Unremarkable ==
    /\ loop' = AfterFrame
    /\ UNCHANGED <<pc, audio>>

BargeIn ==
    /\ speaking
    /\ CancelPlayback(Loop)
    /\ loop' = IF Cancellable THEN "interrupting" ELSE "clearing"
    /\ UNCHANGED pc

Utter(t) ==
    /\ ~speaking
    /\ pc[t] = "idle"
    /\ Goto(t, "transcribing")
    /\ loop' = AfterFrame
    /\ UNCHANGED audio

Frame ==
    /\ loop = "receiving"
    /\ Unremarkable \/ BargeIn \/ \E t \in Turn : Utter(t)
    /\ UNCHANGED <<up, line, reply, flags, log>>

Interrupted ==
    /\ loop = "interrupting"
    /\ PlaybackGone(Loop)
    /\ loop' = "clearing"
    /\ UNCHANGED <<up, pc, line, reply, flags, log>>

\* The first step of finish.
Finish ==
    /\ loop' = "reporting"
    /\ report' = transcript
    /\ UNCHANGED <<up, pc, line, reply, audio, flags, transcript>>

\* _clear_twilio_buffer: its send raises when the caller is gone.
Clear ==
    /\ loop = "clearing"
    /\ \/ loop' = AfterFrame /\ UNCHANGED <<up, pc, line, reply, audio, flags, log>>
       \/ ~up /\ Finish

\* The stop event, the disconnection or a frame that cannot be read.
Stop == loop \in {"waiting", "receiving"} /\ Finish

\* Half a second after should_hangup was seen.
HangUp == loop = "closing" /\ Finish

\* finish has been answered, or has failed; close begins.
Reported ==
    /\ loop = "reporting"
    /\ CancelPlayback(Loop)
    /\ loop' = IF Cancellable THEN "stopping" ELSE "closed"
    /\ up' = (up /\ Cancellable)
    /\ UNCHANGED <<pc, line, reply, flags, log>>

Closed ==
    /\ loop = "stopping"
    /\ PlaybackGone(Loop)
    /\ loop' = "closed"
    /\ up' = FALSE
    /\ UNCHANGED <<pc, line, reply, flags, log>>

LoopStep == Interrupted \/ Clear \/ HangUp \/ Reported \/ Closed

\* The caller hangs up.
Disconnect ==
    /\ up
    /\ up' = FALSE
    /\ UNCHANGED <<loop, pc, line, reply, audio, flags, log>>

Next ==
    \/ Start \/ Frame \/ Stop \/ LoopStep \/ Disconnect
    \/ \E t \in Task : TaskStep(t) \/ StreamStep(t)

Spec == Init /\ [][Next]_vars

\* Tasks are scheduled, every request has a timeout, frames come every 20 ms
\* while the caller is connected, and a disconnection reaches the loop.
Fairness ==
    /\ WF_vars(up /\ Frame) /\ WF_vars(LoopStep)
    /\ WF_vars(~up /\ Stop)
    /\ \A t \in Task : WF_vars(TaskStep(t)) /\ WF_vars(StreamStep(t))

FairSpec == Spec /\ Fairness

-----------------------------------------------------------------------------
Running(t) == stream[t] \in {"playing", "cancelled"}

\* Whatever overlaps, the caller is ignored only while something is played:
\* no order of playbacks, cancellations and failures leaves the pipeline deaf.
DeafOnlyWhilePlaying == speaking => \E t \in Task : Running(t)

\* The line with which a turn ends the call or transfers it, and the apology.
Closes(t) == reply[t] \in Closing \/ line[t] = "apology"
Transfers(t) == reply[t] = "transfer" /\ line[t] = "reply"

\* The line was played to its end and its task has gone on.
PlayedOut(t) == stream[t] = "ended" /\ pc[t] # "playing"

\* The line was played to its end, or was never voiced: /tts failed, or the
\* line broke.  An interrupted line is neither.
Uninterrupted(t) == pc[t] = "done" /\ stream[t] # "stopped"

\* A closing line that was played to its end drops the call, or transfers it,
\* whatever else was playing; one that the caller or another line interrupted
\* never does (_handle_utterance, say, _cancel_playback).
HangupExact ==
    /\ \A t \in Task : /\ PlayedOut(t) /\ Closes(t) => should_hangup
                       /\ PlayedOut(t) /\ Transfers(t) => transfer_to
    /\ should_hangup => \E t \in Task : Uninterrupted(t) /\ Closes(t)
    /\ transfer_to => \E t \in Task : Uninterrupted(t) /\ Transfers(t)

\* The transcript reported at the end holds both sides of every turn the API
\* had answered by then, however abruptly the call ended.
ReportHoldsAnswered ==
    [][ report' # report =>
          \A t \in Turn : reply[t] # None
              => {<<"Caller", t>>, <<"Assistant", t>>} \subseteq report' ]_vars

\* Every turn ends: no task waits forever for a playback it or another one
\* cancelled.
TurnsEnd == \A t \in Task : pc[t] # "idle" ~> pc[t] \in Ended

\* Once the line is to be dropped, or the caller is gone, the call is reported
\* and closed.
CallCloses == should_hangup \/ ~up ~> loop = "closed" /\ report # None

-----------------------------------------------------------------------------
(* Why the safety properties hold: the parts of an inductive invariant.    *)

\* Between two lines a task has no stream under way, so one that it starts
\* never replaces another of its own.
StreamOwned ==
    \A t \in Task : pc[t] # "playing" => stream[t] \in {"none"} \cup Finished

\* Both sides of a turn are logged by the time its reply is known.
Logged ==
    \A t \in Task :
        /\ pc[t] = "dispatching" => <<"Caller", t>> \in transcript
        /\ reply[t] # None => {<<"Caller", t>>, <<"Assistant", t>>} \subseteq transcript

\* Only a turn that was answered asks for anything, and a turn has an answer
\* only once it is past the request.
AnswerInPlace ==
    \A t \in Task :
        pc[t] \in {"idle", "starting", "transcribing", "dispatching"} =>
            reply[t] = None /\ line[t] = "reply"

\* The flags follow from the tasks whose say has returned.
FlagsSet ==
    /\ should_hangup <=> \E t \in Task : pc[t] = "done" /\ Closes(t)
    /\ transfer_to <=> \E t \in Task : pc[t] = "done" /\ Transfers(t)

\* Only the task that plays a stream learns how it ended.
StreamsAwaited ==
    \A t \in Task : /\ stream[t] = "ended" => pc[t] \in {"playing", "done"}
                    /\ stream[t] = "stopped" => pc[t] \in {"playing", "cancelled"}

\* The greeting waits for the start event.
GreetingWaits == loop = "waiting" => pc[Greeting] = "idle"

IInv ==
    /\ TypeOK
    /\ GreetingWaits
    /\ StreamOwned
    /\ Logged
    /\ AnswerInPlace
    /\ DeafOnlyWhilePlaying
    /\ FlagsSet
    /\ StreamsAwaited

-----------------------------------------------------------------------------
(* What the repository says of the program and the code does not do.       *)

\* main.py: "Let the closing line finish before dropping the line."  When /tts
\* fails, say() returns all the same and the call is dropped in silence.
ClosingLineFinishes ==
    should_hangup => \E t \in Task : Closes(t) /\ stream[t] = "ended"

\* pipeline.py: if the caller talks over us, stop and listen.
BargeInSilences ==
    [][ loop = "receiving" /\ loop' \in {"interrupting", "clearing"} =>
          \A t \in Task : stream[t] = "playing" => stream'[t] = "cancelled" ]_vars
=============================================================================
