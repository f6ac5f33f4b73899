----------------------------- MODULE Endpointer -----------------------------
(***************************************************************************)
(* How the media pipeline cuts the caller's audio into utterances          *)
(* (pipecat/agent/pipeline.py: Endpointer, and on_media up to the point    *)
(* where a turn is handed to a task of its own).                           *)
(*                                                                         *)
(* A 20 ms frame is reduced to whether its level is above the speech       *)
(* threshold, so an utterance is a sequence of booleans.  The frames that  *)
(* come while the assistant is speaking are not buffered; they only count  *)
(* towards a barge-in.                                                     *)
(*                                                                         *)
(* The names of the specification's formulas begin with E, so that a       *)
(* module can extend this one together with another.                       *)
(***************************************************************************)
EXTENDS Naturals, Sequences, FiniteSets

CONSTANTS
    SilenceFrames,     \* SILENCE_FRAMES_TO_ENDPOINT: quiet that ends a turn
    MinSpeech,         \* MIN_SPEECH_FRAMES: below it, a cough
    MaxFrames,         \* MAX_UTTERANCE_FRAMES: the hard cap
    BargeIn            \* BARGE_IN_FRAMES: speech that stops the playback

ASSUME Thresholds ==
    /\ SilenceFrames \in Nat \ {0}
    /\ MinSpeech \in Nat \ {0}
    /\ MaxFrames \in Nat \ {0}
    /\ BargeIn \in Nat \ {0}

VARIABLES
    buffer,            \* the frames kept since the caller started to speak
    speech_frames,
    silence_frames,
    triggered,
    speaking,          \* a playback is running
    barge_frames,
    sent               \* the utterance last handed over, <<>> before the first

counters == <<speech_frames, silence_frames, triggered>>
evars == <<buffer, counters, speaking, barge_frames, sent>>

\* The frames of an utterance that are speech.
SpeechIn(utterance) == {i \in DOMAIN utterance : utterance[i]}

\* The last n frames are quiet and the one before them is not.
EndsQuiet(utterance, n) ==
    /\ n < Len(utterance)
    /\ utterance[Len(utterance) - n]
    /\ \A i \in DOMAIN utterance : i > Len(utterance) - n => ~utterance[i]

TypeOK ==
    /\ buffer \in Seq(BOOLEAN)
    /\ speech_frames \in Nat
    /\ silence_frames \in Nat
    /\ triggered \in BOOLEAN
    /\ speaking \in BOOLEAN
    /\ barge_frames \in 0..(BargeIn - 1)
    /\ sent \in Seq(BOOLEAN)

EInit ==
    /\ buffer = <<>>
    /\ speech_frames = 0
    /\ silence_frames = 0
    /\ triggered = FALSE
    /\ speaking = FALSE
    /\ barge_frames = 0
    /\ sent = <<>>

-----------------------------------------------------------------------------
Reset ==
    /\ buffer' = <<>>
    /\ speech_frames' = 0
    /\ silence_frames' = 0
    /\ triggered' = FALSE

\* Mutant of Complete: no hard cap.
CompleteUncapped(length, spoken, quiet) ==
    spoken >= MinSpeech /\ quiet >= SilenceFrames

\* What push returns.
Complete(length, spoken, quiet) ==
    \/ spoken >= MinSpeech /\ quiet >= SilenceFrames
    \/ length >= MaxFrames

\* Mutant of Quiet: speech does not start the count again.
QuietAdds(isSpeech) ==
    IF isSpeech \/ ~triggered THEN silence_frames ELSE silence_frames + 1

\* The quiet frames at the end of the audio once this frame is in.
Quiet(isSpeech) ==
    IF isSpeech THEN 0
    ELSE IF triggered THEN silence_frames + 1 ELSE silence_frames

\* Mutant of Push: a full buffer drops the frame instead of being sent off.
PushDrops(isSpeech) ==
    LET spoken == IF isSpeech THEN speech_frames + 1 ELSE speech_frames
    IN  IF Len(buffer) + 1 >= MaxFrames
        THEN UNCHANGED <<buffer, counters, sent>>
        ELSE /\ buffer' = IF triggered \/ isSpeech THEN Append(buffer, isSpeech)
                                                  ELSE buffer
             /\ speech_frames' = spoken
             /\ silence_frames' = Quiet(isSpeech)
             /\ triggered' = (triggered \/ isSpeech)
             /\ UNCHANGED sent

\* push, and take when it says so; line noise before speech is not kept.
Push(isSpeech) ==
    LET started == triggered \/ isSpeech
        audio == IF started THEN Append(buffer, isSpeech) ELSE buffer
        spoken == IF isSpeech THEN speech_frames + 1 ELSE speech_frames
        quiet == Quiet(isSpeech)
    IN  IF Complete(Len(audio), spoken, quiet)
        THEN sent' = audio /\ Reset
        ELSE /\ buffer' = audio
             /\ speech_frames' = spoken
             /\ silence_frames' = quiet
             /\ triggered' = started
             /\ UNCHANGED sent

\* A frame while nothing is played goes to the endpointer.
Listen(isSpeech) ==
    /\ ~speaking
    /\ Push(isSpeech)
    /\ UNCHANGED <<speaking, barge_frames>>

\* A frame during playback: enough of them in a row cancel it, and the
\* cancelled playback resets the count on its way out.
TalkOver(isSpeech) ==
    LET run == IF isSpeech THEN barge_frames + 1 ELSE 0
    IN  /\ speaking
        /\ barge_frames' = IF run >= BargeIn THEN 0 ELSE run
        /\ speaking' = (run < BargeIn)
        /\ UNCHANGED <<buffer, counters, sent>>

\* on_media.
Frame == \E isSpeech \in BOOLEAN : Listen(isSpeech) \/ TalkOver(isSpeech)

\* Mutant of PlaybackStarts: what was buffered is kept for later.
PlaybackKeeps ==
    /\ speaking' = TRUE
    /\ barge_frames' = 0
    /\ UNCHANGED <<buffer, counters, sent>>

\* The first step of _stream; another stream may be running already.
PlaybackStarts ==
    /\ speaking' = TRUE
    /\ barge_frames' = 0
    /\ Reset
    /\ UNCHANGED sent

\* The last step of _stream, also when sending fails.
PlaybackEnds ==
    /\ speaking' = FALSE
    /\ barge_frames' = 0
    /\ UNCHANGED <<buffer, counters, sent>>

ENext == Frame \/ PlaybackStarts \/ PlaybackEnds

ESpec == EInit /\ [][ENext]_evars

\* The line delivers a frame every 20 ms for as long as the stream is open.
EFairSpec == ESpec /\ WF_evars(Frame)

-----------------------------------------------------------------------------
\* Whatever the order of speech, pauses and playbacks, an utterance that is
\* sent off starts with speech and is either as long as the cap or holds
\* enough speech and ends with exactly the quiet that closes a turn, so no
\* shorter pause ever cuts the caller off.
UtteranceWhole ==
    sent # <<>> =>
        /\ sent[1]
        /\ Len(sent) <= MaxFrames
        /\ \/ Len(sent) = MaxFrames
           \/ /\ Cardinality(SpeechIn(sent)) >= MinSpeech
              /\ EndsQuiet(sent, SilenceFrames)

\* Nothing the caller says over a playback, and nothing said before it, is
\* still in the buffer while the playback runs.
NothingHeldWhileSpeaking == speaking => buffer = <<>> /\ ~triggered

\* The buffer stays below the cap, however the caller rambles.
BufferBounded == Len(buffer) < MaxFrames

\* Once the caller has started to speak the pipeline does not wait for ever:
\* the audio is sent off, or dropped for a playback.
TurnEnds == triggered ~> ~triggered

-----------------------------------------------------------------------------
\* What the counters say of the buffered audio.
CountersTrue ==
    /\ triggered <=> buffer # <<>>
    /\ speech_frames = Cardinality(SpeechIn(buffer))
    /\ ~triggered => silence_frames = 0
    /\ triggered => buffer[1] /\ EndsQuiet(buffer, silence_frames)

\* Enough speech and enough quiet do not stay in the buffer.
NotYetComplete ==
    Len(buffer) < MaxFrames
        /\ (speech_frames >= MinSpeech => silence_frames < SilenceFrames)

IInv ==
    /\ TypeOK
    /\ CountersTrue
    /\ NotYetComplete
    /\ NothingHeldWhileSpeaking
    /\ UtteranceWhole

-----------------------------------------------------------------------------
\* tests/test_pipeline.py: a cough or line click is not sent off for
\* transcription.
CoughNotSent == sent # <<>> => Cardinality(SpeechIn(sent)) >= MinSpeech
=============================================================================
