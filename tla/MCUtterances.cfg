SPECIFICATION EFairSpec

CONSTANTS
    SilenceFrames = 4
    MinSpeech = 3
    MaxFrames = 9
    BargeIn = 2

INVARIANT UtteranceWhole
INVARIANT NothingHeldWhileSpeaking
INVARIANT BufferBounded
PROPERTY TurnEnds
