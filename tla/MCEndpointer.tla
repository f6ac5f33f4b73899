---------------------------- MODULE MCEndpointer ----------------------------
(* Endpointer with thresholds small enough to explore: their order is the  *)
(* order of the real ones, BargeIn < MinSpeech < SilenceFrames < MaxFrames.          *)
EXTENDS Endpointer
=============================================================================
