---------------------------- MODULE MCCallRecord ----------------------------
(* Small instances of CallRecord for TLC.                                  *)
EXTENDS CallRecord

\* One verdict that says nothing and the two that overwrite most.
MCVerdict == {"answered", "booked"}
MCHangupSeconds == {0, 40}
MCStatusSeconds == {40}
=============================================================================
