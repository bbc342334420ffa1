--------------------------- MODULE MCStreamForward ---------------------------
(* Instances of StreamForward for TLC.                                     *)
EXTENDS StreamForward
=============================================================================
