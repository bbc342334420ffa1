----------------------------- MODULE MCConversion -----------------------------
(* The conversions on a small instance: every stream of a few events, and   *)
(* every short conversation of the three entry protocols.                   *)
EXTENDS StreamConversion, CommandCodeHistory

(* The two directions share no state: they are explored side by side, not  *)
(* in all their combinations.                                               *)
MCInit == ConversionInit /\ HistoryInit

MCNext ==
  \/ talk = Silence /\ ConversionNext /\ UNCHANGED talk
  \/ sent = <<>> /\ phase = "prelude" /\ HistoryNext /\ UNCHANGED conversionVars

MCSpec == MCInit /\ [][MCNext]_<<conversionVars, talk>>
=============================================================================
