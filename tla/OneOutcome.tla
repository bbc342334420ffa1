----------------------------- MODULE OneOutcome -----------------------------
(* What an attempt that has begun to answer owes the request log: exactly  *)
(* one record of how it ended, made once and never revised                 *)
(* (proxy/attempt.rs:20-29, AttemptFinalizer, CancelAware).                 *)
EXTENDS Sequences

CONSTANT Outcomes   \* the records an attempt can end with

VARIABLE records    \* the records made so far

Init == records = <<>>

Conclude == records = <<>> /\ \E o \in Outcomes : records' = <<o>>

(* One record at most, and none is changed.                                *)
Safe == Init /\ [][Conclude]_records

(* The record is made at last: the request does not stay pending for ever. *)
Spec == Safe /\ WF_records(Conclude)
=============================================================================
