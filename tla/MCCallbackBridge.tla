---------------------------- MODULE MCCallbackBridge ----------------------------
(***************************************************************************)
(* Instances of CallbackBridge for TLC: two calls that share a slot (a     *)
(* poll, or a retry) or do not.  The durations are scaled down: a key      *)
(* lives one tick longer than Wait waits, and a forward may take less than *)
(* that margin, as much, or so much more that the key is gone during the   *)
(* wait or before it.                                                      *)
(***************************************************************************)
EXTENDS CallbackBridge

\* For 35 s and 30 s.
TtlTicks == 3
TimeoutTicks == 2
=================================================================================
