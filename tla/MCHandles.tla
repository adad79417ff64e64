----------------------------- MODULE MCHandles -----------------------------
(* Small instances of Handles for TLC; the configurations give the values. *)
EXTENDS Handles
=============================================================================
