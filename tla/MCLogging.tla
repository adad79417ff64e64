----------------------------- MODULE MCLogging -----------------------------
(* Small instances of Logging for TLC; the configurations give the values. *)
EXTENDS Logging
=============================================================================
