-------------------------- MODULE MCNodeLifecycle --------------------------
(* Small instances of NodeLifecycle for TLC.                               *)
EXTENDS NodeLifecycle

(* Nothing served (no monitor), one service, all of them.                  *)
MCConfigs == {{}, {"api"}, Services}

(* Reports(1) and Reports(2), in a form that TLC evaluates.                *)
Reports1 == INSTANCE StateReports WITH
  told <- Told(1), fault <- 1 \in lasterr, done <- 1 \in ctx

Reports2 == INSTANCE StateReports WITH
  told <- Told(2), fault <- 2 \in lasterr, done <- 2 \in ctx

(* The state callback of either of two nodes is called as the user was     *)
(* promised, although the monitor of the first may still be running when   *)
(* the second is started, fails or is freed.                               *)
ReportsAsPromised == Reports1!Spec /\ Reports2!Spec
=============================================================================
