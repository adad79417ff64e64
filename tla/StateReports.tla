---------------------------- MODULE StateReports ----------------------------
(***************************************************************************)
(* What the user of a node is promised about its state callback: some      *)
(* number of reports that the node is up, then one last report, that it is *)
(* down or that it has failed, and nothing after it.  The last report says *)
(* that the node has failed exactly when one of its services has, and it   *)
(* comes whenever the node's context is done, which a failure brings       *)
(* about.                                                                  *)
(***************************************************************************)
VARIABLES
  told,    \* the last report: "nothing", "up", "down" or "error"
  fault,   \* an error of a service has been noticed
  done     \* the node's context is done

vars == <<told, fault, done>>

Init == told = "nothing" /\ fault = FALSE /\ done = FALSE

Up ==
  /\ told \in {"nothing", "up"}
  /\ told' = "up"
  /\ UNCHANGED <<fault, done>>

(* A service fails; the node may be cancelled in the same step, or later.  *)
Fail ==
  /\ told = "up"
  /\ fault' = TRUE
  /\ done' \in {done, TRUE}
  /\ UNCHANGED told

Cancel ==
  /\ done' = TRUE
  /\ UNCHANGED <<told, fault>>

Last ==
  /\ told = "up"
  /\ done
  /\ told' = IF fault THEN "error" ELSE "down"
  /\ UNCHANGED <<fault, done>>

Next == Up \/ Fail \/ Cancel \/ Last

(* The safety half of the promise.                                         *)
Safety == Init /\ [][Next]_vars

Spec ==
  /\ Safety
  /\ WF_vars(Last)
  /\ WF_vars(fault /\ Cancel)
=============================================================================
