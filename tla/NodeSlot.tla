------------------------------ MODULE NodeSlot ------------------------------
(***************************************************************************)
(* The process has room for one node.  What starting and destroying nodes  *)
(* amounts to, seen from outside: a start gets the slot when it is free,   *)
(* and is refused otherwise; it ends with a node in the user's hands, or   *)
(* with the slot lost; only a node in the user's hands can be destroyed,   *)
(* which frees the slot.                                                   *)
(***************************************************************************)
CONSTANT Start    \* the starts; 0 is none of them

VARIABLES
  holder,   \* the start that has the slot, or 0
  phase     \* of the slot: free, starting, up, lost

vars == <<holder, phase>>

Init == holder = 0 /\ phase = "free"

Claim(i) ==
  /\ phase = "free"
  /\ holder' = i
  /\ phase' = "starting"

Succeed ==
  /\ phase = "starting"
  /\ phase' = "up"
  /\ UNCHANGED holder

(* A start fails or is cancelled.                                          *)
Fail ==
  /\ phase = "starting"
  /\ phase' = "lost"
  /\ UNCHANGED holder

(* The user drops the node without destroying it.                          *)
Drop ==
  /\ phase = "up"
  /\ phase' = "lost"
  /\ UNCHANGED holder

Destroy ==
  /\ phase = "up"
  /\ holder' = 0
  /\ phase' = "free"

Next == (\E i \in Start : Claim(i)) \/ Succeed \/ Fail \/ Drop \/ Destroy

Safety == Init /\ [][Next]_vars

(* A start that has the slot comes to an end.                              *)
Spec == Safety /\ WF_vars(Succeed \/ Fail)
=============================================================================
