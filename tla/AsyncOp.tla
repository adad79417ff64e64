------------------------------ MODULE AsyncOp ------------------------------
(***************************************************************************)
(* What the C++ wrapper promises to the caller of an asynchronous          *)
(* operation (node::add, node::cat, node::pin, ...), with no Handle, no    *)
(* io_service and no Go runtime in sight:                                  *)
(*                                                                         *)
(*   - the completion callback is heard exactly once, with the result of   *)
(*     the operation or, once the operation has been cancelled, with       *)
(*     operation_aborted and with nothing else;                            *)
(*   - what the wrapper allocated for the operation is released after the  *)
(*     callback, never before it.                                          *)
(*                                                                         *)
(* Module Handles is shown to implement this specification.                *)
(***************************************************************************)
EXTENDS Naturals

CONSTANT Op         \* the asynchronous operations

VARIABLES
  status,           \* what the caller knows of each operation
  heard,            \* how often its completion callback has run
  released          \* the operations whose memory has been given back

avars == <<status, heard, released>>

Status == {"idle", "pending", "cancelling", "completed", "aborted"}

AInit ==
  /\ status   = [o \in Op |-> "idle"]
  /\ heard    = [o \in Op |-> 0]
  /\ released = {}

Move(o, from, to) ==
  /\ status[o] = from
  /\ status' = [status EXCEPT ![o] = to]

Start(o) ==
  /\ Move(o, "idle", "pending")
  /\ UNCHANGED <<heard, released>>

RequestCancel(o) ==
  /\ Move(o, "pending", "cancelling")
  /\ UNCHANGED <<heard, released>>

Complete(o) ==
  /\ Move(o, "pending", "completed")
  /\ heard' = [heard EXCEPT ![o] = @ + 1]
  /\ UNCHANGED released

Abort(o) ==
  /\ Move(o, "cancelling", "aborted")
  /\ heard' = [heard EXCEPT ![o] = @ + 1]
  /\ UNCHANGED released

Release(o) ==
  /\ status[o] \in {"completed", "aborted"}
  /\ o \notin released
  /\ released' = released \cup {o}
  /\ UNCHANGED <<status, heard>>

ANext ==
  \E o \in Op :
    Start(o) \/ RequestCancel(o) \/ Complete(o) \/ Abort(o) \/ Release(o)

(* The safety half of the promise.                                         *)
ASafety == AInit /\ [][ANext]_avars

(* The caller of a cancelled operation hears from it, and every operation  *)
(* that was heard of is released.                                          *)
ASpec ==
  /\ ASafety
  /\ \A o \in Op : WF_avars(Abort(o)) /\ WF_avars(Release(o))

=============================================================================
