------------------------------ MODULE Handles ------------------------------
(***************************************************************************)
(* The life of an asynchronous operation of asio_ipfs::node.               *)
(*                                                                         *)
(* Three parties share the state below:                                    *)
(*   - the asio thread, the only thread that runs io_service::run, on      *)
(*     which the user's code, the completion callbacks, the cancel         *)
(*     functions and node::free execute (src/src/node.cpp);                *)
(*   - one goroutine per operation, which works on go-ipfs and ends by     *)
(*     calling Handle::call, i.e. by posting a task to the io_service;     *)
(*   - the state monitor goroutine, which may cancel the context of the    *)
(*     whole node when a service fails (ipfs_node.go).                     *)
(*                                                                         *)
(* Handle objects are numbered in the order of their creation, so the      *)
(* front of the intrusive list node_impl::handles, which only grows at its *)
(* back, is the least number in it.  The number 0 stands for "no Handle".  *)
(* A std::function<void()> that can cancel a Handle is a slot: either a    *)
(* Cancel object of the user or, when the user passed none, the Handle's   *)
(* own destructor_cancel_fn, which is named by the Handle's number.        *)
(***************************************************************************)
EXTENDS Naturals, Sequences

CONSTANTS
  MaxHandle,      \* bound: the number of operations ever started
  MaxNode,        \* bound: the number of times a node is started
  Cancel,         \* the Cancel objects of the user
  Kinds,          \* which operations are used: "op" (all but resolve), "resolve"
  ReuseCancel,    \* may the user pass a Cancel that a pending operation uses?
  HotRestart,     \* may the user restart a node before the operations of
                  \* the previous one have been heard of?
  None            \* no task

Handle == 1 .. MaxHandle
Slot   == Cancel \cup Handle
SigId  == 0 .. MaxHandle

ASSUME HandlesAssumption ==
  /\ MaxHandle \in Nat
  /\ MaxNode \in Nat
  /\ Cancel \cap (0 .. MaxHandle) = {}
  /\ Kinds \subseteq {"op", "resolve"}
  /\ ReuseCancel \in BOOLEAN
  /\ HotRestart \in BOOLEAN
  /\ None \notin [kind : {"call", "abort"}, h : Handle]

VARIABLES
  \* --- C++: the Handle objects
  calls,          \* how many Handles have been created
  live,           \* the Handles that are allocated
  job_count,      \* Handle::job_count
  moved,          \* the Handles whose cb was moved out by their canceller
  cancel_fn,      \* Handle::cancel_fn, the slot the Handle's canceller is in
  sig,            \* Handle::cancel_signal_id
  slot,           \* the Handle each slot cancels, 0 for a no-op
  handles,        \* node_impl::handles
  \* --- C++: the asio thread
  queue,          \* the tasks posted to the io_service
  task,           \* the task whose callback is running, or None
  pc,             \* "user" code, "loop" or "close" of node::free
  ios,            \* "running", or "returned" once run() has no work left
  \* --- Go
  g_node,         \* the current node, 0 when there is none
  nodes,          \* how many nodes have been started
  node_ctx,       \* the context of g_node: "live" or "done"
  next_id,        \* g_node.next_cancel_signal_id
  signals,        \* g_node.cancel_signals: the operation an id cancels, or 0
  ctx,            \* the operations whose context is done
  go,             \* the Go side of an operation
  owner,          \* the node an operation was started on
  \* --- what the user has heard, for the properties
  results,        \* how often the callback ran with a result
  aborts          \* how often it ran with operation_aborted

handleVars == <<calls, live, job_count, moved, cancel_fn, sig, slot, handles>>
asioVars   == <<queue, task, pc, ios>>
goVars     == <<g_node, nodes, node_ctx, next_id, signals, ctx, go, owner>>
userVars   == <<results, aborts>>
vars       == <<handleVars, asioVars, goVars, userVars>>

Task == [kind : {"call", "abort"}, h : Handle]
CallTask(h)  == [kind |-> "call",  h |-> h]
AbortTask(h) == [kind |-> "abort", h |-> h]

Born == 1 .. calls
Heard(h) == results[h] + aborts[h] > 0

NoSignals == [i \in SigId |-> 0]

Init ==
  /\ calls     = 0
  /\ live      = {}
  /\ job_count = [h \in Handle |-> 0]
  /\ moved     = {}
  /\ cancel_fn = [h \in Handle |-> h]
  /\ sig       = [h \in Handle |-> 0]
  /\ slot      = [s \in Slot |-> 0]
  /\ handles   = {}
  /\ queue     = <<>>
  /\ task      = None
  /\ pc        = "user"
  /\ ios       = "running"
  /\ g_node    = 0
  /\ nodes     = 0
  /\ node_ctx  = "done"
  /\ next_id   = 0
  /\ signals   = NoSignals
  /\ ctx       = {}
  /\ go        = [h \in Handle |-> "none"]
  /\ owner     = [h \in Handle |-> 0]
  /\ results   = [h \in Handle |-> 0]
  /\ aborts    = [h \in Handle |-> 0]

-----------------------------------------------------------------------------
(* The statements the actions are made of.                                 *)

UnlinkForgotten(h) == UNCHANGED handles

(* unlink(), which does nothing to a Handle that is not in the list.       *)
Unlink(h) == handles' = handles \ {h}

(* ( *cancel_fn) = []{};                                                   *)
ClearCancelFn(h) == slot' = [slot EXCEPT ![cancel_fn[h]] = 0]

CancellationNotFreed(h) == UNCHANGED signals

(* go_asio_ipfs_cancellation_free: the id is looked up in the node that    *)
(* exists now, which need not be the one that allocated it.                *)
CancellationFree(h) ==
  signals' = IF g_node = 0 THEN signals ELSE [signals EXCEPT ![sig[h]] = 0]

CancelledNothing(id) == {}

(* go_asio_ipfs_cancel: the context whose cancel function an id is for.    *)
Cancelled(id) == {h \in Handle : g_node # 0 /\ h = signals[id]}

NextSignalIdReused == next_id

(* go_asio_ipfs_cancellation_allocate: the counter after an allocation.    *)
NextSignalId == next_id + 1

CancelNodeCtxAlone ==
  /\ node_ctx' = "done"
  /\ UNCHANGED ctx

(* n.cancel(): a context derived from the node's is done with it.          *)
CancelNodeCtx ==
  /\ node_ctx' = "done"
  /\ ctx' = ctx \cup {h \in Born : owner[h] = g_node}

AddJobForgotten(h) == UNCHANGED job_count

(* ++job_count: the abort task keeps the Handle alive, too.                *)
AddJob(h) == job_count' = [job_count EXCEPT ![h] = @ + 1]

(* The end of a task, on_exit: if (!--job_count) delete this.  The hook of *)
(* a deleted Handle unlinks itself.                                        *)
DropJob(h) ==
  /\ job_count' = [job_count EXCEPT ![h] = @ - 1]
  /\ live' = IF job_count[h] = 1 THEN live \ {h} ELSE live
  /\ handles' = IF job_count[h] = 1 THEN handles \ {h} ELSE handles

(* User code runs on the asio thread, in a callback or in a handler of its *)
(* own, as long as the io_service runs and node::free is not executing.    *)
UserCode == pc = "user" /\ ios = "running"

-----------------------------------------------------------------------------
(* The user's calls.                                                       *)

(* The constructor node::node, on success (module NodeLifecycle has its    *)
(* failures): allocate_node creates an empty table of cancel signals.      *)
StartNode ==
  /\ UserCode
  /\ g_node = 0
  /\ nodes < MaxNode
  /\ HotRestart \/ \A h \in Born : Heard(h)
  /\ nodes' = nodes + 1
  /\ g_node' = nodes + 1
  /\ node_ctx' = "live"
  /\ next_id' = 0
  /\ signals' = NoSignals
  /\ UNCHANGED <<handleVars, asioVars, ctx, go, owner, userVars>>

(* May a new operation be given the slot s?                                *)
SlotFree(s) == ReuseCancel \/ \A h \in Born : cancel_fn[h] = s => Heard(h)

(* new Handle: one job, for Handle::call; its canceller is armed in the    *)
(* slot s, over whatever was there, and it links itself into the list.     *)
NewHandle(h, s) ==
  /\ live' = live \cup {h}
  /\ job_count' = [job_count EXCEPT ![h] = 1]
  /\ cancel_fn' = [cancel_fn EXCEPT ![h] = s]
  /\ slot' = [slot EXCEPT ![s] = h]
  /\ handles' = handles \cup {h}
  /\ sig' = [sig EXCEPT ![h] = next_id]

(* The Go function of an operation registers the cancel function of a      *)
(* context derived from the node's (withCancel) and starts a goroutine;    *)
(* go_asio_ipfs_resolve, whose body is commented out, does neither.        *)
GoCall(h, kind) ==
  \/ /\ kind = "op"
     /\ signals' = [signals EXCEPT ![next_id] = h]
     /\ ctx' = IF node_ctx = "done" THEN ctx \cup {h} ELSE ctx
     /\ go' = [go EXCEPT ![h] = "running"]
  \/ /\ kind = "resolve"
     /\ go' = [go EXCEPT ![h] = "never"]
     /\ UNCHANGED <<signals, ctx>>

(* call_ipfs: allocate a signal id, construct the Handle, call Go.  The    *)
(* caller has a node object, so there is a g_node (NodeLifecycle shows     *)
(* it) and the paths for IPFS_NO_NODE are out of reach.                    *)
CallIpfs(h, s, kind) ==
  /\ UserCode
  /\ g_node # 0
  /\ h = calls + 1
  /\ SlotFree(s)
  /\ calls' = h
  /\ NewHandle(h, s)
  /\ next_id' = NextSignalId
  /\ owner' = [owner EXCEPT ![h] = g_node]
  /\ GoCall(h, kind)
  /\ UNCHANGED <<moved, asioVars, g_node, nodes, node_ctx, userVars>>

(* The canceller of Handle h: unlink, cancel the Go context, post a task   *)
(* that owns the callback from now on, and disarm the slot.                *)
CancelHandle(h) ==
  /\ Unlink(h)
  /\ ctx' = ctx \cup Cancelled(sig[h])
  /\ AddJob(h)
  /\ moved' = moved \cup {h}
  /\ queue' = Append(queue, AbortTask(h))
  /\ ClearCancelFn(h)
  /\ UNCHANGED <<calls, live, cancel_fn, sig, task, pc, ios, g_node, nodes,
                 node_ctx, next_id, signals, go, owner, userVars>>

(* The user calls one of its Cancel objects.                               *)
UserCancel(c) ==
  /\ UserCode
  /\ slot[c] # 0
  /\ CancelHandle(slot[c])

(* node::free, or the destructor of a node.                                *)
FreeBegin ==
  /\ UserCode
  /\ g_node # 0
  /\ pc' = "loop"
  /\ UNCHANGED <<handleVars, queue, task, ios, goVars, userVars>>

(* handles.front()                                                         *)
IsFront(h) == \A k \in handles : h <= k

(* One round of the loop in free().  A round in which the front's slot is  *)
(* a no-op changes nothing and is not a step: the thread spins.            *)
FreeLoop ==
  /\ pc = "loop"
  /\ \E h \in handles :
       /\ IsFront(h)
       /\ slot[cancel_fn[h]] # 0
       /\ CancelHandle(slot[cancel_fn[h]])

(* go_asio_ipfs_free cancels the node's context ...                        *)
FreeCancelCtx ==
  /\ pc = "loop"
  /\ handles = {}
  /\ pc' = "close"
  /\ CancelNodeCtx
  /\ UNCHANGED <<handleVars, queue, task, ios, g_node, nodes, next_id, signals,
                 go, owner, userVars>>

(* ... closes it and forgets it; free() then resets _impl.                 *)
FreeClose ==
  /\ pc = "close"
  /\ pc' = "user"
  /\ g_node' = 0
  /\ signals' = NoSignals
  /\ UNCHANGED <<handleVars, queue, task, ios, nodes, node_ctx, next_id, ctx,
                 go, owner, userVars>>

-----------------------------------------------------------------------------
(* The goroutines.                                                         *)

(* The goroutine of an operation ends: whatever it computed, each of its   *)
(* paths calls Handle::call once, which posts the result.                  *)
GoReturn(h) ==
  /\ go[h] = "running"
  /\ go' = [go EXCEPT ![h] = "posted"]
  /\ queue' = Append(queue, CallTask(h))
  /\ UNCHANGED <<handleVars, task, pc, ios, g_node, nodes, node_ctx, next_id,
                 signals, ctx, owner, userVars>>

(* The state monitor cancels the node because one of its services failed.  *)
ServiceFailure ==
  /\ g_node # 0
  /\ node_ctx = "live"
  /\ CancelNodeCtx
  /\ UNCHANGED <<handleVars, asioVars, g_node, nodes, next_id, signals, go,
                 owner, userVars>>

-----------------------------------------------------------------------------
(* The io_service.                                                         *)

Idle == pc = "user" /\ ios = "running" /\ task = None

HasCallbackAlways(t) == TRUE

(* if (self->cb): an abort task owns the callback, the task of a result    *)
(* finds it in the Handle unless the canceller moved it out.               *)
HasCallback(t) == t.kind = "abort" \/ t.h \notin moved

WorkIgnored == FALSE

(* The io_service::work that every Handle holds while it exists.           *)
Work == live # {}

(* Handle::cb, for the posted result of an operation that has not been     *)
(* cancelled or for the posted abort of one that has: everything it does   *)
(* before it enters the user's callback.                                   *)
RunCallback ==
  /\ Idle
  /\ queue # <<>>
  /\ LET t == Head(queue)
     IN /\ HasCallback(t)
        /\ task' = t
        /\ ClearCancelFn(t.h)
        /\ CancellationFree(t.h)
        /\ Unlink(t.h)
        /\ IF t.kind = "abort"
             THEN /\ aborts' = [aborts EXCEPT ![t.h] = @ + 1]
                  /\ UNCHANGED results
             ELSE /\ results' = [results EXCEPT ![t.h] = @ + 1]
                  /\ UNCHANGED aborts
  /\ queue' = Tail(queue)
  /\ UNCHANGED <<calls, live, job_count, moved, cancel_fn, sig, pc, ios,
                 g_node, nodes, node_ctx, next_id, ctx, go, owner>>

(* The posted result of a cancelled operation: cb is empty.                *)
DropResult ==
  /\ Idle
  /\ queue # <<>>
  /\ LET t == Head(queue)
     IN /\ ~HasCallback(t)
        /\ DropJob(t.h)
  /\ queue' = Tail(queue)
  /\ UNCHANGED <<calls, moved, cancel_fn, sig, slot, task, pc, ios, goVars, userVars>>

(* The user's callback returns and the task ends.                          *)
CallbackReturns ==
  /\ UserCode
  /\ task # None
  /\ DropJob(task.h)
  /\ task' = None
  /\ UNCHANGED <<calls, moved, cancel_fn, sig, slot, queue, pc, ios, goVars, userVars>>

(* run() returns when no task is queued and no io_service::work is left.   *)
(* The user may destroy the io_service.                                    *)
RunReturns ==
  /\ Idle
  /\ queue = <<>>
  /\ ~Work
  /\ ios' = "returned"
  /\ UNCHANGED <<handleVars, queue, task, pc, goVars, userVars>>

Terminated == ios = "returned" /\ UNCHANGED vars

Next ==
  \/ StartNode
  \/ \E h \in Handle, kind \in Kinds : \E s \in Cancel \cup {h} : CallIpfs(h, s, kind)
  \/ \E c \in Cancel : UserCancel(c)
  \/ FreeBegin \/ FreeLoop \/ FreeCancelCtx \/ FreeClose
  \/ \E h \in Handle : GoReturn(h)
  \/ ServiceFailure
  \/ RunCallback \/ DropResult \/ CallbackReturns \/ RunReturns
  \/ Terminated

Spec == Init /\ [][Next]_vars

(* The asio thread keeps running what is posted, user callbacks return and *)
(* free() is executed to its end.  A goroutine is only relied on to end    *)
(* once its context is done: a cat of an absent object may wait forever.   *)
Fairness ==
  /\ WF_vars(FreeLoop) /\ WF_vars(FreeCancelCtx) /\ WF_vars(FreeClose)
  /\ WF_vars(RunCallback) /\ WF_vars(DropResult) /\ WF_vars(CallbackReturns)
  /\ \A h \in Handle : WF_vars(h \in ctx /\ GoReturn(h))

FairSpec == Spec /\ Fairness

-----------------------------------------------------------------------------
(* Properties.                                                             *)

(* The values each variable ranges over.                                   *)
TypeOK ==
  /\ calls \in 0 .. MaxHandle
  /\ live \subseteq Handle
  /\ job_count \in [Handle -> Nat]
  /\ moved \subseteq Handle
  /\ cancel_fn \in [Handle -> Slot]
  /\ sig \in [Handle -> SigId]
  /\ slot \in [Slot -> {0} \cup Handle]
  /\ handles \subseteq Handle
  /\ queue \in Seq(Task)
  /\ task \in Task \cup {None}
  /\ pc \in {"user", "loop", "close"}
  /\ ios \in {"running", "returned"}
  /\ g_node \in 0 .. MaxNode
  /\ nodes \in 0 .. MaxNode
  /\ node_ctx \in {"live", "done"}
  /\ next_id \in 0 .. MaxHandle
  /\ signals \in [SigId -> {0} \cup Handle]
  /\ ctx \subseteq Handle
  /\ go \in [Handle -> {"none", "running", "posted", "never"}]
  /\ owner \in [Handle -> 0 .. MaxNode]
  /\ results \in [Handle -> Nat]
  /\ aborts \in [Handle -> Nat]

(* Memory safety of the manual reference count job_count: whoever still    *)
(* holds a raw pointer to a Handle (a posted task, the task being run, the *)
(* goroutine that will call Handle::call, the list, an armed canceller)    *)
(* holds one to a Handle that has not been deleted.                        *)
NoDangling ==
  /\ \A i \in DOMAIN queue : queue[i].h \in live
  /\ task # None => task.h \in live
  /\ \A h \in Handle : go[h] = "running" => h \in live
  /\ handles \subseteq live
  /\ \A s \in Slot : slot[s] # 0 => slot[s] \in live

(* "Exactly one of cb and *cancel_fn is ever called": no callback is heard *)
(* twice, a cancelled operation never delivers the result that raced with  *)
(* the cancel, and no Handle is deleted before its callback was heard.     *)
HeardOnce ==
  \A h \in Handle :
    /\ results[h] + aborts[h] <= 1
    /\ h \in moved => results[h] = 0
    /\ h \in Born \ live => Heard(h)

(* The loop of node::free makes progress: every linked Handle has its own  *)
(* canceller armed; and an armed canceller meets its assertions,           *)
(* assert(cb) and assert(job_count).                                       *)
CancellerArmed ==
  /\ \A h \in handles : slot[cancel_fn[h]] = h
  /\ \A s \in Slot : slot[s] # 0 =>
       slot[s] \notin moved /\ job_count[slot[s]] > 0

(* The work object of each Handle keeps run() from returning, so no        *)
(* goroutine can post to an io_service that the user has destroyed.        *)
NoLatePost ==
  ios = "returned" => \A h \in Handle : go[h] # "running"

(* Cancelling an operation reaches the context its goroutine works under,  *)
(* also when the signal id was handed out by a previous node as well.      *)
CancelReachesGo ==
  \A h \in moved : go[h] = "running" => h \in ctx

(* The table of cancel signals holds only entries of its own node's        *)
(* operations, under their own ids, and none of a finished operation.      *)
RegistryExact ==
  \A i \in SigId : signals[i] # 0 =>
    /\ sig[signals[i]] = i
    /\ owner[signals[i]] = g_node
    /\ ~Heard(signals[i])

(* A context is only done because its own operation was cancelled or its   *)
(* node was: the id of an old operation never cancels a new one's work.    *)
CancelIsPrecise ==
  \A h \in ctx : h \in moved \/ owner[h] # g_node \/ node_ctx = "done"

(* node::free does not spin: "Make sure all handlers get completed."       *)
FreeTerminates == pc = "loop" ~> pc = "user"

(* Destroying a node releases every operation ever started on it, whatever *)
(* a new node does meanwhile; only node::resolve, which no goroutine       *)
(* answers, keeps its Handle.                                              *)
FreedIsReleased ==
  \A h \in Handle :
    h \in Born /\ owner[h] # g_node /\ go[h] # "never" ~> h \notin live

(* "This function is always called, in a go thread": Handle::call runs for *)
(* every operation that was cancelled, on a node that was destroyed or not.*)
CallAlwaysCalled ==
  \A h \in Handle : h \in moved ~> go[h] = "posted"

(* The abstract operation each Handle implements: what the caller knows of *)
(* it, how often its callback ran, and which Handles are gone.             *)
OpStatus ==
  [h \in Handle |-> CASE h \notin Born                       -> "idle"
                     [] h \in Born /\ results[h] > 0         -> "completed"
                     [] h \in Born /\ aborts[h] > 0          -> "aborted"
                     [] h \in moved /\ ~Heard(h)             -> "cancelling"
                     [] OTHER                                 -> "pending"]
OpHeard == [h \in Handle |-> results[h] + aborts[h]]
OpReleased == Born \ live

AO == INSTANCE AsyncOp WITH
        Op <- Handle, status <- OpStatus, heard <- OpHeard, released <- OpReleased

(* The Handles implement the caller's view of an asynchronous operation:   *)
(* the order of what is heard, that a cancelled operation is heard of, and *)
(* that each gives its Handle, with its io_service::work, back.            *)
ImplementsAsyncOp == AO!ASpec

(* The safety half alone, which node::resolve satisfies as well.           *)
ImplementsAsyncOpSafety == AO!ASafety

-----------------------------------------------------------------------------
(* The inductive invariant behind the safety properties above.             *)

InQ(q, t) == \E i \in DOMAIN q : q[i] = t
Distinct(q) == \A i, j \in DOMAIN q : q[i] = q[j] => i = j
Pending(t) == InQ(queue, t) \/ task = t

(* The jobs that job_count counts: the task that Handle::call has posted   *)
(* or will post, and the task that the canceller has posted.               *)
CallJob(h)  == go[h] \in {"running", "never"} \/ Pending(CallTask(h))
AbortJob(h) == Pending(AbortTask(h))

(* Every task exists at most once, and only for what posted it.            *)
QueueInv ==
  /\ Distinct(queue)
  /\ ~InQ(queue, task)
  /\ \A h \in Handle : Pending(CallTask(h)) => go[h] = "posted"
  /\ \A h \in Handle : AbortJob(h) => h \in moved

(* job_count is the number of jobs, and a Handle lives while it has one.   *)
JobInv ==
  \A h \in Handle :
    /\ job_count[h] = (IF CallJob(h) THEN 1 ELSE 0) + (IF AbortJob(h) THEN 1 ELSE 0)
    /\ h \in live <=> job_count[h] > 0

(* What was heard follows from which task has left the queue.              *)
HeardInv ==
  \A h \in Handle :
    /\ h \in Born <=> go[h] # "none"
    /\ h \in moved => h \in Born
    /\ results[h] = IF /\ h \notin moved
                       /\ go[h] = "posted"
                       /\ ~InQ(queue, CallTask(h)) THEN 1 ELSE 0
    /\ aborts[h] = IF h \in moved /\ ~InQ(queue, AbortTask(h)) THEN 1 ELSE 0

(* Linked are the Handles that are neither cancelled nor heard of, and an  *)
(* armed slot is the slot of a linked Handle.                              *)
ListInv ==
  /\ \A h \in Handle : h \in handles <=> h \in Born /\ h \notin moved /\ results[h] = 0
  /\ \A s \in Slot : slot[s] # 0 => slot[s] \in handles /\ cancel_fn[slot[s]] = s

(* As long as no Cancel object is passed twice, no two Handles that are    *)
(* still to be heard of share a slot, and the linked ones are armed.       *)
SlotInv ==
  ~ReuseCancel =>
    /\ \A h \in handles : slot[cancel_fn[h]] = h
    /\ \A h, k \in Born : cancel_fn[h] = cancel_fn[k] /\ ~Heard(h) /\ ~Heard(k) => h = k

(* No more signal ids are handed out than operations were started.         *)
CountInv == next_id <= calls

(* A returned run() has left nothing behind.                               *)
IosInv == ios = "returned" => live = {}

(* The conjunction the proofs show to be inductive.                        *)
IInv ==
  /\ TypeOK
  /\ QueueInv
  /\ JobInv
  /\ HeardInv
  /\ ListInv
  /\ SlotInv
  /\ CountInv
  /\ IosInv

-----------------------------------------------------------------------------
(* What the properties of the cancel signals need besides.                 *)

(* Nodes are numbered in the order they were started; the operations in    *)
(* the list are those of the node that exists, and go_asio_ipfs_free is    *)
(* called with an empty list.                                              *)
OwnerInv ==
  /\ g_node <= nodes
  /\ \A h \in Born : owner[h] \in 1 .. nodes
  /\ ctx \subseteq Born
  /\ \A h \in handles : owner[h] = g_node
  /\ pc # "user" => g_node # 0
  /\ pc = "close" => handles = {}

(* The ids of a node's operations are below its counter, and distinct.     *)
IdInv ==
  /\ \A h \in Born : owner[h] = g_node => sig[h] < next_id
  /\ \A h, k \in Born : owner[h] = g_node /\ owner[k] = g_node /\ sig[h] = sig[k] => h = k

(* The table holds operations.                                             *)
RegisteredInv == \A i \in SigId : signals[i] # 0 => signals[i] \in Born

(* When every operation of a node is heard of before the next node is      *)
(* started, an operation that is still to be heard of is of this node, and *)
(* its id leads to it.                                                     *)
ReachInv ==
  ~HotRestart /\ g_node # 0 => \A h \in Born : ~Heard(h) =>
    /\ owner[h] = g_node
    /\ go[h] # "never" => signals[sig[h]] = h

(* The conjunction the proofs show to be inductive on top of IInv.         *)
CInv ==
  /\ OwnerInv
  /\ IdInv
  /\ RegisteredInv /\ RegistryExact
  /\ CancelIsPrecise
  /\ ReachInv
  /\ ~HotRestart => CancelReachesGo
=============================================================================
