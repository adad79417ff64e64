--------------------------- MODULE HandlesProofs ---------------------------
(***************************************************************************)
(* Proofs about Handles, for every number of operations, nodes and Cancel  *)
(* objects.                                                                *)
(***************************************************************************)
EXTENDS Handles, TLAPS

-----------------------------------------------------------------------------
(* What posting to the queue and taking from it do to its contents.        *)

(* Append keeps the old elements in place and adds one.                    *)
LEMMA AppendFacts ==
  ASSUME NEW S, NEW q \in Seq(S), NEW x \in S
  PROVE  /\ Append(q, x) \in Seq(S)
         /\ Len(Append(q, x)) = Len(q) + 1
         /\ \A i \in 1 .. Len(q) : Append(q, x)[i] = q[i]
         /\ Append(q, x)[Len(q) + 1] = x
  OBVIOUS

(* A task is in the queue after a post iff it was, or is the one posted.   *)
LEMMA InAppend ==
  ASSUME NEW S, NEW q \in Seq(S), NEW x \in S
  PROVE  \A t : InQ(Append(q, x), t) <=> InQ(q, t) \/ t = x
<1> TAKE t
<1>1. ASSUME InQ(Append(q, x), t) PROVE InQ(q, t) \/ t = x
  BY <1>1, AppendFacts DEF InQ
<1>2. ASSUME InQ(q, t) PROVE InQ(Append(q, x), t)
  BY <1>2, AppendFacts DEF InQ
<1>3. ASSUME t = x PROVE InQ(Append(q, x), t)
  <2>1. Len(q) + 1 \in DOMAIN Append(q, x)
    BY AppendFacts
  <2> QED BY <1>3, <2>1, AppendFacts DEF InQ
<1> QED BY <1>1, <1>2, <1>3

(* A queue without duplicates has none after the post of a new task.       *)
LEMMA DistinctAppend ==
  ASSUME NEW S, NEW q \in Seq(S), NEW x \in S, Distinct(q), ~InQ(q, x)
  PROVE  Distinct(Append(q, x))
<1> SUFFICES ASSUME NEW i \in DOMAIN Append(q, x), NEW j \in DOMAIN Append(q, x),
                    Append(q, x)[i] = Append(q, x)[j]
             PROVE  i = j
  BY DEF Distinct
<1>1. i \in 1 .. Len(q) + 1 /\ j \in 1 .. Len(q) + 1
  BY AppendFacts
<1>2. Len(q) \in Nat /\ DOMAIN q = 1 .. Len(q)
  OBVIOUS
<1>3. CASE i <= Len(q) /\ j <= Len(q)
  BY <1>1, <1>2, <1>3, AppendFacts DEF Distinct
<1>4. CASE i = Len(q) + 1 /\ j <= Len(q)
  BY <1>1, <1>2, <1>4, AppendFacts DEF InQ
<1>5. CASE i <= Len(q) /\ j = Len(q) + 1
  BY <1>1, <1>2, <1>5, AppendFacts DEF InQ
<1>6. CASE i = Len(q) + 1 /\ j = Len(q) + 1
  BY <1>6
<1> QED BY <1>1, <1>2, <1>3, <1>4, <1>5, <1>6

(* Taking the head of a queue without duplicates removes just that task.   *)
LEMMA TakeHead ==
  ASSUME NEW S, NEW q \in Seq(S), q # <<>>, Distinct(q)
  PROVE  /\ Head(q) \in S
         /\ InQ(q, Head(q))
         /\ Tail(q) \in Seq(S)
         /\ Distinct(Tail(q))
         /\ \A t : InQ(Tail(q), t) <=> InQ(q, t) /\ t # Head(q)
<1>1. /\ Len(q) \in Nat /\ Len(q) > 0 /\ DOMAIN q = 1 .. Len(q)
      /\ Head(q) = q[1] /\ Head(q) \in S
      /\ Tail(q) \in Seq(S) /\ Len(Tail(q)) = Len(q) - 1
      /\ DOMAIN Tail(q) = 1 .. Len(q) - 1
      /\ \A i \in 1 .. Len(q) - 1 : Tail(q)[i] = q[i + 1]
  OBVIOUS
<1>2. InQ(q, Head(q))
  BY <1>1 DEF InQ
<1>3. Distinct(Tail(q))
  BY <1>1 DEF Distinct
<1>4. ASSUME NEW t, InQ(Tail(q), t) PROVE InQ(q, t) /\ t # Head(q)
  BY <1>1, <1>4 DEF InQ, Distinct
<1>5. ASSUME NEW t, InQ(q, t), t # Head(q) PROVE InQ(Tail(q), t)
  <2>1. PICK i \in 1 .. Len(q) : q[i] = t
    BY <1>1, <1>5 DEF InQ
  <2>2. i - 1 \in 1 .. Len(q) - 1 /\ Tail(q)[i - 1] = t
    BY <1>1, <1>5, <2>1
  <2> QED BY <1>1, <2>2 DEF InQ
<1> QED BY <1>1, <1>2, <1>3, <1>4, <1>5

-----------------------------------------------------------------------------
(* Preservation of the inductive invariant, one lemma per action.          *)

USE HandlesAssumption

(* Tasks are told apart by their kind and their Handle.                    *)
LEMMA TaskFacts ==
  /\ \A h \in Handle : CallTask(h) \in Task /\ AbortTask(h) \in Task
  /\ \A h, k \in Handle : CallTask(h) # AbortTask(k)
  /\ \A h, k \in Handle : CallTask(h) = CallTask(k) => h = k
  /\ \A h, k \in Handle : AbortTask(h) = AbortTask(k) => h = k
  /\ \A t \in Task : /\ t.h \in Handle
                     /\ t.kind = "call" => t = CallTask(t.h)
                     /\ t.kind # "call" => t.kind = "abort" /\ t = AbortTask(t.h)
  /\ None \notin Task
  BY DEF Task, CallTask, AbortTask

(* The invariant holds initially.                                          *)
LEMMA InitIInv == Init => IInv
<1> SUFFICES ASSUME Init PROVE IInv
  OBVIOUS
<1> USE DEF Init
<1>1. TypeOK
  BY DEF TypeOK, Slot, SigId, Handle, NoSignals
<1>2. \A t : ~InQ(queue, t)
  BY DEF InQ
<1>3. QueueInv /\ JobInv /\ HeardInv
  BY <1>2, TaskFacts DEF QueueInv, JobInv, HeardInv, Distinct, Pending, CallJob,
     AbortJob, Born, Handle
<1>4. ListInv /\ SlotInv /\ CountInv /\ IosInv
  BY DEF ListInv, SlotInv, CountInv, IosInv, Born, Handle, Slot
<1> QED BY <1>1, <1>3, <1>4 DEF IInv

(* A step that leaves the Handles, the tasks and the goroutines alone can  *)
(* only disturb the types, the counters and the state of the io_service.   *)
LEMMA FrameIInv ==
  ASSUME IInv, TypeOK', CountInv', IosInv',
         UNCHANGED <<handleVars, queue, task, go, userVars>>
  PROVE  IInv'
<1> USE DEF handleVars, userVars
<1>1. QueueInv' /\ JobInv' /\ HeardInv'
  BY DEF IInv, QueueInv, JobInv, HeardInv, Pending, CallJob, AbortJob, Born
<1>2. ListInv' /\ SlotInv'
  BY DEF IInv, ListInv, SlotInv, Born, Heard
<1> QED BY <1>1, <1>2 DEF IInv

(* Starting a node.                                                        *)
LEMMA StartNodeIInv == IInv /\ StartNode => IInv'
<1> SUFFICES ASSUME IInv, StartNode PROVE IInv'
  OBVIOUS
<1>1. TypeOK' /\ CountInv' /\ IosInv'
  BY DEF IInv, TypeOK, CountInv, IosInv, StartNode, NoSignals, SigId, handleVars,
     asioVars, userVars
<1> QED BY <1>1, FrameIInv DEF StartNode, handleVars, asioVars, userVars

(* The steps of node::free that do not run a canceller, and the failure of *)
(* a service.                                                              *)
LEMMA FreeIInv ==
  IInv /\ (FreeBegin \/ FreeCancelCtx \/ FreeClose \/ ServiceFailure) => IInv'
<1> SUFFICES ASSUME IInv, FreeBegin \/ FreeCancelCtx \/ FreeClose \/ ServiceFailure
             PROVE  IInv'
  OBVIOUS
<1> USE DEF FreeBegin, FreeCancelCtx, FreeClose, ServiceFailure, handleVars,
            asioVars, goVars, userVars
<1>1. Born \subseteq Handle
  BY DEF IInv, TypeOK, Born, Handle
<1>2. TypeOK' /\ CountInv' /\ IosInv'
  BY <1>1 DEF IInv, TypeOK, CountInv, IosInv, CancelNodeCtx, NoSignals, SigId
<1> QED BY <1>2, FrameIInv

(* run() returns.                                                          *)
LEMMA RunReturnsIInv == IInv /\ RunReturns => IInv'
<1> SUFFICES ASSUME IInv, RunReturns PROVE IInv'
  OBVIOUS
<1> USE DEF RunReturns, handleVars, goVars, userVars
<1>1. TypeOK' /\ CountInv' /\ IosInv'
  BY DEF IInv, TypeOK, CountInv, IosInv, Work
<1> QED BY <1>1, FrameIInv

(* A stuttering step.                                                      *)
LEMMA StutterIInv == IInv /\ UNCHANGED vars => IInv'
<1> SUFFICES ASSUME IInv, UNCHANGED vars PROVE IInv'
  OBVIOUS
<1> USE DEF vars, handleVars, asioVars, goVars, userVars
<1>1. TypeOK' /\ CountInv' /\ IosInv'
  BY DEF IInv, TypeOK, CountInv, IosInv
<1> QED BY <1>1, FrameIInv

(* Starting an operation: the new Handle has one job, its Go side.         *)
LEMMA CallIpfsIInv ==
  ASSUME NEW h \in Handle, NEW kind \in Kinds, NEW s \in Cancel \cup {h},
         IInv, CallIpfs(h, s, kind)
  PROVE  IInv'
<1> USE DEF CallIpfs, NewHandle, GoCall, UserCode, asioVars, userVars
<1>1. /\ h = calls + 1 /\ calls \in Nat /\ calls < MaxHandle
      /\ s \in Slot /\ next_id \in SigId /\ next_id + 1 \in 0 .. MaxHandle
      /\ Born' = Born \cup {h} /\ h \notin Born /\ Born \subseteq Handle
  <2>1. h = calls + 1 /\ calls \in Nat /\ calls < MaxHandle /\ calls' = calls + 1
    BY DEF IInv, TypeOK, Handle
  <2>2. s \in Slot
    BY DEF Slot
  <2>3. next_id \in SigId /\ next_id + 1 \in 0 .. MaxHandle
    BY <2>1 DEF IInv, TypeOK, CountInv, SigId
  <2>4. Born' = Born \cup {h} /\ h \notin Born /\ Born \subseteq Handle
    BY <2>1 DEF Born, Handle
  <2> QED BY <2>1, <2>2, <2>3, <2>4
<1>2. TypeOK'
  <2>1. /\ calls' \in 0 .. MaxHandle /\ live' \subseteq Handle /\ handles' \subseteq Handle
        /\ job_count' \in [Handle -> Nat] /\ cancel_fn' \in [Handle -> Slot]
        /\ sig' \in [Handle -> SigId] /\ slot' \in [Slot -> {0} \cup Handle]
        /\ next_id' \in 0 .. MaxHandle /\ owner' \in [Handle -> 0 .. MaxNode]
    BY <1>1 DEF IInv, TypeOK, NextSignalId
  <2>2. /\ signals' \in [SigId -> {0} \cup Handle] /\ ctx' \subseteq Handle
        /\ go' \in [Handle -> {"none", "running", "posted", "never"}]
    <3>1. signals' \in [SigId -> {0} \cup Handle]
      BY <1>1 DEF IInv, TypeOK
    <3>2. ctx' \subseteq Handle
      <4>1. ctx' = ctx \/ ctx' = ctx \cup {h}
        OBVIOUS
      <4>2. ctx \subseteq Handle
        BY DEF IInv, TypeOK
      <4> QED BY ONLY <4>1, <4>2, h \in Handle
    <3>3. go' \in [Handle -> {"none", "running", "posted", "never"}]
      BY <1>1 DEF IInv, TypeOK
    <3> QED BY <3>1, <3>2, <3>3
  <2> HIDE DEF CallIpfs
  <2>3. UNCHANGED <<moved, queue, task, pc, ios, g_node, nodes, node_ctx, results, aborts>>
    BY DEF CallIpfs
  <2> QED BY <2>1, <2>2, <2>3 DEF IInv, TypeOK
<1>3. /\ go[h] = "none" /\ h \notin moved /\ results[h] = 0 /\ aborts[h] = 0
      /\ ~Pending(CallTask(h)) /\ ~Pending(AbortTask(h))
  BY <1>1 DEF IInv, QueueInv, HeardInv, AbortJob, Pending
<1>4. go' = [go EXCEPT ![h] = go'[h]] /\ go'[h] \in {"running", "never"}
  BY DEF IInv, TypeOK
<1>5. QueueInv'
  BY <1>3, <1>4 DEF IInv, TypeOK, QueueInv, Pending, AbortJob
<1>6. JobInv'
  BY <1>3, <1>4 DEF IInv, TypeOK, JobInv, CallJob, AbortJob, Pending
<1>7. HeardInv'
  BY <1>1, <1>3, <1>4 DEF IInv, TypeOK, HeardInv
<1>8. ListInv'
  <2>1. \A k \in Handle : k \in handles' <=> k \in Born' /\ k \notin moved' /\ results'[k] = 0
    BY <1>1, <1>3 DEF IInv, TypeOK, ListInv
  <2>2. \A r \in Slot : slot'[r] # 0 => slot'[r] \in handles' /\ cancel_fn'[slot'[r]] = r
    BY <1>1, <1>3 DEF IInv, TypeOK, ListInv
  <2> QED BY <2>1, <2>2 DEF ListInv
<1>9. SlotInv'
  <2> SUFFICES ASSUME ~ReuseCancel
               PROVE  /\ \A k \in handles' : slot'[cancel_fn'[k]] = k
                      /\ \A k, l \in Born' :
                           cancel_fn'[k] = cancel_fn'[l] /\ ~Heard(k)' /\ ~Heard(l)' => k = l
    BY DEF SlotInv
  <2>1. \A k \in Born : cancel_fn[k] = s => Heard(k)
    BY DEF SlotFree
  <2>2. \A k \in handles : ~Heard(k) /\ k \in Born /\ k # h
    BY <1>1 DEF IInv, TypeOK, ListInv, HeardInv, Heard
  <2>3. \A k \in handles' : slot'[cancel_fn'[k]] = k
    BY <1>1, <2>1, <2>2 DEF IInv, TypeOK, SlotInv
  <2>4. \A k, l \in Born' :
          cancel_fn'[k] = cancel_fn'[l] /\ ~Heard(k)' /\ ~Heard(l)' => k = l
    BY <1>1, <2>1 DEF IInv, TypeOK, SlotInv, Heard
  <2> QED BY <2>3, <2>4
<1>10. CountInv' /\ IosInv'
  BY <1>1 DEF IInv, TypeOK, CountInv, IosInv, NextSignalId
<1> QED BY <1>2, <1>5, <1>6, <1>7, <1>8, <1>9, <1>10 DEF IInv

(* Cancelling a Handle: it gains a job, its abort task, and is unlinked.   *)
LEMMA CancelHandleIInv ==
  ASSUME NEW h \in handles, IInv, CancelHandle(h)
  PROVE  IInv'
<1> USE DEF CancelHandle, userVars
<1>1. /\ h \in Handle /\ h \in Born /\ h \notin moved /\ results[h] = 0
      /\ AbortTask(h) \in Task /\ queue \in Seq(Task)
      /\ cancel_fn[h] \in Slot
  BY TaskFacts DEF IInv, TypeOK, ListInv
<1>2. ~Pending(AbortTask(h)) /\ ~InQ(queue, AbortTask(h)) /\ aborts[h] = 0
  BY <1>1 DEF IInv, QueueInv, HeardInv, AbortJob, Pending
<1>3. Distinct(queue') /\ \A t : InQ(queue', t) <=> InQ(queue, t) \/ t = AbortTask(h)
  BY <1>1, <1>2, InAppend, DistinctAppend DEF IInv, QueueInv
<1>4. TypeOK'
  BY <1>1, AppendFacts DEF IInv, TypeOK, Unlink, AddJob, ClearCancelFn, Cancelled, Slot
<1>5. QueueInv'
  BY <1>1, <1>2, <1>3, TaskFacts DEF IInv, TypeOK, QueueInv, Pending, AbortJob
<1>6. JobInv'
  <2>1. CallJob(h) /\ job_count[h] = 1 /\ h \in live
    BY <1>1, <1>2 DEF IInv, TypeOK, HeardInv, JobInv, CallJob, AbortJob, Pending
  <2>2. \A k \in Handle : /\ CallJob(k)' <=> CallJob(k)
                          /\ AbortJob(k)' <=> AbortJob(k) \/ k = h
    BY <1>1, <1>3, TaskFacts DEF CallJob, AbortJob, Pending
  <2> QED
    BY <1>1, <1>2, <2>1, <2>2 DEF IInv, TypeOK, JobInv, AbortJob, AddJob
<1>7. HeardInv'
  BY <1>1, <1>2, <1>3, TaskFacts DEF IInv, TypeOK, HeardInv, Born
<1>8. ListInv'
  BY <1>1 DEF IInv, TypeOK, ListInv, Born, Unlink, ClearCancelFn
<1>9. SlotInv'
  <2>1. \A k \in handles : k \in Born /\ ~Heard(k)
    BY DEF IInv, TypeOK, ListInv, HeardInv, Heard
  <2> QED
    BY <1>1, <2>1 DEF IInv, TypeOK, SlotInv, Born, Heard, Unlink, ClearCancelFn
<1>10. CountInv' /\ IosInv'
  BY DEF IInv, CountInv, IosInv
<1> QED BY <1>4, <1>5, <1>6, <1>7, <1>8, <1>9, <1>10 DEF IInv

(* A goroutine ends: the job it was becomes a posted task.                 *)
LEMMA GoReturnIInv ==
  ASSUME NEW h \in Handle, IInv, GoReturn(h)
  PROVE  IInv'
<1> USE DEF GoReturn, handleVars, userVars
<1>1. CallTask(h) \in Task /\ queue \in Seq(Task)
  BY TaskFacts DEF IInv, TypeOK
<1>2. ~Pending(CallTask(h)) /\ ~InQ(queue, CallTask(h))
  BY DEF IInv, QueueInv, Pending
<1>3. Distinct(queue') /\ \A t : InQ(queue', t) <=> InQ(queue, t) \/ t = CallTask(h)
  BY <1>1, <1>2, InAppend, DistinctAppend DEF IInv, QueueInv
<1>4. TypeOK'
  BY <1>1, AppendFacts DEF IInv, TypeOK
<1>5. QueueInv'
  BY <1>2, <1>3, TaskFacts DEF IInv, TypeOK, QueueInv, Pending, AbortJob
<1>6. JobInv'
  BY <1>2, <1>3, TaskFacts DEF IInv, TypeOK, JobInv, CallJob, AbortJob, Pending
<1>7. HeardInv'
  BY <1>2, <1>3, TaskFacts DEF IInv, TypeOK, HeardInv, Born
<1>8. ListInv' /\ SlotInv' /\ CountInv' /\ IosInv'
  BY DEF IInv, ListInv, SlotInv, CountInv, IosInv, Born, Heard
<1> QED BY <1>4, <1>5, <1>6, <1>7, <1>8 DEF IInv

(* A task is taken from the queue and enters the user's callback: its job  *)
(* is not done yet, but what it delivers is heard now.                     *)
LEMMA RunCallbackIInv == IInv /\ RunCallback => IInv'
<1> SUFFICES ASSUME IInv, RunCallback PROVE IInv'
  OBVIOUS
<1> DEFINE t == Head(queue)
           h == t.h
<1> USE DEF RunCallback, Idle
<1>1. /\ t \in Task /\ InQ(queue, t)
      /\ queue' \in Seq(Task) /\ Distinct(queue')
      /\ \A u : InQ(queue', u) <=> InQ(queue, u) /\ u # t
  BY TakeHead DEF IInv, TypeOK, QueueInv
<1>2. /\ h \in Handle /\ task = None /\ task' = t /\ t # None
      /\ \/ t = CallTask(h) /\ t.kind = "call" /\ h \notin moved
         \/ t = AbortTask(h) /\ t.kind = "abort"
  BY <1>1, TaskFacts DEF HasCallback
<1> HIDE DEF t
<1>3. \A u \in Task : Pending(u)' <=> Pending(u)
  BY <1>1, <1>2, TaskFacts DEF Pending
<1>4. TypeOK'
  <2>1. slot' \in [Slot -> {0} \cup Handle] /\ handles' \subseteq Handle
    <3>1. slot' = [slot EXCEPT ![cancel_fn[h]] = 0] /\ handles' = handles \ {h}
      BY DEF ClearCancelFn, Unlink, t
    <3> QED BY ONLY <3>1, <1>2, IInv DEF IInv, TypeOK
  <2>3. signals' \in [SigId -> {0} \cup Handle]
    <3>1. signals' = signals \/ signals' = [signals EXCEPT ![sig[h]] = 0]
      BY DEF CancellationFree, t
    <3> QED BY ONLY <3>1, <1>2, IInv DEF IInv, TypeOK
  <2>2. results' \in [Handle -> Nat] /\ aborts' \in [Handle -> Nat]
    <3>1. /\ results' = results \/ results' = [results EXCEPT ![h] = @ + 1]
          /\ aborts' = aborts \/ aborts' = [aborts EXCEPT ![h] = @ + 1]
      BY DEF t
    <3>2. results \in [Handle -> Nat] /\ aborts \in [Handle -> Nat] /\ h \in Handle
      BY <1>2 DEF IInv, TypeOK
    <3>3. results' \in [Handle -> Nat]
      BY ONLY <3>1, <3>2
    <3>4. aborts' \in [Handle -> Nat]
      BY ONLY <3>1, <3>2
    <3> QED BY <3>3, <3>4
  <2> QED BY <1>1, <1>2, <2>1, <2>2, <2>3 DEF IInv, TypeOK
<1>5. QueueInv'
  BY <1>1, <1>2, <1>3, TaskFacts DEF IInv, QueueInv, AbortJob
<1>6. JobInv'
  BY <1>3, TaskFacts DEF IInv, JobInv, CallJob, AbortJob
<1>7. /\ h \in Born
      /\ t = CallTask(h) => /\ go[h] = "posted" /\ results[h] = 0 /\ aborts[h] = 0
                            /\ results' = [results EXCEPT ![h] = 1] /\ aborts' = aborts
      /\ t = AbortTask(h) => /\ h \in moved /\ results[h] = 0 /\ aborts[h] = 0
                             /\ aborts' = [aborts EXCEPT ![h] = 1] /\ results' = results
  <2>1. t = CallTask(h) => go[h] = "posted" /\ h \notin moved /\ InQ(queue, CallTask(h))
    BY <1>1, <1>2, TaskFacts DEF IInv, QueueInv, Pending
  <2>2. t = AbortTask(h) => h \in moved /\ InQ(queue, AbortTask(h))
    BY <1>1, <1>2, TaskFacts DEF IInv, QueueInv, AbortJob, Pending
  <2>3. h \in Born /\ results[h] = 0 /\ aborts[h] = 0
    BY <1>2, <2>1, <2>2 DEF IInv, HeardInv
  <2>4. t = CallTask(h) => results' = [results EXCEPT ![h] = 1] /\ aborts' = aborts
    BY <1>2, <2>3, TaskFacts DEF t
  <2>5. t = AbortTask(h) => aborts' = [aborts EXCEPT ![h] = 1] /\ results' = results
    BY <1>2, <2>3, TaskFacts DEF t
  <2> QED BY <2>1, <2>2, <2>3, <2>4, <2>5
<1>8. /\ handles' = handles \ {h}
      /\ slot' = [slot EXCEPT ![cancel_fn[h]] = 0]
      /\ UNCHANGED <<calls, live, moved, cancel_fn, go, ios, next_id>>
  BY DEF Unlink, ClearCancelFn, t
<1> HIDE DEF RunCallback, h
<1>9. HeardInv'
  BY <1>1, <1>2, <1>7, <1>8, TaskFacts DEF IInv, TypeOK, HeardInv, Born
<1>10. ListInv'
  BY <1>2, <1>7, <1>8 DEF IInv, TypeOK, ListInv, Born
<1>11. SlotInv'
  <2>1. ~Heard(h) /\ h \in Born
    BY <1>2, <1>7 DEF Heard
  <2>2. \A k \in handles : k \in Born /\ ~Heard(k)
    BY DEF IInv, TypeOK, ListInv, HeardInv, Heard
  <2>3. \A k \in Born' : k \in Handle /\ k \in Born /\ (~Heard(k)' => ~Heard(k))
    <3>1. \A k \in Born' : k \in Handle /\ k \in Born
      BY <1>8 DEF IInv, TypeOK, Born, Handle
    <3>2. results \in [Handle -> Nat] /\ aborts \in [Handle -> Nat]
      BY DEF IInv, TypeOK
    <3>3. \A k \in Handle : results'[k] >= results[k] /\ aborts'[k] >= aborts[k]
      <4>1. CASE t = CallTask(h)
        BY ONLY <4>1, <1>2, <1>7, <3>2
      <4>2. CASE t = AbortTask(h)
        BY ONLY <4>2, <1>2, <1>7, <3>2
      <4> QED BY <1>2, <4>1, <4>2
    <3>4. \A k \in Handle : results'[k] \in Nat /\ aborts'[k] \in Nat
      BY <1>4 DEF TypeOK
    <3>5. \A k \in Handle : ~Heard(k)' => ~Heard(k)
      BY ONLY <3>2, <3>3, <3>4 DEF Heard
    <3> QED BY <3>1, <3>5
  <2> SUFFICES ASSUME ~ReuseCancel
               PROVE  /\ \A k \in handles' : slot'[cancel_fn'[k]] = k
                      /\ \A k, l \in Born' :
                           cancel_fn'[k] = cancel_fn'[l] /\ ~Heard(k)' /\ ~Heard(l)' => k = l
    BY DEF SlotInv
  <2>4. \A k, l \in Born :
          cancel_fn[k] = cancel_fn[l] /\ ~Heard(k) /\ ~Heard(l) => k = l
    BY DEF IInv, SlotInv
  <2>5. ASSUME NEW k \in handles' PROVE slot'[cancel_fn'[k]] = k
    <3>1. k \in handles /\ k # h /\ k \in Handle /\ slot[cancel_fn[k]] = k
      BY <1>8, <2>5 DEF IInv, TypeOK, SlotInv
    <3>2. cancel_fn[k] # cancel_fn[h]
      BY <2>1, <2>2, <2>4, <3>1
    <3>3. slot \in [Slot -> {0} \cup Handle] /\ cancel_fn \in [Handle -> Slot]
      BY DEF IInv, TypeOK
    <3> QED BY ONLY <1>2, <1>8, <3>1, <3>2, <3>3
  <2>6. \A k, l \in Born' :
          cancel_fn'[k] = cancel_fn'[l] /\ ~Heard(k)' /\ ~Heard(l)' => k = l
    BY <1>8, <2>3, <2>4
  <2> QED BY <2>5, <2>6
<1>12. CountInv' /\ IosInv'
  BY <1>8 DEF IInv, CountInv, IosInv, Born
<1> QED BY <1>4, <1>5, <1>6, <1>9, <1>10, <1>11, <1>12 DEF IInv

(* Dropping the job of a pending task keeps the types: its count is not 0. *)
LEMMA DropJobType ==
  ASSUME IInv, NEW t \in Task, Pending(t), DropJob(t.h),
         queue' \in Seq(Task), task' = None,
         UNCHANGED <<calls, moved, cancel_fn, sig, slot, pc, ios, goVars, userVars>>
  PROVE  TypeOK'
<1>1. t.h \in Handle /\ (CallJob(t.h) \/ AbortJob(t.h))
  BY TaskFacts DEF CallJob, AbortJob
<1>2. job_count[t.h] = (IF CallJob(t.h) THEN 1 ELSE 0) + (IF AbortJob(t.h) THEN 1 ELSE 0)
  BY <1>1 DEF IInv, JobInv
<1>3. job_count[t.h] - 1 \in Nat
  BY ONLY <1>1, <1>2
<1>4. job_count' \in [Handle -> Nat]
  BY <1>1, <1>3 DEF IInv, TypeOK, DropJob
<1>5. live' \subseteq Handle /\ handles' \subseteq Handle
  <2>1. /\ live' = live \/ live' = live \ {t.h}
        /\ handles' = handles \/ handles' = handles \ {t.h}
    BY DEF DropJob
  <2> QED BY ONLY <2>1, IInv DEF IInv, TypeOK
<1> QED BY <1>4, <1>5 DEF IInv, TypeOK, goVars, userVars

(* The job that a task t stood for is dropped with it, once t is neither   *)
(* queued nor running any more; the Handle goes with its last job.         *)
LEMMA DropJobIInv ==
  ASSUME IInv, NEW t \in Task, Pending(t), DropJob(t.h), TypeOK', QueueInv',
         \A u \in Task : Pending(u)' <=> Pending(u) /\ u # t,
         InQ(queue, t) => t.kind = "call" /\ t.h \in moved,
         \A u \in Task : u # t => (InQ(queue, u) <=> InQ(queue', u)),
         UNCHANGED <<calls, moved, cancel_fn, sig, slot, pc, ios, goVars, userVars>>
  PROVE  IInv'
<1> DEFINE h == t.h
<1> USE DEF goVars, userVars
<1>1. /\ h \in Handle
      /\ t = CallTask(h) \/ t = AbortTask(h)
      /\ t = CallTask(h) => go[h] = "posted"
      /\ t = AbortTask(h) => h \in moved
  BY TaskFacts DEF IInv, QueueInv, AbortJob
<1>2. /\ job_count[h] \in {1, 2} /\ h \in live
      /\ job_count' = [job_count EXCEPT ![h] = @ - 1]
      /\ live' = IF job_count[h] = 1 THEN live \ {h} ELSE live
      /\ handles' = IF job_count[h] = 1 THEN handles \ {h} ELSE handles
  <2>1. CallJob(h) \/ AbortJob(h)
    BY <1>1 DEF CallJob, AbortJob
  <2>2. job_count[h] \in {1, 2} /\ h \in live
    <3>1. /\ job_count[h] = (IF CallJob(h) THEN 1 ELSE 0) + (IF AbortJob(h) THEN 1 ELSE 0)
          /\ h \in live <=> job_count[h] > 0
      BY <1>1 DEF IInv, JobInv
    <3> QED BY ONLY <2>1, <3>1
  <2>3. /\ job_count' = [job_count EXCEPT ![h] = @ - 1]
        /\ live' = IF job_count[h] = 1 THEN live \ {h} ELSE live
        /\ handles' = IF job_count[h] = 1 THEN handles \ {h} ELSE handles
    BY DEF DropJob
  <2> QED BY <2>2, <2>3
<1>3. JobInv'
  <2>1. \A k \in Handle :
          /\ k # h => (CallJob(k)' <=> CallJob(k)) /\ (AbortJob(k)' <=> AbortJob(k))
          /\ t = CallTask(h) => /\ CallJob(h) /\ ~CallJob(h)'
                                /\ AbortJob(h)' <=> AbortJob(h)
          /\ t = AbortTask(h) => /\ AbortJob(h) /\ ~AbortJob(h)'
                                 /\ CallJob(h)' <=> CallJob(h)
    BY <1>1, TaskFacts DEF CallJob, AbortJob
  <2> HIDE DEF h
  <2>2. job_count \in [Handle -> Nat] /\ JobInv
    BY DEF IInv, TypeOK
  <2>3. job_count'[h] = job_count[h] - 1 /\ \A k \in Handle : k # h => job_count'[k] = job_count[k]
    BY ONLY <1>1, <1>2, <2>2
  <2>4. \A k \in Handle : k # h => (k \in live' <=> k \in live)
    BY ONLY <1>2
  <2>5. h \in live' <=> job_count[h] # 1
    BY ONLY <1>2
  <2>6. ASSUME NEW k \in Handle, k # h
        PROVE  /\ job_count'[k] = (IF CallJob(k)' THEN 1 ELSE 0) + (IF AbortJob(k)' THEN 1 ELSE 0)
               /\ k \in live' <=> job_count'[k] > 0
    <3>1. /\ job_count[k] = (IF CallJob(k) THEN 1 ELSE 0) + (IF AbortJob(k) THEN 1 ELSE 0)
          /\ k \in live <=> job_count[k] > 0
      BY <2>2 DEF JobInv
    <3> QED BY ONLY <2>1, <2>3, <2>4, <2>6, <3>1
  <2>7. /\ job_count'[h] = (IF CallJob(h)' THEN 1 ELSE 0) + (IF AbortJob(h)' THEN 1 ELSE 0)
        /\ h \in live' <=> job_count'[h] > 0
    <3>1. job_count[h] = (IF CallJob(h) THEN 1 ELSE 0) + (IF AbortJob(h) THEN 1 ELSE 0)
      BY <1>1, <2>2 DEF JobInv
    <3> QED BY ONLY <1>1, <1>2, <2>1, <2>3, <2>5, <3>1
  <2> QED BY <2>6, <2>7 DEF JobInv
<1>4. HeardInv'
  <2>1. \A k \in Handle : InQ(queue', AbortTask(k)) <=> InQ(queue, AbortTask(k))
    <3> TAKE k \in Handle
    <3>1. CASE AbortTask(k) # t
      BY <3>1, TaskFacts
    <3>2. CASE AbortTask(k) = t
      BY <3>2, TaskFacts DEF Pending, AbortTask
    <3> QED BY <3>1, <3>2
  <2>2. \A k \in Handle :
          k \notin moved => (InQ(queue', CallTask(k)) <=> InQ(queue, CallTask(k)))
    <3> TAKE k \in Handle
    <3> HAVE k \notin moved
    <3>1. CASE CallTask(k) # t
      BY <3>1, TaskFacts
    <3>2. CASE CallTask(k) = t
      BY <3>2, TaskFacts DEF Pending, CallTask
    <3> QED BY <3>1, <3>2
  <2> QED BY <2>1, <2>2 DEF IInv, HeardInv, Born
<1>5. h \in handles => job_count[h] # 1
  <2> SUFFICES ASSUME h \in handles, job_count[h] = 1 PROVE FALSE
    OBVIOUS
  <2>1. h \in Born /\ h \notin moved /\ results[h] = 0
    BY <1>1 DEF IInv, ListInv
  <2>2. t = CallTask(h) /\ go[h] = "posted" /\ InQ(queue, t)
    BY <1>1, <2>1 DEF IInv, HeardInv
  <2> QED BY <2>1, <2>2
<1>6. handles' = handles
  BY <1>2, <1>5
<1>7. ListInv' /\ SlotInv' /\ CountInv' /\ IosInv'
  BY <1>2, <1>6 DEF IInv, ListInv, SlotInv, CountInv, IosInv, Born, Heard
<1> QED BY <1>3, <1>4, <1>7 DEF IInv

(* The result of a cancelled operation is dropped.                         *)
LEMMA DropResultIInv == IInv /\ DropResult => IInv'
<1> SUFFICES ASSUME IInv, DropResult PROVE IInv'
  OBVIOUS
<1> DEFINE t == Head(queue)
<1>1. /\ t \in Task /\ InQ(queue, t)
      /\ queue' \in Seq(Task) /\ Distinct(queue')
      /\ \A u : InQ(queue', u) <=> InQ(queue, u) /\ u # t
  BY TakeHead DEF IInv, TypeOK, QueueInv, DropResult
<1>2. /\ DropJob(t.h) /\ t.kind = "call" /\ t.h \in moved
      /\ task = None /\ task' = None
      /\ UNCHANGED <<calls, moved, cancel_fn, sig, slot, pc, ios, goVars, userVars>>
  BY <1>1, TaskFacts DEF DropResult, Idle, HasCallback
<1> HIDE DEF t
<1>3. Pending(t) /\ \A u \in Task : Pending(u)' <=> Pending(u) /\ u # t
  BY <1>1, <1>2, TaskFacts DEF Pending
<1>4. TypeOK'
  BY <1>1, <1>2, <1>3, DropJobType
<1>5. QueueInv'
  <2>1. ~InQ(queue', None)
    BY <1>2, <1>1 DEF IInv, QueueInv
  <2>2. \A k \in Handle : Pending(CallTask(k))' => go'[k] = "posted"
    BY <1>2, <1>3, TaskFacts DEF IInv, QueueInv, goVars
  <2>3. \A k \in Handle : AbortJob(k)' => k \in moved'
    BY <1>2, <1>3, TaskFacts DEF IInv, QueueInv, AbortJob
  <2> QED BY <1>1, <1>2, <2>1, <2>2, <2>3 DEF QueueInv
<1> QED BY <1>1, <1>2, <1>3, <1>4, <1>5, DropJobIInv

(* The callback returns.                                                   *)
LEMMA CallbackReturnsIInv == IInv /\ CallbackReturns => IInv'
<1> SUFFICES ASSUME IInv, CallbackReturns PROVE IInv'
  OBVIOUS
<1>1. /\ task \in Task /\ DropJob(task.h) /\ task' = None /\ queue' = queue
      /\ UNCHANGED <<calls, moved, cancel_fn, sig, slot, pc, ios, goVars, userVars>>
  BY DEF IInv, TypeOK, CallbackReturns
<1>2. ~InQ(queue, task) /\ queue \in Seq(Task)
  BY DEF IInv, TypeOK, QueueInv
<1>3. /\ Pending(task)
      /\ \A u \in Task : Pending(u)' <=> Pending(u) /\ u # task
  BY <1>1, <1>2, TaskFacts DEF Pending
<1>4. TypeOK'
  BY <1>1, <1>2, <1>3, DropJobType
<1>5. QueueInv'
  <2>1. ~InQ(queue', None)
    BY <1>1, <1>2, TaskFacts DEF InQ
  <2>2. \A k \in Handle : Pending(CallTask(k))' => go'[k] = "posted"
    BY <1>1, <1>3, TaskFacts DEF IInv, QueueInv, goVars
  <2>3. \A k \in Handle : AbortJob(k)' => k \in moved'
    BY <1>1, <1>3, TaskFacts DEF IInv, QueueInv, AbortJob
  <2> QED BY <1>1, <2>1, <2>2, <2>3 DEF IInv, QueueInv
<1> QED BY <1>1, <1>2, <1>3, <1>4, <1>5, DropJobIInv

(* Every step preserves the invariant.                                     *)
LEMMA NextIInv == IInv /\ [Next]_vars => IInv'
<1> SUFFICES ASSUME IInv, [Next]_vars PROVE IInv'
  OBVIOUS
<1>1. CASE StartNode
  BY <1>1, StartNodeIInv
<1>2. ASSUME NEW h \in Handle, NEW kind \in Kinds, NEW s \in Cancel \cup {h},
             CallIpfs(h, s, kind)
      PROVE  IInv'
  BY <1>2, CallIpfsIInv
<1>3. ASSUME NEW c \in Cancel, UserCancel(c) PROVE IInv'
  <2>1. slot[c] \in handles /\ CancelHandle(slot[c])
    BY <1>3 DEF UserCancel, IInv, ListInv, Slot
  <2> QED BY <2>1, CancelHandleIInv
<1>4. CASE FreeBegin \/ FreeCancelCtx \/ FreeClose \/ ServiceFailure
  BY <1>4, FreeIInv
<1>5. CASE FreeLoop
  <2>1. PICK h \in handles : slot[cancel_fn[h]] # 0 /\ CancelHandle(slot[cancel_fn[h]])
    BY <1>5 DEF FreeLoop
  <2>2. cancel_fn[h] \in Slot
    BY DEF IInv, TypeOK
  <2>3. slot[cancel_fn[h]] \in handles
    BY <2>1, <2>2 DEF IInv, ListInv
  <2> QED BY <2>1, <2>3, CancelHandleIInv
<1>6. ASSUME NEW h \in Handle, GoReturn(h) PROVE IInv'
  BY <1>6, GoReturnIInv
<1>7. CASE RunCallback
  BY <1>7, RunCallbackIInv
<1>8. CASE DropResult
  BY <1>8, DropResultIInv
<1>9. CASE CallbackReturns
  BY <1>9, CallbackReturnsIInv
<1>10. CASE RunReturns
  BY <1>10, RunReturnsIInv
<1>11. CASE Terminated \/ UNCHANGED vars
  BY <1>11, StutterIInv DEF Terminated
<1> QED
  BY <1>1, <1>2, <1>3, <1>4, <1>5, <1>6, <1>7, <1>8, <1>9, <1>10, <1>11 DEF Next

-----------------------------------------------------------------------------
(* The theorems.                                                           *)

(* IInv, which ties job_count, the posted tasks, the callbacks heard, the  *)
(* list and the slots together, holds in every reachable state.            *)
THEOREM Inductive == Spec => []IInv
  BY InitIInv, NextIInv, PTL DEF Spec

(* Every variable keeps its type; job_count, an unsigned, never wraps.     *)
THEOREM TypeCorrect == Spec => []TypeOK
<1>1. IInv => TypeOK
  BY DEF IInv
<1> QED BY <1>1, Inductive, PTL

(* No task, goroutine, list entry or canceller of call_ipfs or Handle::cb  *)
(* ever refers to a Handle that `delete this` has destroyed.               *)
THEOREM MemorySafe == Spec => []NoDangling
<1>1. ASSUME IInv PROVE NoDangling
  <2>1. \A h \in Handle : CallJob(h) \/ AbortJob(h) => h \in live
    <3> TAKE h \in Handle
    <3>1. /\ job_count[h] = (IF CallJob(h) THEN 1 ELSE 0) + (IF AbortJob(h) THEN 1 ELSE 0)
          /\ h \in live <=> job_count[h] > 0
      BY <1>1 DEF IInv, JobInv
    <3> QED BY ONLY <3>1
  <2>2. \A t \in Task : Pending(t) => t.h \in live
    BY <2>1, TaskFacts DEF CallJob, AbortJob
  <2>3. \A i \in DOMAIN queue : queue[i] \in Task /\ Pending(queue[i])
    BY <1>1 DEF IInv, TypeOK, Pending, InQ
  <2>4. task # None => task \in Task /\ Pending(task)
    BY <1>1 DEF IInv, TypeOK, Pending
  <2>5. \A h \in Handle : go[h] = "running" => h \in live
    BY <2>1 DEF CallJob
  <2>6. handles \subseteq live
    <3> SUFFICES ASSUME NEW h \in handles PROVE h \in live
      OBVIOUS
    <3>1. h \in Handle /\ h \in Born /\ h \notin moved /\ results[h] = 0
      BY <1>1 DEF IInv, TypeOK, ListInv
    <3>2. go[h] \in {"running", "never"} \/ InQ(queue, CallTask(h))
      BY <1>1, <3>1 DEF IInv, TypeOK, HeardInv
    <3> QED BY <2>1, <3>1, <3>2 DEF CallJob, Pending
  <2>7. \A s \in Slot : slot[s] # 0 => slot[s] \in live
    BY <1>1, <2>6 DEF IInv, ListInv
  <2> QED BY <2>2, <2>3, <2>4, <2>5, <2>6, <2>7 DEF NoDangling
<1> QED BY <1>1, Inductive, PTL

(* The invariant implies HeardOnce.                                        *)
LEMMA HeardOnceNow == IInv => HeardOnce
<1> SUFFICES ASSUME IInv, NEW h \in Handle
             PROVE  /\ results[h] + aborts[h] <= 1
                    /\ h \in moved => results[h] = 0
                    /\ h \in Born \ live => Heard(h)
  BY DEF HeardOnce
<1>1. results[h] + aborts[h] <= 1 /\ (h \in moved => results[h] = 0)
  BY DEF IInv, HeardInv
<1>2. ASSUME h \in Born, h \notin live PROVE Heard(h)
  <2>1. ~CallJob(h) /\ ~AbortJob(h)
    <3>1. /\ job_count[h] = (IF CallJob(h) THEN 1 ELSE 0) + (IF AbortJob(h) THEN 1 ELSE 0)
          /\ h \in live <=> job_count[h] > 0
      BY DEF IInv, JobInv
    <3> QED BY ONLY <1>2, <3>1
  <2>2. go[h] = "posted" /\ ~InQ(queue, CallTask(h)) /\ ~InQ(queue, AbortTask(h))
    BY <1>2, <2>1 DEF IInv, TypeOK, HeardInv, CallJob, AbortJob, Pending
  <2> QED BY <2>2 DEF IInv, HeardInv, Heard
<1> QED BY <1>1, <1>2

(* Handle::cb runs the user's callback at most once, never with a result   *)
(* after a cancel, and always before the Handle is deleted.                *)
THEOREM CallbackOnce == Spec => []HeardOnce
  BY HeardOnceNow, Inductive, PTL

(* Unless a Cancel object is passed to two pending operations, the loop of *)
(* node::free always finds an armed canceller, and the canceller meets its *)
(* assertions.                                                             *)
THEOREM FreeLoopArmed == ASSUME ~ReuseCancel PROVE Spec => []CancellerArmed
<1>1. ASSUME IInv PROVE CancellerArmed
  <2>1. \A h \in handles : slot[cancel_fn[h]] = h
    BY <1>1 DEF IInv, SlotInv
  <2>2. \A h \in handles : h \in Handle /\ h \notin moved /\ job_count[h] > 0
    <3> TAKE h \in handles
    <3>1. h \in Handle /\ h \in Born /\ h \notin moved /\ results[h] = 0
      BY <1>1 DEF IInv, TypeOK, ListInv
    <3>2. CallJob(h)
      BY <1>1, <3>1 DEF IInv, TypeOK, HeardInv, CallJob, Pending
    <3>3. job_count[h] = (IF CallJob(h) THEN 1 ELSE 0) + (IF AbortJob(h) THEN 1 ELSE 0)
      BY <1>1, <3>1 DEF IInv, JobInv
    <3> QED BY ONLY <3>1, <3>2, <3>3
  <2>3. \A s \in Slot : slot[s] # 0 => slot[s] \in handles
    BY <1>1 DEF IInv, ListInv
  <2> QED BY <2>1, <2>2, <2>3 DEF CancellerArmed
<1> QED BY <1>1, Inductive, PTL

(* No goroutine calls Handle::call after io_service::run has returned.     *)
THEOREM PostsInTime == Spec => []NoLatePost
<1>1. ASSUME IInv PROVE NoLatePost
  <2> SUFFICES ASSUME ios = "returned", NEW h \in Handle, go[h] = "running" PROVE FALSE
    BY DEF NoLatePost
  <2>1. h \notin live /\ CallJob(h)
    BY <1>1 DEF IInv, IosInv, CallJob
  <2>2. /\ job_count[h] = (IF CallJob(h) THEN 1 ELSE 0) + (IF AbortJob(h) THEN 1 ELSE 0)
        /\ h \in live <=> job_count[h] > 0
    BY <1>1 DEF IInv, JobInv
  <2> QED BY ONLY <2>1, <2>2
<1> QED BY <1>1, Inductive, PTL

-----------------------------------------------------------------------------
(* Handles implements AsyncOp.                                             *)

(* The abstract status of a Handle, by cases.                              *)
StatusShape ==
  \A h \in Handle :
    /\ OpStatus[h] = IF h \notin Born THEN "idle"
                     ELSE IF results[h] = 1 THEN "completed"
                     ELSE IF aborts[h] = 1 THEN "aborted"
                     ELSE IF h \in moved THEN "cancelling" ELSE "pending"
    /\ OpHeard[h] = results[h] + aborts[h]
    /\ results[h] \in {0, 1} /\ aborts[h] \in {0, 1}
    /\ h \in moved => results[h] = 0
    /\ h \notin moved => aborts[h] = 0
    /\ h \notin Born => results[h] = 0 /\ aborts[h] = 0 /\ h \notin moved

(* The invariant determines it.                                            *)
LEMMA StatusNow == IInv => StatusShape
<1> SUFFICES ASSUME IInv, NEW h \in Handle
             PROVE  /\ OpStatus[h] = IF h \notin Born THEN "idle"
                                     ELSE IF results[h] = 1 THEN "completed"
                                     ELSE IF aborts[h] = 1 THEN "aborted"
                                     ELSE IF h \in moved THEN "cancelling" ELSE "pending"
                    /\ OpHeard[h] = results[h] + aborts[h]
                    /\ results[h] \in {0, 1} /\ aborts[h] \in {0, 1}
                    /\ h \in moved => results[h] = 0
                    /\ h \notin moved => aborts[h] = 0
                    /\ h \notin Born => results[h] = 0 /\ aborts[h] = 0 /\ h \notin moved
  BY DEF StatusShape
<1>1. /\ results[h] \in {0, 1} /\ aborts[h] \in {0, 1}
      /\ h \in moved => results[h] = 0
      /\ h \notin moved => aborts[h] = 0
      /\ h \notin Born => results[h] = 0 /\ aborts[h] = 0 /\ h \notin moved
  BY DEF IInv, HeardInv
<1>2. OpStatus[h] = IF h \notin Born THEN "idle"
                    ELSE IF results[h] = 1 THEN "completed"
                    ELSE IF aborts[h] = 1 THEN "aborted"
                    ELSE IF h \in moved THEN "cancelling" ELSE "pending"
  BY <1>1 DEF OpStatus, Heard
<1> QED BY <1>1, <1>2 DEF OpHeard

(* So it does after a step.                                                *)
LEMMA StatusNext == IInv' => StatusShape'
  BY StatusNow, PTL

(* Functions on Handle that agree everywhere but at h.                     *)
LEMMA ExceptAt ==
  ASSUME NEW f, NEW g, NEW h \in Handle, NEW v,
         f = [k \in Handle |-> f[k]], g = [k \in Handle |-> g[k]],
         g[h] = v, \A k \in Handle : k # h => g[k] = f[k]
  PROVE  g = [f EXCEPT ![h] = v]
  OBVIOUS

(* A step that changes what the caller knows of one Handle only.           *)
LEMMA OneMoves ==
  ASSUME NEW h \in Handle, NEW from, NEW to, OpStatus[h] = from, OpStatus'[h] = to,
         \A k \in Handle : k # h => OpStatus'[k] = OpStatus[k]
  PROVE  AO!Move(h, from, to)
<1>1. /\ OpStatus = [k \in Handle |-> OpStatus[k]]
      /\ OpStatus' = [k \in Handle |-> OpStatus'[k]]
  BY DEF OpStatus
<1>2. OpStatus' = [OpStatus EXCEPT ![h] = to]
  BY <1>1, ExceptAt
<1> QED BY <1>2 DEF AO!Move

(* What is heard stays the same when no callback runs.                     *)
LEMMA NothingHeard ==
  ASSUME UNCHANGED userVars PROVE OpHeard' = OpHeard
  BY DEF OpHeard, userVars

(* A callback runs: what is heard of its Handle grows by one.              *)
LEMMA OneHeard ==
  ASSUME NEW h \in Handle, OpHeard'[h] = OpHeard[h] + 1,
         \A k \in Handle : k # h => OpHeard'[k] = OpHeard[k]
  PROVE  OpHeard' = [OpHeard EXCEPT ![h] = @ + 1]
<1>1. /\ OpHeard = [k \in Handle |-> OpHeard[k]]
      /\ OpHeard' = [k \in Handle |-> OpHeard'[k]]
  BY DEF OpHeard
<1> QED BY <1>1, ExceptAt

(* call_ipfs starts an operation.                                          *)
LEMMA CallIpfsStarts ==
  ASSUME NEW h \in Handle, NEW kind \in Kinds, NEW s \in Cancel \cup {h},
         IInv, IInv', CallIpfs(h, s, kind)
  PROVE  AO!Start(h)
<1>1. /\ Born' = Born \cup {h} /\ h \notin Born /\ live' = live \cup {h}
      /\ moved' = moved /\ UNCHANGED userVars
  <2>1. /\ h = calls + 1 /\ calls' = h /\ live' = live \cup {h}
        /\ moved' = moved /\ UNCHANGED userVars
    BY DEF CallIpfs, NewHandle
  <2>2. calls \in Nat
    BY DEF IInv, TypeOK
  <2>3. Born' = Born \cup {h} /\ h \notin Born
    BY ONLY <2>1, <2>2 DEF Born
  <2> QED BY <2>1, <2>3
<1>2. AO!Move(h, "idle", "pending")
  <2>1. OpStatus[h] = "idle" /\ OpStatus'[h] = "pending"
    BY <1>1, StatusNow, StatusNext DEF StatusShape, userVars
  <2>2. \A k \in Handle : k # h => OpStatus'[k] = OpStatus[k]
    BY <1>1, StatusNow, StatusNext DEF StatusShape, userVars
  <2> QED BY <2>1, <2>2, OneMoves
<1>3. OpReleased' = OpReleased
  BY <1>1 DEF OpReleased
<1> QED BY <1>1, <1>2, <1>3, NothingHeard DEF AO!Start

(* The canceller of a linked Handle requests the cancellation.             *)
LEMMA CancelRequests ==
  ASSUME NEW h \in handles, IInv, IInv', CancelHandle(h)
  PROVE  h \in Handle /\ AO!RequestCancel(h)
<1>1. /\ h \in Handle /\ h \in Born /\ h \notin moved /\ results[h] = 0
      /\ moved' = moved \cup {h} /\ Born' = Born /\ live' = live /\ UNCHANGED userVars
  BY DEF CancelHandle, IInv, TypeOK, ListInv, Born
<1>2. AO!Move(h, "pending", "cancelling")
  <2>1. OpStatus[h] = "pending" /\ OpStatus'[h] = "cancelling"
    BY <1>1, StatusNow, StatusNext DEF StatusShape, userVars
  <2>2. \A k \in Handle : k # h => OpStatus'[k] = OpStatus[k]
    BY <1>1, StatusNow, StatusNext DEF StatusShape, userVars
  <2> QED BY <1>1, <2>1, <2>2, OneMoves
<1>3. OpReleased' = OpReleased
  BY <1>1 DEF OpReleased
<1> QED BY <1>1, <1>2, <1>3, NothingHeard DEF AO!RequestCancel

(* What is heard when a callback runs: the result of an operation nobody   *)
(* cancelled, or the abort of one that was cancelled, for the first time.  *)
LEMMA RunCallbackHears ==
  ASSUME IInv, RunCallback
  PROVE  \E h \in Handle :
           /\ h \in Born /\ results[h] = 0 /\ aborts[h] = 0
           /\ Born' = Born /\ live' = live /\ moved' = moved
           /\ \/ /\ h \notin moved
                 /\ results' = [results EXCEPT ![h] = 1] /\ aborts' = aborts
              \/ /\ h \in moved
                 /\ aborts' = [aborts EXCEPT ![h] = 1] /\ results' = results
<1> DEFINE t == Head(queue)
           h == t.h
<1>1. t \in Task /\ InQ(queue, t)
  BY TakeHead DEF IInv, TypeOK, QueueInv, RunCallback
<1>2. /\ h \in Handle
      /\ \/ t = CallTask(h) /\ t.kind = "call" /\ h \notin moved
         \/ t = AbortTask(h) /\ t.kind = "abort"
  BY <1>1, TaskFacts DEF RunCallback, HasCallback
<1>3. Born' = Born /\ live' = live /\ moved' = moved
  BY DEF RunCallback, Born
<1>4. CASE t = CallTask(h) /\ t.kind = "call" /\ h \notin moved
  <2>1. go[h] = "posted" /\ InQ(queue, CallTask(h))
    BY <1>1, <1>2, <1>4 DEF IInv, QueueInv, Pending
  <2>2. h \in Born /\ results[h] = 0 /\ aborts[h] = 0
    BY <1>2, <1>4, <2>1 DEF IInv, HeardInv
  <2>3. results' = [results EXCEPT ![h] = 1] /\ aborts' = aborts
    BY <1>4, <2>2 DEF RunCallback
  <2> QED BY <1>2, <1>3, <1>4, <2>2, <2>3
<1>5. CASE t = AbortTask(h) /\ t.kind = "abort"
  <2>1. h \in moved /\ InQ(queue, AbortTask(h))
    BY <1>1, <1>2, <1>5 DEF IInv, QueueInv, AbortJob, Pending
  <2>2. h \in Born /\ results[h] = 0 /\ aborts[h] = 0
    BY <1>2, <2>1 DEF IInv, HeardInv
  <2>3. aborts' = [aborts EXCEPT ![h] = 1] /\ results' = results
    BY <1>5, <2>2 DEF RunCallback
  <2> QED BY <1>2, <1>3, <2>1, <2>2, <2>3
<1> QED BY <1>2, <1>4, <1>5

(* Running a callback completes or aborts an operation.                    *)
LEMMA RunCallbackEnds ==
  ASSUME IInv, IInv', RunCallback
  PROVE  \E h \in Handle : AO!Complete(h) \/ AO!Abort(h)
<1>1. PICK h \in Handle :
           /\ h \in Born /\ results[h] = 0 /\ aborts[h] = 0
           /\ Born' = Born /\ live' = live /\ moved' = moved
           /\ \/ /\ h \notin moved
                 /\ results' = [results EXCEPT ![h] = 1] /\ aborts' = aborts
              \/ /\ h \in moved
                 /\ aborts' = [aborts EXCEPT ![h] = 1] /\ results' = results
  BY RunCallbackHears
<1>2. results \in [Handle -> Nat] /\ aborts \in [Handle -> Nat]
  BY DEF IInv, TypeOK
<1>3. /\ results'[h] + aborts'[h] = 1
      /\ \A k \in Handle : k # h => results'[k] = results[k] /\ aborts'[k] = aborts[k]
  BY <1>1, <1>2
<1>4. OpHeard' = [OpHeard EXCEPT ![h] = @ + 1]
  <2>1. OpHeard'[h] = OpHeard[h] + 1
    BY <1>1, <1>3, StatusNow, StatusNext DEF StatusShape
  <2>2. \A k \in Handle : k # h => OpHeard'[k] = OpHeard[k]
    BY <1>3, StatusNow, StatusNext DEF StatusShape
  <2> QED BY <2>1, <2>2, OneHeard
<1>5. OpReleased' = OpReleased
  BY <1>1 DEF OpReleased
<1>6. \A k \in Handle : k # h => OpStatus'[k] = OpStatus[k]
  BY <1>1, <1>3, StatusNow, StatusNext DEF StatusShape
<1>7. CASE h \notin moved
  <2>1. results'[h] = 1
    BY <1>1, <1>2, <1>7
  <2>2. OpStatus[h] = "pending" /\ OpStatus'[h] = "completed"
    BY <1>1, <1>7, <2>1, StatusNow, StatusNext DEF StatusShape
  <2>3. AO!Move(h, "pending", "completed")
    BY <1>6, <2>2, OneMoves
  <2> QED BY <1>4, <1>5, <2>3 DEF AO!Complete
<1>8. CASE h \in moved
  <2>1. aborts'[h] = 1 /\ results'[h] = 0
    BY <1>1, <1>2, <1>8
  <2>2. OpStatus[h] = "cancelling" /\ OpStatus'[h] = "aborted"
    BY <1>1, <1>8, <2>1, StatusNow, StatusNext DEF StatusShape
  <2>3. AO!Move(h, "cancelling", "aborted")
    BY <1>6, <2>2, OneMoves
  <2> QED BY <1>4, <1>5, <2>3 DEF AO!Abort
<1> QED BY <1>7, <1>8

(* A step that touches neither Handles nor callbacks is a stutter.         *)
LEMMA OthersStutter ==
  ASSUME UNCHANGED <<calls, live, moved, userVars>>
  PROVE  UNCHANGED AO!avars
  BY DEF AO!avars, OpStatus, OpHeard, OpReleased, Born, Heard, userVars

(* After a step, too, no Handle is gone before it was heard of.            *)
LEMMA HeardOnceNext == IInv' => HeardOnce'
  BY HeardOnceNow, PTL

(* The end of a task releases its Handle, or is not noticed.               *)
LEMMA DropReleases ==
  ASSUME IInv, IInv', NEW h \in Handle, DropJob(h), UNCHANGED <<calls, moved, userVars>>
  PROVE  AO!Release(h) \/ UNCHANGED AO!avars
<1>1. CASE live' = live
  BY <1>1, OthersStutter
<1>2. CASE live' # live
  <2>1. h \in live /\ live' = live \ {h}
    BY <1>2 DEF DropJob
  <2>2. h \in Born
    <3>1. CallJob(h) \/ AbortJob(h)
      <4>1. /\ job_count[h] = (IF CallJob(h) THEN 1 ELSE 0) + (IF AbortJob(h) THEN 1 ELSE 0)
            /\ h \in live <=> job_count[h] > 0
        BY DEF IInv, JobInv
      <4> QED BY ONLY <2>1, <4>1
    <3>2. go[h] # "none" \/ h \in moved
      BY <3>1 DEF IInv, QueueInv, CallJob
    <3> QED BY <3>2 DEF IInv, HeardInv
  <2>3. Heard(h)
    <3>1. (h \in Born \ live => Heard(h))'
      BY HeardOnceNext DEF HeardOnce
    <3> QED BY <2>1, <2>2, <3>1 DEF Born, Heard, userVars
  <2>4. OpStatus[h] \in {"completed", "aborted"}
    BY <2>2, <2>3, StatusNow DEF StatusShape, Heard
  <2>5. OpReleased' = OpReleased \cup {h} /\ h \notin OpReleased
    BY <2>1, <2>2 DEF OpReleased, Born
  <2>6. OpStatus' = OpStatus /\ OpHeard' = OpHeard
    BY DEF OpStatus, OpHeard, Born, Heard, userVars
  <2> QED BY <2>4, <2>5, <2>6 DEF AO!Release
<1> QED BY <1>1, <1>2

(* Every step is a step of AsyncOp or a stutter.                           *)
LEMMA NextRefines ==
  ASSUME IInv, IInv', [Next]_vars
  PROVE  [AO!ANext]_(AO!avars)
<1>1. CASE \/ StartNode \/ FreeBegin \/ FreeCancelCtx \/ FreeClose \/ ServiceFailure
           \/ RunReturns \/ Terminated \/ UNCHANGED vars
  <2>1. UNCHANGED <<calls, live, moved, userVars>>
    BY <1>1 DEF StartNode, FreeBegin, FreeCancelCtx, FreeClose, ServiceFailure,
       RunReturns, Terminated, vars, handleVars, userVars
  <2> QED BY <2>1, OthersStutter
<1>2. ASSUME NEW h \in Handle, GoReturn(h) PROVE [AO!ANext]_(AO!avars)
  BY <1>2, OthersStutter DEF GoReturn, handleVars
<1>3. ASSUME NEW h \in Handle, NEW kind \in Kinds, NEW s \in Cancel \cup {h},
             CallIpfs(h, s, kind)
      PROVE  [AO!ANext]_(AO!avars)
  BY <1>3, CallIpfsStarts DEF AO!ANext
<1>4. ASSUME NEW c \in Cancel, UserCancel(c) PROVE [AO!ANext]_(AO!avars)
  <2>1. slot[c] \in handles /\ CancelHandle(slot[c])
    BY <1>4 DEF UserCancel, IInv, ListInv, Slot
  <2> QED BY <2>1, CancelRequests DEF AO!ANext
<1>5. CASE FreeLoop
  <2>1. PICK h \in handles : slot[cancel_fn[h]] # 0 /\ CancelHandle(slot[cancel_fn[h]])
    BY <1>5 DEF FreeLoop
  <2>2. cancel_fn[h] \in Slot
    BY DEF IInv, TypeOK
  <2>3. slot[cancel_fn[h]] \in handles
    BY <2>1, <2>2 DEF IInv, ListInv
  <2> QED BY <2>1, <2>3, CancelRequests DEF AO!ANext
<1>6. CASE RunCallback
  BY <1>6, RunCallbackEnds DEF AO!ANext
<1>7. CASE DropResult
  <2>1. Head(queue).h \in Handle
    BY <1>7, TakeHead, TaskFacts DEF DropResult, IInv, TypeOK, QueueInv
  <2>2. DropJob(Head(queue).h) /\ UNCHANGED <<calls, moved, userVars>>
    BY <1>7 DEF DropResult
  <2> QED BY <2>1, <2>2, DropReleases DEF AO!ANext
<1>8. CASE CallbackReturns
  <2>1. task.h \in Handle
    BY <1>8, TaskFacts DEF CallbackReturns, IInv, TypeOK
  <2>2. DropJob(task.h) /\ UNCHANGED <<calls, moved, userVars>>
    BY <1>8 DEF CallbackReturns
  <2> QED BY <2>1, <2>2, DropReleases DEF AO!ANext
<1> QED BY <1>1, <1>2, <1>3, <1>4, <1>5, <1>6, <1>7, <1>8 DEF Next

(* The Handles implement the caller's view of an operation, AsyncOp: heard *)
(* once, with an abort exactly when it was cancelled, released afterwards. *)
THEOREM Refinement == Spec => ImplementsAsyncOpSafety
<1>1. Init => AO!AInit
  <2> SUFFICES ASSUME Init PROVE AO!AInit
    OBVIOUS
  <2>1. Born = {}
    BY DEF Init, Born
  <2>2. \A h \in Handle : results[h] = 0 /\ aborts[h] = 0
    BY DEF Init
  <2>3. OpStatus = [h \in Handle |-> "idle"]
    <3>1. \A h \in Handle : OpStatus[h] = "idle"
      BY <2>1, InitIInv, StatusNow DEF StatusShape
    <3> QED BY <3>1 DEF OpStatus
  <2>4. OpHeard = [h \in Handle |-> 0]
    BY <2>2 DEF OpHeard
  <2> QED BY <2>1, <2>3, <2>4 DEF AO!AInit, OpReleased
<1>2. IInv /\ IInv' /\ [Next]_vars => [AO!ANext]_(AO!avars)
  BY NextRefines
<1> QED BY <1>1, <1>2, Inductive, PTL DEF Spec, ImplementsAsyncOpSafety, AO!ASafety

=============================================================================
