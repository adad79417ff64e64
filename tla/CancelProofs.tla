---------------------------- MODULE CancelProofs ----------------------------
(***************************************************************************)
(* Proofs about the cancel signals of Handles: which context the id of an  *)
(* operation cancels, while nodes come and go.                             *)
(***************************************************************************)
EXTENDS HandlesProofs

USE HandlesAssumption

(* The numbers of the operations; a linked one is still to be heard of.    *)
LEMMA BornFacts ==
  ASSUME IInv
  PROVE  /\ Born \subseteq Handle /\ 0 \notin Handle
         /\ handles \subseteq Born /\ moved \subseteq Born
         /\ \A h \in handles : ~Heard(h) /\ h \notin moved
<1>1. Born \subseteq Handle /\ 0 \notin Handle
  BY DEF IInv, TypeOK, Born, Handle
<1> QED BY <1>1 DEF IInv, TypeOK, ListInv, HeardInv, Heard

(* A step that only ends goroutines, unlinks Handles or moves node::free.  *)
LEMMA FrameCInv ==
  ASSUME IInv, CInv,
         UNCHANGED <<calls, moved, sig, g_node, nodes, node_ctx, next_id, signals, ctx, owner,
                     results, aborts>>,
         handles' \subseteq handles,
         pc' # "user" => g_node # 0, pc' = "close" => handles' = {},
         \A h \in Handle : /\ go'[h] # "never" => go[h] # "never"
                           /\ go'[h] = "running" => go[h] = "running"
  PROVE  CInv'
<1> USE DEF CInv
<1>1. OwnerInv'
  BY DEF OwnerInv, Born
<1>2. IdInv' /\ RegisteredInv' /\ RegistryExact' /\ CancelIsPrecise'
  BY DEF IdInv, RegisteredInv, RegistryExact, CancelIsPrecise, Born, Heard
<1>3. ReachInv'
  BY BornFacts DEF ReachInv, Born, Heard
<1>4. ~HotRestart => CancelReachesGo'
  BY BornFacts DEF CancelReachesGo
<1> QED BY <1>1, <1>2, <1>3, <1>4

(* A new node has an empty table, and a number of its own.                 *)
LEMMA StartNodeCInv == IInv /\ CInv /\ StartNode => CInv'
<1> SUFFICES ASSUME IInv, CInv, StartNode PROVE CInv'
  OBVIOUS
<1>1. /\ g_node = 0 /\ nodes \in Nat /\ nodes' = nodes + 1 /\ g_node' = nodes + 1
      /\ UNCHANGED <<calls, moved, sig, handles, pc, ctx, go, owner, results, aborts>>
      /\ Born' = Born
      /\ signals' = NoSignals /\ pc = "user"
    BY DEF StartNode, UserCode, handleVars, asioVars, userVars, Born, IInv, TypeOK
<1>2. \A h \in Born : owner[h] \in 1 .. nodes
  BY DEF CInv, OwnerInv
<1>3. \A h \in Born : owner[h] \in 1 .. nodes' /\ owner[h] # 0 /\ owner[h] # g_node'
  BY <1>1, <1>2
<1>4. handles = {}
  BY <1>1, <1>3, BornFacts DEF CInv, OwnerInv
<1>5. OwnerInv'
  BY <1>1, <1>3, <1>4 DEF CInv, OwnerInv
<1>6. IdInv'
  BY <1>1, <1>3 DEF IdInv
<1>7. RegisteredInv' /\ RegistryExact'
  BY <1>1 DEF RegisteredInv, RegistryExact, NoSignals
<1>8. CancelIsPrecise'
  BY <1>1, <1>3 DEF CInv, OwnerInv, CancelIsPrecise
<1>9. ReachInv'
  BY <1>1 DEF ReachInv, StartNode, Heard
<1>10. ~HotRestart => CancelReachesGo'
  BY <1>1 DEF CInv, CancelReachesGo
<1> QED BY <1>5, <1>6, <1>7, <1>8, <1>9, <1>10 DEF CInv

(* A new operation gets the id that the counter of its node had reached.   *)
LEMMA CallIpfsCInv ==
  ASSUME NEW h \in Handle, NEW kind \in Kinds, NEW s \in Cancel \cup {h},
         IInv, CInv, CallIpfs(h, s, kind)
  PROVE  CInv'
<1>1. /\ Born' = Born \cup {h} /\ h \notin Born /\ Born \subseteq Handle
      /\ next_id \in SigId /\ next_id \in Nat
  <2>1. h = calls + 1 /\ calls \in Nat /\ calls' = calls + 1
    BY DEF CallIpfs, IInv, TypeOK
  <2>2. next_id \in SigId /\ next_id \in Nat
    BY DEF IInv, TypeOK, SigId
  <2> QED BY <2>1, <2>2 DEF Born, Handle
<1>2. /\ g_node # 0 /\ g_node \in Nat /\ nodes \in Nat /\ pc = "user"
      /\ UNCHANGED <<moved, pc, g_node, nodes, node_ctx, results, aborts>>
      /\ next_id' = next_id + 1 /\ handles' = handles \cup {h}
  BY DEF CallIpfs, NewHandle, UserCode, NextSignalId, asioVars, userVars, IInv, TypeOK
<1>3. /\ sig'[h] = next_id /\ owner'[h] = g_node
      /\ \A k \in Handle : k # h => sig'[k] = sig[k] /\ owner'[k] = owner[k] /\ go'[k] = go[k]
  BY DEF CallIpfs, NewHandle, GoCall, IInv, TypeOK
<1>4. \/ signals' = signals /\ ctx' = ctx /\ go'[h] = "never"
      \/ /\ signals' = [signals EXCEPT ![next_id] = h] /\ go'[h] = "running"
         /\ ctx' = IF node_ctx = "done" THEN ctx \cup {h} ELSE ctx
  BY DEF CallIpfs, GoCall, IInv, TypeOK
<1>5. signals \in [SigId -> {0} \cup Handle]
  BY DEF IInv, TypeOK
<1>6. \A k \in Born : owner[k] = g_node => sig[k] < next_id /\ sig[k] \in Nat /\ sig[k] # next_id
  <2>1. \A k \in Born : sig[k] \in 0 .. MaxHandle
    BY <1>1 DEF IInv, TypeOK, SigId
  <2> QED BY <1>1, <2>1 DEF CInv, IdInv
<1>7. OwnerInv'
  <2>1. g_node \in 1 .. nodes
    BY <1>2 DEF CInv, OwnerInv
  <2>2. ctx' \subseteq Born'
    BY <1>1, <1>4 DEF CInv, OwnerInv
  <2>3. \A k \in Born' : owner'[k] \in 1 .. nodes
    BY <1>1, <1>3, <2>1 DEF CInv, OwnerInv
  <2>4. \A k \in handles' : owner'[k] = g_node
    BY <1>1, <1>2, <1>3, BornFacts DEF CInv, OwnerInv
  <2> QED BY <1>2, <2>1, <2>2, <2>3, <2>4 DEF CInv, OwnerInv
<1>8. IdInv'
  <2>1. \A k \in Born' : owner'[k] = g_node' => sig'[k] < next_id'
    <3> SUFFICES ASSUME NEW k \in Born', owner'[k] = g_node PROVE sig'[k] < next_id + 1
      BY <1>2
    <3>1. CASE k = h
      BY <1>1, <1>3, <3>1
    <3>2. CASE k # h
      BY <1>1, <1>3, <1>6, <3>2
    <3> QED BY <3>1, <3>2
  <2>2. \A k, l \in Born' :
          owner'[k] = g_node' /\ owner'[l] = g_node' /\ sig'[k] = sig'[l] => k = l
    BY <1>1, <1>2, <1>3, <1>6 DEF CInv, IdInv
  <2> QED BY <2>1, <2>2 DEF IdInv
<1>9. ~Heard(h)' /\ \A k \in Handle : Heard(k)' <=> Heard(k)
  BY <1>1, <1>2 DEF IInv, HeardInv, Heard
<1>10. RegisteredInv' /\ RegistryExact'
  <2> SUFFICES ASSUME NEW i \in SigId, NEW k, k = signals'[i], k # 0
               PROVE  k \in Born' /\ sig'[k] = i /\ owner'[k] = g_node' /\ ~Heard(k)'
    BY DEF RegisteredInv, RegistryExact, Heard
  <2>1. CASE k = h /\ i = next_id
    BY <1>1, <1>2, <1>3, <1>9, <2>1
  <2>2. CASE k = signals[i]
    <3>1. k \in Born /\ k # h /\ k \in Handle
      BY <1>1, <2>2 DEF CInv, RegisteredInv
    <3>2. sig[k] = i /\ owner[k] = g_node /\ ~Heard(k)
      BY <2>2 DEF CInv, RegistryExact
    <3> QED BY <1>1, <1>2, <1>3, <1>9, <3>1, <3>2
  <2> QED BY <1>1, <1>4, <1>5, <2>1, <2>2
<1>11. CancelIsPrecise'
  <2> SUFFICES ASSUME NEW k \in ctx' PROVE k \in moved \/ owner'[k] # g_node \/ node_ctx = "done"
    BY <1>2 DEF CancelIsPrecise
  <2>1. k \in ctx \/ node_ctx = "done"
    BY <1>4
  <2>2. k \in ctx => k \in Born /\ k \in Handle /\ k # h
    BY <1>1 DEF CInv, OwnerInv
  <2> QED BY <1>3, <2>1, <2>2 DEF CInv, CancelIsPrecise
<1>12. ReachInv'
  <2> SUFFICES ASSUME ~HotRestart, NEW k \in Born', ~Heard(k)'
               PROVE  owner'[k] = g_node /\ (go'[k] # "never" => signals'[sig'[k]] = k)
    BY <1>2 DEF ReachInv
  <2>1. CASE k = h
    BY <1>1, <1>3, <1>4, <1>5, <2>1
  <2>2. CASE k # h
    <3>1. k \in Born /\ k \in Handle /\ ~Heard(k)
      BY <1>1, <1>9, <2>2
    <3>2. owner[k] = g_node /\ (go[k] # "never" => signals[sig[k]] = k)
      BY <1>2, <3>1 DEF CInv, ReachInv
    <3>3. sig[k] \in SigId /\ sig[k] # next_id
      BY <1>6, <3>1, <3>2 DEF IInv, TypeOK
    <3>4. signals'[sig[k]] = signals[sig[k]]
      BY <1>4, <1>5, <3>3
    <3>5. sig'[k] = sig[k] /\ owner'[k] = owner[k] /\ go'[k] = go[k]
      BY <1>3, <2>2, <3>1
    <3> QED BY <3>2, <3>4, <3>5
  <2> QED BY <2>1, <2>2
<1>13. ~HotRestart => CancelReachesGo'
  <2>1. h \notin moved /\ moved \subseteq Handle /\ ctx \subseteq ctx'
    BY <1>1, <1>4, BornFacts
  <2> QED BY <1>2, <1>3, <2>1 DEF CInv, CancelReachesGo
<1> QED BY <1>7, <1>8, <1>10, <1>11, <1>12, <1>13 DEF CInv

(* The canceller of an operation cancels that operation's context.         *)
LEMMA CancelHandleCInv ==
  ASSUME NEW h \in handles, IInv, CInv, CancelHandle(h)
  PROVE  CInv'
<1>1. /\ moved' = moved \cup {h} /\ handles' = handles \ {h}
      /\ ctx' = ctx \cup Cancelled(sig[h])
      /\ UNCHANGED <<calls, sig, pc, g_node, nodes, node_ctx, next_id, signals, go, owner,
                     results, aborts>>
      /\ Born' = Born
  BY DEF CancelHandle, Unlink, userVars, Born
<1>2. /\ h \in Born /\ h \in Handle /\ ~Heard(h) /\ owner[h] = g_node /\ g_node # 0
  BY BornFacts DEF CInv, OwnerInv
<1>3. sig[h] \in SigId
  BY <1>2 DEF IInv, TypeOK
<1>4. Cancelled(sig[h]) \subseteq {h}
  <2> SUFFICES ASSUME NEW k \in Handle, k = signals[sig[h]] PROVE k = h
    BY DEF Cancelled
  <2>1. k # 0 /\ k \in Born
    BY <1>3, BornFacts DEF CInv, RegisteredInv
  <2>2. sig[k] = sig[h] /\ owner[k] = g_node
    BY <1>3, <2>1 DEF CInv, RegistryExact
  <2> QED BY <1>2, <2>1, <2>2 DEF CInv, IdInv
<1>5. OwnerInv'
  BY <1>1, <1>2, <1>4 DEF CInv, OwnerInv
<1>6. IdInv' /\ RegisteredInv' /\ RegistryExact' /\ ReachInv'
  BY <1>1 DEF CInv, IdInv, RegisteredInv, RegistryExact, ReachInv, Heard
<1>7. CancelIsPrecise'
  BY <1>1, <1>4 DEF CInv, CancelIsPrecise
<1>8. ~HotRestart => CancelReachesGo'
  <2>1. ~HotRestart /\ go[h] = "running" => h \in Cancelled(sig[h])
    BY <1>2 DEF CInv, ReachInv, Cancelled
  <2> QED BY <1>1, <2>1 DEF CInv, CancelReachesGo
<1> QED BY <1>5, <1>6, <1>7, <1>8 DEF CInv

(* The context of the node is done, and those of its operations with it.   *)
LEMMA NodeCtxCInv ==
  ASSUME IInv, CInv, FreeCancelCtx \/ ServiceFailure
  PROVE  CInv'
<1>1. /\ node_ctx' = "done" /\ ctx \subseteq ctx' /\ ctx' \subseteq ctx \cup Born
      /\ UNCHANGED <<calls, moved, handles, sig, g_node, nodes, next_id, signals, go, owner,
                     results, aborts>>
      /\ Born' = Born
      /\ \/ pc' = pc
         \/ pc = "loop" /\ pc' = "close" /\ handles = {}
  BY DEF FreeCancelCtx, ServiceFailure, CancelNodeCtx, handleVars, asioVars, userVars, Born
<1>2. OwnerInv'
  BY <1>1 DEF CInv, OwnerInv
<1>3. IdInv' /\ RegisteredInv' /\ RegistryExact' /\ ReachInv'
  BY <1>1 DEF CInv, IdInv, RegisteredInv, RegistryExact, ReachInv, Heard
<1>4. CancelIsPrecise' /\ (~HotRestart => CancelReachesGo')
  BY <1>1 DEF CInv, CancelIsPrecise, CancelReachesGo
<1> QED BY <1>2, <1>3, <1>4 DEF CInv

(* go_asio_ipfs_free forgets the node and its table.                       *)
LEMMA FreeCloseCInv == IInv /\ CInv /\ FreeClose => CInv'
<1> SUFFICES ASSUME IInv, CInv, FreeClose PROVE CInv'
  OBVIOUS
<1>1. /\ pc = "close" /\ pc' = "user" /\ g_node' = 0 /\ signals' = NoSignals
      /\ UNCHANGED <<calls, moved, handles, sig, nodes, node_ctx, next_id, ctx, go, owner,
                     results, aborts>>
      /\ Born' = Born
  BY DEF FreeClose, handleVars, userVars, Born
<1>2. handles = {} /\ nodes \in Nat /\ \A h \in Born : owner[h] # 0
  BY <1>1 DEF CInv, OwnerInv, IInv, TypeOK
<1>3. OwnerInv'
  BY <1>1, <1>2 DEF CInv, OwnerInv
<1>4. IdInv' /\ RegisteredInv' /\ RegistryExact' /\ ReachInv'
  BY <1>1, <1>2 DEF IdInv, RegisteredInv, RegistryExact, ReachInv, NoSignals
<1>5. CancelIsPrecise' /\ (~HotRestart => CancelReachesGo')
  BY <1>1, <1>2 DEF CInv, OwnerInv, CancelIsPrecise, CancelReachesGo
<1> QED BY <1>3, <1>4, <1>5 DEF CInv

(* A callback is heard; the id of its operation is freed in the table of   *)
(* the node that exists, which may be another one.                         *)
LEMMA RunCallbackCInv == IInv /\ CInv /\ RunCallback => CInv'
<1> SUFFICES ASSUME IInv, CInv, RunCallback PROVE CInv'
  OBVIOUS
<1>1. PICK t \in Task : t = Head(queue) /\ InQ(queue, t)
  BY TakeHead DEF RunCallback, IInv, TypeOK, QueueInv
<1> DEFINE h == t.h
<1>2. /\ h \in Handle
      /\ \/ t = CallTask(h) /\ h \notin moved
         \/ t = AbortTask(h)
  BY <1>1, TaskFacts DEF RunCallback, HasCallback
<1>3. /\ handles' = handles \ {h}
      /\ signals' = IF g_node = 0 THEN signals ELSE [signals EXCEPT ![sig[h]] = 0]
      /\ UNCHANGED <<calls, moved, sig, pc, g_node, nodes, node_ctx, next_id, ctx, go, owner>>
      /\ Born' = Born
  BY <1>1 DEF RunCallback, Unlink, CancellationFree, Born
<1>4. \/ results' = [results EXCEPT ![h] = @ + 1] /\ aborts' = aborts
      \/ aborts' = [aborts EXCEPT ![h] = @ + 1] /\ results' = results
  BY <1>1 DEF RunCallback
<1> HIDE DEF h
<1>5. h \in Born /\ ~Heard(h)
  <2>1. CASE t = CallTask(h) /\ h \notin moved
    <3>1. go[h] = "posted" /\ InQ(queue, CallTask(h))
      BY <1>1, <1>2, <2>1 DEF IInv, QueueInv, Pending
    <3> QED BY <1>2, <2>1, <3>1 DEF IInv, HeardInv, Heard
  <2>2. CASE t = AbortTask(h)
    <3>1. h \in moved /\ InQ(queue, AbortTask(h))
      BY <1>1, <1>2, <2>2 DEF IInv, QueueInv, AbortJob, Pending
    <3> QED BY <1>2, <3>1 DEF IInv, HeardInv, Heard
  <2> QED BY <1>2, <2>1, <2>2
<1>6. \A k \in Handle : k # h => (Heard(k)' <=> Heard(k))
  BY <1>2, <1>4 DEF IInv, TypeOK, Heard
<1>7. Heard(h)'
  <2>1. results[h] \in Nat /\ aborts[h] \in Nat
    BY <1>2 DEF IInv, TypeOK
  <2>2. \/ results'[h] = results[h] + 1 /\ aborts'[h] = aborts[h]
        \/ aborts'[h] = aborts[h] + 1 /\ results'[h] = results[h]
    BY <1>2, <1>4 DEF IInv, TypeOK
  <2> QED BY <2>1, <2>2 DEF Heard
<1>8. signals \in [SigId -> {0} \cup Handle] /\ sig[h] \in SigId
  BY <1>2 DEF IInv, TypeOK
<1>9. OwnerInv'
  BY <1>3 DEF CInv, OwnerInv
<1>10. IdInv'
  BY <1>3 DEF CInv, IdInv
<1>11. RegisteredInv' /\ RegistryExact'
  <2> SUFFICES ASSUME NEW i \in SigId, NEW k, k = signals'[i], k # 0
               PROVE  k \in Born /\ sig[k] = i /\ owner[k] = g_node /\ ~Heard(k)'
    BY <1>3 DEF RegisteredInv, RegistryExact, Heard
  <2>1. k = signals[i] /\ (g_node = 0 \/ i # sig[h])
    BY <1>3, <1>8
  <2>2. k \in Born /\ sig[k] = i /\ owner[k] = g_node /\ ~Heard(k)
    BY <2>1 DEF CInv, RegisteredInv, RegistryExact
  <2>3. g_node # 0
    BY <2>2 DEF CInv, OwnerInv, IInv, TypeOK
  <2>4. k # h /\ k \in Handle
    BY <2>1, <2>2, <2>3, BornFacts
  <2> QED BY <1>6, <2>1, <2>2, <2>4
<1>12. CancelIsPrecise' /\ (~HotRestart => CancelReachesGo')
  BY <1>3 DEF CInv, CancelIsPrecise, CancelReachesGo
<1>13. ReachInv'
  <2> SUFFICES ASSUME ~HotRestart, g_node # 0, NEW k \in Born, ~Heard(k)'
               PROVE  owner[k] = g_node /\ (go[k] # "never" => signals'[sig[k]] = k)
    BY <1>3 DEF ReachInv
  <2>1. k # h /\ k \in Handle /\ ~Heard(k)
    BY <1>6, <1>7, BornFacts
  <2>2. /\ owner[k] = g_node /\ owner[h] = g_node
        /\ go[k] # "never" => signals[sig[k]] = k
    BY <1>5, <2>1 DEF CInv, ReachInv
  <2>3. sig[k] # sig[h] /\ sig[k] \in SigId
    BY <1>5, <2>1, <2>2 DEF CInv, IdInv, IInv, TypeOK
  <2> QED BY <1>3, <1>8, <2>2, <2>3
<1> QED BY <1>9, <1>10, <1>11, <1>12, <1>13 DEF CInv

LEMMA InitCInv == Init => CInv
  BY DEF Init, CInv, OwnerInv, IdInv, RegisteredInv, RegistryExact, CancelIsPrecise, ReachInv,
         CancelReachesGo, Born, NoSignals

LEMMA NextCInv == IInv /\ CInv /\ [Next]_vars => CInv'
<1> SUFFICES ASSUME IInv, CInv, [Next]_vars PROVE CInv'
  OBVIOUS
<1>1. ASSUME NEW h \in handles, CancelHandle(h) PROVE CInv'
  BY <1>1, CancelHandleCInv
<1>2. ASSUME NEW c \in Cancel, UserCancel(c) PROVE CInv'
  <2>1. slot[c] \in handles
    BY <1>2 DEF UserCancel, IInv, ListInv, Slot
  <2> QED BY <1>1, <1>2, <2>1 DEF UserCancel
<1>3. CASE FreeLoop
  <2>1. PICK h \in handles : slot[cancel_fn[h]] # 0 /\ CancelHandle(slot[cancel_fn[h]])
    BY <1>3 DEF FreeLoop
  <2>2. slot[cancel_fn[h]] \in handles
    BY <2>1 DEF IInv, TypeOK, ListInv
  <2> QED BY <1>1, <2>1, <2>2
<1>4. CASE FreeBegin
  BY <1>4, FrameCInv DEF FreeBegin, handleVars, goVars, userVars
<1>5. ASSUME NEW h \in Handle, GoReturn(h) PROVE CInv'
  <2>1. \A k \in Handle : /\ go'[k] # "never" => go[k] # "never"
                          /\ go'[k] = "running" => go[k] = "running"
    BY <1>5 DEF GoReturn, IInv, TypeOK
  <2> QED BY <1>5, <2>1, FrameCInv DEF GoReturn, handleVars, userVars, CInv, OwnerInv
<1>6. CASE DropResult \/ CallbackReturns
  <2>1. /\ UNCHANGED <<calls, moved, sig, pc, goVars, userVars>>
        /\ handles' \subseteq handles
    BY <1>6 DEF DropResult, CallbackReturns, DropJob
  <2> QED BY <2>1, FrameCInv DEF goVars, userVars, CInv, OwnerInv
<1>7. CASE RunReturns \/ UNCHANGED vars
  BY <1>7, FrameCInv DEF RunReturns, vars, handleVars, asioVars, goVars, userVars, CInv, OwnerInv
<1>8. ASSUME NEW h \in Handle, NEW kind \in Kinds, NEW s \in Cancel \cup {h}, CallIpfs(h, s, kind)
      PROVE  CInv'
  BY <1>8, CallIpfsCInv
<1> QED BY <1>2, <1>3, <1>4, <1>5, <1>6, <1>7, <1>8, StartNodeCInv, NodeCtxCInv, FreeCloseCInv,
           RunCallbackCInv DEF Next, Terminated

(* The owners, the ids and the table of cancel signals fit together.       *)
THEOREM CancelInductive == Spec => []CInv
<1> QED BY InitCInv, NextCInv, Inductive, PTL DEF Spec

(* The table of cancel signals never holds an entry of another node or of  *)
(* a finished operation, even when a node is restarted while tasks of the  *)
(* old one are queued.                                                     *)
THEOREM ExactRegistry == Spec => []RegistryExact
<1>1. CInv => RegistryExact
  BY DEF CInv
<1> QED BY <1>1, CancelInductive, PTL

(* A cancel never reaches the context of another operation, although ids   *)
(* start from 0 again with every node.                                     *)
THEOREM PreciseCancel == Spec => []CancelIsPrecise
<1>1. CInv => CancelIsPrecise
  BY DEF CInv
<1> QED BY <1>1, CancelInductive, PTL

(* A cancelled operation's goroutine has its context cancelled, if a new   *)
(* node is started only once everything on the old one was heard of.       *)
THEOREM ReachingCancel == ASSUME ~HotRestart PROVE Spec => []CancelReachesGo
<1>1. CInv => CancelReachesGo
  BY DEF CInv
<1> QED BY <1>1, CancelInductive, PTL
=============================================================================
