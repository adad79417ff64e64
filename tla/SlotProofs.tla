----------------------------- MODULE SlotProofs -----------------------------
(***************************************************************************)
(* NodeLifecycle implements the slot of NodeSlot, and the reports of each  *)
(* of its monitors are those of StateReports.                              *)
(***************************************************************************)
EXTENDS LifecycleProofs

USE NodeLifecycleAssumption

(* Only allocate_node gives g_node a value, and not while a node is freed. *)
LEMMA NextResetInv == ResetInv /\ [Next]_vars => ResetInv'
<1> SUFFICES ASSUME ResetInv, [Next]_vars, pc' = "reset" PROVE g_node' = 0
  BY DEF ResetInv
<1>1. CASE pc = "reset" /\ g_node' = g_node
  BY <1>1 DEF ResetInv
<1>2. CASE GoClose
  BY <1>2 DEF GoClose
<1>3. ASSUME NEW i \in Start, NEW services \in Configs, Ctor(i, services) \/ Build(i, services)
      PROVE  FALSE
  BY <1>3 DEF Ctor, Build, NewStart
<1>4. ASSUME NEW i \in Start,
             \/ BuildThrows(i) \/ BuildCancel(i) \/ BuildAborts(i) \/ BuildCompletes(i)
             \/ MoveAssign(i) \/ Free(i)
      PROVE  FALSE
  BY <1>4 DEF BuildThrows, NewStart, BuildCancel, BuildAborts, BuildCompletes, MoveAssign, Free
<1>5. ASSUME NEW i \in Start, StartStep(i) \/ StartFails(i)
      PROVE  pc' = pc /\ g_node' = g_node
  BY <1>5 DEF StartStep, StartFails, ParseConfig, InjectMetrics, BuildEnv, OpenRepo, NewNode,
              StartPlugins, MaybeServe, RegisterCollector, StartMonitor, Advance, cppVars
<1>6. ASSUME NEW i \in Start,
             MonitorLaunches(i) \/ PeersChange(i) \/ ServiceError(i) \/ MonitorStops(i)
      PROVE  pc' = pc /\ g_node' = g_node
  BY <1>6 DEF MonitorLaunches, PeersChange, ServiceError, MonitorStops, cppVars
<1>7. CASE CtorReturns \/ GoFree \/ Reset
  BY <1>7 DEF CtorReturns, GoFree, Reset
<1>8. CASE Terminated \/ UNCHANGED vars
  BY <1>1, <1>8 DEF Terminated, vars, cppVars
<1> QED BY <1>1, <1>2, <1>3, <1>4, <1>5, <1>6, <1>7, <1>8 DEF Next

THEOREM ResetInductive == Spec => []ResetInv
<1>1. Init => ResetInv
  BY DEF Init, ResetInv
<1> QED BY <1>1, NextResetInv, PTL DEF Spec

-----------------------------------------------------------------------------
(* The phase of the slot, before and after a step, for a given holder.     *)

LEMMA PhaseNow ==
  ASSUME NEW j, g_node = j
  PROVE  SlotPhase = IF j = 0 THEN "free" ELSE IF j \in object THEN "up"
                     ELSE IF Expected(j) THEN "starting" ELSE "lost"
  BY DEF SlotPhase, InHands, Expected, Running

LEMMA PhaseNext ==
  ASSUME NEW j, g_node' = j
  PROVE  SlotPhase' = IF j = 0 THEN "free" ELSE IF j \in object' THEN "up"
                      ELSE IF Expected(j)' THEN "starting" ELSE "lost"
  BY DEF SlotPhase, InHands, Expected, Running

(* A step that changes nothing of the holder's is not seen.                *)
LEMMA PhaseKept ==
  ASSUME LInv, g_node' = g_node,
         \A j \in Start : g_node = j =>
           (j \in object' <=> j \in object) /\ (j \in object \/ (Expected(j)' <=> Expected(j)))
  PROVE  UNCHANGED Slot!vars
<1>1. PICK j \in 0 .. MaxStart : g_node = j /\ g_node' = j
  BY DEF LInv, TypeOK
<1>2. j = 0 \/ j \in Start
  BY <1>1 DEF Start
<1>3. SlotPhase' = SlotPhase
  BY <1>1, <1>2, PhaseNow, PhaseNext
<1> QED BY <1>3 DEF Slot!vars

(* Who may move the slot: a start that claims it has it.                   *)
LEMMA ClaimHolds ==
  ASSUME LInv, NEW i \in Start, Claims(i)
  PROVE  g_node = i /\ i # 0
  BY DEF LInv, ClaimInv, Start

-----------------------------------------------------------------------------
(* The steps.                                                              *)

(* A start claims the slot, or finds it taken.                             *)
LEMMA NewSlot ==
  ASSUME LInv, NEW i \in Start, NEW services \in SUBSET Services,
         Ctor(i, services) \/ Build(i, services)
  PROVE  [Slot!Next]_(Slot!vars)
<1>1. /\ pc = "user" /\ AllocateNode(i) /\ object' = object
      /\ \/ pc' = "ctor" /\ cur' = i /\ status' = status
         \/ pc' = "user" /\ status' = [status EXCEPT ![i] = "pending"]
  BY DEF Ctor, Build, NewStart
<1>2. stage[i] = "none" /\ i \notin object
  <2>1. NewStart(i, "ctor", services) \/ NewStart(i, "build", services)
    BY DEF Ctor, Build
  <2> QED BY <2>1, NewStartFacts
<1>3. /\ stage \in [Start -> Stage]
      /\ status \in [Start -> {"idle", "pending", "cancelling", "completed", "aborted"}]
  BY DEF LInv, TypeOK
<1>4. CASE g_node = 0
  <2>1. g_node' = i /\ stage'[i] = "config" /\ i # 0
    BY <1>1, <1>3, <1>4 DEF AllocateNode, Start
  <2>2. Expected(i)'
    BY <2>1 DEF Expected, Running
  <2>3. SlotPhase = "free" /\ SlotPhase' = "starting"
    BY <1>1, <1>2, <1>4, <2>1, <2>2, PhaseNow, PhaseNext
  <2> QED BY <2>1, <2>3 DEF Slot!Next, Slot!Claim
<1>5. CASE g_node # 0
  <2>1. g_node' = g_node /\ stage' = [stage EXCEPT ![i] = "exists"]
    BY <1>1, <1>5 DEF AllocateNode
  <2>2. ASSUME NEW j \in Start PROVE Expected(j)' <=> Expected(j)
    <3>1. CASE j = i
      BY <1>2, <1>3, <2>1, <3>1 DEF Expected, Running
    <3>2. CASE j # i
      <4>1. stage'[j] = stage[j] /\ status'[j] = status[j] /\ ~(pc' = "ctor" /\ cur' = j)
        BY <1>1, <1>3, <2>1, <3>2
      <4> QED BY <1>1, <4>1 DEF Expected, Running
    <3> QED BY <3>1, <3>2
  <2> QED BY <1>1, <2>1, <2>2, PhaseKept
<1> QED BY <1>4, <1>5

(* A build is cancelled: when start_node has succeeded, the slot is lost.  *)
LEMMA CancelSlot ==
  ASSUME LInv, NEW i \in Start, BuildCancel(i)
  PROVE  [Slot!Next]_(Slot!vars)
<1>1. /\ pc = "user" /\ status[i] = "pending" /\ status' = [status EXCEPT ![i] = "cancelling"]
      /\ UNCHANGED <<object, pc, cur, g_node, stage>>
  BY DEF BuildCancel, startVars
<1>2. status \in [Start -> {"idle", "pending", "cancelling", "completed", "aborted"}]
  BY DEF LInv, TypeOK
<1>3. ASSUME NEW j \in Start, j # i \/ stage[i] # "ok" PROVE Expected(j)' <=> Expected(j)
  <2>1. status'[j] = status[j] \/ stage[j] # "ok"
    BY <1>1, <1>2, <1>3
  <2> QED BY <1>1, <2>1 DEF Expected, Running
<1>4. CASE g_node # i \/ stage[i] # "ok"
  BY <1>1, <1>3, <1>4, PhaseKept
<1>5. CASE g_node = i /\ stage[i] = "ok"
  <2>1. i \notin object /\ i # 0
    BY <1>1 DEF LInv, ObjectInv, Start
  <2>2. Expected(i) /\ ~Expected(i)'
    BY <1>1, <1>2, <1>5 DEF Expected, Running
  <2>3. SlotPhase = "starting" /\ SlotPhase' = "lost"
    BY <1>1, <1>5, <2>1, <2>2, PhaseNow, PhaseNext
  <2> QED BY <1>1, <2>3 DEF Slot!Next, Slot!Fail
<1> QED BY <1>4, <1>5

(* The completion handler of a build.                                      *)
LEMMA DoneSlot ==
  ASSUME LInv, NEW i \in Start, BuildAborts(i) \/ BuildCompletes(i)
  PROVE  [Slot!Next]_(Slot!vars)
<1>1. /\ pc = "user" /\ UNCHANGED <<pc, cur, g_node, stage>>
      /\ \/ /\ status[i] = "cancelling" /\ status' = [status EXCEPT ![i] = "aborted"]
            /\ object' = object
         \/ /\ status[i] = "pending" /\ status' = [status EXCEPT ![i] = "completed"]
            /\ stage[i] # "ok" /\ object' = object
         \/ /\ status[i] = "pending" /\ status' = [status EXCEPT ![i] = "completed"]
            /\ stage[i] = "ok" /\ object' = object \cup {i}
  BY DEF BuildAborts, BuildCompletes, startVars
<1>2. status \in [Start -> {"idle", "pending", "cancelling", "completed", "aborted"}]
  BY DEF LInv, TypeOK
<1>3. CASE object' = object /\ (stage[i] # "ok" \/ status[i] = "cancelling")
  <2>1. ASSUME NEW j \in Start PROVE Expected(j)' <=> Expected(j)
    <3>1. \/ status'[j] = status[j] \/ stage[j] # "ok"
          \/ status[j] # "pending" /\ status'[j] # "pending"
      BY <1>1, <1>2, <1>3
    <3> QED BY <1>1, <3>1 DEF Expected, Running
  <2> QED BY <1>1, <1>3, <2>1, PhaseKept
<1>4. CASE status[i] = "pending" /\ stage[i] = "ok" /\ object' = object \cup {i}
  <2>1. g_node = i /\ i # 0 /\ i \notin object /\ Expected(i)
    BY <1>4, ClaimHolds DEF Claims, Expected, LInv, ObjectInv
  <2>2. SlotPhase = "starting" /\ SlotPhase' = "up"
    BY <1>1, <1>4, <2>1, PhaseNow, PhaseNext
  <2> QED BY <1>1, <2>2 DEF Slot!Next, Slot!Succeed
<1> QED BY <1>1, <1>3, <1>4

(* The constructor returns or throws.                                      *)
LEMMA CtorReturnsSlot ==
  ASSUME LInv, CtorReturns
  PROVE  [Slot!Next]_(Slot!vars)
<1>1. /\ pc = "ctor" /\ pc' = "user" /\ UNCHANGED <<status, cur, g_node, stage>>
      /\ \/ stage[cur] = "ok" /\ object' = object \cup {cur}
         \/ stage[cur] # "ok" /\ object' = object
  BY DEF CtorReturns, startVars
<1>2. cur \in Start
  BY <1>1 DEF LInv, WayInv
<1>3. CASE stage[cur] = "ok" /\ object' = object \cup {cur}
  <2>1. g_node = cur /\ cur # 0 /\ cur \notin object /\ Expected(cur)
    BY <1>1, <1>2, <1>3, ClaimHolds DEF Claims, Expected, LInv, ObjectInv
  <2>2. PICK j \in Start : j = cur
    BY <1>2
  <2>3. SlotPhase = "starting" /\ SlotPhase' = "up"
    BY <1>1, <1>3, <2>1, <2>2, PhaseNow, PhaseNext
  <2> QED BY <1>1, <2>3 DEF Slot!Next, Slot!Succeed
<1>4. CASE stage[cur] # "ok" /\ object' = object
  <2>1. ASSUME NEW j \in Start PROVE Expected(j)' <=> Expected(j)
    BY <1>1, <1>4 DEF Expected, Running
  <2> QED BY <1>1, <1>4, <2>1, PhaseKept
<1> QED BY <1>1, <1>3, <1>4

(* The user drops its node.                                                *)
LEMMA MoveAssignSlot ==
  ASSUME LInv, NEW i \in Start, MoveAssign(i)
  PROVE  [Slot!Next]_(Slot!vars)
<1>1. /\ pc = "user" /\ i \in object /\ object' = object \ {i}
      /\ UNCHANGED <<status, pc, cur, g_node, stage>>
  BY DEF MoveAssign, startVars
<1>2. /\ g_node = i /\ i # 0 /\ stage[i] = "ok" /\ status[i] \in {"idle", "completed"}
  BY <1>1, ClaimHolds DEF Claims, LInv, ObjectInv
<1>3. ~Expected(i)'
  BY <1>1, <1>2 DEF Expected, Running
<1>4. SlotPhase = "up" /\ SlotPhase' = "lost"
  BY <1>1, <1>2, <1>3, PhaseNow, PhaseNext
<1> QED BY <1>1, <1>4 DEF Slot!Next, Slot!Drop

(* free().                                                                 *)
LEMMA FreeSlot ==
  ASSUME LInv, ResetInv, GoFree \/ GoClose \/ Reset \/ \E i \in Start : Free(i)
  PROVE  [Slot!Next]_(Slot!vars)
<1>1. CASE GoFree \/ \E i \in Start : Free(i)
  <2>1. /\ UNCHANGED <<object, status, g_node, stage>>
        /\ pc \in {"user", "free"} /\ pc' \in {"free", "close", "assert"}
    BY <1>1 DEF GoFree, Free, startVars
  <2>2. ASSUME NEW j \in Start PROVE Expected(j)' <=> Expected(j)
    BY <2>1 DEF Expected, Running
  <2> QED BY <2>1, <2>2, PhaseKept
<1>2. CASE GoClose
  <2>1. pc = "close" /\ g_node' = 0
    BY <1>2 DEF GoClose
  <2>2. g_node # 0 /\ g_node \in object
    BY <2>1, FreeFacts
  <2>3. SlotPhase = "up" /\ SlotPhase' = "free"
    BY <2>1, <2>2 DEF SlotPhase, InHands
  <2> QED BY <2>1, <2>3 DEF Slot!Next, Slot!Destroy
<1>3. CASE Reset
  <2>1. g_node = 0 /\ g_node' = 0
    BY <1>3 DEF Reset, ResetInv
  <2> QED BY <2>1 DEF SlotPhase, Slot!vars
<1> QED BY <1>1, <1>2, <1>3

(* start_node goes on, succeeds or fails.                                  *)
LEMMA StartSlot ==
  ASSUME LInv, NEW i \in Start, StartStep(i) \/ StartFails(i)
  PROVE  [Slot!Next]_(Slot!vars)
<1>1. /\ Running(i) /\ UNCHANGED <<object, status, pc, cur, g_node>>
      /\ \E to : stage' = [stage EXCEPT ![i] = to]
  BY DEF StartStep, StartFails, CanFail, ParseConfig, InjectMetrics, BuildEnv, OpenRepo, NewNode,
         StartPlugins, MaybeServe, RegisterCollector, StartMonitor, Advance, Running, cppVars
<1>2. g_node = i /\ i # 0 /\ i \notin object /\ Expected(i)
  BY <1>1, ClaimHolds DEF Claims, Expected, Running, LInv, ObjectInv
<1>3. SlotPhase = "starting" /\ SlotPhase' \in {"starting", "lost"}
  BY <1>1, <1>2, PhaseNow, PhaseNext
<1> QED BY <1>1, <1>3 DEF Slot!Next, Slot!Fail, Slot!vars

LEMMA NextSlot ==
  ASSUME LInv, ResetInv, [Next]_vars
  PROVE  [Slot!Next]_(Slot!vars)
<1>1. ASSUME NEW i \in Start, NEW services \in Configs, Ctor(i, services) \/ Build(i, services)
      PROVE  [Slot!Next]_(Slot!vars)
  <2>1. services \in SUBSET Services
    OBVIOUS
  <2> QED BY <1>1, <2>1, NewSlot
<1>2. CASE UNCHANGED <<object, status, pc, cur, g_node, stage>>
  <2>1. ASSUME NEW j \in Start PROVE Expected(j)' <=> Expected(j)
    BY <1>2 DEF Expected, Running
  <2> QED BY <1>2, <2>1, PhaseKept
<1>3. ASSUME NEW i \in Start,
             \/ BuildThrows(i)
             \/ MonitorLaunches(i) \/ PeersChange(i) \/ ServiceError(i) \/ MonitorStops(i)
      PROVE  [Slot!Next]_(Slot!vars)
  BY <1>2, <1>3 DEF BuildThrows, MonitorLaunches, PeersChange, ServiceError, MonitorStops, cppVars,
                    startVars
<1>4. CASE Terminated \/ UNCHANGED vars
  BY <1>2, <1>4 DEF Terminated, vars, cppVars, startVars
<1> QED BY <1>1, <1>3, <1>4, CancelSlot, DoneSlot, CtorReturnsSlot, MoveAssignSlot, FreeSlot,
           StartSlot DEF Next

(* The life cycle implements NodeSlot, for any number of starts.           *)
THEOREM SlotRefined == Spec => SlotAsPromisedSafety
<1>1. Init => Slot!Init
  BY DEF Init, Slot!Init, SlotPhase
<1> QED BY <1>1, NextSlot, LifecycleInductive, ResetInductive, PTL
        DEF Spec, SlotAsPromisedSafety, Slot!Safety

-----------------------------------------------------------------------------
(* The reports of a start.                                                 *)

(* A step that leaves alone what a start's monitor has said.               *)
LEMMA MonitorInvKept ==
  ASSUME NEW i \in Start, MonitorInvOf(i), monitor'[i] = monitor[i], report'[i] = report[i],
         i \in lasterr' <=> i \in lasterr, stage'[i] = stage[i] \/ stage[i] # "ok"
  PROVE  MonitorInvOf(i)'
  BY DEF MonitorInvOf

(* Steps of start_node: the monitor is launched last, and once.            *)
LEMMA StartMonitorInv ==
  ASSUME LInv, MonitorInv, NEW k \in Start, StartStep(k) \/ StartFails(k), NEW i \in Start
  PROVE  MonitorInvOf(i)'
<1>1. MonitorInvOf(i)
  BY DEF MonitorInv
<1>2. stage \in [Start -> Stage] /\ monitor \in [Start -> {"none", "launched", "running", "stopped"}]
  BY DEF LInv, TypeOK
<1>3. /\ lasterr' = lasterr /\ report' = report /\ Running(k)
      /\ \E to : stage' = [stage EXCEPT ![k] = to]
  BY DEF StartStep, StartFails, CanFail, ParseConfig, InjectMetrics, BuildEnv, OpenRepo, NewNode,
         StartPlugins, MaybeServe, RegisterCollector, StartMonitor, Advance, Running
<1>4. stage[k] # "ok"
  BY <1>3 DEF Running
<1>5. stage'[i] = stage[i] \/ stage[i] # "ok"
  BY <1>2, <1>3, <1>4
<1>6. CASE monitor' = monitor
  BY <1>1, <1>3, <1>5, <1>6, MonitorInvKept
<1>7. CASE StartMonitor(k)
  <2>1. CASE i = k
    <3>1. stage'[k] = "ok" /\ monitor'[k] \in {monitor[k], "launched"} /\ monitor[k] = "none"
      BY <1>1, <1>2, <1>4, <1>7, <2>1 DEF StartMonitor, Advance, MonitorInvOf
    <3> QED BY <1>1, <1>3, <2>1, <3>1 DEF MonitorInvOf
  <2>2. CASE i # k
    <3>1. monitor'[i] = monitor[i]
      BY <1>2, <1>7, <2>2 DEF StartMonitor
    <3> QED BY <1>1, <1>3, <1>5, <3>1, MonitorInvKept
  <2> QED BY <2>1, <2>2
<1> QED BY <1>6, <1>7
        DEF StartStep, StartFails, ParseConfig, InjectMetrics, BuildEnv, OpenRepo, NewNode,
            StartPlugins, MaybeServe, RegisterCollector

(* Steps of the monitor itself.                                            *)
LEMMA ReportMonitorInv ==
  ASSUME LInv, MonitorInv, NEW k \in Start, NEW i \in Start,
         MonitorLaunches(k) \/ PeersChange(k) \/ ServiceError(k) \/ MonitorStops(k)
  PROVE  MonitorInvOf(i)'
<1>1. MonitorInvOf(i)
  BY DEF MonitorInv
<1>2. /\ monitor \in [Start -> {"none", "launched", "running", "stopped"}]
      /\ report \in [Start -> {"none", "peers", "down", "error"}]
  BY DEF LInv, TypeOK
<1>3. stage' = stage
  BY DEF MonitorLaunches, PeersChange, ServiceError, MonitorStops, startVars
<1>4. CASE i # k
  <2>1. /\ monitor'[i] = monitor[i] /\ report'[i] = report[i]
        /\ i \in lasterr' <=> i \in lasterr
    BY <1>2, <1>4 DEF MonitorLaunches, PeersChange, ServiceError, MonitorStops, StateCB
  <2> QED BY <1>1, <1>3, <2>1, MonitorInvKept
<1>5. CASE i = k
  <2>1. CASE MonitorLaunches(k)
    BY <1>1, <1>2, <1>3, <1>5, <2>1 DEF MonitorLaunches, StateCB, MonitorInvOf
  <2>2. CASE PeersChange(k)
    BY <1>1, <1>2, <1>3, <1>5, <2>2 DEF PeersChange, StateCB, MonitorInvOf
  <2>3. CASE ServiceError(k)
    BY <1>1, <1>2, <1>3, <1>5, <2>3 DEF ServiceError, MonitorInvOf
  <2>4. CASE MonitorStops(k)
    BY <1>1, <1>2, <1>3, <1>5, <2>4 DEF MonitorStops, StateCB, FinalReport, MonitorInvOf
  <2> QED BY <2>1, <2>2, <2>3, <2>4
<1> QED BY <1>4, <1>5

(* What neither start_node nor a monitor does leaves the reports alone;    *)
(* only a new start changes a stage, and that start is not yet "ok".       *)
LEMMA OtherMonitorInv ==
  ASSUME LInv, NEW i \in Start, monitorVars' = monitorVars,
         \/ stage' = stage
         \/ \E k \in Start, services \in SUBSET Services : Ctor(k, services) \/ Build(k, services),
         MonitorInvOf(i)
  PROVE  MonitorInvOf(i)'
<1>1. monitor' = monitor /\ report' = report /\ lasterr' = lasterr
  BY DEF monitorVars
<1>2. CASE stage' = stage
  BY <1>1, <1>2, MonitorInvKept
<1>3. ASSUME NEW k \in Start, NEW services \in SUBSET Services, Ctor(k, services) \/ Build(k, services)
      PROVE  MonitorInvOf(i)'
  <2>1. NewStart(k, "ctor", services) \/ NewStart(k, "build", services)
    BY <1>3 DEF Ctor, Build
  <2>2. stage[k] = "none"
    BY <2>1, NewStartFacts
  <2>3. stage \in [Start -> Stage] /\ \E to : stage' = [stage EXCEPT ![k] = to]
    BY <1>3 DEF Ctor, Build, AllocateNode, LInv, TypeOK
  <2>4. stage'[i] = stage[i] \/ stage[i] # "ok"
    BY <2>2, <2>3
  <2> QED BY <1>1, <2>4, MonitorInvKept
<1> QED BY <1>2, <1>3

(* The steps that neither start_node nor a monitor takes.                  *)
LEMMA OtherSteps ==
  ASSUME [Next]_vars
  PROVE  \/ \E k \in Start : StartStep(k) \/ StartFails(k)
         \/ \E k \in Start : MonitorLaunches(k) \/ PeersChange(k) \/ ServiceError(k) \/ MonitorStops(k)
         \/ /\ monitorVars' = monitorVars
            /\ ctx' = ctx \/ GoFree
            /\ \/ stage' = stage
               \/ \E k \in Start, services \in SUBSET Services : Ctor(k, services) \/ Build(k, services)
<1>1. ASSUME NEW k \in Start, NEW services \in Configs, Ctor(k, services) \/ Build(k, services)
      PROVE  monitorVars' = monitorVars /\ ctx' = ctx /\ services \in SUBSET Services
  BY <1>1 DEF Ctor, Build
<1>2. ASSUME NEW k \in Start,
             \/ BuildThrows(k) \/ BuildCancel(k) \/ BuildAborts(k) \/ BuildCompletes(k)
             \/ MoveAssign(k) \/ Free(k)
      PROVE  monitorVars' = monitorVars /\ ctx' = ctx /\ stage' = stage
  BY <1>2 DEF BuildThrows, BuildCancel, BuildAborts, BuildCompletes, MoveAssign, Free, startVars
<1>3. CASE CtorReturns \/ GoClose \/ Reset
  BY <1>3 DEF CtorReturns, GoClose, Reset, startVars
<1>4. CASE GoFree
  BY <1>4 DEF GoFree, startVars
<1>5. CASE Terminated \/ UNCHANGED vars
  BY <1>5 DEF Terminated, vars, startVars
<1> QED BY <1>1, <1>2, <1>3, <1>4, <1>5 DEF Next

LEMMA NextMonitorInv == LInv /\ MonitorInv /\ [Next]_vars => MonitorInv'
<1> SUFFICES ASSUME LInv, MonitorInv, [Next]_vars, NEW i \in Start PROVE MonitorInvOf(i)'
  BY DEF MonitorInv
<1>1. MonitorInvOf(i)
  BY DEF MonitorInv
<1> QED BY <1>1, OtherSteps, StartMonitorInv, ReportMonitorInv, OtherMonitorInv

(* The monitor of a start says nothing before it runs, only "up" while it  *)
(* does, and stops with its one last report.                               *)
THEOREM StartMonitorInductive == Spec => []MonitorInv
<1>1. Init => MonitorInv
  BY DEF Init, MonitorInv, MonitorInvOf
<1> QED BY <1>1, NextMonitorInv, LifecycleInductive, PTL DEF Spec

(* A step of the monitor of start k, as the user of start i sees it.       *)
LEMMA MonitorReports ==
  ASSUME LInv, MonitorInv, NEW k \in Start, NEW i \in Start,
         MonitorLaunches(k) \/ PeersChange(k) \/ ServiceError(k) \/ MonitorStops(k)
  PROVE  [Reports(i)!Next]_(Reports(i)!vars)
<1>1. report \in [Start -> {"none", "peers", "down", "error"}]
  BY DEF LInv, TypeOK
<1>2. MonitorInvOf(k)
  BY DEF MonitorInv
<1>3. CASE i # k
  <2>1. /\ report'[i] = report[i]
        /\ (i \in lasterr') = (i \in lasterr)
        /\ (i \in ctx') = (i \in ctx)
    BY <1>1, <1>3 DEF MonitorLaunches, PeersChange, ServiceError, MonitorStops, StateCB
  <2> QED BY <2>1 DEF Reports!vars, Told
<1>4. CASE i = k
  <2>1. CASE MonitorLaunches(k) \/ PeersChange(k)
    <3>1. /\ report[k] \in {"none", "peers"} /\ report'[k] = "peers"
          /\ lasterr' = lasterr /\ ctx' = ctx
      BY <1>1, <1>2, <2>1 DEF MonitorLaunches, PeersChange, StateCB, MonitorInvOf
    <3> QED BY <1>4, <3>1 DEF Reports!Next, Reports!Up, Told
  <2>2. CASE ServiceError(k)
    <3>1. /\ report[k] = "peers" /\ report' = report
          /\ k \in lasterr' /\ k \in ctx'
      BY <1>2, <2>2 DEF ServiceError, MonitorInvOf
    <3> QED BY <1>4, <3>1 DEF Reports!Next, Reports!Fail, Told
  <2>3. CASE MonitorStops(k)
    <3>1. /\ report[k] = "peers" /\ k \in ctx
          /\ report'[k] = IF k \in lasterr THEN "error" ELSE "down"
          /\ lasterr' = lasterr /\ ctx' = ctx
      BY <1>1, <1>2, <2>3 DEF MonitorStops, StateCB, FinalReport, MonitorInvOf
    <3> QED BY <1>4, <3>1 DEF Reports!Next, Reports!Last, Told
  <2> QED BY <2>1, <2>2, <2>3
<1> QED BY <1>3, <1>4

(* Nothing else reports; go_asio_ipfs_free cancels one node.               *)
LEMMA OtherReports ==
  ASSUME NEW i \in Start, report' = report, lasterr' = lasterr, ctx' = ctx \/ GoFree
  PROVE  [Reports(i)!Next]_(Reports(i)!vars)
<1>1. Told(i)' = Told(i)
  BY DEF Told
<1>2. CASE (i \in ctx') = (i \in ctx)
  BY <1>1, <1>2 DEF Reports!vars
<1>3. CASE (i \in ctx') # (i \in ctx)
  <2>1. i \in ctx'
    BY <1>3 DEF GoFree
  <2> QED BY <1>1, <2>1 DEF Reports!Next, Reports!Cancel
<1> QED BY <1>2, <1>3

(* The callbacks of every start are those StateReports allows, whatever    *)
(* becomes of the node while its monitor runs: nothing after the last      *)
(* report, and an error reported exactly if a service failed.              *)
THEOREM StartReports == Spec => ReportsAsPromisedSafety
<1> SUFFICES ASSUME NEW i \in Start PROVE Spec => Reports(i)!Safety
  BY DEF ReportsAsPromisedSafety
<1>1. Init => Reports(i)!Init
  BY DEF Init, Reports!Init, Told
<1>2. LInv /\ MonitorInv /\ [Next]_vars => [Reports(i)!Next]_(Reports(i)!vars)
  <2> SUFFICES ASSUME LInv, MonitorInv, [Next]_vars PROVE [Reports(i)!Next]_(Reports(i)!vars)
    OBVIOUS
  <2>1. ASSUME NEW k \in Start, StartStep(k) \/ StartFails(k)
        PROVE  report' = report /\ lasterr' = lasterr /\ ctx' = ctx
    BY <2>1 DEF StartStep, StartFails, ParseConfig, InjectMetrics, BuildEnv, OpenRepo, NewNode,
                StartPlugins, MaybeServe, RegisterCollector, StartMonitor, Advance
  <2>2. monitorVars' = monitorVars => report' = report /\ lasterr' = lasterr
    BY DEF monitorVars
  <2> QED BY <2>1, <2>2, OtherSteps, MonitorReports, OtherReports
<1> QED BY <1>1, <1>2, LifecycleInductive, StartMonitorInductive, PTL DEF Spec, Reports!Safety
=============================================================================
