-------------------------- MODULE LifecycleProofs --------------------------
(***************************************************************************)
(* Proofs about NodeLifecycle, for every number of starts and every set of *)
(* configurations.                                                         *)
(***************************************************************************)
EXTENDS NodeLifecycle, TLAPS

USE NodeLifecycleAssumption

(* The invariant holds initially.                                          *)
LEMMA InitLInv == Init => LInv
<1> SUFFICES ASSUME Init PROVE LInv
  OBVIOUS
<1> USE DEF Init
<1>1. TypeOK
  BY DEF TypeOK, Stage, Start
<1>2. WayInv
  BY DEF WayInv, Start
<1>3. ClaimInv
  BY DEF ClaimInv, Claims, Running, Start
<1>4. ObjectInv /\ CollectorInv
  BY DEF ObjectInv, CollectorInv
<1>5. ImplOwned
  BY DEF ImplOwned, Constructing, Building, Threw
<1> QED BY <1>1, <1>2, <1>3, <1>4, <1>5 DEF LInv

(* The state monitor, and a stuttering step, change nothing the invariant  *)
(* depends on but the types.                                               *)
LEMMA FrameLInv ==
  ASSUME LInv, TypeOK', UNCHANGED <<cppVars, g_node, startVars>>
  PROVE  LInv'
<1> USE DEF cppVars, startVars
<1>1. WayInv' /\ ObjectInv' /\ CollectorInv'
  BY DEF LInv, WayInv, ObjectInv, CollectorInv
<1>2. ClaimInv'
  BY DEF LInv, ClaimInv, Claims, Running
<1>3. ImplOwned'
  BY DEF LInv, ImplOwned, Constructing, Building, Threw
<1> QED BY <1>1, <1>2, <1>3 DEF LInv

(* The steps of the state monitor.                                         *)
LEMMA MonitorLInv ==
  ASSUME LInv, NEW i \in Start,
         MonitorLaunches(i) \/ PeersChange(i) \/ ServiceError(i) \/ MonitorStops(i)
  PROVE  LInv'
<1>1. UNCHANGED <<cppVars, g_node, startVars>>
  BY DEF MonitorLaunches, PeersChange, ServiceError, MonitorStops
<1>2. /\ monitor' = monitor \/ \E m \in {"running", "stopped"} : monitor' = [monitor EXCEPT ![i] = m]
      /\ report' = report \/ \E r \in {"peers", "down", "error"} : report' = [report EXCEPT ![i] = r]
      /\ ctx' = ctx \/ ctx' = ctx \cup {i}
      /\ lasterr' = lasterr \/ lasterr' = lasterr \cup {i}
      /\ wild' = wild \/ wild' = wild \cup {i}
  BY DEF MonitorLaunches, PeersChange, ServiceError, MonitorStops, StateCB, FinalReport
<1>3. /\ monitor \in [Start -> {"none", "launched", "running", "stopped"}]
      /\ report \in [Start -> {"none", "peers", "down", "error"}]
      /\ ctx \subseteq Start /\ lasterr \subseteq Start /\ wild \subseteq Start
  BY DEF LInv, TypeOK
<1>4. monitor' \in [Start -> {"none", "launched", "running", "stopped"}]
  BY ONLY <1>2, <1>3
<1>5. report' \in [Start -> {"none", "peers", "down", "error"}]
  BY ONLY <1>2, <1>3
<1>6. ctx' \subseteq Start /\ lasterr' \subseteq Start /\ wild' \subseteq Start
  BY ONLY <1>2, <1>3, i \in Start
<1>7. TypeOK'
  BY <1>1, <1>4, <1>5, <1>6 DEF LInv, TypeOK, cppVars, startVars
<1> QED BY <1>1, <1>7, FrameLInv

(* A stuttering step.                                                      *)
LEMMA StutterLInv == LInv /\ UNCHANGED vars => LInv'
<1> SUFFICES ASSUME LInv, UNCHANGED vars PROVE LInv'
  OBVIOUS
<1>1. TypeOK'
  BY DEF LInv, TypeOK, vars, cppVars, startVars, monitorVars
<1> QED BY <1>1, FrameLInv DEF vars

-----------------------------------------------------------------------------
(* The steps of start_node.                                                *)

(* start_node runs for g_node only, gets from stage to stage, registers    *)
(* the collector on its way to "coreapi" and makes the core node on its    *)
(* way to "plugins".                                                       *)
LEMMA AdvanceLInv ==
  ASSUME LInv, NEW i \in Start, NEW from \in Stage, NEW to \in Stage,
         Advance(i, from, to), TypeOK',
         from \notin {"none", "ok", "failed", "exists"}, to \notin {"none", "exists"},
         \/ core' = core /\ from \in {"plugins", "gc", "api", "gateway", "metrics", "coreapi"}
         \/ core' = core /\ to \in {"config", "mprome", "env", "repo", "core", "failed"}
         \/ core' = core \cup {i},
         \/ registered' = registered /\ (from = "coreapi" => to \in {"ok", "failed"})
         \/ registered' = registered \cup {i} /\ to = "coreapi"
  PROVE  LInv'
<1>1. /\ stage \in [Start -> Stage] /\ stage[i] = from
      /\ stage' = [stage EXCEPT ![i] = to]
      /\ UNCHANGED <<cppVars, g_node>>
  BY DEF LInv, TypeOK, Advance
<1>2. stage'[i] = to /\ \A k \in Start : k # i => stage'[k] = stage[k]
  BY ONLY <1>1, i \in Start
<1>3. Running(i) /\ g_node = i
  BY <1>1 DEF LInv, ClaimInv, Claims, Running
<1>4. WayInv'
  BY <1>1, <1>2 DEF LInv, WayInv, cppVars
<1>5. ClaimInv'
  <2>1. ASSUME NEW k \in Start, Claims(k)' PROVE g_node' = k
    <3>1. CASE k = i
      BY <1>1, <1>3, <3>1 DEF cppVars
    <3>2. CASE k # i
      BY <1>1, <1>2, <2>1, <3>2 DEF LInv, ClaimInv, Claims, Running, cppVars
    <3> QED BY <3>1, <3>2
  <2>2. ASSUME NEW k \in Start, g_node' = k,
               stage'[k] \in {"plugins", "gc", "api", "gateway", "metrics", "coreapi", "ok"}
        PROVE  k \in core'
    <3>1. k = i
      BY <1>1, <1>3, <2>2
    <3> QED BY <1>1, <1>2, <1>3, <2>2, <3>1 DEF LInv, ClaimInv
  <2> QED BY <2>1, <2>2 DEF ClaimInv
<1>6. ObjectInv'
  <2>1. i \notin object
    BY <1>1 DEF LInv, ObjectInv
  <2>2. \A k \in object : k \in Start
    BY DEF LInv, TypeOK
  <2> QED BY <1>1, <1>2, <2>1, <2>2 DEF LInv, ObjectInv, cppVars
<1>7. CollectorInv'
  <2>1. ASSUME NEW k \in registered'
        PROVE  g_node' = k /\ stage'[k] \in {"coreapi", "ok", "failed"}
    <3>1. k = i
      BY <1>1, <1>3, <2>1 DEF LInv, CollectorInv
    <3>2. CASE k \in registered /\ registered' = registered
      BY <1>1, <1>2, <1>3, <3>1, <3>2 DEF LInv, CollectorInv
    <3>3. CASE to = "coreapi"
      BY <1>1, <1>2, <1>3, <3>1, <3>3
    <3> QED BY <1>1, <2>1, <3>1, <3>2, <3>3 DEF LInv, CollectorInv
  <2> QED BY <2>1 DEF CollectorInv
<1>8. ImplOwned'
  BY <1>1 DEF LInv, ImplOwned, Constructing, Building, Threw, cppVars
<1> QED BY <1>4, <1>5, <1>6, <1>7, <1>8 DEF LInv

(* Advance with what start_node's steps do to the other variables keeps    *)
(* the types.                                                              *)
LEMMA AdvanceType ==
  ASSUME TypeOK, NEW i \in Start, NEW from, NEW to \in Stage, Advance(i, from, to),
         flags' \subseteq {"mprome", "plugins", "metrics"},
         core' = core \/ core' = core \cup {i},
         registered' = registered \/ registered' = registered \cup {i},
         \/ serving' = serving
         \/ \E S \in SUBSET Services : serving' = [serving EXCEPT ![i] = @ \cup S],
         monitor' = monitor \/ monitor' = [monitor EXCEPT ![i] = "launched"]
  PROVE  TypeOK'
<1>1. /\ stage \in [Start -> Stage] /\ stage' = [stage EXCEPT ![i] = to]
      /\ serving \in [Start -> SUBSET Services]
      /\ monitor \in [Start -> {"none", "launched", "running", "stopped"}]
      /\ core \subseteq Start /\ registered \subseteq Start
      /\ UNCHANGED <<starts, way, impl, object, status, pc, cur, g_node, config, ctx,
                     lasterr, report, wild>>
  BY DEF TypeOK, Advance, cppVars
<1>2. stage' \in [Start -> Stage]
  BY ONLY <1>1, i \in Start, to \in Stage
<1>3. serving' \in [Start -> SUBSET Services]
  <2>1. CASE serving' = serving
    BY <1>1, <2>1
  <2>2. CASE \E S \in SUBSET Services : serving' = [serving EXCEPT ![i] = @ \cup S]
    <3>1. PICK S \in SUBSET Services : serving' = [serving EXCEPT ![i] = serving[i] \cup S]
      BY <2>2
    <3>2. serving[i] \cup S \in SUBSET Services
      BY <1>1
    <3> QED BY ONLY <1>1, <3>1, <3>2, i \in Start
  <2> QED BY <2>1, <2>2
<1>4. monitor' \in [Start -> {"none", "launched", "running", "stopped"}]
  BY <1>1
<1>5. core' \subseteq Start /\ registered' \subseteq Start
  BY <1>1
<1> QED BY <1>1, <1>2, <1>3, <1>4, <1>5 DEF TypeOK

(* Every step of start_node, and its failure wherever it can fail.         *)
LEMMA StartLInv ==
  ASSUME LInv, NEW i \in Start, StartStep(i) \/ StartFails(i)
  PROVE  LInv'
<1>1. TypeOK /\ flags \subseteq {"mprome", "plugins", "metrics"}
  BY DEF LInv, TypeOK
<1> USE DEF Stage
<1>2. CASE ParseConfig(i)
  <2>1. TypeOK'
    BY <1>1, <1>2, AdvanceType DEF ParseConfig
  <2> QED BY <1>2, <2>1, AdvanceLInv DEF ParseConfig
<1>3. CASE InjectMetrics(i)
  <2>1. TypeOK'
    BY <1>1, <1>3, AdvanceType DEF InjectMetrics
  <2> QED BY <1>3, <2>1, AdvanceLInv DEF InjectMetrics
<1>4. CASE BuildEnv(i)
  <2>1. TypeOK'
    BY <1>1, <1>4, AdvanceType DEF BuildEnv
  <2> QED BY <1>4, <2>1, AdvanceLInv DEF BuildEnv
<1>5. CASE OpenRepo(i)
  <2>1. TypeOK'
    BY <1>1, <1>5, AdvanceType DEF OpenRepo
  <2> QED BY <1>5, <2>1, AdvanceLInv DEF OpenRepo
<1>6. CASE NewNode(i)
  <2>1. TypeOK'
    BY <1>1, <1>6, AdvanceType DEF NewNode
  <2> QED BY <1>6, <2>1, AdvanceLInv DEF NewNode
<1>7. CASE StartPlugins(i)
  <2>1. TypeOK'
    BY <1>1, <1>7, AdvanceType DEF StartPlugins
  <2> QED BY <1>7, <2>1, AdvanceLInv DEF StartPlugins
<1>8. ASSUME NEW s \in {"gc", "api", "gateway"}, NEW next \in {"api", "gateway", "metrics"},
             MaybeServe(i, s, next)
      PROVE  LInv'
  <2>1. config[i] \cap {s} \in SUBSET Services
    BY <1>8 DEF Services
  <2>2. TypeOK'
    BY <1>1, <1>8, <2>1, AdvanceType DEF MaybeServe
  <2> QED BY <1>8, <2>2, AdvanceLInv DEF MaybeServe
<1>9. CASE RegisterCollector(i)
  <2>1. TypeOK'
    BY <1>1, <1>9, AdvanceType DEF RegisterCollector
  <2> QED BY <1>9, <2>1, AdvanceLInv DEF RegisterCollector
<1>10. CASE StartMonitor(i)
  <2>1. TypeOK'
    BY <1>1, <1>10, AdvanceType DEF StartMonitor
  <2> QED BY <1>10, <2>1, AdvanceLInv DEF StartMonitor
<1>11. CASE StartFails(i)
  <2>1. TypeOK'
    BY <1>1, <1>11, AdvanceType DEF StartFails
  <2>2. stage[i] \in Stage \ {"none", "ok", "failed", "exists"}
    BY <1>1, <1>11 DEF StartFails, CanFail, TypeOK
  <2> QED BY <1>11, <2>1, <2>2, AdvanceLInv DEF StartFails
<1> QED BY <1>2, <1>3, <1>4, <1>5, <1>6, <1>7, <1>8, <1>9, <1>10, <1>11 DEF StartStep

-----------------------------------------------------------------------------
(* A new start.                                                            *)

(* The number of a new start is fresh: nothing is known of it yet, and the *)
(* other starts are not touched.                                           *)
LEMMA NewStartFacts ==
  ASSUME LInv, NEW i \in Start, NEW w \in {"ctor", "build", "threw"},
         NEW services \in SUBSET Services, NewStart(i, w, services)
  PROVE  /\ starts' \in 0 .. MaxStart /\ starts' = i
         /\ way[i] = "none" /\ status[i] = "idle" /\ stage[i] = "none" /\ i \notin object
         /\ way' \in [Start -> {"none", "ctor", "build", "threw"}]
         /\ way'[i] = w /\ \A k \in Start : k # i => way'[k] = way[k]
         /\ \A k \in Start : k > i <=> k > starts /\ k # i
         /\ config' \in [Start -> SUBSET Services]
         /\ impl' = impl \cup {i} /\ pc = "user"
<1>1. /\ starts \in 0 .. MaxStart
      /\ way \in [Start -> {"none", "ctor", "build", "threw"}]
      /\ config \in [Start -> SUBSET Services]
      /\ i = starts + 1 /\ starts' = i /\ pc = "user" /\ impl' = impl \cup {i}
      /\ way' = [way EXCEPT ![i] = w] /\ config' = [config EXCEPT ![i] = services]
  BY DEF LInv, TypeOK, NewStart
<1>2. starts' \in 0 .. MaxStart /\ \A k \in Start : k > i <=> k > starts /\ k # i
  BY <1>1 DEF Start
<1>3. way[i] = "none"
  BY <1>1 DEF LInv, WayInv, Start
<1>4. status[i] = "idle" /\ stage[i] = "none"
  BY <1>3 DEF LInv, WayInv
<1>5. i \notin object
  BY <1>4 DEF LInv, ObjectInv
<1>6. way' \in [Start -> {"none", "ctor", "build", "threw"}]
  BY ONLY <1>1, i \in Start, w \in {"ctor", "build", "threw"}
<1>7. way'[i] = w /\ \A k \in Start : k # i => way'[k] = way[k]
  BY ONLY <1>1, i \in Start
<1>8. config' \in [Start -> SUBSET Services]
  BY ONLY <1>1, i \in Start, services \in SUBSET Services
<1> QED BY <1>1, <1>2, <1>3, <1>4, <1>5, <1>6, <1>7, <1>8

(* While there is no node, nobody claims to be it.                         *)
LEMMA NoNode ==
  ASSUME LInv, g_node = 0
  PROVE  registered = {} /\ \A k \in Start : ~Claims(k)
  BY DEF LInv, ClaimInv, CollectorInv, TypeOK, Start

(* What allocate_node does for a fresh start.                              *)
LEMMA AllocateFacts ==
  ASSUME LInv, NEW i \in Start, stage[i] = "none", AllocateNode(i)
  PROVE  /\ g_node' \in 0 .. MaxStart
         /\ stage' \in [Start -> Stage]
         /\ \A k \in Start : k # i => stage'[k] = stage[k]
         /\ stage'[i] \in {"config", "exists"}
         /\ stage'[i] = "config" => g_node = 0 /\ g_node' = i
         /\ stage'[i] = "exists" => g_node' = g_node
<1>1. stage \in [Start -> Stage] /\ g_node \in 0 .. MaxStart
  BY DEF LInv, TypeOK
<1>2. CASE g_node = 0
  <2>1. g_node' = i /\ stage' = [stage EXCEPT ![i] = "config"]
    BY <1>2 DEF AllocateNode
  <2>2. stage' \in [Start -> Stage]
    BY ONLY <1>1, <2>1, i \in Start DEF Stage
  <2>3. stage'[i] = "config" /\ \A k \in Start : k # i => stage'[k] = stage[k]
    BY ONLY <1>1, <2>1, i \in Start
  <2>4. g_node' \in 0 .. MaxStart
    BY <2>1 DEF Start
  <2> QED BY <1>2, <2>1, <2>2, <2>3, <2>4
<1>3. CASE g_node # 0
  <2>1. g_node' = g_node /\ stage' = [stage EXCEPT ![i] = "exists"]
    BY <1>3 DEF AllocateNode
  <2>2. stage' \in [Start -> Stage]
    BY ONLY <1>1, <2>1, i \in Start DEF Stage
  <2>3. stage'[i] = "exists" /\ \A k \in Start : k # i => stage'[k] = stage[k]
    BY ONLY <1>1, <2>1, i \in Start
  <2> QED BY <1>1, <2>1, <2>2, <2>3
<1> QED BY <1>2, <1>3

(* node::node.                                                             *)
LEMMA CtorLInv ==
  ASSUME LInv, NEW i \in Start, NEW services \in SUBSET Services, Ctor(i, services)
  PROVE  LInv'
<1>1. NewStart(i, "ctor", services)
  BY DEF Ctor
<1>2. /\ starts' \in 0 .. MaxStart /\ starts' = i
      /\ way[i] = "none" /\ status[i] = "idle" /\ stage[i] = "none" /\ i \notin object
      /\ way' \in [Start -> {"none", "ctor", "build", "threw"}]
      /\ way'[i] = "ctor" /\ \A k \in Start : k # i => way'[k] = way[k]
      /\ \A k \in Start : k > i <=> k > starts /\ k # i
      /\ config' \in [Start -> SUBSET Services]
      /\ impl' = impl \cup {i} /\ pc = "user"
  BY <1>1, NewStartFacts
<1>3. /\ AllocateNode(i)
      /\ UNCHANGED <<object, status, flags, core, registered, serving, ctx, monitorVars>>
      /\ pc' = "ctor" /\ cur' = i
  BY DEF Ctor
<1>4. /\ g_node' \in 0 .. MaxStart
      /\ stage' \in [Start -> Stage]
      /\ \A k \in Start : k # i => stage'[k] = stage[k]
      /\ stage'[i] \in {"config", "exists"}
      /\ stage'[i] = "config" => g_node = 0 /\ g_node' = i
      /\ stage'[i] = "exists" => g_node' = g_node
  BY <1>2, <1>3, AllocateFacts
<1>5. TypeOK'
  <2>1. cur' \in 0 .. MaxStart /\ impl' \subseteq Start
    BY <1>2, <1>3 DEF LInv, TypeOK, Start
  <2> QED BY <1>2, <1>3, <1>4, <2>1 DEF LInv, TypeOK, monitorVars
<1>6. WayInv'
  BY <1>2, <1>3, <1>4 DEF LInv, WayInv
<1>7. ClaimInv'
  <2>1. ASSUME NEW k \in Start, k # i, Claims(k)' PROVE Claims(k)
    BY <1>2, <1>3, <1>4, <2>1 DEF Claims, Running
  <2>2. ASSUME NEW k \in Start, Claims(k)' PROVE g_node' = k
    <3>1. CASE k = i
      BY <1>2, <1>3, <1>4, <2>2, <3>1 DEF Claims, Running
    <3>2. CASE k # i
      <4>1. Claims(k) /\ g_node # 0
        BY <2>1, <2>2, <3>2, NoNode
      <4> QED BY <1>4, <4>1 DEF LInv, ClaimInv
    <3> QED BY <3>1, <3>2
  <2>3. ASSUME NEW k \in Start, g_node' = k,
               stage'[k] \in {"plugins", "gc", "api", "gateway", "metrics", "coreapi", "ok"}
        PROVE  k \in core'
    BY <1>3, <1>4, <2>3 DEF LInv, ClaimInv
  <2> QED BY <2>2, <2>3 DEF ClaimInv
<1>8. ObjectInv'
  <2>1. \A k \in object : k \in Start /\ k # i
    BY <1>2 DEF LInv, TypeOK
  <2> QED BY <1>3, <1>4, <2>1 DEF LInv, ObjectInv
<1>9. CollectorInv'
  <2>1. ASSUME NEW k \in registered
        PROVE  g_node' = k /\ stage'[k] \in {"coreapi", "ok", "failed"}
    <3>1. g_node # 0 /\ g_node = k /\ k \in Start /\ stage[k] \in {"coreapi", "ok", "failed"}
      BY <2>1, NoNode DEF LInv, CollectorInv, TypeOK
    <3>2. k # i
      BY <1>2, <3>1
    <3> QED BY <1>4, <3>1, <3>2
  <2> QED BY <1>3, <2>1 DEF CollectorInv
<1>10. ImplOwned'
  <2>1. Constructing = {} /\ Constructing' = {i}
    BY <1>2, <1>3 DEF Constructing
  <2>2. Building' = Building /\ i \notin Building
    BY <1>2, <1>3 DEF Building
  <2>3. Threw' = Threw
    BY <1>2 DEF Threw
  <2> QED BY <1>2, <1>3, <2>1, <2>2, <2>3 DEF LInv, ImplOwned
<1> QED BY <1>5, <1>6, <1>7, <1>8, <1>9, <1>10 DEF LInv

(* node::build.                                                            *)
LEMMA BuildLInv ==
  ASSUME LInv, NEW i \in Start, NEW services \in SUBSET Services, Build(i, services)
  PROVE  LInv'
<1>1. NewStart(i, "build", services)
  BY DEF Build
<1>2. /\ starts' \in 0 .. MaxStart /\ starts' = i
      /\ way[i] = "none" /\ status[i] = "idle" /\ stage[i] = "none" /\ i \notin object
      /\ way' \in [Start -> {"none", "ctor", "build", "threw"}]
      /\ way'[i] = "build" /\ \A k \in Start : k # i => way'[k] = way[k]
      /\ \A k \in Start : k > i <=> k > starts /\ k # i
      /\ config' \in [Start -> SUBSET Services]
      /\ impl' = impl \cup {i} /\ pc = "user"
  BY <1>1, NewStartFacts
<1>3. /\ AllocateNode(i)
      /\ status' = [status EXCEPT ![i] = "pending"]
      /\ UNCHANGED <<object, pc, cur, flags, core, registered, serving, ctx, monitorVars>>
  BY DEF Build
<1>4. /\ g_node' \in 0 .. MaxStart
      /\ stage' \in [Start -> Stage]
      /\ \A k \in Start : k # i => stage'[k] = stage[k]
      /\ stage'[i] \in {"config", "exists"}
      /\ stage'[i] = "config" => g_node = 0 /\ g_node' = i
      /\ stage'[i] = "exists" => g_node' = g_node
  BY <1>2, <1>3, AllocateFacts
<1>5. /\ status' \in [Start -> {"idle", "pending", "cancelling", "completed", "aborted"}]
      /\ status'[i] = "pending" /\ \A k \in Start : k # i => status'[k] = status[k]
  BY <1>3 DEF LInv, TypeOK
<1>6. TypeOK'
  <2>1. impl' \subseteq Start
    BY <1>2 DEF LInv, TypeOK
  <2> QED BY <1>2, <1>3, <1>4, <1>5, <2>1 DEF LInv, TypeOK, monitorVars
<1>7. WayInv'
  BY <1>2, <1>3, <1>4, <1>5 DEF LInv, WayInv
<1>8. ClaimInv'
  <2>1. ASSUME NEW k \in Start, k # i, Claims(k)' PROVE Claims(k)
    BY <1>2, <1>3, <1>4, <1>5, <2>1 DEF Claims, Running
  <2>2. ASSUME NEW k \in Start, Claims(k)' PROVE g_node' = k
    <3>1. CASE k = i
      BY <1>2, <1>3, <1>4, <2>2, <3>1 DEF Claims, Running
    <3>2. CASE k # i
      <4>1. Claims(k) /\ g_node # 0
        BY <2>1, <2>2, <3>2, NoNode
      <4> QED BY <1>4, <4>1 DEF LInv, ClaimInv
    <3> QED BY <3>1, <3>2
  <2>3. ASSUME NEW k \in Start, g_node' = k,
               stage'[k] \in {"plugins", "gc", "api", "gateway", "metrics", "coreapi", "ok"}
        PROVE  k \in core'
    BY <1>3, <1>4, <2>3 DEF LInv, ClaimInv
  <2> QED BY <2>2, <2>3 DEF ClaimInv
<1>9. ObjectInv'
  <2>1. \A k \in object : k \in Start /\ k # i
    BY <1>2 DEF LInv, TypeOK
  <2>2. ASSUME NEW k \in object
        PROVE  stage'[k] = "ok" /\ status'[k] \in {"idle", "completed"}
    BY <1>4, <1>5, <2>1, <2>2 DEF LInv, ObjectInv
  <2>3. object' = object /\ pc' = "user"
    BY <1>2, <1>3
  <2> QED BY <2>2, <2>3 DEF ObjectInv
<1>10. CollectorInv'
  <2>1. ASSUME NEW k \in registered
        PROVE  g_node' = k /\ stage'[k] \in {"coreapi", "ok", "failed"}
    <3>1. g_node # 0 /\ g_node = k /\ k \in Start /\ stage[k] \in {"coreapi", "ok", "failed"}
      BY <2>1, NoNode DEF LInv, CollectorInv, TypeOK
    <3>2. k # i
      BY <1>2, <3>1
    <3> QED BY <1>4, <3>1, <3>2
  <2> QED BY <1>3, <2>1 DEF CollectorInv
<1>11. ImplOwned'
  <2>1. Constructing = {} /\ Constructing' = {}
    BY <1>2, <1>3 DEF Constructing
  <2>2. Building' = Building \cup {i}
    BY <1>5 DEF Building
  <2>3. Threw' = Threw
    BY <1>2 DEF Threw
  <2> QED BY <1>2, <1>3, <2>1, <2>2, <2>3 DEF LInv, ImplOwned
<1> QED BY <1>6, <1>7, <1>8, <1>9, <1>10, <1>11 DEF LInv

(* node::build that throws: only a node_impl is left behind.               *)
LEMMA BuildThrowsLInv ==
  ASSUME LInv, NEW i \in Start, BuildThrows(i)
  PROVE  LInv'
<1>1. NewStart(i, "threw", {}) /\ {} \in SUBSET Services
  BY DEF BuildThrows
<1>2. /\ starts' \in 0 .. MaxStart /\ starts' = i
      /\ way[i] = "none" /\ status[i] = "idle" /\ stage[i] = "none" /\ i \notin object
      /\ way' \in [Start -> {"none", "ctor", "build", "threw"}]
      /\ way'[i] = "threw" /\ \A k \in Start : k # i => way'[k] = way[k]
      /\ \A k \in Start : k > i <=> k > starts /\ k # i
      /\ config' \in [Start -> SUBSET Services]
      /\ impl' = impl \cup {i} /\ pc = "user"
  BY <1>1, NewStartFacts
<1>3. UNCHANGED <<object, status, pc, cur, g_node, stage, flags, core, registered,
                  serving, ctx, monitorVars>>
  BY DEF BuildThrows
<1>4. TypeOK'
  <2>1. impl' \subseteq Start
    BY <1>2 DEF LInv, TypeOK
  <2> QED BY <1>2, <1>3, <2>1 DEF LInv, TypeOK, monitorVars
<1>5. WayInv'
  BY <1>2, <1>3 DEF LInv, WayInv
<1>6. ClaimInv' /\ ObjectInv' /\ CollectorInv'
  BY <1>3 DEF LInv, ClaimInv, Claims, Running, ObjectInv, CollectorInv
<1>7. ImplOwned'
  <2>1. Constructing' = Constructing /\ Building' = Building
    BY <1>3 DEF Constructing, Building
  <2>2. Threw' = Threw \cup {i}
    BY <1>2 DEF Threw
  <2> QED BY <1>2, <1>3, <2>1, <2>2 DEF LInv, ImplOwned
<1> QED BY <1>4, <1>5, <1>6, <1>7 DEF LInv

-----------------------------------------------------------------------------
(* The answer to a start.                                                  *)

(* The constructor returns, or throws and unwinds.                         *)
LEMMA CtorReturnsLInv ==
  ASSUME LInv, CtorReturns
  PROVE  LInv'
<1>1. /\ pc = "ctor" /\ pc' = "user" /\ Returned(cur)
      /\ IF stage[cur] = "ok"
           THEN object' = object \cup {cur} /\ UNCHANGED impl
           ELSE impl' = impl \ {cur} /\ UNCHANGED object
      /\ UNCHANGED <<starts, way, status, cur, g_node, startVars, ctx, monitorVars>>
  BY DEF CtorReturns
<1>2. cur \in Start /\ way[cur] = "ctor" /\ status[cur] = "idle" /\ cur \notin object
  BY <1>1 DEF LInv, WayInv, ObjectInv
<1>3. TypeOK'
  <2>1. impl' \subseteq Start /\ object' \subseteq Start
    BY <1>1, <1>2 DEF LInv, TypeOK
  <2> QED BY <1>1, <2>1 DEF LInv, TypeOK, startVars, monitorVars
<1>4. WayInv' /\ CollectorInv'
  BY <1>1 DEF LInv, WayInv, CollectorInv, startVars
<1>5. ClaimInv'
  <2>1. ASSUME NEW k \in Start, Claims(k)' PROVE Claims(k)
    BY <1>1, <2>1 DEF Claims, Running, startVars
  <2> QED BY <1>1, <2>1 DEF LInv, ClaimInv, startVars
<1>6. ObjectInv'
  BY <1>1, <1>2 DEF LInv, ObjectInv, startVars
<1>7. ImplOwned'
  <2>1. Constructing = {cur} /\ Constructing' = {}
    BY <1>1, <1>2 DEF Constructing
  <2>2. Building' = Building /\ Threw' = Threw /\ cur \notin Building /\ cur \notin Threw
    BY <1>1, <1>2 DEF Building, Threw
  <2> QED BY <1>1, <1>2, <2>1, <2>2 DEF LInv, ImplOwned
<1> QED BY <1>3, <1>4, <1>5, <1>6, <1>7 DEF LInv

(* The user cancels a build.                                               *)
LEMMA BuildCancelLInv ==
  ASSUME LInv, NEW i \in Start, BuildCancel(i)
  PROVE  LInv'
<1>1. /\ status[i] = "pending" /\ status' = [status EXCEPT ![i] = "cancelling"]
      /\ UNCHANGED <<starts, way, impl, object, pc, cur, g_node, startVars, ctx, monitorVars>>
  BY DEF BuildCancel
<1>2. /\ status' \in [Start -> {"idle", "pending", "cancelling", "completed", "aborted"}]
      /\ status'[i] = "cancelling" /\ \A k \in Start : k # i => status'[k] = status[k]
  BY <1>1 DEF LInv, TypeOK
<1>3. TypeOK'
  BY <1>1, <1>2 DEF LInv, TypeOK, startVars, monitorVars
<1>4. WayInv' /\ CollectorInv'
  BY <1>1, <1>2 DEF LInv, WayInv, CollectorInv, startVars
<1>5. ClaimInv'
  <2>1. ASSUME NEW k \in Start, Claims(k)' PROVE Claims(k)
    BY <1>1, <1>2, <2>1 DEF Claims, Running, startVars
  <2> QED BY <1>1, <2>1 DEF LInv, ClaimInv, startVars
<1>6. ObjectInv'
  <2>1. \A k \in object : k \in Start /\ k # i
    BY <1>1 DEF LInv, TypeOK, ObjectInv
  <2> QED BY <1>1, <1>2, <2>1 DEF LInv, ObjectInv, startVars
<1>7. ImplOwned'
  <2>1. Building' = Building
    BY <1>1, <1>2 DEF Building
  <2> QED BY <1>1, <2>1 DEF LInv, ImplOwned, Constructing, Threw
<1> QED BY <1>3, <1>4, <1>5, <1>6, <1>7 DEF LInv

(* The handler of a build is called, and takes over or deletes its         *)
(* node_impl.                                                              *)
LEMMA BuildDoneLInv ==
  ASSUME LInv, NEW i \in Start, BuildAborts(i) \/ BuildCompletes(i)
  PROVE  LInv'
<1>1. PICK s \in {"aborted", "completed"} :
        /\ pc = "user" /\ status[i] \in {"pending", "cancelling"}
        /\ status' = [status EXCEPT ![i] = s]
        /\ \/ /\ stage[i] = "ok" /\ status[i] = "pending" /\ s = "completed"
              /\ object' = object \cup {i} /\ impl' = impl
           \/ object' = object /\ impl' = impl \ {i}
        /\ UNCHANGED <<starts, way, pc, cur, g_node, startVars, ctx, monitorVars>>
  BY DEF BuildAborts, BuildCompletes, DeleteImpl
<1>2. /\ status' \in [Start -> {"idle", "pending", "cancelling", "completed", "aborted"}]
      /\ status'[i] = s /\ \A k \in Start : k # i => status'[k] = status[k]
  BY <1>1 DEF LInv, TypeOK
<1>3. i \notin object /\ way[i] = "build"
  BY <1>1 DEF LInv, ObjectInv, WayInv
<1>4. TypeOK'
  <2>1. impl' \subseteq Start /\ object' \subseteq Start
    BY <1>1 DEF LInv, TypeOK
  <2> QED BY <1>1, <1>2, <2>1 DEF LInv, TypeOK, startVars, monitorVars
<1>5. WayInv' /\ CollectorInv'
  BY <1>1, <1>2 DEF LInv, WayInv, CollectorInv, startVars
<1>6. ClaimInv'
  <2>1. ASSUME NEW k \in Start, Claims(k)' PROVE Claims(k)
    BY <1>1, <1>2, <2>1 DEF Claims, Running, startVars
  <2> QED BY <1>1, <2>1 DEF LInv, ClaimInv, startVars
<1>7. ObjectInv'
  <2>1. \A k \in object : k \in Start /\ k # i
    BY <1>3 DEF LInv, TypeOK
  <2> QED BY <1>1, <1>2, <2>1 DEF LInv, ObjectInv, startVars
<1>8. ImplOwned'
  <2>1. Building' = Building \ {i} /\ i \in Building
    BY <1>1, <1>2 DEF Building
  <2>2. Constructing' = Constructing /\ Constructing = {}
    BY <1>1 DEF Constructing
  <2>3. Threw' = Threw /\ i \notin Threw
    BY <1>1, <1>3 DEF Threw
  <2> QED BY <1>1, <1>3, <2>1, <2>2, <2>3 DEF LInv, ImplOwned
<1> QED BY <1>4, <1>5, <1>6, <1>7, <1>8 DEF LInv

-----------------------------------------------------------------------------
(* The end of a node object.                                               *)

(* Assigning an empty node to a node object.                               *)
LEMMA MoveAssignLInv ==
  ASSUME LInv, NEW i \in Start, MoveAssign(i)
  PROVE  LInv'
<1>1. /\ pc = "user" /\ i \in object /\ object' = object \ {i} /\ impl' = impl \ {i}
      /\ UNCHANGED <<starts, way, status, pc, cur, g_node, startVars, ctx, monitorVars>>
  BY DEF MoveAssign
<1>2. TypeOK'
  <2>1. impl' \subseteq Start /\ object' \subseteq Start
    BY <1>1 DEF LInv, TypeOK
  <2> QED BY <1>1, <2>1 DEF LInv, TypeOK, startVars, monitorVars
<1>3. WayInv' /\ CollectorInv' /\ ObjectInv'
  BY <1>1 DEF LInv, WayInv, CollectorInv, ObjectInv, startVars
<1>4. ClaimInv'
  <2>1. ASSUME NEW k \in Start, Claims(k)' PROVE Claims(k)
    BY <1>1, <2>1 DEF Claims, Running, startVars
  <2> QED BY <1>1, <2>1 DEF LInv, ClaimInv, startVars
<1>5. ImplOwned'
  <2>1. Constructing' = Constructing /\ Building' = Building /\ Threw' = Threw
    BY <1>1 DEF Constructing, Building, Threw
  <2>2. i \notin Threw
    BY <1>1 DEF Threw, LInv, ObjectInv, WayInv
  <2> QED BY <1>1, <2>1, <2>2 DEF LInv, ImplOwned
<1> QED BY <1>2, <1>3, <1>4, <1>5 DEF LInv

(* free() finds the node object and begins.                                *)
LEMMA FreeLInv ==
  ASSUME LInv, NEW i \in Start, Free(i)
  PROVE  LInv'
<1>1. /\ pc = "user" /\ i \in object /\ pc' = "free" /\ cur' = i
      /\ UNCHANGED <<starts, way, impl, object, status, g_node, startVars, ctx, monitorVars>>
  BY DEF Free
<1>2. TypeOK'
  <2>1. cur' \in 0 .. MaxStart
    BY <1>1 DEF Start
  <2> QED BY <1>1, <2>1 DEF LInv, TypeOK, startVars, monitorVars
<1>3. WayInv' /\ CollectorInv' /\ ObjectInv'
  BY <1>1 DEF LInv, WayInv, CollectorInv, ObjectInv, startVars
<1>4. ClaimInv'
  <2>1. ASSUME NEW k \in Start, Claims(k)' PROVE Claims(k)
    BY <1>1, <2>1 DEF Claims, Running, startVars
  <2> QED BY <1>1, <2>1 DEF LInv, ClaimInv, startVars
<1>5. ImplOwned'
  <2>1. Constructing' = Constructing
    BY <1>1 DEF Constructing
  <2> QED BY <1>1, <2>1 DEF LInv, ImplOwned, Building, Threw
<1> QED BY <1>2, <1>3, <1>4, <1>5 DEF LInv

(* The node that free() is about to close is the only one, its object is   *)
(* g_node, and no other start is under way.                                *)
LEMMA FreeFacts ==
  ASSUME LInv, pc \in {"free", "close"}
  PROVE  /\ cur \in Start /\ g_node = cur /\ g_node # 0 /\ object = {cur}
         /\ stage[cur] = "ok" /\ status[cur] \in {"idle", "completed"}
         /\ \A k \in Start : Claims(k) => k = cur
<1>1. cur \in object /\ object \subseteq Start
  BY DEF LInv, ObjectInv, TypeOK
<1>2. \A k \in object : Claims(k) /\ g_node = k
  BY <1>1 DEF LInv, ClaimInv, Claims
<1>3. cur \in Start /\ g_node = cur /\ g_node # 0 /\ object = {cur}
  <2>1. \A k \in object : g_node = k
    BY <1>2
  <2>2. cur \in Start /\ g_node = cur
    BY <1>1, <2>1
  <2>3. g_node # 0
    BY ONLY <2>2, NodeLifecycleAssumption DEF Start
  <2>4. object = {cur}
    BY ONLY <1>1, <2>1
  <2> QED BY <2>2, <2>3, <2>4
<1>4. stage[cur] = "ok" /\ status[cur] \in {"idle", "completed"}
  BY <1>1 DEF LInv, ObjectInv
<1> QED BY <1>3, <1>4 DEF LInv, ClaimInv

(* go_asio_ipfs_free finds g_node, so the assertion of ~node holds.        *)
LEMMA GoFreeLInv ==
  ASSUME LInv, GoFree
  PROVE  LInv'
<1>1. /\ pc = "free" /\ pc' = "close" /\ ctx' = ctx \cup {cur} /\ cur \in Start
      /\ UNCHANGED <<starts, way, impl, object, status, cur, g_node, startVars, monitorVars>>
  <2>1. pc = "free"
    BY DEF GoFree
  <2>2. cur \in Start /\ g_node = cur /\ g_node # 0
    BY <2>1, FreeFacts
  <2> QED BY <2>1, <2>2 DEF GoFree
<1>2. TypeOK'
  <2>1. ctx' \subseteq Start
    BY <1>1 DEF LInv, TypeOK
  <2> QED BY <1>1, <2>1 DEF LInv, TypeOK, startVars, monitorVars
<1>3. WayInv' /\ CollectorInv' /\ ObjectInv'
  BY <1>1 DEF LInv, WayInv, CollectorInv, ObjectInv, startVars
<1>4. ClaimInv'
  <2>1. ASSUME NEW k \in Start, Claims(k)' PROVE Claims(k)
    BY <1>1, <2>1 DEF Claims, Running, startVars
  <2> QED BY <1>1, <2>1 DEF LInv, ClaimInv, startVars
<1>5. ImplOwned'
  <2>1. Constructing' = Constructing
    BY <1>1 DEF Constructing
  <2> QED BY <1>1, <2>1 DEF LInv, ImplOwned, Building, Threw
<1> QED BY <1>2, <1>3, <1>4, <1>5 DEF LInv

(* When the node is closed and g_node reset, no start claims the node and  *)
(* no collector is registered.                                             *)
LEMMA GoCloseLInv ==
  ASSUME LInv, GoClose
  PROVE  LInv'
<1>1. /\ pc = "close" /\ pc' = "reset" /\ g_node' = 0
      /\ registered' = registered \ {g_node} /\ core' = core \ {g_node}
      /\ UNCHANGED <<starts, way, impl, object, status, cur, stage, config, flags,
                     serving, ctx, monitorVars>>
  BY DEF GoClose, Unregister
<1>2. /\ cur \in Start /\ g_node = cur /\ object = {cur}
      /\ stage[cur] = "ok" /\ status[cur] \in {"idle", "completed"}
      /\ \A k \in Start : Claims(k) => k = cur
  BY <1>1, FreeFacts
<1>3. TypeOK'
  <2>1. registered' \subseteq Start /\ core' \subseteq Start /\ g_node' \in 0 .. MaxStart
    BY <1>1 DEF LInv, TypeOK
  <2> QED BY <1>1, <2>1 DEF LInv, TypeOK, monitorVars
<1>4. WayInv'
  BY <1>1 DEF LInv, WayInv
<1>5. CollectorInv'
  BY <1>1 DEF LInv, CollectorInv
<1>6. ObjectInv'
  BY <1>1, <1>2 DEF LInv, ObjectInv
<1>7. ClaimInv'
  <2>1. ASSUME NEW k \in Start, Claims(k)' PROVE FALSE
    <3>1. Claims(k) /\ k = cur
      BY <1>1, <1>2, <2>1 DEF Claims, Running
    <3> QED BY <1>1, <1>2, <2>1, <3>1 DEF Claims, Running
  <2> QED BY <1>1, <2>1 DEF ClaimInv, Start
<1>8. ImplOwned'
  <2>1. Constructing' = Constructing
    BY <1>1 DEF Constructing
  <2> QED BY <1>1, <2>1 DEF LInv, ImplOwned, Building, Threw
<1> QED BY <1>3, <1>4, <1>5, <1>6, <1>7, <1>8 DEF LInv

(* _impl.reset().                                                          *)
LEMMA ResetLInv ==
  ASSUME LInv, Reset
  PROVE  LInv'
<1>1. /\ pc = "reset" /\ pc' = "user" /\ object' = object \ {cur} /\ impl' = impl \ {cur}
      /\ UNCHANGED <<starts, way, status, cur, g_node, startVars, ctx, monitorVars>>
  BY DEF Reset
<1>2. object = {cur} /\ object' = {} /\ cur \in Start
  BY <1>1 DEF LInv, ObjectInv, TypeOK
<1>3. TypeOK'
  <2>1. impl' \subseteq Start /\ object' \subseteq Start
    BY <1>1 DEF LInv, TypeOK
  <2> QED BY <1>1, <2>1 DEF LInv, TypeOK, startVars, monitorVars
<1>4. WayInv' /\ CollectorInv' /\ ObjectInv'
  BY <1>1, <1>2 DEF LInv, WayInv, CollectorInv, ObjectInv, startVars
<1>5. ClaimInv'
  <2>1. ASSUME NEW k \in Start, Claims(k)' PROVE Claims(k)
    BY <1>1, <1>2, <2>1 DEF Claims, Running, startVars
  <2> QED BY <1>1, <2>1 DEF LInv, ClaimInv, startVars
<1>6. ImplOwned'
  <2>1. Constructing' = Constructing /\ Building' = Building /\ Threw' = Threw
    BY <1>1 DEF Constructing, Building, Threw
  <2>2. cur \notin Threw
    BY <1>2 DEF Threw, LInv, ObjectInv, WayInv
  <2> QED BY <1>1, <1>2, <2>1, <2>2 DEF LInv, ImplOwned
<1> QED BY <1>3, <1>4, <1>5, <1>6 DEF LInv

-----------------------------------------------------------------------------
(* The theorems.                                                           *)

(* Every step of the specification preserves the invariant.                *)
LEMMA NextLInv == LInv /\ [Next]_vars => LInv'
<1> SUFFICES ASSUME LInv, [Next]_vars PROVE LInv'
  OBVIOUS
<1>1. ASSUME NEW i \in Start, NEW services \in Configs,
             Ctor(i, services) \/ Build(i, services)
      PROVE  LInv'
  <2>1. services \in SUBSET Services
    OBVIOUS
  <2> QED BY <1>1, <2>1, CtorLInv, BuildLInv
<1>2. ASSUME NEW i \in Start,
             BuildThrows(i) \/ BuildCancel(i) \/ BuildAborts(i) \/ BuildCompletes(i)
      PROVE  LInv'
  BY <1>2, BuildThrowsLInv, BuildCancelLInv, BuildDoneLInv
<1>3. ASSUME NEW i \in Start, MoveAssign(i) \/ Free(i)
      PROVE  LInv'
  BY <1>3, MoveAssignLInv, FreeLInv
<1>4. ASSUME NEW i \in Start, StartStep(i) \/ StartFails(i)
      PROVE  LInv'
  BY <1>4, StartLInv
<1>5. ASSUME NEW i \in Start,
             MonitorLaunches(i) \/ PeersChange(i) \/ ServiceError(i) \/ MonitorStops(i)
      PROVE  LInv'
  BY <1>5, MonitorLInv
<1>6. CASE CtorReturns \/ GoFree \/ GoClose \/ Reset
  BY <1>6, CtorReturnsLInv, GoFreeLInv, GoCloseLInv, ResetLInv
<1>7. CASE UNCHANGED vars
  BY <1>7, StutterLInv
<1>8. CASE Terminated
  BY <1>8, StutterLInv DEF Terminated
<1> QED BY <1>1, <1>2, <1>3, <1>4, <1>5, <1>6, <1>7, <1>8 DEF Next

(* The inductive invariant holds in every reachable state of the start and *)
(* the destruction of nodes.                                               *)
THEOREM LifecycleInductive == Spec => []LInv
<1>1. Init => LInv
  BY InitLInv
<1>2. LInv /\ [Next]_vars => LInv'
  BY NextLInv
<1> QED BY <1>1, <1>2, PTL DEF Spec

(* Type correctness; in particular the asio thread never gets to the       *)
(* failed assertion of ~node, for free() always finds g_node.              *)
THEOREM NeverAsserts == Spec => []TypeOK
<1>1. LInv => TypeOK
  BY DEF LInv
<1> QED BY <1>1, LifecycleInductive, PTL

(* A node object is always the one that g_node stands for, and its core    *)
(* node is there to be used.                                               *)
THEOREM CurrentObject == Spec => []ObjectIsCurrent
<1>1. ASSUME LInv PROVE ObjectIsCurrent
  <2>1. ASSUME pc # "reset", NEW i \in object
        PROVE  g_node = i /\ stage[i] = "ok" /\ i \in core
    <3>1. i \in Start /\ Claims(i) /\ stage[i] = "ok"
      BY <1>1, <2>1 DEF LInv, TypeOK, ObjectInv, Claims
    <3> QED BY <1>1, <3>1 DEF LInv, ClaimInv
  <2> QED BY <2>1 DEF ObjectIsCurrent
<1> QED BY <1>1, LifecycleInductive, PTL

(* No two start_node run at once, and MustRegister meets no collector.     *)
THEOREM NoCollision == Spec => []StartsDoNotCollide
<1>1. ASSUME LInv PROVE StartsDoNotCollide
  <2>1. \A i \in Start : Running(i) => g_node = i
    BY <1>1 DEF LInv, ClaimInv, Claims
  <2>2. registered \subseteq {g_node}
    BY <1>1 DEF LInv, CollectorInv
  <2>3. ASSUME NEW i \in Start, stage[i] = "metrics" PROVE registered = {}
    <3>1. g_node = i
      BY <2>1, <2>3 DEF Running
    <3> QED BY <1>1, <2>3, <3>1 DEF LInv, CollectorInv
  <2> QED BY <2>1, <2>2, <2>3 DEF StartsDoNotCollide
<1> QED BY <1>1, LifecycleInductive, PTL

(* Every node_impl has exactly one owner, but for those that a build that  *)
(* threw has leaked.                                                       *)
THEOREM OneOwner == Spec => []ImplOwned
<1>1. LInv => ImplOwned
  BY DEF LInv
<1> QED BY <1>1, LifecycleInductive, PTL

=============================================================================
