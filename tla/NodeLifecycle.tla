--------------------------- MODULE NodeLifecycle ---------------------------
(***************************************************************************)
(* Starting and destroying asio_ipfs::node.                                *)
(*                                                                         *)
(* A start is the constructor node::node, which blocks the asio thread, or *)
(* node::build, whose Go half runs on a goroutine and whose completion is  *)
(* an operation of module AsyncOp.  Starts are numbered; a start's number  *)
(* also names the node_impl it allocates and, since state_cb_arg is that   *)
(* node_impl, the Go Node it creates.  0 stands for none.                  *)
(*                                                                         *)
(* Next to the asio thread and the goroutine of start_async run the state  *)
(* monitors: start_node launches one per node that serves anything, and it *)
(* calls back into the node_impl until the node's context is done.         *)
(***************************************************************************)
EXTENDS Naturals

CONSTANTS
  MaxStart,       \* bound: the number of starts
  Configs,        \* the sets of services (gc, api, gateway) to be started
  MoveAssigns     \* does the user assign an empty node to a running one?

Start    == 1 .. MaxStart
Services == {"gc", "api", "gateway"}

ASSUME NodeLifecycleAssumption ==
  /\ MaxStart \in Nat
  /\ Configs \subseteq SUBSET Services
  /\ MoveAssigns \in BOOLEAN

VARIABLES
  \* --- C++
  starts,         \* how many starts there have been
  way,            \* "ctor", "build", or "threw" for a build that threw
  impl,           \* the node_impl that are allocated
  object,         \* the node_impl owned by a node object
  status,         \* the completion handler of a build, as in AsyncOp
  pc, cur,        \* where the asio thread is, and for which start
  \* --- Go
  g_node,         \* the global node
  stage,          \* how far start_node has come
  config,         \* the services the configuration asks for
  flags,          \* g_mprome_injected, g_plugins_injected, g_mporme_metrics
  core,           \* the nodes whose core.IpfsNode is set and not closed
  registered,     \* the collectors in the registry of prometheus
  serving,        \* the services that have been launched
  ctx,            \* the nodes whose context is done
  monitor,        \* the state monitor of a node
  lasterr,        \* the nodes whose monitor has met an error
  report,         \* what the user's state callback was last told
  wild            \* the node_impl that were called back after their deletion

cppVars     == <<starts, way, impl, object, status, pc, cur>>
startVars   == <<stage, config, flags, core, registered, serving>>
monitorVars == <<monitor, lasterr, report, wild>>
vars        == <<cppVars, g_node, startVars, ctx, monitorVars>>

Init ==
  /\ starts     = 0
  /\ way        = [i \in Start |-> "none"]
  /\ impl       = {}
  /\ object     = {}
  /\ status     = [i \in Start |-> "idle"]
  /\ pc         = "user"
  /\ cur        = 0
  /\ g_node     = 0
  /\ stage      = [i \in Start |-> "none"]
  /\ config     = [i \in Start |-> {}]
  /\ flags      = {}
  /\ core       = {}
  /\ registered = {}
  /\ serving    = [i \in Start |-> {}]
  /\ ctx        = {}
  /\ monitor    = [i \in Start |-> "none"]
  /\ lasterr    = {}
  /\ report     = [i \in Start |-> "none"]
  /\ wild       = {}

(* start_node(n) is executing.                                             *)
Running(i) == stage[i] \notin {"none", "ok", "failed", "exists"}

ReturnedOk(i) == stage[i] = "ok"

(* The Go half of a start has answered, by its result or executeVoidCB.    *)
Returned(i) == stage[i] \in {"ok", "failed", "exists"}

-----------------------------------------------------------------------------
(* The user's calls, on the asio thread.                                   *)

AllocateNodeAlways(i) ==
  /\ g_node' = i
  /\ stage' = [stage EXCEPT ![i] = "config"]

(* allocate_node, and the answer IPFS_NODE_EXISTS in its stead.            *)
AllocateNode(i) ==
  IF g_node = 0
    THEN /\ g_node' = i
         /\ stage' = [stage EXCEPT ![i] = "config"]
    ELSE /\ stage' = [stage EXCEPT ![i] = "exists"]
         /\ UNCHANGED g_node

NewStart(i, w, services) ==
  /\ pc = "user"
  /\ i = starts + 1
  /\ starts' = i
  /\ way' = [way EXCEPT ![i] = w]
  /\ impl' = impl \cup {i}
  /\ config' = [config EXCEPT ![i] = services]

(* node::node: the thread is in go_asio_ipfs_start_blocking from now on.   *)
Ctor(i, services) ==
  /\ NewStart(i, "ctor", services)
  /\ AllocateNode(i)
  /\ pc' = "ctor"
  /\ cur' = i
  /\ UNCHANGED <<object, status, flags, core, registered, serving, ctx, monitorVars>>

(* ... until it returns.  On an error the constructor throws, and unwinds  *)
(* its member _impl.                                                       *)
CtorReturns ==
  /\ pc = "ctor"
  /\ Returned(cur)
  /\ IF stage[cur] = "ok"
       THEN object' = object \cup {cur} /\ UNCHANGED impl
       ELSE impl' = impl \ {cur} /\ UNCHANGED object
  /\ pc' = "user"
  /\ UNCHANGED <<starts, way, status, cur, g_node, startVars, ctx, monitorVars>>

(* node::build: go_asio_ipfs_start_async starts a goroutine and returns.   *)
Build(i, services) ==
  /\ NewStart(i, "build", services)
  /\ AllocateNode(i)
  /\ status' = [status EXCEPT ![i] = "pending"]
  /\ UNCHANGED <<object, pc, cur, flags, core, registered, serving, ctx, monitorVars>>

(* node::build without bootstrap peers: config_to_json throws when the     *)
(* node_impl has been allocated, and nothing will ever delete it.          *)
BuildThrows(i) ==
  /\ NewStart(i, "threw", {})
  /\ UNCHANGED <<object, status, pc, cur, g_node, stage, flags, core, registered,
                 serving, ctx, monitorVars>>

(* The user cancels a build.  Its Handle has no cancel_signal_id, so the   *)
(* Go half is not told.                                                    *)
BuildCancel(i) ==
  /\ pc = "user"
  /\ status[i] = "pending"
  /\ status' = [status EXCEPT ![i] = "cancelling"]
  /\ UNCHANGED <<starts, way, impl, object, pc, cur, g_node, startVars, ctx, monitorVars>>

DeleteImplForgotten(i) == UNCHANGED impl

(* if (ec) delete impl;                                                    *)
DeleteImpl(i) == impl' = impl \ {i}

(* The completion handler of a cancelled build.                            *)
BuildAborts(i) ==
  /\ pc = "user"
  /\ status[i] = "cancelling"
  /\ status' = [status EXCEPT ![i] = "aborted"]
  /\ DeleteImpl(i)
  /\ UNCHANGED <<starts, way, object, pc, cur, g_node, startVars, ctx, monitorVars>>

(* The completion handler of a build whose Go half has returned.           *)
BuildCompletes(i) ==
  /\ pc = "user"
  /\ status[i] = "pending"
  /\ Returned(i)
  /\ status' = [status EXCEPT ![i] = "completed"]
  /\ \/ /\ stage[i] = "ok"
        /\ object' = object \cup {i}
        /\ UNCHANGED impl
     \/ /\ stage[i] # "ok"
        /\ DeleteImpl(i)
        /\ UNCHANGED object
  /\ UNCHANGED <<starts, way, pc, cur, g_node, startVars, ctx, monitorVars>>

(* node::operator=(node&&) with an empty node (one that was moved from or  *)
(* freed) on the right: the defaulted assignment deletes the node_impl of  *)
(* the left side and frees nothing.                                        *)
MoveAssign(i) ==
  /\ MoveAssigns
  /\ pc = "user"
  /\ i \in object
  /\ object' = object \ {i}
  /\ impl' = impl \ {i}
  /\ UNCHANGED <<starts, way, status, pc, cur, g_node, startVars, ctx, monitorVars>>

(* node::free, or ~node (module Handles has the loop over the handles) ... *)
Free(i) ==
  /\ pc = "user"
  /\ i \in object
  /\ pc' = "free"
  /\ cur' = i
  /\ UNCHANGED <<starts, way, impl, object, status, g_node, startVars, ctx, monitorVars>>

(* ... calls go_asio_ipfs_free, which cancels the context of g_node.  When *)
(* there is none, free() throws and the destructor asserts ...             *)
GoFree ==
  /\ pc = "free"
  /\ IF g_node = 0
       THEN pc' = "assert" /\ UNCHANGED ctx
       ELSE pc' = "close" /\ ctx' = ctx \cup {g_node}
  /\ UNCHANGED <<starts, way, impl, object, status, cur, g_node, startVars, monitorVars>>

UnregisterForgotten == UNCHANGED registered

(* if n.collector != nil { prometheus.Unregister(n.collector) }            *)
Unregister == registered' = registered \ {g_node}

(* ... then unregisters the collector, closes the node and forgets it ...  *)
GoClose ==
  /\ pc = "close"
  /\ pc' = "reset"
  /\ Unregister
  /\ core' = core \ {g_node}
  /\ g_node' = 0
  /\ UNCHANGED <<starts, way, impl, object, status, cur, stage, config, flags,
                 serving, ctx, monitorVars>>

ResetForgotten ==
  /\ pc = "reset"
  /\ pc' = "user"
  /\ UNCHANGED <<starts, way, impl, object, status, cur, g_node, startVars, ctx,
                 monitorVars>>

(* ... and _impl.reset().                                                  *)
Reset ==
  /\ pc = "reset"
  /\ pc' = "user"
  /\ object' = object \ {cur}
  /\ impl' = impl \ {cur}
  /\ UNCHANGED <<starts, way, status, cur, g_node, startVars, ctx, monitorVars>>

-----------------------------------------------------------------------------
(* start_node, on the asio thread for a constructor, on a goroutine for a  *)
(* build.                                                                  *)

(* start_node(n) gets from one stage to the next.                          *)
Advance(i, from, to) ==
  /\ stage[i] = from
  /\ stage' = [stage EXCEPT ![i] = to]
  /\ UNCHANGED <<cppVars, g_node, config, ctx, lasterr, report, wild>>

ParseConfig(i) ==
  /\ Advance(i, "config", "mprome")
  /\ UNCHANGED <<flags, core, registered, serving, monitor>>

(* The handler of the metrics and the plugins are injected once in the     *)
(* life of the process.                                                    *)
InjectMetrics(i) ==
  /\ Advance(i, "mprome", "env")
  /\ flags' = flags \cup {"mprome"}
  /\ UNCHANGED <<core, registered, serving, monitor>>

BuildEnv(i) ==
  /\ Advance(i, "env", "repo")
  /\ flags' = flags \cup {"plugins"}
  /\ UNCHANGED <<core, registered, serving, monitor>>

(* initRepo unless there is a repository, openRepo, repo.Config.           *)
OpenRepo(i) ==
  /\ Advance(i, "repo", "core")
  /\ UNCHANGED <<flags, core, registered, serving, monitor>>

NewNode(i) ==
  /\ Advance(i, "core", "plugins")
  /\ core' = core \cup {i}
  /\ UNCHANGED <<flags, registered, serving, monitor>>

StartPlugins(i) ==
  /\ Advance(i, "plugins", "gc")
  /\ UNCHANGED <<flags, core, registered, serving, monitor>>

(* maybeRunGC, maybeServeHTTPApi, maybeServeHTTPGateway.                   *)
MaybeServe(i, s, next) ==
  /\ Advance(i, s, next)
  /\ serving' = [serving EXCEPT ![i] = @ \cup (config[i] \cap {s})]
  /\ UNCHANGED <<flags, core, registered, monitor>>

(* MustRegister(n.collector), after the metric of the version, once.       *)
RegisterCollector(i) ==
  /\ Advance(i, "metrics", "coreapi")
  /\ flags' = flags \cup {"metrics"}
  /\ registered' = registered \cup {i}
  /\ UNCHANGED <<core, serving, monitor>>

(* NewCoreAPI, and a state monitor if any service runs.                    *)
StartMonitor(i) ==
  /\ Advance(i, "coreapi", "ok")
  /\ monitor' = IF serving[i] = {} THEN monitor
                ELSE [monitor EXCEPT ![i] = "launched"]
  /\ UNCHANGED <<flags, core, registered, serving>>

(* Where start_node can return an error: everywhere but in maybeRunGC and  *)
(* in what a flag or a disabled service skips.                             *)
CanFail(i) ==
  \/ stage[i] \in {"config", "env", "repo", "core", "plugins", "coreapi"}
  \/ stage[i] = "mprome" /\ "mprome" \notin flags
  \/ stage[i] \in {"api", "gateway"} \cap config[i]

(* `_ = go_asio_ipfs_free` names the function and does not call it: a      *)
(* failed start leaves everything as it is.                                *)
StartFails(i) ==
  /\ CanFail(i)
  /\ Advance(i, stage[i], "failed")
  /\ UNCHANGED <<flags, core, registered, serving, monitor>>

StartStep(i) ==
  \/ ParseConfig(i) \/ InjectMetrics(i) \/ BuildEnv(i) \/ OpenRepo(i)
  \/ NewNode(i) \/ StartPlugins(i)
  \/ MaybeServe(i, "gc", "api") \/ MaybeServe(i, "api", "gateway")
  \/ MaybeServe(i, "gateway", "metrics")
  \/ RegisterCollector(i) \/ StartMonitor(i)

-----------------------------------------------------------------------------
(* The state monitor.                                                      *)

(* stateCB: the Go thread calls straight into the node_impl.               *)
StateCB(i, what) ==
  /\ report' = [report EXCEPT ![i] = what]
  /\ wild' = IF i \in impl THEN wild ELSE wild \cup {i}

MonitorLaunches(i) ==
  /\ monitor[i] = "launched"
  /\ monitor' = [monitor EXCEPT ![i] = "running"]
  /\ StateCB(i, "peers")
  /\ UNCHANGED <<cppVars, g_node, startVars, ctx, lasterr>>

(* Every two seconds: the number of peers has changed.                     *)
PeersChange(i) ==
  /\ monitor[i] = "running"
  /\ StateCB(i, "peers")
  /\ UNCHANGED <<cppVars, g_node, startVars, ctx, monitor, lasterr>>

(* A service sends an error: remember it and cancel the whole node.        *)
ServiceError(i) ==
  /\ monitor[i] = "running"
  /\ lasterr' = lasterr \cup {i}
  /\ ctx' = ctx \cup {i}
  /\ UNCHANGED <<cppVars, g_node, startVars, monitor, report, wild>>

FinalReportMute(i) == "down"

(* stateCB(lasterr, 0)                                                     *)
FinalReport(i) == IF i \in lasterr THEN "error" ELSE "down"

MonitorStopsNever(i) ==
  /\ monitor[i] = "running"
  /\ i \in ctx
  /\ StateCB(i, FinalReport(i))
  /\ UNCHANGED <<cppVars, g_node, startVars, ctx, monitor, lasterr>>

(* <- n.ctx.Done()                                                         *)
MonitorStops(i) ==
  /\ monitor[i] = "running"
  /\ i \in ctx
  /\ monitor' = [monitor EXCEPT ![i] = "stopped"]
  /\ StateCB(i, FinalReport(i))
  /\ UNCHANGED <<cppVars, g_node, startVars, ctx, lasterr>>

-----------------------------------------------------------------------------
(* All starts are used up and everything has come to rest.                 *)
Terminated ==
  /\ starts = MaxStart
  /\ pc = "user"
  /\ \A i \in Start :
       /\ ~Running(i)
       /\ status[i] \notin {"pending", "cancelling"}
       /\ monitor[i] \notin {"launched", "running"}
  /\ UNCHANGED vars

Next ==
  \/ \E i \in Start :
       \/ \E services \in Configs : Ctor(i, services) \/ Build(i, services)
       \/ BuildThrows(i) \/ BuildCancel(i) \/ BuildAborts(i) \/ BuildCompletes(i)
       \/ MoveAssign(i) \/ Free(i)
       \/ StartStep(i) \/ StartFails(i)
       \/ MonitorLaunches(i) \/ PeersChange(i) \/ ServiceError(i) \/ MonitorStops(i)
  \/ CtorReturns \/ GoFree \/ GoClose \/ Reset
  \/ Terminated

Spec == Init /\ [][Next]_vars

(* start_node comes to an end, one way or the other; the asio thread runs  *)
(* what it is in and what was posted to it; the monitor's select notices   *)
(* that its context is done.                                               *)
Fairness ==
  /\ WF_vars(CtorReturns) /\ WF_vars(GoFree) /\ WF_vars(GoClose) /\ WF_vars(Reset)
  /\ \A i \in Start :
       /\ WF_vars(StartStep(i) \/ StartFails(i))
       /\ WF_vars(BuildAborts(i))
       /\ WF_vars(BuildCompletes(i))
       /\ WF_vars(MonitorLaunches(i))
       /\ WF_vars(MonitorStops(i))

FairSpec == Spec /\ Fairness

-----------------------------------------------------------------------------
(* Properties.                                                             *)

Stage == {"none", "config", "mprome", "env", "repo", "core", "plugins", "gc", "api",
          "gateway", "metrics", "coreapi", "ok", "failed", "exists"}

(* The values each variable ranges over; the failed assertion of ~node is  *)
(* not among those of pc.                                                  *)
TypeOK ==
  /\ starts \in 0 .. MaxStart
  /\ way \in [Start -> {"none", "ctor", "build", "threw"}]
  /\ impl \subseteq Start
  /\ object \subseteq Start
  /\ status \in [Start -> {"idle", "pending", "cancelling", "completed", "aborted"}]
  /\ pc \in {"user", "ctor", "free", "close", "reset"}
  /\ cur \in 0 .. MaxStart
  /\ g_node \in 0 .. MaxStart
  /\ stage \in [Start -> Stage]
  /\ config \in [Start -> SUBSET Services]
  /\ flags \subseteq {"mprome", "plugins", "metrics"}
  /\ core \subseteq Start
  /\ registered \subseteq Start
  /\ serving \in [Start -> SUBSET Services]
  /\ ctx \subseteq Start
  /\ monitor \in [Start -> {"none", "launched", "running", "stopped"}]
  /\ lasterr \subseteq Start
  /\ report \in [Start -> {"none", "peers", "down", "error"}]
  /\ wild \subseteq Start

(* A node object that has its _impl is the one g_node stands for, and the  *)
(* core node that node::id and every operation dereference is there: so    *)
(* free() never throws and the assert(false) of ~node is out of reach.     *)
ObjectIsCurrent ==
  pc # "reset" =>
    \A i \in object : g_node = i /\ stage[i] = "ok" /\ i \in core

(* At most one start_node is ever under way, however builds, constructors  *)
(* and cancels interleave, so the unlocked g_ flags are not raced for; and *)
(* MustRegister, which panics on a second collector, meets none.           *)
StartsDoNotCollide ==
  /\ \A i, k \in Start : Running(i) /\ Running(k) => i = k
  /\ registered \subseteq {g_node}
  /\ \A i \in Start : stage[i] = "metrics" => registered = {}

Constructing == {i \in Start : pc = "ctor" /\ i = cur}
Building     == {i \in Start : status[i] \in {"pending", "cancelling"}}
Threw        == {i \in Start : way[i] = "threw"}

(* Every node_impl has one owner: a node object, a constructor or a build  *)
(* in progress; it is neither leaked (but by a build that threw), nor used *)
(* by an owner after it was deleted.                                       *)
ImplOwned ==
  /\ impl = object \cup Constructing \cup Building \cup Threw
  /\ object \cap (Constructing \cup Building) = {}

(* A start is answered: the constructor returns or throws, the handler of  *)
(* a build is called.                                                      *)
StartAnswered ==
  /\ pc = "ctor" ~> pc = "user"
  /\ \A i \in Start : status[i] = "pending" ~> status[i] \in {"completed", "aborted"}

(* The user has the node of start i, or is still to be given it.           *)
InHands(i)  == i \in object
Expected(i) == Running(i) \/ (stage[i] = "ok" /\ (status[i] = "pending" \/ (pc = "ctor" /\ cur = i)))

SlotPhase ==
  IF g_node = 0                 THEN "free"
  ELSE IF InHands(g_node)       THEN "up"
  ELSE IF Expected(g_node)      THEN "starting"
  ELSE "lost"

Slot == INSTANCE NodeSlot WITH holder <- g_node, phase <- SlotPhase

(* The life cycle implements the one slot of NodeSlot: in particular a     *)
(* start is given the slot only when it is free, it is freed only by       *)
(* destroying the node in the user's hands, and when it is lost, after a   *)
(* failed or a cancelled start, nothing ever brings it back.               *)
SlotAsPromised == Slot!Spec

(* The same without the promise that a start comes to an end.              *)
SlotAsPromisedSafety == Slot!Safety

(* What the user of the node of start i has been told, in the words of     *)
(* module StateReports.                                                    *)
Told(i) ==
  IF report[i] = "none" THEN "nothing"
  ELSE IF report[i] = "peers" THEN "up"
  ELSE report[i]

Reports(i) == INSTANCE StateReports WITH
  told <- Told(i), fault <- i \in lasterr, done <- i \in ctx

(* The safety half of StateReports holds of the state callback of each of  *)
(* the nodes, although the monitor of one may still be running when the    *)
(* next is started, fails or is freed.                                     *)
ReportsAsPromisedSafety == \A i \in Start : Reports(i)!Safety

(* Destroying a node, or losing a service, stops its monitor.              *)
MonitorEnds ==
  \A i \in Start : i \in ctx ~> monitor[i] \in {"none", "stopped"}

(* "node aleady exists" is answered only while there is a node, or one is  *)
(* being started.                                                          *)
ExistsMeansExists ==
  [][\A i \in Start :
       stage[i] = "none" /\ stage'[i] = "exists" =>
         object # {} \/ \E k \in Start : Running(k) \/ status[k] = "pending"]_vars

(* "IPFS node gracefully stopped": the state monitor of a node that the    *)
(* user was given and has freed makes no callback into its node_impl.      *)
GracefullyStopped ==
  \A i \in wild : way[i] # "ctor" /\ status[i] # "completed"

-----------------------------------------------------------------------------
(* The inductive invariant behind the safety properties above.             *)

(* A start that has not happened has left no trace, and the way a start    *)
(* was made says which of its parts exist.                                 *)
WayInv ==
  /\ \A i \in Start :
       /\ i > starts <=> way[i] = "none"
       /\ status[i] # "idle" <=> way[i] = "build"
       /\ stage[i] # "none" <=> way[i] \in {"ctor", "build"}
  /\ pc = "ctor" => cur \in Start /\ way[cur] = "ctor"

(* The starts that are, or will become, the node: start_node is executing, *)
(* or it has succeeded and its caller has not been told yet, or there is   *)
(* the node object.                                                        *)
Claims(i) ==
  \/ Running(i)
  \/ stage[i] = "ok" /\ (status[i] = "pending" \/ (pc = "ctor" /\ cur = i))
  \/ i \in object /\ pc # "reset"

(* Only the start that g_node stands for can claim to be the node, and its *)
(* core node is there once NewNode has made it.                            *)
ClaimInv ==
  \A i \in Start :
    /\ Claims(i) => g_node = i
    /\ g_node = i /\ stage[i] \in {"plugins", "gc", "api", "gateway", "metrics",
                                  "coreapi", "ok"} => i \in core

(* A node object has been started and handed over, and it is there until   *)
(* free() is done with it.                                                 *)
ObjectInv ==
  /\ \A i \in object : stage[i] = "ok" /\ status[i] \in {"idle", "completed"}
                                      /\ ~(pc = "ctor" /\ cur = i)
  /\ pc \in {"free", "close", "reset"} => cur \in object
  /\ pc = "reset" => object = {cur}

(* The only collector that may be registered is that of g_node, and not    *)
(* before start_node has registered it.                                    *)
CollectorInv ==
  \A i \in registered : g_node = i /\ stage[i] \in {"coreapi", "ok", "failed"}

(* The conjunction the proofs show to be inductive.                        *)
LInv ==
  /\ TypeOK
  /\ WayInv
  /\ ClaimInv
  /\ ObjectInv
  /\ CollectorInv
  /\ ImplOwned

(* go_asio_ipfs_free has forgotten the node when free() resets _impl; with *)
(* LInv this is what the slot needs.                                       *)
ResetInv == pc = "reset" => g_node = 0

(* The monitor and what it has said: nothing before it runs, that the node *)
(* is up while it does, and one last report when it stops.  It is launched *)
(* once, by the start_node that returns without an error; an error cancels *)
(* the node.  This is what the reports of a start need.                    *)
MonitorInvOf(i) ==
  /\ monitor[i] # "none" => stage[i] = "ok"
  /\ monitor[i] \in {"none", "launched"} => report[i] = "none" /\ i \notin lasterr
  /\ monitor[i] = "running" => report[i] = "peers"
  /\ monitor[i] = "stopped" => report[i] \in {"down", "error"}

MonitorInv == \A i \in Start : MonitorInvOf(i)
=============================================================================
