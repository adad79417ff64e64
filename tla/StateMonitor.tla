---------------------------- MODULE StateMonitor ----------------------------
(***************************************************************************)
(* The services of one node and the goroutine that watches them.           *)
(*                                                                         *)
(* maybeRunGC, maybeServeHTTPApi and maybeServeHTTPGateway each make an    *)
(* unbuffered channel errc and goroutines that send one value on it: what  *)
(* PeriodicGC or corehttp.Serve has returned.  start_node launches them    *)
(* one after the other and then the state monitor, whose select receives   *)
(* from the three channels until the context of the node is done.  A send  *)
(* waits for the monitor's receive, so it is one step with it; a receive   *)
(* from a closed channel gives nil at once, and one from a nil channel     *)
(* never happens.                                                          *)
(***************************************************************************)
EXTENDS FiniteSets

CONSTANTS
  Goroutine,    \* the goroutines that send: the collector's, one per listener
  ServiceOf,    \* the service each of them belongs to
  Configs       \* the sets of services that may be asked for

Services == {"gc", "api", "gateway"}

Of(s) == {g \in Goroutine : ServiceOf[g] = s}

ASSUME StateMonitorAssumption ==
  /\ ServiceOf \in [Goroutine -> Services]
  /\ Configs \subseteq SUBSET Services
  /\ Cardinality(Of("gc")) = 1
  /\ Of("api") # {}

VARIABLES
  enabled,   \* the services the configuration asks for
  stage,     \* how far start_node has come
  state,     \* of a goroutine: none, serving, sending, done
  result,    \* what PeriodicGC or Serve has returned to it: none, nil, error
  errc,      \* of a channel: nil, open, closed
  pc,        \* of the monitor: none, launched, select, count, check, stopped
  watched,   \* the channel variables of the monitor that are not nil
  lasterr,   \* lasterr # nil
  ctx,       \* n.ctx is done
  freed,     \* go_asio_ipfs_free has been called
  told       \* what the state callback was last told

monitorVars == <<pc, watched, lasterr, told>>
vars == <<enabled, stage, state, result, errc, monitorVars, ctx, freed>>

Init ==
  /\ enabled \in Configs
  /\ stage   = "gc"
  /\ state   = [g \in Goroutine |-> "none"]
  /\ result  = [g \in Goroutine |-> "none"]
  /\ errc    = [s \in Services |-> "nil"]
  /\ pc      = "none"
  /\ watched = {}
  /\ lasterr = FALSE
  /\ ctx     = FALSE
  /\ freed   = FALSE
  /\ told    = "nothing"

-----------------------------------------------------------------------------
(* start_node.                                                             *)

StageAfter == [gc |-> "api", api |-> "gateway", gateway |-> "monitor"]

(* The goroutines a service may be given.  The collector has one; the API  *)
(* and the gateway have one per listener, of which the API has at least    *)
(* one (that listeners[0] exists is the subject of module RepoConfig) and  *)
(* the gateway may have none.                                              *)
Launched(s) ==
  CASE s = "gc"      -> {Of(s)}
    [] s = "api"     -> SUBSET Of(s) \ {{}}
    [] s = "gateway" -> SUBSET Of(s)

(* errc := make(chan error), and the goroutines of an enabled service.     *)
Serve(s) ==
  /\ stage = s
  /\ stage' = StageAfter[s]
  /\ IF s \in enabled
       THEN /\ errc' = [errc EXCEPT ![s] = "open"]
            /\ \E G \in Launched(s) :
                 state' = [g \in Goroutine |-> IF g \in G THEN "serving" ELSE state[g]]
       ELSE UNCHANGED <<errc, state>>
  /\ UNCHANGED <<enabled, result, monitorVars, ctx, freed>>

(* maybeRunGC cannot fail.  A failed start stops nothing: what has been    *)
(* launched goes on, and there will be no monitor.                         *)
StartFails ==
  /\ stage \in ({"api", "gateway"} \cap enabled) \cup {"monitor"}
  /\ stage' = "failed"
  /\ UNCHANGED <<enabled, state, result, errc, monitorVars, ctx, freed>>

StartMonitorAlways ==
  /\ stage = "monitor"
  /\ stage' = "ready"
  /\ watched' = {s \in Services : errc[s] # "nil"}
  /\ pc' = "launched"
  /\ UNCHANGED <<enabled, state, result, errc, lasterr, told, ctx, freed>>

(* if gcErrc != nil || apiErrc != nil || gwErrc != nil { go func () ...    *)
StartMonitor ==
  /\ stage = "monitor"
  /\ stage' = "ready"
  /\ watched' = {s \in Services : errc[s] # "nil"}
  /\ pc' = IF watched' = {} THEN "none" ELSE "launched"
  /\ UNCHANGED <<enabled, state, result, errc, lasterr, told, ctx, freed>>

(* go_asio_ipfs_free: n.cancel(), and everything that listens is closed.   *)
Free ==
  /\ stage = "ready"
  /\ ~freed
  /\ freed' = TRUE
  /\ ctx' = TRUE
  /\ UNCHANGED <<enabled, stage, state, result, errc, monitorVars>>

-----------------------------------------------------------------------------
(* The goroutines that send.                                               *)

(* PeriodicGC returns nil when the context is done, and at once when it is *)
(* disabled; Serve returns nil only when the node is closing, as it is     *)
(* once its context is done.  Either may return an error at any time.      *)
Returns(g, r) ==
  /\ state[g] = "serving"
  /\ r = "error" \/ ctx \/ ServiceOf[g] = "gc"
  /\ state' = [state EXCEPT ![g] = "sending"]
  /\ result' = [result EXCEPT ![g] = r]
  /\ UNCHANGED <<enabled, stage, errc, monitorVars, ctx, freed>>

CloseErrcEarly(s) ==
  /\ errc[s] = "open"
  /\ \E g \in Of(s) : state[g] = "done"
  /\ errc' = [errc EXCEPT ![s] = "closed"]
  /\ UNCHANGED <<enabled, stage, state, result, monitorVars, ctx, freed>>

(* The collector closes its channel after its send; wg.Wait() comes before *)
(* the close of the API's and of the gateway's.                            *)
CloseErrc(s) ==
  /\ errc[s] = "open"
  /\ \A g \in Of(s) : state[g] \in {"none", "done"}
  /\ errc' = [errc EXCEPT ![s] = "closed"]
  /\ UNCHANGED <<enabled, stage, state, result, monitorVars, ctx, freed>>

-----------------------------------------------------------------------------
(* The state monitor.                                                      *)

MonitorLaunches ==
  /\ pc = "launched"
  /\ pc' = "select"
  /\ told' = "up"
  /\ UNCHANGED <<enabled, stage, state, result, errc, watched, lasterr, ctx, freed>>

NoticeKeeps(s, err) ==
  /\ lasterr' = (lasterr \/ err)
  /\ pc' = "check"
  /\ UNCHANGED <<watched, ctx>>

NoticeLast(s, err) ==
  /\ lasterr' = err
  /\ watched' = IF err THEN watched ELSE watched \ {s}
  /\ pc' = "check"
  /\ UNCHANGED ctx

(* err # nil is remembered, nil retires the channel.                       *)
Notice(s, err) ==
  /\ lasterr' = (lasterr \/ err)
  /\ watched' = IF err THEN watched ELSE watched \ {s}
  /\ pc' = "check"
  /\ UNCHANGED ctx

(* err := <- errc meets errc <- result.                                    *)
Receive(g) ==
  /\ pc = "select"
  /\ state[g] = "sending"
  /\ ServiceOf[g] \in watched
  /\ state' = [state EXCEPT ![g] = "done"]
  /\ Notice(ServiceOf[g], result[g] = "error")
  /\ UNCHANGED <<enabled, stage, result, errc, told, freed>>

(* err := <- errc on a channel that is closed.                             *)
ReceiveClosed(s) ==
  /\ pc = "select"
  /\ s \in watched
  /\ errc[s] = "closed"
  /\ Notice(s, FALSE)
  /\ UNCHANGED <<enabled, stage, state, result, errc, told, freed>>

(* The two seconds are over before another case of the select is ready.    *)
Timeout ==
  /\ pc = "select"
  /\ ~ctx
  /\ \A s \in watched :
       errc[s] # "closed" /\ \A g \in Of(s) : state[g] # "sending"
  /\ pc' = "count"
  /\ UNCHANGED <<enabled, stage, state, result, errc, watched, lasterr, told, ctx, freed>>

(* The number of peers has changed or not: told is "up" anyway.            *)
CountPeers ==
  /\ pc = "count"
  /\ pc' = "check"
  /\ told' = "up"
  /\ UNCHANGED <<enabled, stage, state, result, errc, watched, lasterr, ctx, freed>>

CheckUnguarded ==
  /\ pc = "check"
  /\ pc' = "select"
  /\ ctx' = TRUE
  /\ UNCHANGED <<enabled, stage, state, result, errc, watched, lasterr, told, freed>>

CheckForgotten ==
  /\ pc = "check"
  /\ pc' = "select"
  /\ UNCHANGED <<enabled, stage, state, result, errc, watched, lasterr, told, ctx, freed>>

(* if lasterr != nil { n.cancel() }                                        *)
Check ==
  /\ pc = "check"
  /\ pc' = "select"
  /\ ctx' = (ctx \/ lasterr)
  /\ UNCHANGED <<enabled, stage, state, result, errc, watched, lasterr, told, freed>>

(* <- n.ctx.Done(): stateCB(lasterr, 0) and return.  The select takes any  *)
(* case that is ready, so an error that is ready too may be left behind.   *)
MonitorStops ==
  /\ pc = "select"
  /\ ctx
  /\ pc' = "stopped"
  /\ told' = IF lasterr THEN "error" ELSE "down"
  /\ UNCHANGED <<enabled, stage, state, result, errc, watched, lasterr, ctx, freed>>

MonitorStep ==
  \/ MonitorLaunches \/ Timeout \/ CountPeers \/ Check \/ MonitorStops
  \/ \E g \in Goroutine : Receive(g)
  \/ \E s \in Services : ReceiveClosed(s)

-----------------------------------------------------------------------------
(* The node is gone, or was never there, and every goroutine has ended or  *)
(* is blocked for good.                                                    *)
Terminated ==
  /\ freed \/ stage = "failed"
  /\ pc \in {"none", "stopped"}
  /\ \A g \in Goroutine : state[g] # "serving"
  /\ \A s \in Services : errc[s] = "open" => \E g \in Of(s) : state[g] = "sending"
  /\ UNCHANGED vars

Next ==
  \/ \E s \in Services : Serve(s) \/ CloseErrc(s)
  \/ StartFails \/ StartMonitor \/ Free
  \/ \E g \in Goroutine, r \in {"nil", "error"} : Returns(g, r)
  \/ MonitorStep
  \/ Terminated

Spec == Init /\ [][Next]_vars

(* start_node comes to an end; the monitor does not stand still while a    *)
(* case of its select is ready; Serve and PeriodicGC return once the       *)
(* context is done (Serve gives its requests a limited time); the          *)
(* goroutines that close a channel get to run.                             *)
Fairness ==
  /\ WF_vars((\E s \in Services : Serve(s)) \/ StartFails \/ StartMonitor)
  /\ WF_vars(MonitorStep)
  /\ \A g \in Goroutine :
       WF_vars(ctx /\ \E r \in {"nil", "error"} : Returns(g, r))
  /\ \A s \in Services : WF_vars(CloseErrc(s))

FairSpec == Spec /\ Fairness

-----------------------------------------------------------------------------
(* Properties.                                                             *)

(* The values each variable ranges over; there is a monitor exactly for a  *)
(* started node that serves something.                                     *)
TypeOK ==
  /\ enabled \in Configs
  /\ stage \in {"gc", "api", "gateway", "monitor", "ready", "failed"}
  /\ state \in [Goroutine -> {"none", "serving", "sending", "done"}]
  /\ result \in [Goroutine -> {"none", "nil", "error"}]
  /\ errc \in [Services -> {"nil", "open", "closed"}]
  /\ pc \in {"none", "launched", "select", "count", "check", "stopped"}
  /\ pc # "none" <=> stage = "ready" /\ enabled # {}
  /\ watched \subseteq enabled
  /\ lasterr \in BOOLEAN
  /\ ctx \in BOOLEAN
  /\ freed \in BOOLEAN
  /\ told \in {"nothing", "up", "down", "error"}

(* No channel is closed while a goroutine may still send on it: a send on  *)
(* a closed channel would panic and take the process of the user with it.  *)
NoSendOnClosed ==
  \A g \in Goroutine :
    state[g] \in {"serving", "sending"} => errc[ServiceOf[g]] = "open"

(* The last report tells the truth: "down" without an error is said only   *)
(* of a node that the user has freed, so that a failure is never taken for *)
(* a shutdown; and an error is one that a service has returned.            *)
LastReportIsTrue ==
  /\ told = "down" => freed
  /\ told = "error" => \E g \in Goroutine : result[g] = "error" /\ state[g] = "done"

(* The failure of any one service of a node that has started ends the      *)
(* node, whatever the other services are doing.                            *)
FailureEndsNode ==
  \A g \in Goroutine :
    stage = "ready" /\ state[g] = "sending" /\ result[g] = "error" ~> ctx

(* A closed channel, which is always ready, does not keep the monitor      *)
(* going round its select for ever: it is retired, or the monitor stops.   *)
ClosedIsRetired ==
  \A s \in Services :
    pc = "select" /\ errc[s] = "closed" ~> s \notin watched \/ pc = "stopped"

(* The reports of the monitor are those that the user is promised.         *)
Reports == INSTANCE StateReports WITH fault <- lasterr, done <- ctx

ReportsAsPromised == Reports!Spec

(* The same without the promise that the last report comes.                *)
ReportsAsPromisedSafety == Reports!Safety

(* "IPFS GC thread is closed": the goroutine of the garbage collector ends *)
(* when the node is freed.                                                 *)
GCThreadCloses ==
  freed /\ errc["gc"] = "open" ~> errc["gc"] = "closed"

-----------------------------------------------------------------------------
(* The inductive invariant behind the safety properties above.             *)

(* Where start_node is when it has passed the stage of a service.          *)
Beyond == [gc      |-> {"api", "gateway", "monitor"},
           api     |-> {"gateway", "monitor"},
           gateway |-> {"monitor"}]

(* A service has a channel only if it was asked for, and has one once its  *)
(* stage is over.                                                          *)
ErrcInv ==
  \A s \in Services :
    /\ errc[s] # "nil" => s \in enabled
    /\ s \in enabled /\ stage \in Beyond[s] => errc[s] # "nil"

(* The context is done for a reason, and the monitor's lasterr is an error *)
(* that a goroutine has sent.                                              *)
CauseInv ==
  /\ ctx => freed \/ lasterr
  /\ lasterr => pc # "none"
  /\ lasterr => \E g \in Goroutine : result[g] = "error" /\ state[g] = "done"

(* What was told follows from where the monitor is.                        *)
ToldInv ==
  /\ pc \in {"none", "launched"} => told = "nothing" /\ ~lasterr
  /\ pc \in {"select", "count", "check"} => told = "up"
  /\ pc = "stopped" => told = IF lasterr THEN "error" ELSE "down"
  /\ pc = "stopped" => ctx

(* The conjunction the proofs show to be inductive.                        *)
MInv ==
  /\ TypeOK
  /\ ErrcInv
  /\ CauseInv
  /\ ToldInv
=============================================================================
