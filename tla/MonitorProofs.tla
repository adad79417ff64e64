--------------------------- MODULE MonitorProofs ---------------------------
(***************************************************************************)
(* Proofs about StateMonitor, for any number of listeners and every set of *)
(* configurations.                                                         *)
(***************************************************************************)
EXTENDS StateMonitor, TLAPS

USE StateMonitorAssumption

(* The invariant holds initially.                                          *)
LEMMA InitMInv == Init => MInv
<1> SUFFICES ASSUME Init PROVE MInv
  OBVIOUS
<1> USE DEF Init
<1>1. TypeOK
  BY DEF TypeOK, Services
<1>2. ErrcInv
  BY DEF ErrcInv, Beyond, Services
<1>3. CauseInv /\ ToldInv
  BY DEF CauseInv, ToldInv
<1> QED BY <1>1, <1>2, <1>3 DEF MInv

(* start_node launches the goroutines of a service.                        *)
LEMMA ServeMInv ==
  ASSUME MInv, NEW s \in Services, Serve(s)
  PROVE  MInv'
<1>1. stage = s /\ stage' = StageAfter[s] /\ UNCHANGED <<enabled, result, monitorVars, ctx, freed>>
  BY DEF Serve
<1>2. stage' \in {"api", "gateway", "monitor"}
  BY <1>1 DEF StageAfter, Services
<1>3. state' \in [Goroutine -> {"none", "serving", "sending", "done"}]
  BY DEF Serve, MInv, TypeOK
<1>4. /\ errc' \in [Services -> {"nil", "open", "closed"}]
      /\ errc'[s] # "nil" => s \in enabled
      /\ s \in enabled => errc'[s] # "nil"
      /\ \A t \in Services : t # s => errc'[t] = errc[t]
  <2>1. errc'[s] = IF s \in enabled THEN "open" ELSE errc[s]
    BY DEF Serve, MInv, TypeOK
  <2> QED BY <2>1 DEF Serve, MInv, TypeOK, ErrcInv
<1>5. pc = "none" /\ ~lasterr
  BY <1>1 DEF MInv, TypeOK, ToldInv, Services
<1>6. TypeOK'
  BY <1>1, <1>2, <1>3, <1>4, <1>5 DEF MInv, TypeOK, monitorVars
<1>7. ErrcInv'
  BY <1>1, <1>4 DEF MInv, ErrcInv, Beyond, StageAfter, Services, monitorVars
<1>8. CauseInv' /\ ToldInv'
  BY <1>1, <1>5 DEF MInv, CauseInv, ToldInv, monitorVars
<1> QED BY <1>6, <1>7, <1>8 DEF MInv

(* The other steps of start_node, and go_asio_ipfs_free.                   *)
LEMMA StartMInv ==
  ASSUME MInv, StartFails \/ StartMonitor \/ Free
  PROVE  MInv'
<1> USE DEF MInv, monitorVars
<1>1. CASE StartFails
  <2>1. TypeOK'
    BY <1>1 DEF StartFails, TypeOK
  <2> QED BY <1>1, <2>1 DEF StartFails, ErrcInv, Beyond, CauseInv, ToldInv, Services
<1>2. CASE StartMonitor
  <2>1. watched' = enabled
    <3>1. enabled \subseteq Services
      BY DEF TypeOK
    <3>2. \A s \in Services : stage \in Beyond[s]
      BY <1>2 DEF StartMonitor, Beyond, Services
    <3>3. \A s \in Services : errc[s] # "nil" <=> s \in enabled
      BY <3>2 DEF ErrcInv
    <3>4. watched' = {s \in Services : errc[s] # "nil"}
      BY <1>2 DEF StartMonitor
    <3> QED BY <3>1, <3>3, <3>4
  <2>2. TypeOK'
    BY <1>2, <2>1 DEF StartMonitor, TypeOK
  <2>3. ErrcInv'
    BY <1>2 DEF StartMonitor, ErrcInv, Beyond, Services
  <2>4. CauseInv' /\ ToldInv'
    BY <1>2 DEF StartMonitor, CauseInv, ToldInv, TypeOK
  <2> QED BY <2>2, <2>3, <2>4
<1>3. CASE Free
  <2>1. TypeOK'
    BY <1>3 DEF Free, TypeOK
  <2> QED BY <1>3, <2>1 DEF Free, ErrcInv, Beyond, CauseInv, ToldInv, Services
<1> QED BY <1>1, <1>2, <1>3

(* A goroutine is about to send; the channel of a service is closed.       *)
LEMMA SenderMInv ==
  ASSUME MInv,
         \/ \E g \in Goroutine, r \in {"nil", "error"} : Returns(g, r)
         \/ \E s \in Services : CloseErrc(s)
  PROVE  MInv'
<1> USE DEF MInv, monitorVars
<1>1. ASSUME NEW g \in Goroutine, NEW r \in {"nil", "error"}, Returns(g, r) PROVE MInv'
  <2>1. TypeOK'
    BY <1>1 DEF Returns, TypeOK
  <2>2. ErrcInv' /\ ToldInv'
    BY <1>1 DEF Returns, ErrcInv, ToldInv, Beyond
  <2>3. \A k \in Goroutine : state[k] = "done" => state'[k] = "done" /\ result'[k] = result[k]
    BY <1>1 DEF Returns, TypeOK
  <2>4. CauseInv'
    BY <1>1, <2>3 DEF Returns, CauseInv
  <2> QED BY <2>1, <2>2, <2>4
<1>2. ASSUME NEW s \in Services, CloseErrc(s) PROVE MInv'
  <2>1. TypeOK'
    BY <1>2 DEF CloseErrc, TypeOK
  <2>2. \A t \in Services : errc'[t] # "nil" <=> errc[t] # "nil"
    BY <1>2 DEF CloseErrc, TypeOK
  <2>3. ErrcInv'
    BY <1>2, <2>2 DEF CloseErrc, ErrcInv, Beyond
  <2>4. CauseInv' /\ ToldInv'
    BY <1>2 DEF CloseErrc, CauseInv, ToldInv
  <2> QED BY <2>1, <2>3, <2>4
<1> QED BY <1>1, <1>2

(* The state monitor.                                                      *)
LEMMA MonitorMInv == MInv /\ MonitorStep => MInv'
<1> SUFFICES ASSUME MInv, MonitorStep PROVE MInv'
  OBVIOUS
<1> USE DEF MInv, monitorVars
<1>1. CASE MonitorLaunches \/ Timeout \/ CountPeers \/ MonitorStops
  <2>1. /\ UNCHANGED <<enabled, stage, state, result, errc, watched, lasterr, ctx, freed>>
        /\ pc \in {"launched", "select", "count"} /\ pc' \in {"select", "count", "check", "stopped"}
        /\ told' \in {"up", "down", "error"} \/ (told' = told)
    BY <1>1 DEF MonitorLaunches, Timeout, CountPeers, MonitorStops
  <2>2. TypeOK'
    BY <2>1 DEF TypeOK
  <2>3. ErrcInv' /\ CauseInv'
    BY <2>1 DEF ErrcInv, CauseInv, Beyond
  <2>4. ToldInv'
    BY <1>1 DEF MonitorLaunches, Timeout, CountPeers, MonitorStops, ToldInv
  <2> QED BY <2>2, <2>3, <2>4
<1>2. CASE Check
  <2>1. TypeOK'
    BY <1>2 DEF Check, TypeOK
  <2> QED BY <1>2, <2>1 DEF Check, ErrcInv, CauseInv, ToldInv, Beyond
<1>3. ASSUME NEW g \in Goroutine, Receive(g) PROVE MInv'
  <2>1. TypeOK'
    BY <1>3 DEF Receive, Notice, TypeOK
  <2>2. ErrcInv' /\ ToldInv'
    BY <1>3 DEF Receive, Notice, ErrcInv, ToldInv, Beyond
  <2>3. /\ \A k \in Goroutine : state[k] = "done" => state'[k] = "done"
        /\ state'[g] = "done" /\ result' = result
        /\ lasterr' => lasterr \/ result[g] = "error"
    BY <1>3 DEF Receive, Notice, TypeOK
  <2>4. CauseInv'
    BY <1>3, <2>3 DEF Receive, Notice, CauseInv
  <2> QED BY <2>1, <2>2, <2>4
<1>4. ASSUME NEW s \in Services, ReceiveClosed(s) PROVE MInv'
  <2>1. TypeOK'
    BY <1>4 DEF ReceiveClosed, Notice, TypeOK
  <2> QED BY <1>4, <2>1 DEF ReceiveClosed, Notice, ErrcInv, CauseInv, ToldInv, Beyond
<1> QED BY <1>1, <1>2, <1>3, <1>4 DEF MonitorStep

(* Every step preserves the invariant.                                     *)
LEMMA NextMInv == MInv /\ [Next]_vars => MInv'
<1> SUFFICES ASSUME MInv, [Next]_vars PROVE MInv'
  OBVIOUS
<1>1. CASE UNCHANGED vars
  BY <1>1 DEF MInv, TypeOK, ErrcInv, Beyond, CauseInv, ToldInv, vars, monitorVars
<1>2. CASE Next
  BY <1>1, <1>2, ServeMInv, StartMInv, SenderMInv, MonitorMInv DEF Next, Terminated
<1> QED BY <1>1, <1>2

(* Whatever the services do and however many listeners they have: the      *)
(* context is done because of a free or an error that was received, and    *)
(* what was told follows from where the monitor is.                        *)
THEOREM MonitorInductive == Spec => []MInv
<1> QED BY InitMInv, NextMInv, PTL DEF Spec

(* The monitor is there exactly for a started node that serves something.  *)
THEOREM MonitorTypeCorrect == Spec => []TypeOK
<1>1. MInv => TypeOK
  BY DEF MInv
<1> QED BY <1>1, MonitorInductive, PTL

(* The last report is of a node that was freed, or of an error that one of *)
(* its services has returned: the monitor never takes a failure for a      *)
(* shutdown.                                                               *)
THEOREM TruthTold == Spec => []LastReportIsTrue
<1>1. MInv => LastReportIsTrue
  <2> SUFFICES ASSUME MInv PROVE LastReportIsTrue
    OBVIOUS
  <2>1. told \in {"down", "error"} => pc = "stopped"
    BY DEF MInv, TypeOK, ToldInv
  <2> QED BY <2>1 DEF MInv, ToldInv, CauseInv, LastReportIsTrue
<1> QED BY <1>1, MonitorInductive, PTL

(* A channel that was made for a service is closed once, and by nobody     *)
(* while one of the goroutines of the service is still to send on it.      *)
LEMMA NextNoSendOnClosed ==
  ASSUME TypeOK, NoSendOnClosed, [Next]_vars
  PROVE  NoSendOnClosed'
<1> USE DEF NoSendOnClosed
<1>1. CASE UNCHANGED <<state, errc>>
  BY <1>1
<1>2. ASSUME NEW s \in Services, Serve(s) PROVE NoSendOnClosed'
  <2> SUFFICES ASSUME NEW g \in Goroutine, state'[g] \in {"serving", "sending"}
               PROVE  errc'[ServiceOf[g]] = "open"
    OBVIOUS
  <2>1. CASE s \in enabled
    <3>1. /\ errc'[s] = "open"
          /\ \A t \in Services : t # s => errc'[t] = errc[t]
      BY <1>2, <2>1 DEF Serve, TypeOK
    <3>2. PICK G \in Launched(s) :
            state' = [k \in Goroutine |-> IF k \in G THEN "serving" ELSE state[k]]
      BY <1>2, <2>1 DEF Serve
    <3>3. G \subseteq Of(s)
      <4>1. CASE s = "gc"
        BY <4>1 DEF Launched
      <4>2. CASE s = "api"
        BY <4>2 DEF Launched
      <4>3. CASE s = "gateway"
        BY <4>3 DEF Launched
      <4> QED BY <4>1, <4>2, <4>3 DEF Services
    <3>4. CASE g \in G
      BY <3>1, <3>3, <3>4 DEF Of
    <3>5. CASE g \notin G
      BY <3>1, <3>2, <3>5
    <3> QED BY <3>4, <3>5
  <2>2. CASE s \notin enabled
    BY <1>2, <2>2 DEF Serve
  <2> QED BY <2>1, <2>2
<1>3. ASSUME NEW s \in Services, CloseErrc(s) PROVE NoSendOnClosed'
  BY <1>3 DEF CloseErrc, TypeOK, Of
<1>4. ASSUME NEW g \in Goroutine, NEW r \in {"nil", "error"}, Returns(g, r)
      PROVE  NoSendOnClosed'
  BY <1>4 DEF Returns, TypeOK
<1>5. ASSUME NEW g \in Goroutine, Receive(g) PROVE NoSendOnClosed'
  BY <1>5 DEF Receive, TypeOK
<1>6. CASE \/ StartFails \/ StartMonitor \/ Free \/ Terminated
           \/ MonitorLaunches \/ Timeout \/ CountPeers \/ Check \/ MonitorStops
           \/ \E s \in Services : ReceiveClosed(s)
  BY <1>1, <1>6 DEF StartFails, StartMonitor, Free, Terminated, MonitorLaunches, Timeout,
                    CountPeers, Check, MonitorStops, ReceiveClosed, vars
<1>7. CASE UNCHANGED vars
  BY <1>1, <1>7 DEF vars
<1> QED BY <1>2, <1>3, <1>4, <1>5, <1>6, <1>7 DEF Next, MonitorStep

(* No goroutine of maybeRunGC, maybeServeHTTPApi or maybeServeHTTPGateway  *)
(* sends on a closed channel, however many listeners there are: wg.Wait()  *)
(* is enough.                                                              *)
THEOREM NoPanicOnSend == Spec => []NoSendOnClosed
<1>1. Init => NoSendOnClosed
  BY DEF Init, NoSendOnClosed
<1>2. MInv => TypeOK
  BY DEF MInv
<1> QED BY <1>1, <1>2, NextNoSendOnClosed, MonitorInductive, PTL DEF Spec

-----------------------------------------------------------------------------
(* The refinement of StateReports.                                         *)

(* What a step of the monitor, of start_node or of a service is to the     *)
(* user: a report, a failure, a cancellation or nothing.                   *)
LEMMA NextReports ==
  ASSUME MInv, [Next]_vars
  PROVE  [Reports!Next]_(Reports!vars)
<1> USE DEF Reports!vars, Reports!Next, MInv
<1>1. CASE UNCHANGED <<told, lasterr, ctx>>
  BY <1>1
<1>2. CASE MonitorLaunches \/ CountPeers
  BY <1>2 DEF MonitorLaunches, CountPeers, Reports!Up, ToldInv
<1>3. CASE MonitorStops
  BY <1>3 DEF MonitorStops, Reports!Last, ToldInv
<1>4. CASE Check \/ Free
  <2>1. told' = told /\ lasterr' = lasterr /\ (ctx' = ctx \/ ctx' = TRUE)
    BY <1>4 DEF Check, Free, TypeOK, monitorVars
  <2> QED BY <2>1 DEF Reports!Cancel
<1>5. ASSUME NEW s \in Services, NEW err \in BOOLEAN,
             pc = "select", Notice(s, err), told' = told
      PROVE  [Reports!Next]_(Reports!vars)
  <2>1. told = "up"
    BY <1>5 DEF ToldInv
  <2>2. ctx' = ctx /\ (lasterr' = lasterr \/ lasterr' = TRUE)
    BY <1>5 DEF Notice, TypeOK
  <2> QED BY <1>5, <2>1, <2>2 DEF Reports!Fail
<1>6. ASSUME NEW g \in Goroutine, Receive(g) PROVE [Reports!Next]_(Reports!vars)
  <2>1. ServiceOf[g] \in Services /\ (result[g] = "error") \in BOOLEAN
    OBVIOUS
  <2>2. pc = "select" /\ Notice(ServiceOf[g], result[g] = "error") /\ told' = told
    BY <1>6 DEF Receive
  <2> QED BY <1>5, <2>1, <2>2
<1>7. ASSUME NEW s \in Services, ReceiveClosed(s) PROVE [Reports!Next]_(Reports!vars)
  BY <1>5, <1>7 DEF ReceiveClosed
<1>8. CASE \/ StartFails \/ StartMonitor \/ Timeout \/ Terminated
           \/ \E s \in Services : Serve(s) \/ CloseErrc(s)
           \/ \E g \in Goroutine, r \in {"nil", "error"} : Returns(g, r)
  BY <1>1, <1>8 DEF StartFails, StartMonitor, Timeout, Terminated, Serve, CloseErrc, Returns,
                    monitorVars, vars
<1>9. CASE UNCHANGED vars
  BY <1>1, <1>9 DEF vars, monitorVars
<1> QED BY <1>2, <1>3, <1>4, <1>6, <1>7, <1>8, <1>9 DEF Next, MonitorStep

(* The state callback is called as StateReports promises: reports that the *)
(* node is up, then one last one that says whether it has failed, then     *)
(* nothing.                                                                *)
THEOREM ReportsRefined == Spec => ReportsAsPromisedSafety
<1>1. Init => Reports!Init
  BY DEF Init, Reports!Init
<1> QED BY <1>1, NextReports, MonitorInductive, PTL DEF Spec, ReportsAsPromisedSafety, Reports!Safety
=============================================================================
