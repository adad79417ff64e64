----------------------------- MODULE RepoProofs -----------------------------
(***************************************************************************)
(* Proofs about RepoConfig, for any number of processes, requests and      *)
(* starts.                                                                 *)
(***************************************************************************)
EXTENDS RepoConfig, TLAPS

USE RepoConfigAssumption DEF None, Free, ConfigUnlocked

(* What DefaultConfig, UpdateConfig and EditConfig make is a               *)
(* configuration, and which fields of it are whose.                        *)
LEMMA DefaultConfigFacts ==
  ASSUME NEW id \in 0 .. MaxStart
  PROVE  DefaultConfig(id) \in Config /\ DefaultConfig(id).base # None
  BY DEF DefaultConfig, Config, Bases, Peering, Api

LEMMA NoConfigFacts == NoConfig \in Config /\ NoConfig.base = None
  BY DEF NoConfig, Config, Bases, Peering, Api

LEMMA UpdateConfigFacts ==
  ASSUME NEW c \in Config, NEW r \in Requests \cup {NoRequest}
  PROVE  LET d == UpdateConfig(c, r)
         IN  /\ d \in Config
             /\ d.id = c.id /\ d.base = r.base /\ d.api = r.api
             /\ r.peering # None => d.peering = r.peering
<1>1. r.base \in Bases /\ r.api \in Api /\ r.peering \in Peering
  BY DEF Bases, Api, Peering, NoRequest
<1>2. KeepOr(r.peering, c.peering) \in Peering
  BY <1>1 DEF KeepOr, Config
<1> HIDE DEF Bases, Api, Peering
<1> QED BY <1>1, <1>2 DEF UpdateConfig, Config, KeepOr

LEMMA EditConfigFacts ==
  ASSUME NEW c \in Config, NEW r \in Requests
  PROVE  LET d == [c EXCEPT !.base = r.base, !.peering = r.peering, !.api = r.api]
         IN  d \in Config /\ d.id = c.id /\ d.base # None
<1>1. r.base \in Bases /\ r.api \in Api /\ r.peering \in Peering
  BY DEF Bases, Api, Peering
<1> QED BY <1>1 DEF Config

-----------------------------------------------------------------------------
(* Type correctness.                                                       *)

LEMMA InitTypeOK == Init => TypeOK
<1> SUFFICES ASSUME Init PROVE TypeOK
  OBVIOUS
<1>1. 0 \in 0 .. MaxStart
  OBVIOUS
<1>2. config \in Config
  BY <1>1, DefaultConfigFacts, NoConfigFacts DEF Init
<1>3. NoNode \in [conf : Config, key : Key, api : Api]
  BY NoConfigFacts DEF NoNode, Key, Api
<1> QED BY <1>1, <1>2, <1>3, NoConfigFacts DEF Init, TypeOK, Starting, Key

(* A step of start_node leaves the types alone.                            *)
LEMMA StartStepTypeOK ==
  ASSUME TypeOK, NEW p \in Proc, StartStep(p)
  PROVE  TypeOK'
<1> USE DEF TypeOK, At, Goto, Starting, Initialising
<1>1. CASE CheckInitialized(p)
  BY <1>1 DEF CheckInitialized, Met, disk
<1>2. CASE InitRepo(p)
  <2>1. UpdateConfig(DefaultConfig(num[p]), want[p]) \in Config
    BY DefaultConfigFacts, UpdateConfigFacts
  <2> QED BY <1>2, <2>1 DEF InitRepo
<1>3. CASE FsInit(p)
  BY <1>3 DEF FsInit
<1>12. CASE FsInitConfig(p)
  BY <1>12 DEF FsInitConfig
<1>13. CASE FsInitVersion(p)
  BY <1>13 DEF FsInitVersion
<1>4. ASSUME NEW from, NEW write \in Starting, NEW next \in Starting,
             CreateKey(p, from, write, next) \/ WriteKey(p, from, next)
      PROVE  TypeOK'
  <2>1. "torn" \in Key /\ want[p].key \in Key
    BY DEF Key, NoRequest
  <2> QED BY <1>4, <2>1 DEF CreateKey, WriteKey
<1>5. CASE Open(p)
  BY <1>5 DEF Open
<1>11. CASE OpenNoVersion(p) \/ OpenBusy(p)
  BY <1>11 DEF OpenNoVersion, OpenBusy
<1>6. CASE LockCheck(p)
  <2>1. UpdateConfig(conf[p], want[p]) \in Config
    BY UpdateConfigFacts
  <2> QED BY <1>6, <2>1 DEF LockCheck
<1>7. CASE SetConfig(p)
  BY <1>7 DEF SetConfig
<1>8. CASE NewNode(p)
  <2>1. None \in Api
    BY DEF Api
  <2>2. [conf |-> conf[p], key |-> swarmkey, api |-> None] \in [conf : Config, key : Key, api : Api]
    BY <2>1
  <2>3. CASE swarmkey = "torn"
    BY <1>8, <2>3 DEF NewNode
  <2>4. CASE swarmkey # "torn"
    BY <1>8, <2>2, <2>4 DEF NewNode
  <2> QED BY <2>3, <2>4
<1>9. CASE UnknownRouting(p) \/ NoListener(p)
  BY <1>9 DEF UnknownRouting, NoListener, Panic
<1>10. CASE ServeApi(p)
  <2>1. (IF want[p].api = None THEN None ELSE conf[p].api) \in Api
    BY DEF Config, Api
  <2> QED BY <1>10, <2>1 DEF ServeApi
<1> QED BY <1>1, <1>2, <1>3, <1>4, <1>5, <1>6, <1>7, <1>8, <1>9, <1>10, <1>11, <1>12, <1>13
        DEF StartStep

LEMMA NextTypeOK == TypeOK /\ [Next]_vars => TypeOK'
<1> SUFFICES ASSUME TypeOK, [Next]_vars PROVE TypeOK'
  OBVIOUS
<1>1. ASSUME NEW p \in Proc, StartStep(p) PROVE TypeOK'
  BY <1>1, StartStepTypeOK
<1>2. ASSUME NEW p \in Proc, StartFails(p) PROVE TypeOK'
  BY <1>2 DEF StartFails, At, Goto, TypeOK
<1>3. ASSUME NEW p \in Proc, Exit(p) PROVE TypeOK'
  <2>1. NoNode \in [conf : Config, key : Key, api : Api]
    BY NoConfigFacts DEF NoNode, Key, Api
  <2> QED BY <1>3, <2>1, NoConfigFacts DEF Exit, Goto, disk, TypeOK
<1>4. ASSUME NEW p \in Proc, NEW r \in Requests, Begin(p, r) PROVE TypeOK'
  <2>1. starts + 1 \in 0 .. MaxStart
    BY <1>4 DEF Begin, TypeOK
  <2> QED BY <1>4, <2>1 DEF Begin, Goto, disk, TypeOK, Starting
<1>5. CASE ToggleLock
  BY <1>5 DEF ToggleLock, procVars, TypeOK
<1>6. ASSUME NEW r \in Requests, EditConfig(r) PROVE TypeOK'
  BY <1>6, EditConfigFacts DEF EditConfig, procVars, TypeOK
<1>7. CASE UNCHANGED vars
  BY <1>7 DEF vars, disk, procVars, TypeOK
<1> QED BY <1>1, <1>2, <1>3, <1>4, <1>5, <1>6, <1>7 DEF Next

(* Every variable keeps its type, whatever fails or crashes.               *)
THEOREM RepoTypeCorrect == Spec => []TypeOK
<1> QED BY InitTypeOK, NextTypeOK, PTL DEF Spec

-----------------------------------------------------------------------------
(* A step belongs to one process, or to the administrator.                 *)

StepOf(p) ==
  StartStep(p) \/ StartFails(p) \/ Exit(p) \/ \E r \in Requests : Begin(p, r)

ProcInv(p) == HolderInv(p) /\ AskedInv(p) /\ NodeInv(p) /\ FailedInv(p)

(* A process is where it was, and keeps the repository if it has it.       *)
Unmoved(q) ==
  /\ pc'[q] = pc[q] /\ want'[q] = want[q] /\ conf'[q] = conf[q]
  /\ locked'[q] = locked[q] /\ why'[q] = why[q] /\ node'[q] = node[q]
  /\ repolock = q => repolock' = q
  /\ q \in raced => q \in raced'

(* Nobody changes the files under a process that holds the repository and  *)
(* whose start has met no other in initRepo.                               *)
Undisturbed(q) ==
  pc[q] \in Holding /\ q \notin raced => config' = config /\ swarmkey' = swarmkey

LEMMA OthersUnmoved ==
  ASSUME TypeOK, NEW p \in Proc, HolderInv(p), StepOf(p), NEW q \in Proc, q # p
  PROVE  Unmoved(q)
<1> USE DEF TypeOK, At, Goto, Unmoved
<1>1. CASE CheckInitialized(p) \/ InitRepo(p)
  BY <1>1 DEF CheckInitialized, InitRepo
<1>2. CASE FsInit(p) \/ FsInitConfig(p) \/ FsInitVersion(p) \/ SetConfig(p)
  BY <1>2 DEF FsInit, FsInitConfig, FsInitVersion, SetConfig
<1>3. ASSUME NEW from, NEW write, NEW next, CreateKey(p, from, write, next) \/ WriteKey(p, from, next)
      PROVE  Unmoved(q)
  BY <1>3 DEF CreateKey, WriteKey
<1>4. CASE Open(p) \/ OpenNoVersion(p) \/ OpenBusy(p)
  BY <1>4 DEF Open, OpenNoVersion, OpenBusy
<1>5. CASE LockCheck(p)
  BY <1>5 DEF LockCheck
<1>6. CASE NewNode(p) \/ ServeApi(p)
  BY <1>6 DEF NewNode, ServeApi
<1>7. CASE UnknownRouting(p) \/ NoListener(p)
  <2>1. repolock = p
    BY <1>7 DEF UnknownRouting, NoListener, Panic, HolderInv, Holding
  <2> QED BY <1>7, <2>1 DEF UnknownRouting, NoListener, Panic
<1>8. CASE StartFails(p)
  BY <1>8 DEF StartFails
<1>9. CASE Exit(p)
  BY <1>9 DEF Exit
<1>10. ASSUME NEW r \in Requests, Begin(p, r) PROVE Unmoved(q)
  BY <1>10 DEF Begin
<1> QED BY <1>1, <1>2, <1>3, <1>4, <1>5, <1>6, <1>7, <1>8, <1>9, <1>10 DEF StepOf, StartStep

(* The only steps of a process that write the files.                       *)
Writes(p) ==
  \/ FsInitConfig(p) \/ SetConfig(p)
  \/ CreateKey(p, "initkey", "initwrite", "open") \/ WriteKey(p, "initwrite", "open")
  \/ CreateKey(p, "openkey", "openwrite", "newnode") \/ WriteKey(p, "openwrite", "newnode")

LEMMA OnlyWritesWrite ==
  ASSUME NEW p \in Proc, StepOf(p), ~Writes(p)
  PROVE  UNCHANGED <<config, swarmkey>>
  BY DEF StepOf, StartStep, Writes, CheckInitialized, InitRepo, FsInit, FsInitVersion, Open,
         OpenNoVersion, OpenBusy, LockCheck, NewNode, UnknownRouting, ServeApi, NoListener, Panic, StartFails, Exit, Begin, disk

(* The configuration does not go away, and it is replaced by one of the    *)
(* same identity, unless a start writes it that has met another one.       *)
LEMMA ConfigKept ==
  ASSUME RInv, [Next]_vars
  PROVE  /\ config.base # None => config'.base # None
         /\ config' # NoConfig => config'.base # None
         /\ config # NoConfig /\ config'.id # config.id => \E p \in raced : pc'[p] # pc[p]
<1> USE DEF RInv
<1>1. CASE UNCHANGED config
  BY <1>1 DEF BaseInv
<1>2. ASSUME NEW p \in Proc, FsInitConfig(p)
      PROVE  /\ config'.base # None
             /\ config # NoConfig => p \in raced /\ pc'[p] # pc[p]
  <2>1. pc[p] = "fswrite" /\ pc'[p] = "fsversion" /\ config' = conf[p]
    BY <1>2 DEF FsInitConfig, At, Goto, TypeOK
  <2> QED BY <2>1 DEF HolderInv, RaceInv
<1>3. ASSUME NEW p \in Proc, SetConfig(p)
      PROVE  /\ config'.base # None
             /\ config'.id # config.id => p \in raced /\ pc'[p] # pc[p]
  <2>1. pc[p] = "setconfig" /\ pc'[p] = "openkey" /\ config' = conf[p]
    BY <1>3 DEF SetConfig, At, Goto, TypeOK
  <2>2. ~locked[p] /\ want[p] \in Requests /\ (p \notin raced => conf[p].id = config.id)
    BY <2>1 DEF HolderInv
  <2>3. conf[p].base = want[p].base
    BY <2>1, <2>2 DEF AskedInv, Holding
  <2> QED BY <2>1, <2>2, <2>3
<1>4. ASSUME NEW r \in Requests, EditConfig(r)
      PROVE  config'.base # None /\ config'.id = config.id
  BY <1>4, EditConfigFacts DEF EditConfig, TypeOK
<1>5. ASSUME NEW p \in Proc, StepOf(p), ~FsInitConfig(p), ~SetConfig(p) PROVE UNCHANGED config
  BY <1>5, OnlyWritesWrite DEF Writes, CreateKey, WriteKey
<1>6. CASE ToggleLock \/ UNCHANGED vars
  BY <1>1, <1>6 DEF ToggleLock, vars, disk
<1> QED BY <1>1, <1>2, <1>3, <1>4, <1>5, <1>6 DEF Next, StepOf

LEMMA OthersUndisturbed ==
  ASSUME RInv, NEW p \in Proc, StepOf(p), NEW q \in Proc, q # p
  PROVE  Undisturbed(q)
<1> SUFFICES ASSUME pc[q] \in Holding, q \notin raced
             PROVE  config' = config /\ swarmkey' = swarmkey
  BY DEF Undisturbed
<1> USE DEF RInv
<1>1. repolock = q /\ pc[p] \notin Holding
  BY DEF HolderInv
<1>2. pc[p] \notin Initialising
  BY DEF RaceInv, Written
<1>3. CASE FsInitConfig(p)
  BY <1>2, <1>3 DEF FsInitConfig, At, Initialising
<1>4. CASE SetConfig(p)
  BY <1>1, <1>4 DEF SetConfig, At, Holding
<1>5. CASE CreateKey(p, "initkey", "initwrite", "open") \/ WriteKey(p, "initwrite", "open")
  BY <1>2, <1>5 DEF CreateKey, WriteKey, At, Initialising
<1>6. CASE CreateKey(p, "openkey", "openwrite", "newnode") \/ WriteKey(p, "openwrite", "newnode")
  BY <1>1, <1>6 DEF CreateKey, WriteKey, At, Holding
<1>7. CASE ~Writes(p)
  BY <1>7, OnlyWritesWrite
<1> QED BY <1>3, <1>4, <1>5, <1>6, <1>7 DEF Writes

(* A process that does not move keeps its part of the invariant.           *)
LEMMA UnmovedInv ==
  ASSUME NEW q \in Proc, ProcInv(q), Unmoved(q), Undisturbed(q)
  PROVE  ProcInv(q)'
<1> USE DEF ProcInv, Unmoved, Undisturbed
<1>1. HolderInv(q)'
  BY DEF HolderInv, Holding
<1>2. AskedInv(q)'
  BY DEF AskedInv, Holding
<1>3. NodeInv(q)'
  BY DEF NodeInv, Holding
<1>4. FailedInv(q)'
  BY DEF FailedInv
<1> QED BY <1>1, <1>2, <1>3, <1>4

-----------------------------------------------------------------------------
(* The step of a process, as it looks to the process itself.               *)

(* initRepo, up to where the repository is opened.                         *)
LEMMA InitStepsInv ==
  ASSUME RInv, NEW p \in Proc,
         \/ CheckInitialized(p) \/ InitRepo(p)
         \/ FsInit(p) \/ FsInitConfig(p) \/ FsInitVersion(p)
         \/ CreateKey(p, "initkey", "initwrite", "open") \/ WriteKey(p, "initwrite", "open")
         \/ OpenNoVersion(p) \/ OpenBusy(p)
  PROVE  ProcInv(p)'
<1> USE DEF RInv, TypeOK, Goto, At
<1>1. ASSUME pc'[p] \in Initialising \cup {"open"}, pc[p] \in Initialising \cup {"check"},
             pc'[p] \in {"fsinit", "fswrite"} => conf'[p].base # None,
             UNCHANGED <<want, locked>>
      PROVE  ProcInv(p)'
  BY <1>1 DEF ProcInv, HolderInv, AskedInv, NodeInv, FailedInv, Holding, Initialising
<1>2. CASE CheckInitialized(p)
  BY <1>1, <1>2 DEF CheckInitialized, Initialising
<1>3. CASE InitRepo(p)
  <2>1. /\ want[p] \in Requests /\ ~locked[p] /\ pc[p] = "init" /\ UNCHANGED raced
        /\ p \notin raced => config = NoConfig
    BY <1>3 DEF InitRepo, HolderInv, RaceInv
  <2>2. CASE config = NoConfig
    <3>1. UpdateConfig(DefaultConfig(num[p]), want[p]).base = want[p].base
      BY DefaultConfigFacts, UpdateConfigFacts
    <3>2. /\ pc'[p] = "fsinit" /\ want' = want /\ locked' = locked
          /\ conf'[p] = UpdateConfig(DefaultConfig(num[p]), want[p])
      BY <1>3, <2>2 DEF InitRepo
    <3> QED BY <2>1, <3>1, <3>2 DEF ProcInv, HolderInv, AskedInv, NodeInv, FailedInv, Holding
  <2>3. CASE config # NoConfig
    <3>1. pc'[p] = "failed" /\ why'[p] = "exists" /\ want' = want /\ locked' = locked
      BY <1>3, <2>3 DEF InitRepo
    <3> QED BY <2>1, <2>3, <3>1 DEF ProcInv, HolderInv, AskedInv, NodeInv, FailedInv, Holding
  <2> QED BY <2>2, <2>3
<1>4. CASE FsInit(p)
  <2>1. conf[p].base # None
    BY <1>4 DEF FsInit, HolderInv
  <2> QED BY <1>1, <1>4, <2>1 DEF FsInit, Initialising
<1>7. CASE FsInitConfig(p) \/ FsInitVersion(p)
  BY <1>1, <1>7 DEF FsInitConfig, FsInitVersion, Initialising
<1>5. CASE CreateKey(p, "initkey", "initwrite", "open") \/ WriteKey(p, "initwrite", "open")
  BY <1>1, <1>5 DEF CreateKey, WriteKey, Initialising
<1>6. CASE OpenNoVersion(p) \/ OpenBusy(p)
  <2>1. /\ pc[p] = "open" /\ pc'[p] = "failed" /\ why'[p] \in {"version", "busy"}
        /\ UNCHANGED <<want, locked>>
    BY <1>6 DEF OpenNoVersion, OpenBusy
  <2> QED BY <2>1 DEF ProcInv, HolderInv, AskedInv, NodeInv, FailedInv, Holding
<1> QED BY <1>2, <1>3, <1>4, <1>5, <1>6, <1>7

(* openRepo.                                                               *)
LEMMA OpenStepsInv ==
  ASSUME RInv, NEW p \in Proc,
         \/ Open(p) \/ LockCheck(p) \/ SetConfig(p)
         \/ CreateKey(p, "openkey", "openwrite", "newnode") \/ WriteKey(p, "openwrite", "newnode")
  PROVE  ProcInv(p)'
<1> USE DEF RInv, TypeOK, Goto, At
<1>1. CASE Open(p)
  <2>1. /\ pc[p] = "open" /\ pc'[p] = "lockcheck" /\ repolock' = p /\ conf'[p] = config
        /\ UNCHANGED <<config, want, locked>>
    BY <1>1 DEF Open
  <2> QED BY <2>1 DEF ProcInv, HolderInv, AskedInv, NodeInv, FailedInv, Holding
<1>2. CASE LockCheck(p)
  <2>1. /\ pc[p] = "lockcheck" /\ locked'[p] = lockfile
        /\ UNCHANGED <<config, swarmkey, repolock, want, raced>>
    BY <1>2 DEF LockCheck
  <2>2. /\ repolock = p /\ want[p] \in Requests
        /\ p \notin raced => conf[p] = config
    BY <2>1 DEF HolderInv, Holding
  <2>3. CASE lockfile
    <3>1. pc'[p] = "newnode" /\ conf' = conf
      BY <1>2, <2>3 DEF LockCheck
    <3> QED BY <2>1, <2>2, <2>3, <3>1 DEF ProcInv, HolderInv, AskedInv, NodeInv, FailedInv, Holding
  <2>4. CASE ~lockfile
    <3>1. pc'[p] = "setconfig" /\ conf'[p] = UpdateConfig(conf[p], want[p])
      BY <1>2, <2>4 DEF LockCheck
    <3>2. /\ conf'[p].id = conf[p].id /\ conf'[p].base = want[p].base /\ conf'[p].api = want[p].api
          /\ want[p].peering # None => conf'[p].peering = want[p].peering
      BY <3>1, UpdateConfigFacts
    <3> QED BY <2>1, <2>2, <2>4, <3>1, <3>2 DEF ProcInv, HolderInv, AskedInv, NodeInv, FailedInv,
                                                Holding
  <2> QED BY <2>3, <2>4
<1>3. CASE SetConfig(p)
  <2>1. /\ pc[p] = "setconfig" /\ pc'[p] = "openkey" /\ config' = conf[p]
        /\ UNCHANGED <<repolock, want, conf, locked, raced>>
    BY <1>3 DEF SetConfig
  <2> QED BY <2>1 DEF ProcInv, HolderInv, AskedInv, NodeInv, FailedInv, Holding
<1>4. ASSUME pc[p] \in {"openkey", "openwrite"}, pc'[p] \in {"openwrite", "newnode"},
             pc'[p] = "newnode" /\ want[p].key # None => swarmkey' = want[p].key,
             UNCHANGED <<config, repolock, want, conf, locked, raced>>
      PROVE  ProcInv(p)'
  BY <1>4 DEF ProcInv, HolderInv, AskedInv, NodeInv, FailedInv, Holding
<1>5. CASE CreateKey(p, "openkey", "openwrite", "newnode")
  BY <1>4, <1>5 DEF CreateKey
<1>6. CASE WriteKey(p, "openwrite", "newnode")
  BY <1>4, <1>6 DEF WriteKey
<1> QED BY <1>1, <1>2, <1>3, <1>5, <1>6

(* core.NewNode and the API.                                               *)
LEMMA NodeStepsInv ==
  ASSUME RInv, NEW p \in Proc, NewNode(p) \/ UnknownRouting(p) \/ ServeApi(p) \/ NoListener(p)
  PROVE  ProcInv(p)'
<1> USE DEF RInv, TypeOK, Goto, At
<1>1. CASE NewNode(p)
  <2>1. /\ pc[p] = "newnode"
        /\ UNCHANGED <<config, swarmkey, repolock, want, conf, locked, raced>>
    BY <1>1 DEF NewNode
  <2>2. CASE swarmkey = "torn"
    <3>1. pc'[p] = "failed" /\ why'[p] = "key"
      BY <1>1, <2>2 DEF NewNode
    <3>2. p \in raced \/ want[p].key = None \/ locked[p]
      BY <2>1, <2>2 DEF AskedInv, HolderInv
    <3> QED BY <2>1, <3>1, <3>2 DEF ProcInv, HolderInv, AskedInv, NodeInv, FailedInv, Holding
  <2>3. CASE swarmkey # "torn"
    <3>1. /\ pc'[p] = "api"
          /\ node'[p] = [conf |-> conf[p], key |-> swarmkey, api |-> None]
      BY <1>1, <2>3 DEF NewNode
    <3>2. node'[p].conf = conf[p] /\ node'[p].key = swarmkey
      BY <3>1
    <3>3. HolderInv(p)' /\ AskedInv(p)' /\ FailedInv(p)'
      BY <2>1, <3>1 DEF HolderInv, AskedInv, FailedInv, Holding
    <3>4. NodeInv(p)'
      BY <2>1, <3>1, <3>2 DEF NodeInv, AskedInv
    <3> QED BY <3>3, <3>4 DEF ProcInv
  <2> QED BY <2>2, <2>3
<1>2. CASE ServeApi(p)
  <2>1. /\ pc[p] = "api" /\ pc'[p] = "running"
        /\ UNCHANGED <<config, swarmkey, repolock, want, conf, locked, raced>>
    BY <1>2 DEF ServeApi
  <2>2. /\ node'[p].conf = node[p].conf /\ node'[p].key = node[p].key
        /\ node'[p].api = IF want[p].api = None THEN None ELSE conf[p].api
    BY <1>2 DEF ServeApi
  <2> QED BY <2>1, <2>2 DEF ProcInv, HolderInv, AskedInv, NodeInv, FailedInv, Holding
<1>3. CASE UnknownRouting(p) \/ NoListener(p)
  <2>1. /\ pc[p] \in {"newnode", "api"} /\ pc'[p] = "panicked"
        /\ UNCHANGED <<want, conf, locked>>
    BY <1>3 DEF UnknownRouting, NoListener, Panic
  <2>2. locked[p] \/ want[p].base \in BadBases
    BY <1>3, <2>1 DEF UnknownRouting, NoListener, AskedInv, Holding
  <2> QED BY <2>1, <2>2 DEF ProcInv, HolderInv, AskedInv, NodeInv, FailedInv, Holding
<1> QED BY <1>1, <1>2, <1>3

(* A failure, the end of a process, and a start.                           *)
LEMMA OtherStepsInv ==
  ASSUME RInv, NEW p \in Proc,
         StartFails(p) \/ Exit(p) \/ \E r \in Requests : Begin(p, r)
  PROVE  ProcInv(p)'
<1> USE DEF RInv, TypeOK, Goto, At
<1>1. CASE StartFails(p)
  <2>1. /\ pc[p] \in Starting /\ pc'[p] = "failed" /\ why'[p] = "fault"
        /\ UNCHANGED <<want, locked>>
    BY <1>1 DEF StartFails
  <2> QED BY <2>1 DEF ProcInv, HolderInv, AskedInv, NodeInv, FailedInv, Holding, Starting,
                      Initialising
<1>2. CASE Exit(p)
  <2>1. pc'[p] = "off" /\ locked'[p] = FALSE
    BY <1>2 DEF Exit
  <2> QED BY <2>1 DEF ProcInv, HolderInv, AskedInv, NodeInv, FailedInv, Holding
<1>3. ASSUME NEW r \in Requests, Begin(p, r) PROVE ProcInv(p)'
  <2>1. pc[p] = "off" /\ pc'[p] = "check" /\ locked' = locked /\ want'[p] = r
    BY <1>3 DEF Begin
  <2> QED BY <2>1 DEF ProcInv, HolderInv, AskedInv, NodeInv, FailedInv, Holding
<1> QED BY <1>1, <1>2, <1>3

LEMMA OwnStepInv ==
  ASSUME RInv, NEW p \in Proc, StepOf(p)
  PROVE  ProcInv(p)'
  BY InitStepsInv, OpenStepsInv, NodeStepsInv, OtherStepsInv DEF StepOf, StartStep

-----------------------------------------------------------------------------
(* What relates the processes to each other.                               *)

(* CheckInitialized is the only way into initRepo, and to the repository.  *)
LEMMA OnlyCheckEnters ==
  ASSUME TypeOK, NEW p \in Proc, StepOf(p), ~CheckInitialized(p)
  PROVE  /\ pc'[p] # "off" => raced' = raced
         /\ \A q \in Proc : q # p /\ q \notin raced' => q \notin raced
         /\ pc'[p] \in Initialising => pc[p] \in Initialising
         /\ pc'[p] \in Written => pc[p] \in Initialising \cup Written
         /\ pc'[p] \in Written => pc[p] \in Written \/ FsInit(p) \/ FsInitConfig(p)
         /\ pc'[p] \in {"init", "fsinit", "fswrite"} => config = NoConfig /\ config' = config
         /\ pc'[p] = "failed" /\ why'[p] = "version" => pc[p] = "open" /\ ~complete'
         /\ complete' # complete => pc[p] = "fsversion"
<1> USE DEF TypeOK, At, Goto, Initialising, Holding, Written
<1>1. CASE InitRepo(p)
  BY <1>1 DEF InitRepo
<1>2. CASE FsInit(p) \/ FsInitConfig(p) \/ SetConfig(p)
  BY <1>2 DEF FsInit, FsInitConfig, SetConfig
<1>12. CASE FsInitVersion(p)
  BY <1>12 DEF FsInitVersion
<1>3. CASE CreateKey(p, "initkey", "initwrite", "open") \/ WriteKey(p, "initwrite", "open")
  BY <1>3 DEF CreateKey, WriteKey
<1>4. CASE CreateKey(p, "openkey", "openwrite", "newnode") \/ WriteKey(p, "openwrite", "newnode")
  BY <1>4 DEF CreateKey, WriteKey
<1>5. CASE Open(p) \/ OpenNoVersion(p) \/ OpenBusy(p)
  BY <1>5 DEF Open, OpenNoVersion, OpenBusy
<1>6. CASE LockCheck(p)
  BY <1>6 DEF LockCheck
<1>7. CASE NewNode(p) \/ ServeApi(p)
  BY <1>7 DEF NewNode, ServeApi
<1>8. CASE UnknownRouting(p) \/ NoListener(p)
  BY <1>8 DEF UnknownRouting, NoListener, Panic
<1>9. CASE StartFails(p)
  BY <1>9 DEF StartFails
<1>10. CASE Exit(p)
  BY <1>10 DEF Exit, disk
<1>11. ASSUME NEW r \in Requests, Begin(p, r)
       PROVE  raced' = raced /\ pc'[p] = "check" /\ complete' = complete
  BY <1>11 DEF Begin, disk
<1> QED BY <1>1, <1>2, <1>3, <1>4, <1>5, <1>6, <1>7, <1>8, <1>9, <1>10, <1>11, <1>12
        DEF StepOf, StartStep

LEMMA CheckFacts ==
  ASSUME TypeOK, NEW p \in Proc, CheckInitialized(p)
  PROVE  /\ pc[p] = "check"
         /\ pc'[p] = IF config = NoConfig THEN "init" ELSE "open"
         /\ \A q \in Proc : q \notin raced' => q \notin raced
         /\ p \notin raced' => \A q \in Proc \ {p} : pc[q] \notin Initialising
         /\ \A q \in Proc \ {p} : q \notin raced' => pc[q] \notin Initialising
         /\ UNCHANGED <<config, complete, why>>
  BY DEF TypeOK, CheckInitialized, Met, Goto, disk

LEMMA StepBaseInv ==
  ASSUME RInv, NEW p \in Proc, StepOf(p),
         \A q \in Proc : q # p => Unmoved(q),
         config.base # None => config'.base # None,
         config' # NoConfig => config'.base # None
  PROVE  BaseInv'
<1> USE DEF RInv
<1> SUFFICES ASSUME NEW q \in Proc,
                    pc'[q] \in Written \/ (pc'[q] = "failed" /\ why'[q] = "version")
             PROVE  config'.base # None
  BY DEF BaseInv
<1>1. CASE q # p
  BY <1>1 DEF Unmoved, BaseInv
<1>2. CASE q = p /\ CheckInitialized(p)
  <2>1. config # NoConfig
    BY <1>2, CheckFacts DEF Written, Holding
  <2> QED BY <2>1 DEF BaseInv
<1>3. CASE q = p /\ FsInitConfig(p)
  <2>1. pc[p] = "fswrite" /\ config' = conf[p]
    BY <1>3 DEF FsInitConfig, At
  <2> QED BY <2>1 DEF HolderInv
<1>4. CASE q = p /\ FsInit(p)
  <2>1. config # NoConfig
    BY <1>4 DEF FsInit, At, Goto, TypeOK, Written, Holding
  <2> QED BY <2>1 DEF BaseInv
<1>5. CASE q = p /\ ~CheckInitialized(p) /\ ~FsInitConfig(p) /\ ~FsInit(p)
  <2>1. pc[p] \in Written
    BY <1>5, OnlyCheckEnters DEF Written
  <2> QED BY <2>1 DEF BaseInv
<1> QED BY <1>1, <1>2, <1>3, <1>4, <1>5

LEMMA StepRaceInv ==
  ASSUME RInv, NEW p \in Proc, StepOf(p), \A q \in Proc : q # p => Unmoved(q), NEW x \in Proc
  PROVE  RaceInv(x)'
<1> USE DEF RInv
<1> SUFFICES ASSUME x \notin raced' PROVE RaceInv(x)'
  BY DEF RaceInv
<1>1. \A q \in Proc : q # p => pc'[q] = pc[q] /\ why'[q] = why[q]
  BY DEF Unmoved
<1>2. CASE CheckInitialized(p) /\ x = p
  BY <1>1, <1>2, CheckFacts DEF RaceInv, Initialising, Written, Holding
<1>3. CASE CheckInitialized(p) /\ x # p
  <2>1. x \notin raced /\ pc[x] \notin Initialising /\ UNCHANGED <<config, complete>>
    BY <1>3, CheckFacts
  <2>2. ASSUME pc[x] \in Written \/ (pc[x] = "failed" /\ why[x] = "version")
        PROVE  pc'[p] = "open"
    <3>1. config # NoConfig
      BY <2>2, NoConfigFacts DEF BaseInv
    <3> QED BY <1>3, <3>1, CheckFacts
  <2>3. pc'[x] = pc[x] /\ why'[x] = why[x]
    BY <1>1, <1>3
  <2> QED BY <1>1, <1>3, <2>1, <2>2, <2>3 DEF RaceInv, Initialising
<1>4. CASE ~CheckInitialized(p) /\ x = p
  <2>1. CASE pc'[p] = "off"
    BY <1>4, <2>1 DEF RaceInv, Initialising, Written, Holding
  <2>2. CASE pc'[p] # "off"
    <3>1. p \notin raced
      BY <1>4, <2>2, OnlyCheckEnters
    <3>2. pc'[p] \in Initialising \cup Written => \A q \in Proc \ {p} : pc'[q] \notin Initialising
      BY <1>1, <1>4, <3>1, OnlyCheckEnters DEF RaceInv
    <3>3. pc'[p] \in {"init", "fsinit", "fswrite"} => config' = NoConfig
      BY <1>4, OnlyCheckEnters
    <3>4. ASSUME pc'[p] = "failed", why'[p] = "version"
          PROVE  ~complete' /\ \A q \in Proc : pc'[q] \notin Initialising
      <4>1. pc[p] = "open" /\ ~complete'
        BY <1>4, <3>4, OnlyCheckEnters
      <4>2. \A q \in Proc \ {p} : pc[q] \notin Initialising
        BY <3>1, <4>1 DEF RaceInv, Written
      <4> QED BY <1>1, <3>4, <4>1, <4>2 DEF Initialising
    <3> QED BY <1>4, <3>2, <3>3, <3>4 DEF RaceInv
  <2> QED BY <2>1, <2>2
<1>5. CASE ~CheckInitialized(p) /\ x # p
  <2>1. x \notin raced /\ pc'[x] = pc[x] /\ why'[x] = why[x]
    BY <1>1, <1>5, OnlyCheckEnters
  <2>2. pc'[p] \in Initialising => pc[p] \in Initialising
    BY <1>5, OnlyCheckEnters
  <2>3. pc[x] \in Initialising \cup Written =>
          \A q \in Proc \ {x} : pc'[q] \notin Initialising
    BY <1>1, <1>5, <2>1, <2>2 DEF RaceInv
  <2>4. ASSUME pc[x] \in {"init", "fsinit", "fswrite"} PROVE config' = NoConfig
    <3>1. config = NoConfig /\ pc[p] \notin Initialising
      BY <1>5, <2>1, <2>4 DEF RaceInv, Initialising
    <3>2. pc[p] \notin Written
      BY <3>1, NoConfigFacts DEF BaseInv
    <3>3. UNCHANGED config
      BY <3>1, <3>2, OnlyWritesWrite DEF Writes, FsInitConfig, SetConfig, CreateKey, WriteKey, At,
                                         Initialising, Written, Holding
    <3> QED BY <3>1, <3>3
  <2>5. ASSUME pc[x] = "failed", why[x] = "version"
        PROVE  ~complete' /\ \A q \in Proc : pc'[q] \notin Initialising
    <3>1. ~complete /\ \A q \in Proc : pc[q] \notin Initialising
      BY <2>1, <2>5 DEF RaceInv
    <3>2. complete' = complete
      BY <1>5, <3>1, OnlyCheckEnters DEF Initialising
    <3> QED BY <1>1, <2>2, <3>1, <3>2
  <2> QED BY <2>1, <2>3, <2>4, <2>5 DEF RaceInv
<1> QED BY <1>2, <1>3, <1>4, <1>5

(* A step of a process preserves the invariant.                            *)
LEMMA StepRInv ==
  ASSUME RInv, NEW p \in Proc, StepOf(p)
  PROVE  RInv'
<1>1. Next
  BY DEF StepOf, Next
<1>2. TypeOK'
  BY <1>1, NextTypeOK DEF RInv
<1>3. \A q \in Proc : q # p => Unmoved(q) /\ Undisturbed(q)
  BY OthersUnmoved, OthersUndisturbed DEF RInv
<1>5. \A q \in Proc : ProcInv(q)'
  BY <1>3, UnmovedInv, OwnStepInv DEF RInv, ProcInv
<1>6. BaseInv'
  BY <1>1, <1>3, ConfigKept, StepBaseInv
<1>7. \A q \in Proc : RaceInv(q)'
  BY <1>3, StepRaceInv
<1> QED BY <1>2, <1>5, <1>6, <1>7 DEF RInv, ProcInv

(* The administrator meets no process that has the repository open.        *)
LEMMA AdminRInv ==
  ASSUME RInv, ToggleLock \/ (\E r \in Requests : EditConfig(r)) \/ UNCHANGED vars
  PROVE  RInv'
<1>1. [Next]_vars
  BY DEF Next
<1>2. TypeOK'
  BY <1>1, NextTypeOK DEF RInv
<1>3. UNCHANGED <<complete, swarmkey, repolock, raced, procVars>>
  BY DEF ToggleLock, EditConfig, vars, disk
<1>4. \A q \in Proc : pc[q] \in Holding => config' = config
  BY DEF RInv, HolderInv, ToggleLock, EditConfig, vars, disk
<1>5. \A q \in Proc : ProcInv(q)'
  <2> TAKE q \in Proc
  <2>1. Unmoved(q) /\ Undisturbed(q)
    BY <1>3, <1>4 DEF Unmoved, Undisturbed, procVars
  <2> QED BY <1>3, <2>1, UnmovedInv DEF RInv, ProcInv
<1>6. BaseInv'
  BY <1>1, <1>3, ConfigKept DEF RInv, BaseInv, procVars
<1>7. config = NoConfig => config' = NoConfig
  BY DEF ToggleLock, EditConfig, vars, disk
<1>8. \A q \in Proc : RaceInv(q)'
  BY <1>3, <1>7 DEF RInv, RaceInv, procVars
<1> QED BY <1>2, <1>5, <1>6, <1>8 DEF RInv, ProcInv

LEMMA InitRInv == Init => RInv
<1> SUFFICES ASSUME Init PROVE RInv
  OBVIOUS
<1>1. config # NoConfig => config.base # None
  BY DefaultConfigFacts DEF Init
<1> QED BY <1>1, InitTypeOK DEF Init, RInv, BaseInv, RaceInv, HolderInv, AskedInv, NodeInv, FailedInv,
                                Holding, Written, Initialising

LEMMA NextRInv == RInv /\ [Next]_vars => RInv'
  BY StepRInv, AdminRInv DEF Next, StepOf

(* Whoever has the repository open has it for itself, and its conf is what *)
(* the file says: the inductive invariant.                                 *)
THEOREM RepoInductive == Spec => []RInv
<1> QED BY InitRInv, NextRInv, PTL DEF Spec

(* A node runs with what its caller asked for, for every number of crashed *)
(* and failed starts before it and of processes beside it.                 *)
THEOREM OwnConfig == Spec => []RunsOwnConfig
<1>1. RInv => RunsOwnConfig
  <2> SUFFICES ASSUME RInv, NEW p \in Proc, pc[p] = "running", ~locked[p], p \notin raced
               PROVE  /\ node[p].conf.base = want[p].base
                      /\ node[p].api = want[p].api
                      /\ want[p].peering # None => node[p].conf.peering = want[p].peering
                      /\ want[p].key # None => node[p].key = want[p].key
    BY DEF RunsOwnConfig
  <2> QED BY DEF RInv, AskedInv, NodeInv, Holding
<1> QED BY <1>1, RepoInductive, PTL

(* The files do not change under a running node.                           *)
THEOREM WhatIsWritten == Spec => []RunsWhatIsWritten
<1>1. RInv => RunsWhatIsWritten
  BY DEF RInv, RunsWhatIsWritten, HolderInv, NodeInv, Holding
<1> QED BY <1>1, RepoInductive, PTL

(* Whatever a crash has left behind, the next start repairs, but for a     *)
(* swarm key it was not given and an fsrepo.Init that was cut short.       *)
THEOREM Repaired == Spec => []HalfWrittenIsRepaired
<1>1. RInv => HalfWrittenIsRepaired
  BY DEF RInv, TypeOK, HalfWrittenIsRepaired, FailedInv, RaceInv
<1> QED BY <1>1, RepoInductive, PTL

(* Whoever restarts, updates or crashes: the repository keeps its          *)
(* identity, but for starts that have met in initRepo.                     *)
THEOREM IdentityKept == Spec => IdentityStable
<1>1. RInv /\ [Next]_vars =>
        [config # NoConfig =>
           /\ config' # NoConfig
           /\ config'.id # config.id => \E p \in raced : pc'[p] # pc[p]]_vars
  <2> SUFFICES ASSUME RInv, [Next]_vars, config # NoConfig
               PROVE  /\ config' # NoConfig
                      /\ config'.id # config.id => \E p \in raced : pc'[p] # pc[p]
    OBVIOUS
  <2>1. config.base # None
    BY DEF RInv, BaseInv
  <2> QED BY <2>1, ConfigKept, NoConfigFacts
<1> QED BY <1>1, RepoInductive, PTL DEF Spec, IdentityStable

(* A start that has found config.lock writes nothing.                      *)
THEOREM LockRespected == Spec => LockedUntouched
<1>1. RInv /\ [Next]_vars =>
        [\A p \in Proc : locked[p] /\ pc'[p] # pc[p] => UNCHANGED <<config, swarmkey>>]_vars
  <2> SUFFICES ASSUME RInv, Next, NEW p \in Proc, locked[p], pc'[p] # pc[p]
               PROVE  UNCHANGED <<config, swarmkey>>
    OBVIOUS
  <2>1. pc[p] \in {"newnode", "api", "running", "failed", "panicked"}
    BY DEF RInv, HolderInv
  <2>2. StepOf(p)
    BY OthersUnmoved DEF RInv, Next, StepOf, Unmoved, ToggleLock, EditConfig, procVars
  <2>3. ~Writes(p)
    BY <2>1 DEF Writes, FsInitConfig, SetConfig, CreateKey, WriteKey, At
  <2> QED BY <2>2, <2>3, OnlyWritesWrite
<1> QED BY <1>1, RepoInductive, PTL DEF Spec, LockedUntouched
=============================================================================
