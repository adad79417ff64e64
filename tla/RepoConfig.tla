----------------------------- MODULE RepoConfig -----------------------------
(***************************************************************************)
(* What starting a node does to the repository on disk.                    *)
(*                                                                         *)
(* start_node initialises the repository if there is none (initRepo) and   *)
(* opens it (openRepo); both write the caller's configuration and then, in *)
(* two more steps, the swarm key: os.Create empties the file, WriteString  *)
(* fills it.  A process may crash between any two steps, an I/O call may   *)
(* fail, and another process may be starting a node on the same            *)
(* repository.  An administrator may create config.lock, after which       *)
(* openRepo leaves the repository alone, and may edit a locked             *)
(* configuration while nobody has the repository open.                     *)
(*                                                                         *)
(* Of fsrepo the model has: IsInitialized looks for the file config alone; *)
(* Init tests for it, writes it and then writes the files datastore_spec   *)
(* and version, under a mutex that other processes do not see; each file   *)
(* is written atomically; Open takes a lock that is released when the      *)
(* repository is closed or its process ends, and fails without the files   *)
(* that Init writes last.                                                  *)
(***************************************************************************)
EXTENDS Naturals

CONSTANTS
  Proc,        \* the processes that use the repository
  Requests,    \* the configurations a caller may pass to start_node
  BadBases,    \* those of their bases whose RoutingType is not known
  MaxStart     \* bound: the number of starts

None      == "none"
NoConfig  == [id |-> 0, base |-> None, peering |-> None, api |-> None]
NoRequest == [base |-> None, peering |-> None, api |-> None, key |-> None]
NoNode    == [conf |-> NoConfig, key |-> None, api |-> None]
Free      == "free"

(* A request: base is all that updateConfig overwrites in any case,        *)
(* peering the bootstrap and the peering nodes; an empty peering, api or   *)
(* swarm key is None.                                                      *)
ASSUME RepoConfigAssumption ==
  /\ \A r \in Requests : DOMAIN r = {"base", "peering", "api", "key"}
  /\ \A r \in Requests : r.key # "torn" /\ r.base \notin {None, "default"}
  /\ BadBases \cap {None, "default"} = {}
  /\ MaxStart \in Nat
  /\ Free \notin Proc

VARIABLES
  \* --- on disk
  config,      \* the file config, or NoConfig
  complete,    \* the files datastore_spec and version exist
  swarmkey,    \* the file swarm.key: None, "torn" when empty, or a key
  lockfile,    \* config.lock exists
  repolock,    \* the process that has the repository open, or Free
  \* --- in a process
  starts,      \* how many starts there have been
  raced,       \* the processes whose start has met another one in initRepo
  pc,          \* where start_node is
  num,         \* which start this is
  want,        \* the configuration that the caller asks for
  conf,        \* conf of initRepo and of openRepo, then repo.Config()
  locked,      \* configUnlocked() has said no
  why,         \* why the start failed
  node         \* what the node runs with: its configuration, key and API

disk     == <<config, complete, swarmkey, lockfile>>
procVars == <<pc, num, want, conf, locked, why, node>>
vars     == <<disk, repolock, starts, raced, procVars>>

(* config.InitWithIdentity.                                                *)
DefaultConfig(id) == [id |-> id, base |-> "default", peering |-> None, api |-> "default"]

(* There is no repository yet, or one that was made before.                *)
Init ==
  /\ config   \in {NoConfig, DefaultConfig(0)}
  /\ complete = (config # NoConfig)
  /\ swarmkey = None
  /\ lockfile = FALSE
  /\ repolock = Free
  /\ starts   = 0
  /\ raced    = {}
  /\ pc       = [p \in Proc |-> "off"]
  /\ num      = [p \in Proc |-> 0]
  /\ want     = [p \in Proc |-> NoRequest]
  /\ conf     = [p \in Proc |-> NoConfig]
  /\ locked   = [p \in Proc |-> FALSE]
  /\ why      = [p \in Proc |-> None]
  /\ node     = [p \in Proc |-> NoNode]

-----------------------------------------------------------------------------
(* start_node, a step at a time.                                           *)

Goto(p, to) == pc' = [pc EXCEPT ![p] = to]

At(p, from, to) ==
  /\ pc[p] = from
  /\ Goto(p, to)
  /\ UNCHANGED <<complete, lockfile, starts, raced, num, want>>

Begin(p, r) ==
  /\ pc[p] = "off"
  /\ starts < MaxStart
  /\ starts' = starts + 1
  /\ Goto(p, "check")
  /\ num'  = [num EXCEPT ![p] = starts + 1]
  /\ want' = [want EXCEPT ![p] = r]
  /\ UNCHANGED <<disk, repolock, raced, conf, locked, why, node>>

(* Where initRepo is under way; it has no lock on the repository.          *)
Initialising == {"init", "fsinit", "fswrite", "fsversion", "initkey", "initwrite"}

(* Whom a start meets there.                                               *)
Met(p) == {q \in Proc \ {p} : pc[q] \in Initialising}

(* if !fsrepo.IsInitialized { initRepo }, openRepo                         *)
CheckInitialized(p) ==
  /\ pc[p] = "check"
  /\ Goto(p, IF config = NoConfig THEN "init" ELSE "open")
  /\ raced' = IF Met(p) = {} THEN raced ELSE raced \cup Met(p) \cup {p}
  /\ UNCHANGED <<disk, repolock, starts, num, want, conf, locked, why, node>>

KeepOr(asked, old) == IF asked = None THEN old ELSE asked

UpdateConfigNull(c, r) ==
  [c EXCEPT !.base = r.base, !.api = IF r.api = None THEN "null" ELSE r.api,
            !.peering = KeepOr(r.peering, @)]

(* An empty API address is written as an empty list; empty lists of        *)
(* bootstrap and of peering nodes leave those that are there.              *)
UpdateConfig(c, r) ==
  [c EXCEPT !.base = r.base, !.api = r.api, !.peering = KeepOr(r.peering, @)]

(* initRepo: a new identity, and a second look whether there is a          *)
(* repository.                                                             *)
InitRepo(p) ==
  /\ At(p, "init", IF config = NoConfig THEN "fsinit" ELSE "failed")
  /\ IF config = NoConfig
       THEN /\ conf' = [conf EXCEPT ![p] = UpdateConfig(DefaultConfig(num[p]), want[p])]
            /\ UNCHANGED why
       ELSE /\ why' = [why EXCEPT ![p] = "exists"]
            /\ UNCHANGED conf
  /\ UNCHANGED <<config, swarmkey, repolock, locked, node>>

(* fsrepo.Init: a third look, after which another process may write ...    *)
FsInit(p) ==
  /\ At(p, "fsinit", IF config = NoConfig THEN "fswrite" ELSE "initkey")
  /\ UNCHANGED <<config, swarmkey, repolock, conf, locked, why, node>>

(* ... the configuration, over one that has come to be there ...           *)
FsInitConfig(p) ==
  /\ At(p, "fswrite", "fsversion")
  /\ config' = conf[p]
  /\ UNCHANGED <<swarmkey, repolock, conf, locked, why, node>>

(* ... and the files that make the repository complete.                    *)
FsInitVersion(p) ==
  /\ pc[p] = "fsversion"
  /\ Goto(p, "initkey")
  /\ complete' = TRUE
  /\ UNCHANGED <<config, swarmkey, lockfile, repolock, starts, raced>>
  /\ UNCHANGED <<num, want, conf, locked, why, node>>

CreateKeyOnce(p, from, write, next) ==
  LET skip == want[p].key = None \/ swarmkey # None
  IN  /\ At(p, from, IF skip THEN next ELSE write)
      /\ swarmkey' = IF skip THEN swarmkey ELSE "torn"
      /\ UNCHANGED <<config, repolock, conf, locked, why, node>>

(* updateRepo: no swarm key, nothing to do; os.Create truncates the file   *)
(* that is there, f.WriteString fills it.                                  *)
CreateKey(p, from, write, next) ==
  /\ At(p, from, IF want[p].key = None THEN next ELSE write)
  /\ swarmkey' = IF want[p].key = None THEN swarmkey ELSE "torn"
  /\ UNCHANGED <<config, repolock, conf, locked, why, node>>

WriteKey(p, write, next) ==
  /\ At(p, write, next)
  /\ swarmkey' = want[p].key
  /\ UNCHANGED <<config, repolock, conf, locked, why, node>>

OpenUnlocked(p) ==
  /\ complete
  /\ At(p, "open", "lockcheck")
  /\ repolock' = p
  /\ conf' = [conf EXCEPT ![p] = config]
  /\ UNCHANGED <<config, swarmkey, locked, why, node>>

(* openRepo: fsrepo.Open and repo.Config ...                               *)
Open(p) ==
  /\ repolock = Free /\ complete
  /\ At(p, "open", "lockcheck")
  /\ repolock' = p
  /\ conf' = [conf EXCEPT ![p] = config]
  /\ UNCHANGED <<config, swarmkey, locked, why, node>>

(* ... or fsrepo.Init was cut short: there is no version ...               *)
OpenNoVersion(p) ==
  /\ repolock = Free /\ ~complete
  /\ At(p, "open", "failed")
  /\ why' = [why EXCEPT ![p] = "version"]
  /\ UNCHANGED <<config, swarmkey, repolock, conf, locked, node>>

(* ... or another process has the repository.                              *)
OpenBusy(p) ==
  /\ repolock # Free
  /\ At(p, "open", "failed")
  /\ why' = [why EXCEPT ![p] = "busy"]
  /\ UNCHANGED <<config, swarmkey, repolock, conf, locked, node>>

(* There is no config.lock.                                                *)
ConfigUnlocked == ~lockfile

LockCheckOnlyWarns(p) ==
  /\ At(p, "lockcheck", "setconfig")
  /\ locked' = [locked EXCEPT ![p] = lockfile]
  /\ conf' = [conf EXCEPT ![p] = UpdateConfig(@, want[p])]
  /\ UNCHANGED <<config, swarmkey, repolock, why, node>>

LockCheckNewIdentity(p) ==
  /\ At(p, "lockcheck", IF ConfigUnlocked THEN "setconfig" ELSE "newnode")
  /\ locked' = [locked EXCEPT ![p] = ~ConfigUnlocked]
  /\ conf' = IF ConfigUnlocked
               THEN [conf EXCEPT ![p] = UpdateConfig(DefaultConfig(num[p]), want[p])]
               ELSE conf
  /\ UNCHANGED <<config, swarmkey, repolock, why, node>>

(* if !configUnlocked { return }; updateConfig                             *)
LockCheck(p) ==
  /\ At(p, "lockcheck", IF ConfigUnlocked THEN "setconfig" ELSE "newnode")
  /\ locked' = [locked EXCEPT ![p] = ~ConfigUnlocked]
  /\ conf' = IF ConfigUnlocked THEN [conf EXCEPT ![p] = UpdateConfig(@, want[p])]
             ELSE conf
  /\ UNCHANGED <<config, swarmkey, repolock, why, node>>

SetConfig(p) ==
  /\ At(p, "setconfig", "openkey")
  /\ config' = conf[p]
  /\ UNCHANGED <<swarmkey, repolock, conf, locked, why, node>>

(* A panic takes the process with it, and its lock on the repository.      *)
Panic(p, from) ==
  /\ At(p, from, "panicked")
  /\ repolock' = Free
  /\ UNCHANGED <<config, swarmkey, conf, locked, why, node>>

(* makeBuildCfg panics on an unknown routing; core.NewNode reads the swarm *)
(* key, cannot do so when the file is empty, and joins the public network  *)
(* when there is none.                                                     *)
NewNode(p) ==
  /\ conf[p].base \notin BadBases
  /\ At(p, "newnode", IF swarmkey = "torn" THEN "failed" ELSE "api")
  /\ IF swarmkey = "torn"
       THEN why' = [why EXCEPT ![p] = "key"] /\ UNCHANGED node
       ELSE /\ node' = [node EXCEPT ![p] = [conf |-> conf[p], key |-> swarmkey, api |-> None]]
            /\ UNCHANGED why
  /\ UNCHANGED <<config, swarmkey, repolock, conf, locked>>

UnknownRouting(p) == conf[p].base \in BadBases /\ Panic(p, "newnode")

(* maybeServeHTTPApi: the caller's address says whether, the repository's  *)
(* configuration says where; listeners[0] panics when it says nowhere.     *)
ServeApi(p) ==
  /\ want[p].api = None \/ conf[p].api # None
  /\ At(p, "api", "running")
  /\ node' = [node EXCEPT ![p].api = IF want[p].api = None THEN None ELSE conf[p].api]
  /\ UNCHANGED <<config, swarmkey, repolock, conf, locked, why>>

NoListener(p) ==
  /\ want[p].api # None /\ conf[p].api = None
  /\ Panic(p, "api")

Starting == Initialising \cup {"check", "open", "lockcheck", "setconfig", "openkey",
                                "openwrite", "newnode", "api"}

(* An I/O error, or an address or a peer that cannot be parsed.  Nothing   *)
(* is undone, and the repository stays open until the process ends.        *)
StartFails(p) ==
  /\ pc[p] \in Starting
  /\ At(p, pc[p], "failed")
  /\ why' = [why EXCEPT ![p] = "fault"]
  /\ UNCHANGED <<config, swarmkey, repolock, conf, locked, node>>

(* The node is freed, or the process ends, at whatever point it is: all it *)
(* had in memory is gone, and so is its lock on the repository.            *)
Exit(p) ==
  /\ pc[p] # "off"
  /\ Goto(p, "off")
  /\ repolock' = IF repolock = p THEN Free ELSE repolock
  /\ num'    = [num EXCEPT ![p] = 0]
  /\ want'   = [want EXCEPT ![p] = NoRequest]
  /\ conf'   = [conf EXCEPT ![p] = NoConfig]
  /\ locked' = [locked EXCEPT ![p] = FALSE]
  /\ why'    = [why EXCEPT ![p] = None]
  /\ node'   = [node EXCEPT ![p] = NoNode]
  /\ raced'  = raced \ {p}
  /\ UNCHANGED <<disk, starts>>

StartStep(p) ==
  \/ CheckInitialized(p) \/ InitRepo(p)
  \/ FsInit(p) \/ FsInitConfig(p) \/ FsInitVersion(p)
  \/ CreateKey(p, "initkey", "initwrite", "open") \/ WriteKey(p, "initwrite", "open")
  \/ Open(p) \/ OpenNoVersion(p) \/ OpenBusy(p) \/ LockCheck(p) \/ SetConfig(p)
  \/ CreateKey(p, "openkey", "openwrite", "newnode") \/ WriteKey(p, "openwrite", "newnode")
  \/ NewNode(p) \/ UnknownRouting(p) \/ ServeApi(p) \/ NoListener(p)

-----------------------------------------------------------------------------
(* The administrator.                                                      *)

ToggleLock ==
  /\ lockfile' = ~lockfile
  /\ UNCHANGED <<config, complete, swarmkey, repolock, starts, raced, procVars>>

EditConfig(r) ==
  /\ lockfile /\ repolock = Free /\ config # NoConfig
  /\ config' = [config EXCEPT !.base = r.base, !.peering = r.peering, !.api = r.api]
  /\ UNCHANGED <<complete, swarmkey, lockfile, repolock, starts, raced, procVars>>

Next ==
  \/ \E p \in Proc : StartStep(p) \/ StartFails(p) \/ Exit(p)
  \/ \E p \in Proc, r \in Requests : Begin(p, r)
  \/ ToggleLock
  \/ \E r \in Requests : EditConfig(r)

Spec == Init /\ [][Next]_vars

-----------------------------------------------------------------------------
(* Properties.                                                             *)

Bases   == {None, "default"} \cup {r.base : r \in Requests}
Peering == {None} \cup {r.peering : r \in Requests}
Api     == {None, "default"} \cup {r.api : r \in Requests}
Key     == {None, "torn"} \cup {r.key : r \in Requests}
Config  == [id : 0 .. MaxStart, base : Bases, peering : Peering, api : Api]

(* The values each variable ranges over.                                   *)
TypeOK ==
  /\ config \in Config
  /\ complete \in BOOLEAN
  /\ swarmkey \in Key
  /\ lockfile \in BOOLEAN
  /\ repolock \in Proc \cup {Free}
  /\ starts \in 0 .. MaxStart
  /\ raced \in SUBSET Proc
  /\ pc \in [Proc -> Starting \cup {"off", "failed", "panicked", "running"}]
  /\ num \in [Proc -> 0 .. MaxStart]
  /\ want \in [Proc -> Requests \cup {NoRequest}]
  /\ conf \in [Proc -> Config]
  /\ locked \in [Proc -> BOOLEAN]
  /\ why \in [Proc -> {None, "fault", "busy", "exists", "version", "key"}]
  /\ node \in [Proc -> [conf : Config, key : Key, api : Api]]

(* A node that runs was given what its caller asked for, in all that the   *)
(* caller did ask for, unless config.lock was in the way: whatever earlier *)
(* starts have left behind by crashing or failing half-way through, and    *)
(* whatever other processes start.  In particular a caller with a swarm    *)
(* key is never in the public network.  Only a start that itself meets     *)
(* another one in initRepo, which writes without a lock, is not safe.      *)
RunsOwnConfig ==
  \A p \in Proc : pc[p] = "running" /\ ~locked[p] /\ p \notin raced =>
    /\ node[p].conf.base = want[p].base
    /\ node[p].api = want[p].api
    /\ want[p].peering # None => node[p].conf.peering = want[p].peering
    /\ want[p].key # None => node[p].key = want[p].key

(* What a node runs with is what the repository says, for as long as it    *)
(* runs: no other start, successful, failed or crashed, changes the files  *)
(* under it, unless the node's own start met another one in initRepo.      *)
(* (EditConfig assumes of the administrator that he does not either.)      *)
RunsWhatIsWritten ==
  \A p \in Proc : pc[p] = "running" /\ p \notin raced =>
    node[p].conf = config /\ node[p].key = swarmkey

(* What a crash, a failure or a panic leaves half-written, the next start  *)
(* repairs: without a new fault and without another process in its way it  *)
(* does not fail, but for a swarm key that was left empty and that it has  *)
(* no key to replace, and for a fsrepo.Init that was cut short between     *)
(* config and version; and it does not panic, but for a routing of its own *)
(* that is not known.  In particular initRepo never finds a repository     *)
(* that start_node has just not found.                                     *)
HalfWrittenIsRepaired ==
  \A p \in Proc :
    /\ pc[p] = "failed" /\ why[p] \notin {"fault", "busy"} /\ p \notin raced =>
         \/ why[p] = "key" /\ (want[p].key = None \/ locked[p])
         \/ why[p] = "version" /\ ~complete
    /\ pc[p] = "panicked" /\ ~locked[p] => want[p].base \in BadBases

(* The repository, once there, stays, and keeps its identity through every *)
(* restart, update and crash.  Only a start that has met another one in    *)
(* initRepo can replace it, by writing what it made or read before.        *)
IdentityStable ==
  [][config # NoConfig =>
       /\ config' # NoConfig
       /\ config'.id # config.id => \E p \in raced : pc'[p] # pc[p]]_vars

(* A start that has found config.lock writes neither the configuration nor *)
(* the swarm key.                                                          *)
LockedUntouched ==
  [][\A p \in Proc : locked[p] /\ pc'[p] # pc[p] => UNCHANGED <<config, swarmkey>>]_vars

(* "Config would be read from repository": under config.lock the API is    *)
(* the one of the repository's configuration.                              *)
LockedConfigIsRead ==
  \A p \in Proc : locked[p] =>
    /\ pc[p] = "running" => node[p].api = config.api
    /\ pc[p] = "panicked" => conf[p].base \in BadBases

-----------------------------------------------------------------------------
(* The inductive invariant behind the properties above.                    *)

(* Where openRepo has opened the repository and start_node goes on.        *)
Holding == {"lockcheck", "setconfig", "openkey", "openwrite", "newnode", "api", "running"}

(* Where fsrepo.Init has written a configuration, or has found one.        *)
Written == Holding \cup {"fsversion", "initkey", "initwrite", "open"}

(* A configuration that was written has a base, and there is one from      *)
(* where fsrepo.Init has written it on.                                    *)
BaseInv ==
  /\ config # NoConfig => config.base # None
  /\ \A p \in Proc : pc[p] \in Written \/ (pc[p] = "failed" /\ why[p] = "version") =>
       config.base # None

(* A start that has met no other in initRepo is alone there: while another *)
(* one is in it, it has not looked at the repository yet, or it is over.   *)
(* What it did not find there is still not there, and the version file     *)
(* that it missed is still missing.                                        *)
RaceInv(p) ==
  p \notin raced =>
    /\ pc[p] \in Initialising \cup Written => \A q \in Proc \ {p} : pc[q] \notin Initialising
    /\ pc[p] \in {"init", "fsinit", "fswrite"} => config = NoConfig
    /\ pc[p] = "failed" /\ why[p] = "version" =>
         ~complete /\ \A q \in Proc : pc[q] \notin Initialising

(* A start has a caller; one that has the repository open has its lock,    *)
(* and its conf is the file's, but before SetConfig writes it.             *)
HolderInv(p) ==
  /\ pc[p] # "off" => want[p] \in Requests
  /\ pc[p] \in {"fsinit", "fswrite"} => conf[p].base # None
  /\ pc[p] \in Holding => repolock = p
  /\ pc[p] \in Holding \ {"setconfig"} /\ p \notin raced => conf[p] = config
  /\ pc[p] = "setconfig" /\ p \notin raced => conf[p].id = config.id
  /\ locked[p] => pc[p] \in {"newnode", "api", "running", "failed", "panicked"}

(* Unless config.lock is in the way, conf is what the caller asks for once *)
(* updateConfig has run, and swarm.key once updateRepo has.                *)
AskedInv(p) ==
  ~locked[p] =>
    /\ pc[p] \in Holding \ {"lockcheck"} =>
         /\ conf[p].base = want[p].base
         /\ conf[p].api = want[p].api
         /\ want[p].peering # None => conf[p].peering = want[p].peering
    /\ pc[p] = "newnode" /\ p \notin raced /\ want[p].key # None => swarmkey = want[p].key

(* What NewNode and maybeServeHTTPApi have made of conf and swarm.key.     *)
NodeInv(p) ==
  /\ pc[p] \in {"api", "running"} =>
       /\ node[p].conf = conf[p]
       /\ p \notin raced =>
            /\ node[p].key = swarmkey
            /\ ~locked[p] /\ want[p].key # None => node[p].key = want[p].key
  /\ pc[p] = "running" => node[p].api = IF want[p].api = None THEN None ELSE conf[p].api

(* A failure has a cause, and a panic too.                                 *)
FailedInv(p) ==
  /\ pc[p] = "failed" => why[p] # None
  /\ pc[p] = "failed" /\ p \notin raced =>
       why[p] # "exists" /\ (why[p] = "key" => want[p].key = None \/ locked[p])
  /\ pc[p] = "panicked" /\ ~locked[p] => want[p].base \in BadBases

(* The conjunction the proofs show to be inductive.                        *)
RInv ==
  /\ TypeOK
  /\ BaseInv
  /\ \A p \in Proc : RaceInv(p) /\ HolderInv(p) /\ AskedInv(p) /\ NodeInv(p) /\ FailedInv(p)
=============================================================================
