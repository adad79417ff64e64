------------------------------ MODULE Logging ------------------------------
(***************************************************************************)
(* node::redirect_logs, while the goroutines of a node are logging.        *)
(*                                                                         *)
(* The C++ half assigns the static std::function log_cb, without a lock;   *)
(* the Go half then gives the standard logger another writer.  The logger  *)
(* holds its mutex while it writes a line and while SetOutput changes the  *)
(* writer.  Assigning log_cb while a goroutine is calling it, or calling   *)
(* it while it is being assigned, is a data race.                          *)
(*                                                                         *)
(* The user's callback runs under the logger's mutex.  Some return by      *)
(* themselves; some wait for the thread that calls redirect_logs, as one   *)
(* does that hands the line over to it; and some lead back to the logger,  *)
(* by calling a function of the node that logs, and wait for the mutex     *)
(* that their own goroutine holds.                                         *)
(***************************************************************************)
EXTENDS Naturals

CONSTANTS
  Goroutine,     \* the goroutines that log
  Callbacks,     \* what redirect_logs may be given, Empty among it or not
  Waits,         \* those that wait for the thread that redirects
  Reentrant,     \* those that log, and so wait for the logger
  MaxRedirect,   \* bound: the number of calls of redirect_logs
  MaxLine        \* bound: the number of lines that a goroutine logs

Empty  == "empty"    \* a std::function without a target
Stderr == "stderr"
Any    == "any"
Nobody == "nobody"

ASSUME LoggingAssumption ==
  /\ MaxRedirect \in Nat
  /\ MaxLine \in Nat
  /\ Callbacks \cap {Stderr, Any, "torn"} = {}
  /\ (Waits \cup Reentrant) \subseteq Callbacks \ {Empty}
  /\ Nobody \notin Goroutine

VARIABLES
  log_cb,      \* the callback, "torn" while it is being assigned
  output,      \* the logger's writer: Stderr, "CustomLog" or "CustomLog nil"
  mu,          \* the goroutine that holds the logger's mutex, or Nobody
  pc,          \* where redirect_logs is
  arg,         \* its last argument, Stderr before the first call
  redirects,   \* how many calls of it there have been
  state,       \* of a goroutine: idle, waiting for the mutex, writing, calling
  line,        \* how many lines it has begun to log
  expect,      \* where its line has to go: decided unless redirect_logs runs
  broken       \* how the process has broken

vars == <<log_cb, output, mu, pc, arg, redirects, state, line, expect, broken>>

Init ==
  /\ log_cb    = Empty
  /\ output    = Stderr
  /\ mu        = Nobody
  /\ pc        = "user"
  /\ arg       = Stderr
  /\ redirects = 0
  /\ state     = [g \in Goroutine |-> "idle"]
  /\ line      = [g \in Goroutine |-> 0]
  /\ expect    = [g \in Goroutine |-> Any]
  /\ broken    = {}

(* A panic, a failed assertion or a data race is the end of the process.   *)
Alive == broken = {}

-----------------------------------------------------------------------------
(* redirect_logs, on the user's thread.                                    *)

RedirectGoFirst(cb) ==
  /\ Alive /\ pc = "user" /\ redirects < MaxRedirect
  /\ mu = Nobody
  /\ redirects' = redirects + 1
  /\ arg' = cb
  /\ output' = "CustomLog"
  /\ log_cb' = "torn"
  /\ pc' = "assign"
  /\ expect' = [g \in Goroutine |-> Any]
  /\ UNCHANGED <<mu, state, line, broken>>

(* log_cb = std::move(logcb) begins ...                                    *)
Redirect(cb) ==
  /\ Alive /\ pc = "user" /\ redirects < MaxRedirect
  /\ redirects' = redirects + 1
  /\ arg' = cb
  /\ log_cb' = "torn"
  /\ pc' = "assign"
  /\ expect' = [g \in Goroutine |-> Any]
  /\ broken' = IF \E g \in Goroutine : state[g] = "calling" THEN {"race"} ELSE {}
  /\ UNCHANGED <<output, mu, state, line>>

(* ... and ends; go_asio_ipfs_redirect_logs is called.                     *)
Assigned ==
  /\ Alive /\ pc = "assign"
  /\ log_cb' = arg
  /\ pc' = IF arg = Empty THEN "stderr" ELSE "custom"
  /\ UNCHANGED <<output, mu, arg, redirects, state, line, expect, broken>>

SetOutput(from, to, writer) ==
  /\ Alive /\ pc = from
  /\ mu = Nobody
  /\ output' = writer
  /\ pc' = to
  /\ UNCHANGED <<log_cb, mu, arg, redirects, state, line, expect, broken>>

(* if log_cb == nil { ... log.SetOutput(os.Stderr) } has no return.        *)
SetStderr == SetOutput("stderr", "custom", Stderr)

SetCustomLogForgotten == SetOutput("custom", "user", output)

SetCustomLog ==
  SetOutput("custom", "user", IF arg = Empty THEN "CustomLog nil" ELSE "CustomLog")

-----------------------------------------------------------------------------
(* log.Println and the like, on a goroutine.                               *)

Log(g) ==
  /\ Alive /\ state[g] = "idle" /\ line[g] < MaxLine
  /\ state' = [state EXCEPT ![g] = "waiting"]
  /\ line' = [line EXCEPT ![g] = @ + 1]
  /\ expect' = [expect EXCEPT ![g] = IF pc = "user" THEN arg ELSE Any]
  /\ UNCHANGED <<log_cb, output, mu, pc, arg, redirects, broken>>

Lock(g) ==
  /\ Alive /\ state[g] = "waiting"
  /\ mu = Nobody
  /\ mu' = g
  /\ state' = [state EXCEPT ![g] = "writing"]
  /\ UNCHANGED <<log_cb, output, pc, arg, redirects, line, expect, broken>>

Stray(g, target) == expect[g] \notin {Any, target}

WriteStderr(g) ==
  /\ Alive /\ state[g] = "writing"
  /\ output = Stderr
  /\ state' = [state EXCEPT ![g] = "idle"]
  /\ mu' = Nobody
  /\ broken' = IF Stray(g, Stderr) THEN {"stray"} ELSE {}
  /\ UNCHANGED <<log_cb, output, pc, arg, redirects, line, expect>>

WriteCustomLocked(g) ==
  /\ Alive /\ state[g] = "writing" /\ pc = "user"
  /\ output # Stderr
  /\ state' = [state EXCEPT ![g] = "calling"]
  /\ broken' = IF output = "CustomLog nil" THEN {"panic"} ELSE {}
  /\ UNCHANGED <<log_cb, output, mu, pc, arg, redirects, line, expect>>

(* CustomLog.Write: panics without a callback, else executeLogCB enters    *)
(* logCB, which asserts that there is one.                                 *)
WriteCustom(g) ==
  /\ Alive /\ state[g] = "writing"
  /\ output # Stderr
  /\ state' = [state EXCEPT ![g] = "calling"]
  /\ broken' = IF output = "CustomLog nil"   THEN {"panic"}
               ELSE IF log_cb = "torn"         THEN {"race"}
               ELSE IF log_cb = Empty          THEN {"assert"}
               ELSE IF Stray(g, log_cb)        THEN {"stray"}
               ELSE {}
  /\ UNCHANGED <<log_cb, output, mu, pc, arg, redirects, line, expect>>

CallReturnsLocked(g) ==
  /\ Alive /\ state[g] = "calling"
  /\ state' = [state EXCEPT ![g] = "idle"]
  /\ UNCHANGED <<log_cb, output, mu, pc, arg, redirects, line, expect, broken>>

(* log_cb is still the callback that is running: to assign it now is the   *)
(* race that Redirect finds.                                               *)
CallReturns(g) ==
  /\ Alive /\ state[g] = "calling"
  /\ log_cb \notin Reentrant
  /\ log_cb \in Waits => pc = "user"
  /\ state' = [state EXCEPT ![g] = "idle"]
  /\ mu' = Nobody
  /\ UNCHANGED <<log_cb, output, pc, arg, redirects, line, expect, broken>>

-----------------------------------------------------------------------------
Next ==
  \/ \E cb \in Callbacks : Redirect(cb)
  \/ Assigned \/ SetStderr \/ SetCustomLog
  \/ \E g \in Goroutine :
       Log(g) \/ Lock(g) \/ WriteStderr(g) \/ WriteCustom(g) \/ CallReturns(g)

Spec == Init /\ [][Next]_vars

(* A callback that has what it waits for returns, and a mutex of Go does   *)
(* not starve those who wait for it.                                       *)
FairSpec ==
  /\ Spec
  /\ WF_vars(Assigned) /\ SF_vars(SetStderr) /\ SF_vars(SetCustomLog)
  /\ \A g \in Goroutine :
       SF_vars(Lock(g)) /\ WF_vars(WriteStderr(g) \/ WriteCustom(g) \/ CallReturns(g))

-----------------------------------------------------------------------------
(* Properties.                                                             *)

(* The values each variable ranges over; the logger's mutex is held by the *)
(* goroutine that writes.                                                  *)
TypeOK ==
  /\ log_cb \in Callbacks \cup {Empty, "torn"}
  /\ output \in {Stderr, "CustomLog", "CustomLog nil"}
  /\ mu \in Goroutine \cup {Nobody}
  /\ pc \in {"user", "assign", "stderr", "custom"}
  /\ arg \in Callbacks \cup {Stderr}
  /\ redirects \in 0 .. MaxRedirect
  /\ state \in [Goroutine -> {"idle", "waiting", "writing", "calling"}]
  /\ line \in [Goroutine -> 0 .. MaxLine]
  /\ expect \in [Goroutine -> Callbacks \cup {Stderr, Any}]
  /\ broken \in SUBSET {"race", "panic", "assert", "stray"}
  /\ \A g \in Goroutine : mu = g <=> state[g] \in {"writing", "calling"}

(* A callback keeps the logger's mutex for ever: it waits for the logger,  *)
(* or for the thread that is in redirect_logs and waits for the logger.    *)
Stuck ==
  /\ \E g \in Goroutine : state[g] = "calling"
  /\ log_cb \in Reentrant \/ (log_cb \in Waits /\ pc # "user")

(* Redirecting the log to a callback once is safe at any time, even while  *)
(* goroutines are logging: none of them gets to log_cb before it has been  *)
(* assigned, and none is in it while redirect_logs waits for the logger,   *)
(* so that it may wait for the thread that redirects.                      *)
RedirectIsSafe ==
  /\ redirects <= 1 /\ arg # Empty => broken = {}
  /\ redirects <= 1 /\ Stuck => log_cb \in Reentrant

(* A redirect takes effect: a line that is logged when redirect_logs has   *)
(* returned, and written before it is called again, goes to the callback   *)
(* it was last given, however long the logger kept the line waiting.       *)
RedirectTakesEffect == "stray" \notin broken

(* The only way to lose the logger is a callback that waits for it, by     *)
(* itself or through the thread that redirects: else no line and no        *)
(* redirect waits for ever, as long as the process survives the redirects  *)
(* it is given.                                                            *)
LoggerAnswers ==
  /\ pc # "user" ~> pc = "user" \/ ~Alive \/ Stuck
  /\ \A g \in Goroutine : state[g] = "waiting" ~> state[g] = "idle" \/ ~Alive \/ Stuck

-----------------------------------------------------------------------------
(* The inductive invariant behind the safety properties above.             *)

(* A line has a destination only while nobody redirects the log.           *)
ExpectInv == \A g \in Goroutine : expect[g] # Any => pc = "user" /\ expect[g] = arg

(* Between two calls of redirect_logs the writer and the callback are what *)
(* the last one has asked for; SetOutput finds log_cb assigned.            *)
EffectInv ==
  /\ pc = "user" =>
       \/ arg = Stderr /\ output = Stderr
       \/ arg = Empty /\ output = "CustomLog nil"
       \/ arg \notin {Stderr, Empty} /\ output = "CustomLog" /\ log_cb = arg
  /\ pc # "user" => arg # Stderr
  /\ pc = "assign" => log_cb = "torn"
  /\ pc \in {"stderr", "custom"} => log_cb = arg
  /\ pc = "stderr" => arg = Empty

(* The first redirect finds the logger writing to stderr, and leaves it so *)
(* until log_cb has been assigned.                                         *)
FirstInv ==
  /\ redirects = 0 => pc = "user" /\ arg = Stderr
  /\ \/ redirects = 0
     \/ redirects = 1 /\ arg # Empty /\ pc # "user"
     => output = Stderr /\ \A g \in Goroutine : state[g] # "calling"

(* Nothing breaks before a second redirect, or an empty one.               *)
BrokenInv == redirects <= 1 /\ arg # Empty => broken = {}

(* The conjunction the proofs show to be inductive.                        *)
LogInv ==
  /\ TypeOK
  /\ ExpectInv
  /\ EffectInv
  /\ FirstInv
  /\ BrokenInv
  /\ RedirectTakesEffect
=============================================================================
