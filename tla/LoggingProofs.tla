--------------------------- MODULE LoggingProofs ---------------------------
(***************************************************************************)
(* Proofs about Logging, for any number of goroutines, callbacks, lines    *)
(* and redirects.                                                          *)
(***************************************************************************)
EXTENDS Logging, TLAPS

USE LoggingAssumption DEF Empty, Stderr, Any, Nobody, Alive

(* The invariant holds initially.                                          *)
LEMMA InitLogInv == Init => LogInv
  BY DEF Init, LogInv, TypeOK, ExpectInv, EffectInv, FirstInv, BrokenInv,
         RedirectTakesEffect

(* log_cb = std::move(logcb) begins.                                       *)
LEMMA RedirectLogInv ==
  ASSUME LogInv, NEW cb \in Callbacks, Redirect(cb)
  PROVE  LogInv'
<1> USE DEF LogInv
<1>1. /\ redirects' \in 0 .. MaxRedirect /\ redirects' # 0
      /\ redirects' <= 1 => redirects = 0
  <2>1. redirects \in 0 .. MaxRedirect /\ redirects < MaxRedirect /\ redirects' = redirects + 1
    BY DEF Redirect, TypeOK
  <2> QED BY <2>1
<1>2. /\ broken' \in SUBSET {"race"}
      /\ redirects = 0 => broken' = {}
  BY DEF Redirect, FirstInv
<1>3. /\ arg' = cb /\ log_cb' = "torn" /\ pc = "user" /\ pc' = "assign"
      /\ expect' = [g \in Goroutine |-> Any]
      /\ UNCHANGED <<output, mu, state, line>>
  BY DEF Redirect
<1>4. TypeOK'
  BY <1>1, <1>2, <1>3 DEF TypeOK
<1>5. ExpectInv' /\ EffectInv'
  BY <1>3 DEF ExpectInv, EffectInv
<1>6. FirstInv'
  <2>1. redirects' = 1 => redirects = 0
    BY <1>1
  <2> QED BY <1>1, <1>3, <2>1 DEF FirstInv
<1>7. BrokenInv' /\ RedirectTakesEffect'
  BY <1>1, <1>2 DEF BrokenInv, RedirectTakesEffect
<1> QED BY <1>4, <1>5, <1>6, <1>7

(* The assignment ends, and Go gives the logger its writers.               *)
LEMMA SetLogInv ==
  ASSUME LogInv, Assigned \/ SetStderr \/ SetCustomLog
  PROVE  LogInv'
<1> USE DEF LogInv
<1>1. CASE Assigned
  <2>1. arg \in Callbacks
    BY <1>1 DEF Assigned, TypeOK, FirstInv, EffectInv
  <2>2. TypeOK'
    BY <1>1, <2>1 DEF Assigned, TypeOK
  <2> QED BY <1>1, <2>1, <2>2 DEF Assigned, ExpectInv, EffectInv, FirstInv, BrokenInv,
                                  RedirectTakesEffect
<1>2. CASE SetStderr
  <2>1. TypeOK'
    BY <1>2 DEF SetStderr, SetOutput, TypeOK
  <2> QED BY <1>2, <2>1 DEF SetStderr, SetOutput, ExpectInv, EffectInv, FirstInv,
                            BrokenInv, RedirectTakesEffect
<1>3. CASE SetCustomLog
  <2>1. TypeOK'
    BY <1>3 DEF SetCustomLog, SetOutput, TypeOK
  <2> QED BY <1>3, <2>1 DEF SetCustomLog, SetOutput, ExpectInv, EffectInv, FirstInv,
                            BrokenInv, RedirectTakesEffect
<1> QED BY <1>1, <1>2, <1>3

(* A goroutine begins a line, and takes the mutex of the logger.           *)
LEMMA LineLogInv ==
  ASSUME LogInv, NEW g \in Goroutine, Log(g) \/ Lock(g) \/ CallReturns(g)
  PROVE  LogInv'
<1> USE DEF LogInv
<1>1. CASE Log(g)
  <2>1. line' \in [Goroutine -> 0 .. MaxLine]
    <3>1. line[g] \in 0 .. MaxLine /\ line[g] < MaxLine
      BY <1>1 DEF Log, TypeOK
    <3>2. line[g] + 1 \in 0 .. MaxLine
      BY <3>1
    <3> QED BY <1>1, <3>2 DEF Log, TypeOK
  <2>2. /\ state' = [state EXCEPT ![g] = "waiting"] /\ state[g] = "idle"
        /\ expect' = [expect EXCEPT ![g] = IF pc = "user" THEN arg ELSE Any]
        /\ UNCHANGED <<log_cb, output, mu, pc, arg, redirects, broken>>
    BY <1>1 DEF Log
  <2>3. TypeOK'
    BY <2>1, <2>2 DEF TypeOK
  <2>4. ExpectInv'
    BY <2>2 DEF TypeOK, ExpectInv
  <2>5. \A k \in Goroutine : state'[k] = "calling" => state[k] = "calling"
    BY <2>2 DEF TypeOK
  <2> QED BY <2>2, <2>3, <2>4, <2>5 DEF EffectInv, FirstInv, BrokenInv,
                                        RedirectTakesEffect
<1>2. CASE Lock(g)
  <2>1. /\ state' = [state EXCEPT ![g] = "writing"]
        /\ mu = Nobody /\ mu' = g
        /\ UNCHANGED <<log_cb, output, pc, arg, redirects, line, expect, broken>>
    BY <1>2 DEF Lock
  <2>2. /\ state' \in [Goroutine -> {"idle", "waiting", "writing", "calling"}]
        /\ \A k \in Goroutine : state'[k] = IF k = g THEN "writing" ELSE state[k]
        /\ \A k \in Goroutine : state[k] \notin {"writing", "calling"}
    BY <2>1 DEF TypeOK
  <2>3. TypeOK'
    <3>1. \A k \in Goroutine : mu' = k <=> state'[k] \in {"writing", "calling"}
      BY <2>1, <2>2
    <3> QED BY <2>1, <2>2, <3>1 DEF TypeOK
  <2> QED BY <2>1, <2>2, <2>3 DEF ExpectInv, EffectInv, FirstInv, BrokenInv,
                                  RedirectTakesEffect
<1>3. CASE CallReturns(g)
  <2>1. TypeOK'
    BY <1>3 DEF CallReturns, TypeOK
  <2> QED BY <1>3, <2>1 DEF CallReturns, TypeOK, ExpectInv, EffectInv, FirstInv,
                            BrokenInv, RedirectTakesEffect
<1> QED BY <1>1, <1>2, <1>3

(* A goroutine writes its line, to stderr or to CustomLog.                 *)
LEMMA WriteLogInv ==
  ASSUME LogInv, NEW g \in Goroutine, WriteStderr(g) \/ WriteCustom(g)
  PROVE  LogInv'
<1> USE DEF LogInv
<1>1. CASE WriteStderr(g)
  <2>1. broken' = {}
    BY <1>1 DEF WriteStderr, Stray, ExpectInv, EffectInv
  <2>2. TypeOK'
    BY <1>1, <2>1 DEF WriteStderr, TypeOK
  <2> QED BY <1>1, <2>1, <2>2 DEF WriteStderr, TypeOK, ExpectInv, EffectInv, FirstInv,
                                  BrokenInv, RedirectTakesEffect
<1>2. CASE WriteCustom(g)
  <2>1. /\ redirects # 0
        /\ redirects = 1 /\ arg # Empty => pc = "user"
    BY <1>2 DEF WriteCustom, FirstInv
  <2>2. redirects <= 1 => redirects = 1
    <3>1. redirects \in 0 .. MaxRedirect
      BY DEF TypeOK
    <3> QED BY <2>1, <3>1
  <2>3. /\ broken' \in SUBSET {"race", "panic", "assert"}
        /\ redirects <= 1 /\ arg # Empty => broken' = {}
    <3>1. CASE output = "CustomLog nil"
      BY <1>2, <2>1, <2>2, <3>1 DEF WriteCustom, EffectInv, TypeOK
    <3>2. CASE output = "CustomLog" /\ log_cb = "torn"
      BY <1>2, <2>1, <2>2, <3>2 DEF WriteCustom, EffectInv, TypeOK
    <3>3. CASE output = "CustomLog" /\ log_cb = Empty
      BY <1>2, <2>1, <2>2, <3>3 DEF WriteCustom, EffectInv, TypeOK
    <3>4. CASE output = "CustomLog" /\ log_cb \notin {"torn", Empty}
      BY <1>2, <3>4 DEF WriteCustom, Stray, ExpectInv, EffectInv
    <3> QED BY <1>2, <3>1, <3>2, <3>3, <3>4 DEF WriteCustom, TypeOK
  <2>4. TypeOK'
    BY <1>2, <2>3 DEF WriteCustom, TypeOK
  <2>5. ExpectInv' /\ EffectInv'
    BY <1>2 DEF WriteCustom, ExpectInv, EffectInv
  <2>6. FirstInv'
    BY <1>2, <2>1 DEF WriteCustom, FirstInv, TypeOK
  <2> QED BY <1>2, <2>3, <2>4, <2>5, <2>6 DEF WriteCustom, BrokenInv, RedirectTakesEffect
<1> QED BY <1>1, <1>2

(* Every step preserves the invariant.                                     *)
LEMMA NextLogInv == LogInv /\ [Next]_vars => LogInv'
<1> SUFFICES ASSUME LogInv, [Next]_vars PROVE LogInv'
  OBVIOUS
<1>1. CASE UNCHANGED vars
  BY <1>1 DEF vars, LogInv, TypeOK, ExpectInv, EffectInv, FirstInv, BrokenInv,
              RedirectTakesEffect
<1>2. CASE Next
  BY <1>2, RedirectLogInv, SetLogInv, LineLogInv, WriteLogInv DEF Next
<1> QED BY <1>1, <1>2

(* Between two calls of redirect_logs the writer and the callback are what *)
(* the last one asked for, and the first call finds nobody in log_cb.      *)
THEOREM LoggingInductive == Spec => []LogInv
<1> QED BY InitLogInv, NextLogInv, PTL DEF Spec

(* The mutex of the logger is held by the one goroutine that writes.       *)
THEOREM LoggingTypeCorrect == Spec => []TypeOK
<1>1. LogInv => TypeOK
  BY DEF LogInv
<1> QED BY <1>1, LoggingInductive, PTL

(* One redirect to a callback is safe while any number of goroutines log,  *)
(* although log_cb is assigned without a lock and called under another,    *)
(* whatever the callback waits for but the logger itself.                  *)
THEOREM FirstRedirectSafe == Spec => []RedirectIsSafe
<1>1. LogInv => RedirectIsSafe
  <2> SUFFICES ASSUME LogInv, redirects <= 1, Stuck, log_cb \notin Reentrant PROVE FALSE
    BY DEF LogInv, BrokenInv, RedirectIsSafe
  <2>1. log_cb \in Waits /\ pc # "user" /\ \E g \in Goroutine : state[g] = "calling"
    BY DEF Stuck
  <2>2. redirects = 0 \/ redirects = 1
    <3>1. redirects \in 0 .. MaxRedirect
      BY DEF LogInv, TypeOK
    <3> QED BY <3>1
  <2>3. arg = Empty
    BY <2>1, <2>2 DEF LogInv, FirstInv
  <2>4. log_cb \in {"torn", Empty}
    BY <2>1, <2>3 DEF LogInv, TypeOK, EffectInv
  <2> QED BY <2>1, <2>4
<1> QED BY <1>1, LoggingInductive, PTL

(* A line logged after redirect_logs has returned goes to the callback it  *)
(* was given.                                                              *)
THEOREM RedirectEffective == Spec => []RedirectTakesEffect
<1>1. LogInv => RedirectTakesEffect
  BY DEF LogInv
<1> QED BY <1>1, LoggingInductive, PTL
=============================================================================
