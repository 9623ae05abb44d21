---------------------------- MODULE FactoryProofs ----------------------------
(***************************************************************************)
(* Proofs about the factory pause (CircuitBreaker), for any processes,     *)
(* workers and operators, and about the ceremonies between the sprints     *)
(* (Ceremonies), for any number of sprints.                                *)
(* What is proved of the pause holds while workers, breaker and operators  *)
(* cross in every way; KeepsTheLater and OrderedPauseHolds, which the code  *)
(* does not satisfy when they cross, are not.                              *)
(***************************************************************************)
EXTENDS CircuitBreaker, Ceremonies, TLAPS

LEMMA TypesInit == Init => TypeOK
<1> SUFFICES ASSUME Init PROVE TypeOK
  OBVIOUS
<1> USE BoundAssumption DEF Init
<1>1. now \in 1..MaxTime /\ 0 \in 0..MaxTime /\ calls \in 0..MaxCalls
  OBVIOUS
<1>2. /\ paused \in [Procs -> BOOLEAN] /\ pausedUntil \in [Procs -> 0..MaxTime]
      /\ want \in [Workers -> 0..MaxTime] /\ since \in [Workers -> Nat] /\ ordered \in BOOLEAN
      /\ lost \in [Procs -> BOOLEAN] /\ held \in [Workers -> BOOLEAN]
  BY <1>1
<1>3. pc \in [Threads -> {"idle", "paused", "swap", "clear", "claim", "step", "arm",
                         "arm_check", "arm_store", "arm_swap", "resume"}]
  OBVIOUS
<1> QED  BY <1>1, <1>2, <1>3 DEF TypeOK

(* The history, after the actions that write it.                           *)
LEMMA HeldTypes ==
  ASSUME held \in [Workers -> BOOLEAN], NEW w \in Workers, NEW p,
         \/ held' = [v \in Workers |->
              held[v] /\ (Home[v] = p /\ WindowElapsed(p) => Uncontended(p))]
         \/ held' = [v \in Workers |->
              IF Home[v] = p THEN (v = w \/ held[v]) /\ Uncontended(p) ELSE held[v]]
  PROVE  held' \in [Workers -> BOOLEAN]
<1>1. Uncontended(p) \in BOOLEAN /\ WindowElapsed(p) \in BOOLEAN
  BY DEF Uncontended, WindowElapsed
<1> QED  BY <1>1

LEMMA LiftTypes ==
  ASSUME ordered \in BOOLEAN, since \in [Workers -> Nat], NEW p, Lifts(p)
  PROVE  ordered' \in BOOLEAN /\ since' \in [Workers -> Nat]
BY DEF Lifts

LEMMA ClearTypes ==
  ASSUME lost \in [Procs -> BOOLEAN], paused \in [Procs -> BOOLEAN], ordered \in BOOLEAN,
         NEW p \in Procs, Clears(p)
  PROVE  lost' \in [Procs -> BOOLEAN]
BY DEF Clears

(* The atomics, the clock and the threads hold what the code can put there. *)
LEMMA BreakerTypes == Spec => []TypeOK
<1>2. TypeOK /\ [Next]_vars => TypeOK'
  <2> SUFFICES ASSUME TypeOK, [Next]_vars PROVE TypeOK'
    OBVIOUS
  <2> USE HomeAssumption, BoundAssumption
  <2>1. \A w \in Workers : w \in Threads /\ Home[w] \in Procs
    BY DEF Threads
  <2>2. \A o \in Operators : o \in Threads
    BY DEF Threads
  <2>3. ASSUME NEW w \in Workers, Loop(w) PROVE TypeOK'
    <3> USE DEF Goes, TypeOK, atomics, history
    <3>1. CASE CheckPaused(w)  BY <2>1, <3>1 DEF CheckPaused
    <3>2. CASE CheckWindow(w)
      <4>1. held' \in [Workers -> BOOLEAN]
        BY <2>1, <3>2, HeldTypes DEF CheckWindow
      <4> QED  BY <2>1, <3>2, <4>1 DEF CheckWindow
    <3>3. CASE SwapOff(w)
      <4>1. ordered' \in BOOLEAN /\ since' \in [Workers -> Nat]
        BY <2>1, <3>3, LiftTypes DEF SwapOff
      <4> QED  BY <2>1, <3>3, <4>1 DEF SwapOff
    <3>4. CASE ClearUntil(w)
      <4>1. lost' \in [Procs -> BOOLEAN]
        BY <2>1, <3>4, ClearTypes DEF ClearUntil
      <4>2. pausedUntil' \in [Procs -> 0..MaxTime]
        BY <2>1, <3>4 DEF ClearUntil
      <4>3. pc' \in [Threads -> {"idle", "paused", "swap", "clear", "claim", "step", "arm",
                                "arm_check", "arm_store", "arm_swap", "resume"}]
        BY <2>1, <3>4 DEF ClearUntil
      <4>4. UNCHANGED <<paused, now, want, calls, ordered, since, held>>
        BY <3>4 DEF ClearUntil
      <4> QED  BY <4>1, <4>2, <4>3, <4>4
    <3>5. CASE ExecuteOne(w)   BY <2>1, <3>5 DEF ExecuteOne
    <3>6. CASE StepReturns(w)  BY <2>1, <3>6 DEF StepReturns
    <3>7. CASE LoadUntil(w)    BY <2>1, <3>7 DEF LoadUntil
    <3>8. CASE AlreadyPaused(w)  BY <2>1, <3>8 DEF AlreadyPaused
    <3>9. CASE StoreUntil(w)   BY <2>1, <3>9 DEF StoreUntil
    <3>10. CASE SwapOn(w)      BY <2>1, <3>10 DEF SwapOn
    <3> QED
      BY <2>3, <3>1, <3>2, <3>3, <3>4, <3>5, <3>6, <3>7, <3>8, <3>9, <3>10 DEF Loop
  <2>4. ASSUME NEW w \in Workers, NEW d \in Backoffs, HitLimit(w, d) PROVE TypeOK'
    <3>1. held' \in [Workers -> BOOLEAN]
      BY <2>4, HeldTypes DEF HitLimit, TypeOK
    <3> QED  BY <2>1, <2>4, <3>1 DEF HitLimit, Goes, TypeOK, atomics
  <2>5. ASSUME NEW o \in Operators, Pause(o) \/ ResumeFlag(o) \/ ResumeClear(o) PROVE TypeOK'
    <3>1. CASE Pause(o)
      BY <2>2, <3>1 DEF Pause, Call, Goes, TypeOK
    <3>2. CASE ResumeFlag(o)
      <4>1. ordered' \in BOOLEAN /\ since' \in [Workers -> Nat]
        BY <3>2, LiftTypes DEF ResumeFlag, TypeOK
      <4>2. held' \in [Workers -> BOOLEAN]
        BY <3>2 DEF ResumeFlag, TypeOK
      <4> QED  BY <2>2, <3>2, <4>1, <4>2 DEF ResumeFlag, Call, Goes, TypeOK
    <3>3. CASE ResumeClear(o)
      <4>1. lost' \in [Procs -> BOOLEAN]
        BY <3>3, ClearTypes DEF ResumeClear, TypeOK
      <4>2. pausedUntil' \in [Procs -> 0..MaxTime]
        BY <3>3 DEF ResumeClear, TypeOK
      <4>3. pc' \in [Threads -> {"idle", "paused", "swap", "clear", "claim", "step", "arm",
                                "arm_check", "arm_store", "arm_swap", "resume"}]
        BY <2>2, <3>3 DEF ResumeClear, Goes, TypeOK
      <4>4. UNCHANGED <<paused, now, want, calls, ordered, since, held>>
        BY <3>3 DEF ResumeClear
      <4> QED  BY <4>1, <4>2, <4>3, <4>4 DEF TypeOK
    <3> QED  BY <2>5, <3>1, <3>2, <3>3
  <2>6. CASE Tick
    BY <2>6 DEF Tick, TypeOK, atomics, history
  <2>7. CASE UNCHANGED vars
    BY <2>7 DEF vars, TypeOK
  <2> QED  BY <2>3, <2>4, <2>5, <2>6, <2>7 DEF Next
<1> QED  BY <1>2, TypesInit, PTL DEF Spec

(* A worker's step moves no other thread.                                   *)
LEMMA LoopMoves ==
  ASSUME TypeOK, NEW w \in Workers, Loop(w)
  PROVE  \A t \in Threads : t # w => pc'[t] = pc[t]
<1>1. \E from, to : Goes(w, from, to)
  BY DEF Loop, CheckPaused, CheckWindow, SwapOff, ClearUntil, ExecuteOne, StepReturns,
         LoadUntil, AlreadyPaused, StoreUntil, SwapOn
<1> QED  BY <1>1 DEF Goes, TypeOK

-----------------------------------------------------------------------------
(* What a pause admits.                                                    *)

\* A worker that may still begin a step has begun none under the flag.
Behind ==
  \A w \in Workers :
    /\ since[w] <= 1
    /\ ~paused[Home[w]] => since[w] = 0
    /\ pc[w] \in {"claim", "clear"} => since[w] = 0

LEMMA BehindNext ==
  ASSUME TypeOK, Behind, [Next]_vars
  PROVE  Behind'
<1> USE HomeAssumption, ThreadAssumption
<1>1. \A w \in Workers : w \in Threads /\ Home[w] \in Procs /\ w \notin Operators
  BY DEF Threads
<1>2. CASE UNCHANGED vars
  BY <1>2 DEF vars, Behind
<1>3. ASSUME NEW w \in Workers, Loop(w) PROVE Behind'
  <2> USE DEF Goes, atomics, history, TypeOK, Behind
  <2>1. CASE CheckPaused(w)  BY <1>1, <2>1 DEF CheckPaused
  <2>2. CASE CheckWindow(w)  BY <1>1, <2>2 DEF CheckWindow
  <2>3. CASE SwapOff(w)      BY <1>1, <2>3 DEF SwapOff, Lifts
  <2>4. CASE ClearUntil(w)   BY <1>1, <2>4 DEF ClearUntil
  <2>5. CASE ExecuteOne(w)   BY <1>1, <2>5 DEF ExecuteOne
  <2>6. CASE StepReturns(w)  BY <1>1, <2>6 DEF StepReturns
  <2>7. CASE LoadUntil(w)    BY <1>1, <2>7 DEF LoadUntil
  <2>8. CASE AlreadyPaused(w)  BY <1>1, <2>8 DEF AlreadyPaused
  <2>9. CASE StoreUntil(w)   BY <1>1, <2>9 DEF StoreUntil
  <2>10. CASE SwapOn(w)      BY <1>1, <2>10 DEF SwapOn
  <2> QED
    BY <1>3, <2>1, <2>2, <2>3, <2>4, <2>5, <2>6, <2>7, <2>8, <2>9, <2>10 DEF Loop
<1>4. ASSUME NEW w \in Workers, NEW d \in Backoffs, HitLimit(w, d) PROVE Behind'
  BY <1>1, <1>4 DEF HitLimit, Goes, atomics, TypeOK, Behind
<1>5. ASSUME NEW o \in Operators, Pause(o) \/ ResumeFlag(o) \/ ResumeClear(o) PROVE Behind'
  <2>1. \A v \in Workers : pc'[v] = pc[v]
    BY <1>1, <1>5 DEF Pause, ResumeFlag, ResumeClear, Goes, TypeOK
  <2> QED  BY <1>1, <1>5, <2>1 DEF Pause, ResumeFlag, ResumeClear, Lifts, TypeOK, Behind
<1>6. CASE Tick
  BY <1>6 DEF Tick, atomics, history, Behind
<1> QED  BY <1>2, <1>3, <1>4, <1>5, <1>6 DEF Next

(* Once the flag of its process is up, a worker begins at most the one step *)
(* for which it had read it, however many processes, workers and operators  *)
(* there are, whoever pauses and however often.                             *)
THEOREM PauseIsNearlyPrompt == Spec => []PauseAdmitsOneStep
<1>1. Init => Behind
  BY DEF Init, Behind, Threads
<1>2. TypeOK /\ Behind /\ [Next]_vars => Behind'
  BY BehindNext
<1>3. Behind => PauseAdmitsOneStep
  BY DEF Behind, PauseAdmitsOneStep
<1> QED  BY <1>1, <1>2, <1>3, BreakerTypes, PTL DEF Spec

-----------------------------------------------------------------------------
(* The pauses without a resume time.                                       *)

\* A PauseUntil about to put up the flag has its time stored, or lost it.
Explained ==
  /\ EndlessIsExplained
  /\ \A w \in Workers :
       /\ pc[w] \in {"arm", "arm_check", "arm_store"} => want[w] > 0
       /\ pc[w] = "arm_swap" => pausedUntil[Home[w]] > 0 \/ lost[Home[w]]

LEMMA ExplainedNext ==
  ASSUME TypeOK, Explained, [Next]_vars
  PROVE  Explained'
<1> USE HomeAssumption, ThreadAssumption, BoundAssumption
<1>1. \A w \in Workers : w \in Threads /\ Home[w] \in Procs /\ w \notin Operators
  BY DEF Threads
<1>2. CASE UNCHANGED vars
  BY <1>2 DEF vars, Explained, EndlessIsExplained, Endless
<1>3. ASSUME NEW w \in Workers, Loop(w) PROVE Explained'
  <2> USE DEF Goes, atomics, history, TypeOK, Explained, EndlessIsExplained, Endless
  <2>1. CASE CheckPaused(w)  BY <1>1, <2>1 DEF CheckPaused
  <2>2. CASE CheckWindow(w)  BY <1>1, <2>2 DEF CheckWindow
  <2>3. CASE SwapOff(w)      BY <1>1, <2>3 DEF SwapOff, Lifts
  <2>4. CASE ClearUntil(w)   BY <1>1, <2>4 DEF ClearUntil, Clears
  <2>5. CASE ExecuteOne(w)   BY <1>1, <2>5 DEF ExecuteOne
  <2>6. CASE StepReturns(w)  BY <1>1, <2>6 DEF StepReturns
  <2>7. CASE LoadUntil(w)    BY <1>1, <2>7 DEF LoadUntil
  <2>8. CASE AlreadyPaused(w)  BY <1>1, <2>8 DEF AlreadyPaused
  <2>9. CASE StoreUntil(w)   BY <1>1, <2>9 DEF StoreUntil
  <2>10. CASE SwapOn(w)      BY <1>1, <2>10 DEF SwapOn
  <2> QED
    BY <1>3, <2>1, <2>2, <2>3, <2>4, <2>5, <2>6, <2>7, <2>8, <2>9, <2>10 DEF Loop
<1>4. ASSUME NEW w \in Workers, NEW d \in Backoffs, HitLimit(w, d) PROVE Explained'
  BY <1>1, <1>4
  DEF HitLimit, Goes, atomics, TypeOK, Explained, EndlessIsExplained, Endless
<1>5. ASSUME NEW o \in Operators, Pause(o) \/ ResumeFlag(o) \/ ResumeClear(o) PROVE Explained'
  <2> USE DEF TypeOK, Explained, EndlessIsExplained, Endless
  <2>1. UNCHANGED want /\ \A v \in Workers : pc'[v] = pc[v]
    BY <1>1, <1>5 DEF Pause, ResumeFlag, ResumeClear, Goes
  <2>2. CASE Pause(o)        BY <1>1, <2>1, <2>2 DEF Pause
  <2>3. CASE ResumeFlag(o)   BY <1>1, <2>1, <2>3 DEF ResumeFlag, Lifts
  <2>4. CASE ResumeClear(o)  BY <1>1, <2>1, <2>4 DEF ResumeClear, Clears
  <2> QED  BY <1>5, <2>2, <2>3, <2>4
<1>6. CASE Tick
  BY <1>6 DEF Tick, atomics, history, Explained, EndlessIsExplained, Endless
<1> QED  BY <1>2, <1>3, <1>4, <1>5, <1>6 DEF Next

(* A pause without a resume time, which no worker ends, was ordered by an   *)
(* operator or lost its time to a clear that crossed the PauseUntil: for    *)
(* any processes, workers and operators.                                    *)
THEOREM OnlyOrdersAreEndless == Spec => []EndlessIsExplained
<1>1. Init => Explained
  BY DEF Init, Explained, EndlessIsExplained, Threads
<1>2. TypeOK /\ Explained /\ [Next]_vars => Explained'
  BY ExplainedNext
<1>3. Explained => EndlessIsExplained
  BY DEF Explained
<1> QED  BY <1>1, <1>2, <1>3, BreakerTypes, PTL DEF Spec

-----------------------------------------------------------------------------
(* The credit window.                                                      *)

\* While w is held, the calls on the atomics of its process take turns.
OneCall(w) ==
  held[w] => \A t, u \in Threads :
    /\ Serves(t, Home[w]) /\ pc[t] \in Crossable
    /\ Serves(u, Home[w]) /\ pc[u] \in Crossable
    => t = u

\* A held worker inside its own window is arming the breaker or stopped by it;
\* nobody is lifting the pause, or about to store an earlier time.
Window(w) ==
  LET p == Home[w] IN
  held[w] /\ now < want[w] =>
    /\ pc[w] \in {"arm", "arm_check", "arm_store", "arm_swap", "idle", "paused"}
    /\ pc[w] \in {"idle", "paused"} => paused[p]
    /\ pc[w] \in {"idle", "paused", "arm_check", "arm_swap"} => pausedUntil[p] >= want[w]
    /\ \A t \in Threads : Serves(t, p) => pc[t] \notin {"swap", "clear", "resume"}
    /\ \A v \in Workers : Home[v] = p /\ pc[v] = "arm_store" => want[v] >= want[w]

WInv == \A w \in Workers : OneCall(w) /\ Window(w)

\* A thread that moves on the atomics of another process disturbs nothing.
LEMMA ElsewhereOnly ==
  ASSUME NEW x \in Workers, OneCall(x), Window(x), UNCHANGED now,
         held'[x] = held[x], want'[x] = want[x],
         paused'[Home[x]] = paused[Home[x]], pausedUntil'[Home[x]] = pausedUntil[Home[x]],
         \A t \in Threads : Serves(t, Home[x]) => pc'[t] = pc[t],
         \A v \in Workers : Home[v] = Home[x] => want'[v] = want[v]
  PROVE  OneCall(x)' /\ Window(x)'
<1>1. x \in Threads /\ \A v \in Workers : v \in Threads /\ Serves(v, Home[v])
  BY ThreadAssumption DEF Threads, Serves
<1>2. OneCall(x)'
  BY DEF OneCall, Serves
<1>3. Window(x)'
  BY <1>1 DEF Window, Serves
<1> QED  BY <1>2, <1>3

\* Calls go on taking turns when a thread begins one only while none is open.
LEMMA TurnsAreTaken ==
  ASSUME TypeOK, NEW x \in Workers, OneCall(x), NEW t \in Threads,
         \A u \in Threads : u # t => pc'[u] = pc[u],
         held'[x] => \/ held[x] /\ (pc[t] \in Crossable \/ pc'[t] \notin Crossable)
                     \/ Uncontended(Home[x])
  PROVE  OneCall(x)'
<1> SUFFICES ASSUME held'[x], NEW u \in Threads, NEW v \in Threads,
                    Serves(u, Home[x]), pc'[u] \in Crossable,
                    Serves(v, Home[x]), pc'[v] \in Crossable
             PROVE  u = v
  BY DEF OneCall, Serves
<1>1. CASE Uncontended(Home[x])
  BY <1>1 DEF Uncontended
<1>2. CASE held[x] /\ (pc[t] \in Crossable \/ pc'[t] \notin Crossable)
  <2>1. pc[u] \in Crossable /\ pc[v] \in Crossable
    BY <1>2
  <2> QED  BY <1>2, <2>1 DEF OneCall
<1> QED  BY <1>1, <1>2

LEMMA WInvLoop ==
  ASSUME TypeOK, TypeOK', WInv, NEW w \in Workers, Loop(w)
  PROVE  WInv'
<1> USE HomeAssumption, ThreadAssumption, BoundAssumption
<1>1. \A v \in Workers : v \in Threads /\ Home[v] \in Procs /\ v \notin Operators
  BY DEF Threads
<1>2. \A t \in Threads : t # w => pc'[t] = pc[t]
  BY LoopMoves
<1>3. UNCHANGED <<want, now>>
  BY DEF Loop, CheckPaused, CheckWindow, SwapOff, ClearUntil, ExecuteOne, StepReturns,
         LoadUntil, AlreadyPaused, StoreUntil, SwapOn
<1> SUFFICES ASSUME NEW x \in Workers PROVE OneCall(x)' /\ Window(x)'
  BY DEF WInv
<1>4. OneCall(x) /\ Window(x)
  BY DEF WInv
<1>5. CASE Home[x] # Home[w]
  <2>1. /\ paused'[Home[x]] = paused[Home[x]] /\ pausedUntil'[Home[x]] = pausedUntil[Home[x]]
        /\ held'[x] = held[x]
    BY <1>1, <1>5
    DEF TypeOK, Goes, atomics, history, Loop, CheckPaused, CheckWindow, SwapOff, ClearUntil,
        ExecuteOne, StepReturns, LoadUntil, AlreadyPaused, StoreUntil, SwapOn
  <2>2. ~Serves(w, Home[x])
    BY <1>1, <1>5 DEF Serves
  <2> QED  BY <1>2, <1>3, <1>4, <2>1, <2>2, ElsewhereOnly
<1>6. CASE Home[x] = Home[w]
  <2>1. held'[x] => held[x] /\ (WindowElapsed(Home[x]) /\ CheckWindow(w) => Uncontended(Home[x]))
    BY <1>6
    DEF TypeOK, history, Loop, CheckPaused, CheckWindow, SwapOff, ClearUntil,
        ExecuteOne, StepReturns, LoadUntil, AlreadyPaused, StoreUntil, SwapOn
  <2>2. OneCall(x)'
    <3>1. held'[x] => \/ held[x] /\ (pc[w] \in Crossable \/ pc'[w] \notin Crossable)
                      \/ Uncontended(Home[x])
      BY <1>1, <1>6, <2>1
      DEF Crossable, TypeOK, Goes, Loop, CheckPaused, CheckWindow, SwapOff, ClearUntil,
          ExecuteOne, StepReturns, LoadUntil, AlreadyPaused, StoreUntil, SwapOn
    <3> QED  BY <1>1, <1>2, <1>4, <3>1, TurnsAreTaken
  <2>3. Window(x)'
    <3> SUFFICES ASSUME held'[x], now < want[x] PROVE Window(x)'
      BY <1>3 DEF Window
    <3>1. held[x] /\ Serves(w, Home[x]) /\ Serves(x, Home[x]) /\ pc[w] \notin {"swap", "clear"}
      BY <1>1, <1>4, <1>6, <2>1 DEF Window, Serves
    <3>2. pc[w] \in Crossable => x = w \/ pc[x] \in {"idle", "paused"}
      BY <1>1, <1>4, <3>1 DEF OneCall, Window, Crossable
    <3>3. Window(x) /\ want[x] > now /\ now \in Nat /\ want[x] \in Nat
      BY <1>4 DEF TypeOK
    <3>4. \A v \in Workers : v # w => pc'[v] = pc[v]
      BY <1>1, <1>2
    <3> USE <1>1, <1>2, <1>3, <1>6, <3>1, <3>2, <3>3, <3>4
    <3> USE DEF Goes, TypeOK, atomics, history, Window, Crossable, Serves
    <3>5. CASE CheckPaused(w)  BY <3>5 DEF CheckPaused
    <3>6. CASE CheckWindow(w)  BY <2>1, <3>6 DEF CheckWindow, WindowElapsed, Uncontended
    <3>7. CASE SwapOff(w)      BY <3>7 DEF SwapOff
    <3>8. CASE ClearUntil(w)   BY <3>8 DEF ClearUntil
    <3>9. CASE ExecuteOne(w)   BY <3>9 DEF ExecuteOne
    <3>10. CASE StepReturns(w) BY <3>10 DEF StepReturns
    <3>11. CASE LoadUntil(w)   BY <3>11 DEF LoadUntil
    <3>12. CASE AlreadyPaused(w)  BY <3>12 DEF AlreadyPaused
    <3>13. CASE StoreUntil(w)  BY <3>13 DEF StoreUntil
    <3>14. CASE SwapOn(w)      BY <3>14 DEF SwapOn
    <3> QED
      BY <3>5, <3>6, <3>7, <3>8, <3>9, <3>10, <3>11, <3>12, <3>13, <3>14 DEF Loop
  <2> QED  BY <2>2, <2>3
<1> QED  BY <1>5, <1>6

LEMMA WInvLimit ==
  ASSUME TypeOK, TypeOK', WInv, NEW w \in Workers, NEW d \in Backoffs, HitLimit(w, d)
  PROVE  WInv'
<1> USE HomeAssumption, ThreadAssumption, BoundAssumption
<1> SUFFICES ASSUME NEW x \in Workers PROVE OneCall(x)' /\ Window(x)'
  BY DEF WInv
<1>1. \A v \in Workers : v \in Threads /\ Home[v] \in Procs /\ v \notin Operators
  BY DEF Threads
<1>2. /\ \A t \in Threads : t # w => pc'[t] = pc[t]
      /\ \A v \in Workers : v # w => want'[v] = want[v]
      /\ pc'[w] = "arm" /\ want'[w] = now + d
      /\ UNCHANGED <<paused, pausedUntil, now>>
  BY <1>1 DEF HitLimit, Goes, atomics, TypeOK
<1>3. OneCall(x) /\ Window(x)
  BY DEF WInv
<1>4. CASE Home[x] # Home[w]
  <2>1. held'[x] = held[x]
    BY <1>4 DEF HitLimit
  <2>2. ~Serves(w, Home[x])
    BY <1>1, <1>4 DEF Serves
  <2> QED  BY <1>2, <1>3, <1>4, <2>1, <2>2, ElsewhereOnly
<1>5. CASE Home[x] = Home[w]
  <2>1. held'[x] => (x = w \/ held[x]) /\ Uncontended(Home[x])
    BY <1>5 DEF HitLimit
  <2>2. OneCall(x)'
    BY <1>1, <1>2, <1>3, <2>1, TurnsAreTaken
  <2>3. Window(x)'
    <3> SUFFICES ASSUME held'[x], now < want'[x] PROVE Window(x)'
      BY <1>2 DEF Window
    <3>1. \A t \in Threads : Serves(t, Home[x]) => pc[t] \notin Crossable
      BY <2>1 DEF Uncontended
    <3>2. \A t \in Threads : Serves(t, Home[x]) => pc'[t] \notin {"swap", "clear", "resume"}
      BY <1>2, <3>1 DEF Crossable
    <3>3. \A v \in Workers : Home[v] = Home[x] => pc'[v] # "arm_store"
      <4>1. \A v \in Workers : Home[v] = Home[x] => pc[v] # "arm_store"
        BY <1>1, <3>1 DEF Crossable, Serves
      <4> QED  BY <1>1, <1>2, <4>1
    <3>4. CASE x = w
      BY <1>2, <3>2, <3>3, <3>4 DEF Window, Serves
    <3>5. CASE x # w
      BY <1>1, <1>2, <1>3, <2>1, <3>2, <3>3, <3>5 DEF Window, Serves
    <3> QED  BY <3>4, <3>5
  <2> QED  BY <2>2, <2>3
<1> QED  BY <1>4, <1>5

LEMMA WInvOperator ==
  ASSUME TypeOK, TypeOK', WInv, NEW o \in Operators, Pause(o) \/ ResumeFlag(o) \/ ResumeClear(o)
  PROVE  WInv'
<1> USE HomeAssumption, ThreadAssumption, BoundAssumption
<1> SUFFICES ASSUME NEW x \in Workers PROVE OneCall(x)' /\ Window(x)'
  BY DEF WInv
<1>1. o \in Threads /\ \A v \in Workers : v \in Threads /\ v # o
  BY DEF Threads
<1>2. /\ \A t \in Threads : t # o => pc'[t] = pc[t]
      /\ UNCHANGED <<want, now>>
      /\ pc'[o] \in Crossable => ResumeFlag(o)
  BY <1>1 DEF Pause, ResumeFlag, ResumeClear, Goes, TypeOK, Crossable
<1>3. OneCall(x) /\ Window(x)
  BY DEF WInv
<1>4. held'[x] => held[x] /\ (Home[x] = Control => ~ResumeFlag(o))
  BY DEF Pause, ResumeFlag, ResumeClear
<1>5. CASE Home[x] # Control
  <2>1. /\ paused'[Home[x]] = paused[Home[x]] /\ pausedUntil'[Home[x]] = pausedUntil[Home[x]]
        /\ held'[x] = held[x] /\ ~Serves(o, Home[x])
    BY <1>5 DEF Pause, ResumeFlag, ResumeClear, Serves, TypeOK
  <2> QED  BY <1>2, <1>3, <2>1, ElsewhereOnly
<1>6. CASE Home[x] = Control
  <2>1. OneCall(x)'
    BY <1>1, <1>2, <1>3, <1>4, <1>6, TurnsAreTaken
  <2>2. Window(x)'
    <3> SUFFICES ASSUME held'[x], now < want[x] PROVE Window(x)'
      BY <1>2 DEF Window
    <3>1. held[x] /\ Serves(o, Home[x]) /\ pc[o] \notin {"swap", "clear", "resume"}
      BY <1>1, <1>3, <1>4, <1>6 DEF Window, Serves
    <3>2. Pause(o)
      BY <1>4, <1>6, <3>1 DEF ResumeClear, Goes
    <3>3. UNCHANGED <<pc, pausedUntil>> /\ (paused[Control] => paused'[Control])
      BY <1>1, <3>2 DEF Pause, Goes, TypeOK
    <3> QED  BY <1>2, <1>3, <1>6, <3>1, <3>3 DEF Window, Serves
  <2> QED  BY <2>1, <2>2
<1> QED  BY <1>5, <1>6

LEMMA WInvNext ==
  ASSUME TypeOK, TypeOK', WInv, [Next]_vars
  PROVE  WInv'
<1>1. CASE UNCHANGED vars
  BY <1>1 DEF vars, WInv, OneCall, Window, Serves
<1>2. CASE Tick
  <2>1. UNCHANGED <<paused, pausedUntil, pc, want, held>> /\ now \in Nat /\ now' = now + 1
    BY <1>2 DEF Tick, atomics, history, TypeOK
  <2>2. \A w \in Workers : want[w] \in Nat
    BY DEF TypeOK
  <2> QED  BY <2>1, <2>2 DEF WInv, OneCall, Window, Serves
<1> QED  BY <1>1, <1>2, WInvLoop, WInvLimit, WInvOperator DEF Next

(* A worker that met a provider limit begins no step before the resume time *)
(* the limit gave, whatever limits its neighbours meet, as long as the calls *)
(* on the two atomics do not overlap and no operator resumes: for any        *)
(* processes, workers and operators.                                        *)
THEOREM BreakerHoldsTheWindow == Spec => []NoStepInTheWindow
<1>1. Init => WInv
  BY DEF Init, WInv, OneCall, Window
<1>2. TypeOK /\ TypeOK' /\ WInv /\ [Next]_vars => WInv'
  BY WInvNext
<1>3. WInv => NoStepInTheWindow
  BY DEF WInv, Window, NoStepInTheWindow
<1> QED  BY <1>1, <1>2, <1>3, BreakerTypes, PTL DEF Spec

-----------------------------------------------------------------------------
(* The ceremonies' settings.                                               *)

\* What the runs assume, and that who holds retros holds reviews: without
\* reviews no sprint is ever listed for its retro.
Settings ==
  /\ Sprints \subseteq Nat \ {0}
  /\ Ceremony \subseteq Kinds
  /\ "retro" \in Ceremony => "review" \in Ceremony

RowType == [sprint : Sprints, run : Nat, stamped : BOOLEAN]
RunType ==
  [kind : Kinds, sprint : Sprints, doc : BOOLEAN, recorded : BOOLEAN,
   at : {"working", "gate", "publish", "close", "ended"}]
SchedType ==
  [at : {"idle", "list_review", "list_retro", "sweep", "ensure", "start", "record", "fire"},
   ready : SUBSET RowType, queue : SUBSET RowType, row : RowType \cup {NoRow},
   kind : Kinds, held : BOOLEAN, blind : BOOLEAN, cached : BOOLEAN]

\* A row is being looked after; the row may be looked at for a new run.
Tending == sched.at \in {"ensure", "start", "record"}
OnRow == Tending \/ sched.at = "fire"

CerTypes ==
  /\ work \in [Sprints -> {"backlog", "running", "done"}]
  /\ late \subseteq Sprints
  /\ stamps \in [Kinds -> SUBSET Sprints]
  /\ ref \in [Kinds -> [Sprints -> 0..Len(runs)]]
  /\ runs \in Seq(RunType)
  /\ sched \in SchedType
  /\ sched.at = "list_review" => sched.kind = "review"
  /\ sched.at = "list_retro" => sched.kind = "retro"
  /\ sched.at = "idle" => sched = Idle
  /\ OnRow => sched.row \in RowType
  /\ sched.at = "fire" => sched.kind = "planning"

-----------------------------------------------------------------------------
(* One live run for each ceremony.                                         *)

\* The rows name the runs the sprints still have on record, one row each.
RowsFresh ==
  /\ \A a, b \in sched.queue : a.sprint = b.sprint => a = b
  /\ \A a, b \in sched.ready : a.sprint = b.sprint => a = b
  /\ \A a \in sched.queue : a.run = ref[sched.kind][a.sprint]
  /\ sched.kind # "planning" => \A a \in sched.ready : a.run = ref["planning"][a.sprint]
  /\ Tending => /\ sched.row.run = ref[sched.kind][sched.row.sprint]
                /\ \A a \in sched.queue : a.sprint # sched.row.sprint

\* A new run is started only for a row whose last run ended.
LastEnded ==
  sched.at \in {"start", "record"} =>
    sched.row.run = 0 \/ (sched.row.run \in DOMAIN runs /\ runs[sched.row.run].at = "ended")

\* The run about to be recorded is the last one started.
LastStarted ==
  sched.at = "record" =>
    /\ Len(runs) > 0
    /\ runs[Len(runs)].kind = sched.kind
    /\ runs[Len(runs)].sprint = sched.row.sprint

\* A recorded run that is live is the one its sprint names.
LiveIsNamed ==
  \A r \in DOMAIN runs :
    runs[r].recorded /\ runs[r].at # "ended" => ref[runs[r].kind][runs[r].sprint] = r

LiveInv == CerTypes /\ RowsFresh /\ LastEnded /\ LastStarted /\ LiveIsNamed

-----------------------------------------------------------------------------
(* Nothing is fired unapproved.                                            *)

Before(n) == {m \in Sprints : m < n}
Awaited == {a.sprint : a \in sched.queue}

\* What is ready was built upon when it was listed, and still is.
ReadyStands ==
  /\ \A a \in sched.ready :
       /\ \A m \in Before(a.sprint) : work[m] = "done"
       /\ a.stamped => a.sprint \in stamps["planning"]
  /\ sched.kind = "planning" => sched.queue \subseteq sched.ready
  /\ sched.kind = "planning" /\ OnRow => sched.row \in sched.ready
  /\ sched.at = "fire" => sched.blind \/ sched.row.stamped \/ "planning" \notin Ceremony

\* A cycle that read everything and holds nothing has seen the sprints before
\* the ready ones through ceremony k, but for those still in its list.
SeenThrough(k, but) ==
  k \in Ceremony /\ ~sched.held /\ ~sched.blind =>
    \A a \in sched.ready : Before(a.sprint) \subseteq stamps[k] \cup late \cup but

GatesSeen ==
  /\ sched.kind = "review" /\ sched.at # "list_review" => SeenThrough("review", Awaited)
  /\ sched.kind # "review" => SeenThrough("review", {})
  /\ sched.kind = "retro" /\ sched.at # "list_retro" => SeenThrough("retro", Awaited)
  /\ sched.kind = "planning" => SeenThrough("retro", {}) /\ ~sched.held

GateInv == CerTypes /\ ReadyStands /\ GatesSeen

-----------------------------------------------------------------------------
(* The steps of runs and people, as far as the scheduler sees them.        *)

RunKept(q) ==
  /\ runs'[q].kind = runs[q].kind /\ runs'[q].sprint = runs[q].sprint
  /\ runs'[q].recorded = runs[q].recorded
  /\ runs[q].at = "ended" => runs'[q].at = "ended"

StoreGrows ==
  /\ work' \in [Sprints -> {"backlog", "running", "done"}]
  /\ \A n \in Sprints : work[n] = "done" => work'[n] = "done"
  /\ late \subseteq late' /\ late' \subseteq Sprints
  /\ stamps' \in [Kinds -> SUBSET Sprints]
  /\ \A k \in Kinds : stamps[k] \subseteq stamps'[k]

Quiet ==
  /\ UNCHANGED <<sched, ref>>
  /\ runs' \in Seq(RunType) /\ Len(runs') = Len(runs)
  /\ \A q \in 1..Len(runs) : RunKept(q)
  /\ StoreGrows

LEMMA QuietRuns ==
  ASSUME CerTypes, NEW r \in DOMAIN runs, NEW s \in RunType, runs' = [runs EXCEPT ![r] = s],
         s.kind = runs[r].kind, s.sprint = runs[r].sprint, s.recorded = runs[r].recorded,
         runs[r].at = "ended" => s.at = "ended"
  PROVE  /\ runs' \in Seq(RunType) /\ Len(runs') = Len(runs)
         /\ \A q \in 1..Len(runs) : RunKept(q)
<1>1. runs \in Seq(RunType) /\ r \in 1..Len(runs)
  BY DEF CerTypes
<1>2. runs' \in Seq(RunType) /\ Len(runs') = Len(runs)
  BY <1>1
<1>3. runs'[r] = s /\ \A q \in 1..Len(runs) : q # r => runs'[q] = runs[q]
  BY <1>1
<1> QED  BY <1>2, <1>3 DEF RunKept

LEMMA QuietSteps ==
  ASSUME CerTypes,
         \/ \E r \in DOMAIN runs : Progress(r) \/ Reject(r) \/ RunFails(r)
         \/ \E n \in Sprints : Built(n) \/ Requeued(n)
  PROVE  Quiet
<1>0. runs \in Seq(RunType)
  BY DEF CerTypes
<1>1. ASSUME NEW r \in DOMAIN runs, Progress(r) \/ Reject(r) \/ RunFails(r)
      PROVE  Quiet
  <2>1. runs[r] \in RunType
    BY <1>0
  <2>2. PICK s \in RunType :
          /\ runs' = [runs EXCEPT ![r] = s]
          /\ s.kind = runs[r].kind /\ s.sprint = runs[r].sprint
          /\ s.recorded = runs[r].recorded
          /\ runs[r].at = "ended" => s.at = "ended"
    <3>1. ASSUME NEW at \in {"working", "gate", "publish", "close", "ended"}, NEW doc \in BOOLEAN,
                 runs' = [runs EXCEPT ![r] = [runs[r] EXCEPT !.at = at, !.doc = doc]],
                 runs[r].at = "ended" => at = "ended"
          PROVE  \E s \in RunType :
                   /\ runs' = [runs EXCEPT ![r] = s]
                   /\ s.kind = runs[r].kind /\ s.sprint = runs[r].sprint
                   /\ s.recorded = runs[r].recorded
                   /\ runs[r].at = "ended" => s.at = "ended"
      <4>1. [runs[r] EXCEPT !.at = at, !.doc = doc] \in RunType
        BY <2>1 DEF RunType
      <4> QED  BY <2>1, <3>1, <4>1 DEF RunType
    <3>2. ASSUME NEW from \in {"working", "gate", "publish", "close"},
                 NEW to \in {"working", "gate", "publish", "close", "ended"}, Steps(r, from, to)
          PROVE  /\ runs' = [runs EXCEPT ![r] = [runs[r] EXCEPT !.at = to, !.doc = runs[r].doc]]
                 /\ runs[r].at # "ended"
      <4>1. [runs[r] EXCEPT !.at = to, !.doc = runs[r].doc] = [runs[r] EXCEPT !.at = to]
        BY <2>1 DEF RunType
      <4> QED  BY <1>0, <3>2, <4>1 DEF Steps
    <3>3. runs[r].doc \in BOOLEAN
      BY <2>1 DEF RunType
    <3>4. CASE ReachGate(r) \/ Approve(r) \/ PublishCorrections(r)
      <4>1. PICK from \in {"working", "gate", "publish", "close"},
                 to \in {"working", "gate", "publish", "close", "ended"} : Steps(r, from, to)
        BY <3>4 DEF ReachGate, Approve, PublishCorrections
      <4> QED  BY <3>1, <3>2, <3>3, <4>1
    <3>5. CASE Reject(r)
      <4>1. runs' = [runs EXCEPT ![r] = [runs[r] EXCEPT !.at = "working",
                                                       !.doc = (runs[r].kind = "review")]]
        BY <1>0, <3>5 DEF Reject
      <4>2. runs[r].at # "ended"
        BY <3>5 DEF Reject
      <4> QED  BY <3>1, <4>1, <4>2
    <3>6. CASE Close(r) \/ RunFails(r)
      <4>1. runs' = [runs EXCEPT ![r] = [runs[r] EXCEPT !.at = "ended", !.doc = FALSE]]
        BY <3>6 DEF Close, RunFails, Ended
      <4> QED  BY <3>1, <4>1
    <3> QED  BY <1>1, <3>4, <3>5, <3>6 DEF Progress
  <2>3. /\ runs' \in Seq(RunType) /\ Len(runs') = Len(runs)
        /\ \A q \in 1..Len(runs) : RunKept(q)
    BY <2>2, QuietRuns
  <2>4. UNCHANGED <<sched, ref, work>>
    BY <1>1 DEF Progress, ReachGate, Approve, PublishCorrections, Close,
        Reject, RunFails, Alone
  <2>5. late \subseteq late' /\ late' \subseteq Sprints
    BY <1>1 DEF Progress, ReachGate, Approve, PublishCorrections, Close,
        Reject, RunFails, Alone, CerTypes
  <2>6. stamps' \in [Kinds -> SUBSET Sprints] /\ \A k \in Kinds : stamps[k] \subseteq stamps'[k]
    <3>1. CASE UNCHANGED stamps
      BY <3>1 DEF CerTypes
    <3>2. CASE Close(r)
      <4>1. PICK k \in Kinds, n \in Sprints : k = runs[r].kind /\ n = runs[r].sprint
        BY <2>1 DEF RunType
      <4>2. stamps' = [stamps EXCEPT ![k] = @ \cup {n}]
        BY <3>2, <4>1 DEF Close
      <4> QED  BY <4>2 DEF CerTypes
    <3> QED
      BY <1>1, <3>1, <3>2 DEF Progress, ReachGate, Approve, PublishCorrections,
          Reject, RunFails, Alone
  <2> QED  BY <2>3, <2>4, <2>5, <2>6 DEF Quiet, StoreGrows, CerTypes
<1>2. ASSUME NEW n \in Sprints, Built(n) \/ Requeued(n)
      PROVE  Quiet
  <2>1. UNCHANGED <<sched, ref, runs, late, stamps>>
    BY <1>2 DEF Built, Requeued
  <2>2. /\ work' \in [Sprints -> {"backlog", "running", "done"}]
        /\ \A m \in Sprints : work[m] = "done" => work'[m] = "done"
    BY <1>2 DEF Built, Requeued, CerTypes
  <2> QED  BY <1>0, <2>1, <2>2 DEF Quiet, StoreGrows, RunKept, CerTypes
<1> QED  BY <1>1, <1>2

LEMMA LiveInvQuiet == ASSUME LiveInv, Quiet PROVE LiveInv'
<1> USE DEF LiveInv
<1>0. DOMAIN runs = 1..Len(runs) /\ DOMAIN runs' = 1..Len(runs)
  BY DEF CerTypes, Quiet
<1>1. CerTypes'
  BY DEF CerTypes, Quiet, StoreGrows, OnRow, Tending
<1>2. RowsFresh'
  BY DEF RowsFresh, Quiet, Tending
<1>3. LastEnded'
  BY <1>0 DEF LastEnded, Quiet, RunKept
<1>4. LastStarted'
  <2> SUFFICES ASSUME sched.at = "record"
               PROVE  /\ Len(runs') > 0
                      /\ runs'[Len(runs')].kind = sched.kind
                      /\ runs'[Len(runs')].sprint = sched.row.sprint
    BY DEF LastStarted, Quiet
  <2>1. Len(runs) \in 1..Len(runs)
    BY DEF CerTypes, LastStarted
  <2> QED  BY <2>1 DEF LastStarted, Quiet, RunKept
<1>5. LiveIsNamed'
  BY <1>0 DEF LiveIsNamed, Quiet, RunKept
<1> QED  BY <1>1, <1>2, <1>3, <1>4, <1>5

LEMMA GateInvQuiet == ASSUME GateInv, Quiet, CerTypes' PROVE GateInv'
<1> USE DEF GateInv
<1>1. ReadyStands'
  <2>1. ASSUME NEW a \in sched.ready
        PROVE  /\ \A m \in Before(a.sprint) : work'[m] = "done"
               /\ a.stamped => a.sprint \in stamps'["planning"]
    BY DEF ReadyStands, Before, Quiet, StoreGrows, Kinds
  <2> QED  BY <2>1 DEF ReadyStands, Quiet, Before, OnRow, Tending
<1>2. \A k \in {"review", "retro"}, but \in SUBSET Sprints :
        SeenThrough(k, but) => SeenThrough(k, but)'
  BY DEF SeenThrough, Quiet, StoreGrows, Before, Kinds
<1>3. Awaited \in SUBSET Sprints /\ Awaited' = Awaited
  BY DEF Awaited, CerTypes, SchedType, RowType, Quiet
<1>4. GatesSeen'
  BY <1>2, <1>3 DEF GatesSeen, Quiet
<1> QED  BY <1>1, <1>4

-----------------------------------------------------------------------------
(* The scheduler's own steps.                                              *)

\* Rows taken from the store at once are fresh, one for each sprint.
LEMMA RowsTypes ==
  ASSUME CerTypes, NEW k \in Kinds, NEW S \in SUBSET Sprints
  PROVE  /\ Rows(k, S) \in SUBSET RowType
         /\ \A a \in Rows(k, S) : a.run = ref[k][a.sprint] /\ a.sprint \in S
                                  /\ (a.stamped <=> a.sprint \in stamps[k])
         /\ \A a, b \in Rows(k, S) : a.sprint = b.sprint => a = b
         /\ \A n \in S : \E a \in Rows(k, S) : a.sprint = n
<1>1. \A n \in S : Row(k, n) \in RowType /\ Row(k, n).sprint = n
                   /\ Row(k, n).run = ref[k][n] /\ (Row(k, n).stamped <=> n \in stamps[k])
  <2> SUFFICES ASSUME NEW n \in S
               PROVE  Row(k, n) \in RowType /\ Row(k, n).sprint = n
                      /\ Row(k, n).run = ref[k][n] /\ (Row(k, n).stamped <=> n \in stamps[k])
    OBVIOUS
  <2>1. ref[k][n] \in Nat /\ n \in Sprints
    <3>1. Len(runs) \in Nat /\ ref[k][n] \in 0..Len(runs)
      BY DEF CerTypes
    <3> QED  BY <3>1
  <2>2. CASE n \in stamps[k]
    <3>1. (n \in stamps[k]) = TRUE
      BY <2>2
    <3>2. Row(k, n) = [sprint |-> n, run |-> ref[k][n], stamped |-> TRUE]
      BY <3>1 DEF Row
    <3> QED  BY <2>1, <2>2, <3>2 DEF RowType
  <2>3. CASE n \notin stamps[k]
    <3>1. (n \in stamps[k]) = FALSE
      BY <2>3
    <3>2. Row(k, n) = [sprint |-> n, run |-> ref[k][n], stamped |-> FALSE]
      BY <3>1 DEF Row
    <3> QED  BY <2>1, <2>3, <3>2 DEF RowType
  <2> QED  BY <2>2, <2>3
<1> QED  BY <1>1 DEF Rows

LEMMA StoredTypes ==
  ASSUME CerTypes, Stored, sched' \in SchedType,
         sched'.at = "list_review" => sched'.kind = "review",
         sched'.at = "list_retro" => sched'.kind = "retro",
         sched'.at = "idle" => sched' = Idle,
         sched'.at \in {"ensure", "start", "record", "fire"} => sched'.row \in RowType,
         sched'.at = "fire" => sched'.kind = "planning"
  PROVE  CerTypes'
BY DEF CerTypes, Stored, OnRow, Tending

LEMMA IdleTypes ==
  /\ Idle \in SchedType /\ Idle.at = "idle"
  /\ Idle.queue = {} /\ Idle.ready = {}
  /\ Idle.kind = "review" /\ ~Idle.held /\ ~Idle.blind
BY DEF Idle, SchedType, Kinds

\* The store is as it was, and so are the rows: only the pass through them moves.
LEMMA LiveInvStored ==
  ASSUME LiveInv, Stored, CerTypes', RowsFresh',
         sched'.at = "record" => FALSE,
         sched'.at = "start" =>
           sched'.row.run = 0
           \/ (sched'.row.run \in DOMAIN runs /\ runs[sched'.row.run].at = "ended")
  PROVE  LiveInv'
<1>1. LastEnded' /\ LastStarted'
  BY DEF Stored, LastEnded, LastStarted
<1>2. LiveIsNamed'
  BY DEF Stored, LiveInv, LiveIsNamed
<1> QED  BY <1>1, <1>2 DEF LiveInv

LEMMA TakesTypes ==
  ASSUME CerTypes, NEW row \in sched.queue
  PROVE  row \in RowType /\ Rest(row) \in SUBSET RowType /\ sched.queue \in SUBSET RowType
BY DEF CerTypes, SchedType, Rest

\* The pass over a list: from the list to its rows, one after the other.
LEMMA LiveInvSweep ==
  ASSUME LiveInv,
         \/ ListReady \/ ListAwaiting \/ ListAwaitingFails \/ SweepEnds
         \/ \E row \in sched.queue : Sweep(row) \/ FireOrPlan(row) \/ SettingsFail(row)
  PROVE  LiveInv'
<1> USE DEF LiveInv
<1>0. sched \in SchedType /\ ref \in [Kinds -> [Sprints -> 0..Len(runs)]]
  BY DEF CerTypes
<1>1. CASE ListReady
  <2>1. PICK R \in SUBSET RowType : R = Rows("planning", Ready)
    BY RowsTypes DEF Ready, Kinds
  <2>2. sched' = [Idle EXCEPT !.at = "list_review", !.ready = R] /\ Stored
    BY <1>1, <2>1 DEF ListReady
  <2>3. sched' \in SchedType /\ sched'.at = "list_review" /\ sched'.kind = "review"
        /\ sched'.queue = {} /\ sched'.ready = R
    BY <2>2 DEF Idle, SchedType, Kinds
  <2>4. CerTypes'
    BY <2>2, <2>3, StoredTypes
  <2>5. RowsFresh'
    <3>1. /\ \A a \in R : a.run = ref["planning"][a.sprint]
          /\ \A a, b \in R : a.sprint = b.sprint => a = b
      BY <2>1, RowsTypes DEF Ready, Kinds
    <3> QED  BY <2>2, <2>3, <3>1 DEF RowsFresh, Tending, Stored
  <2> QED  BY <2>2, <2>3, <2>4, <2>5, LiveInvStored
<1>2. CASE ListAwaiting
  <2>1. sched.kind \in {"review", "retro"} /\ sched.at \in {"list_review", "list_retro"}
    BY <1>2 DEF ListAwaiting, CerTypes
  <2>2. PICK S \in SUBSET Sprints : sched' = [sched EXCEPT !.at = "sweep",
                                                          !.queue = Rows(sched.kind, S)]
    BY <1>2 DEF ListAwaiting, DoneSprintsAwaitingReview,
        ReviewedSprintsAwaitingRetro, CerTypes, Kinds
  <2>3. PICK R \in SUBSET RowType : R = Rows(sched.kind, S)
    BY <2>1, RowsTypes DEF Kinds
  <2>4. Stored /\ sched' = [sched EXCEPT !.at = "sweep", !.queue = R]
    BY <1>2, <2>2, <2>3 DEF ListAwaiting
  <2>5. sched' \in SchedType /\ sched'.at = "sweep" /\ sched'.kind = sched.kind
        /\ sched'.queue = R /\ sched'.ready = sched.ready
    BY <1>0, <2>4 DEF SchedType
  <2>6. CerTypes'
    BY <2>4, <2>5, StoredTypes
  <2>7. RowsFresh'
    <3>1. /\ \A a \in R : a.run = ref[sched.kind][a.sprint]
          /\ \A a, b \in R : a.sprint = b.sprint => a = b
      BY <2>1, <2>3, RowsTypes DEF Kinds
    <3> QED  BY <2>1, <2>4, <2>5, <3>1 DEF RowsFresh, Tending, Stored
  <2> QED  BY <2>4, <2>5, <2>6, <2>7, LiveInvStored
<1>3. CASE ListAwaitingFails
  <2>1. Stored /\ sched' = [sched EXCEPT !.at = "sweep", !.queue = {}, !.blind = TRUE]
    BY <1>3 DEF ListAwaitingFails
  <2>2. sched' \in SchedType /\ sched'.at = "sweep" /\ sched'.kind = sched.kind
        /\ sched'.queue = {} /\ sched'.ready = sched.ready
    BY <1>0, <2>1 DEF SchedType
  <2>3. CerTypes'
    BY <2>1, <2>2, StoredTypes
  <2>4. RowsFresh'
    BY <2>1, <2>2 DEF RowsFresh, Tending, Stored
  <2> QED  BY <2>1, <2>2, <2>3, <2>4, LiveInvStored
<1>4. CASE SweepEnds
  <2>0. Stored /\ sched.at = "sweep" /\ sched.queue = {}
    BY <1>4 DEF SweepEnds
  <2>1. CASE sched.kind = "review"
    <3>1. sched' = [sched EXCEPT !.at = "list_retro", !.kind = "retro"]
      BY <1>4, <2>1 DEF SweepEnds
    <3>2. sched' \in SchedType /\ sched'.at = "list_retro" /\ sched'.kind = "retro"
          /\ sched'.queue = {} /\ sched'.ready = sched.ready
      BY <1>0, <2>0, <3>1 DEF SchedType, Kinds
    <3>3. CerTypes'
      BY <2>0, <3>2, StoredTypes
    <3>4. RowsFresh'
      BY <2>0, <2>1, <3>2 DEF RowsFresh, Tending, Stored
    <3> QED  BY <2>0, <3>2, <3>3, <3>4, LiveInvStored
  <2>2. CASE sched.kind = "retro" /\ ~sched.held
    <3>1. sched' = [sched EXCEPT !.kind = "planning", !.queue = sched.ready]
      BY <1>4, <2>2 DEF SweepEnds
    <3>2. sched' \in SchedType /\ sched'.at = "sweep" /\ sched'.kind = "planning"
          /\ sched'.queue = sched.ready /\ sched'.ready = sched.ready
      BY <1>0, <2>0, <3>1 DEF SchedType, Kinds
    <3>3. CerTypes'
      BY <2>0, <3>2, StoredTypes
    <3>4. RowsFresh'
      BY <2>0, <2>2, <3>2 DEF RowsFresh, Tending, Stored
    <3> QED  BY <2>0, <3>2, <3>3, <3>4, LiveInvStored
  <2>3. CASE ~(sched.kind = "review") /\ ~(sched.kind = "retro" /\ ~sched.held)
    <3>1. sched' = Idle
      BY <1>4, <2>3 DEF SweepEnds
    <3>2. CerTypes'
      BY <2>0, <3>1, IdleTypes, StoredTypes
    <3>3. RowsFresh'
      BY <3>1, IdleTypes DEF RowsFresh, Tending
    <3> QED  BY <2>0, <3>1, <3>2, <3>3, IdleTypes, LiveInvStored
  <2> QED  BY <2>1, <2>2, <2>3
<1>5. ASSUME NEW row \in sched.queue, Sweep(row) \/ FireOrPlan(row) \/ SettingsFail(row)
      PROVE  LiveInv'
  <2>0. Stored /\ row \in RowType /\ Rest(row) \in SUBSET RowType
        /\ Rest(row) = sched.queue \ {row} /\ sched.at = "sweep"
    BY <1>5, TakesTypes DEF Sweep, FireOrPlan, SettingsFail, Takes, Rest
  <2>1. PICK at \in {"sweep", "ensure", "fire"} :
          /\ sched'.at = at /\ sched' \in SchedType
          /\ at \in {"ensure", "fire"} => sched'.row = row
          /\ at = "fire" => sched.kind = "planning"
          /\ sched'.queue = Rest(row) /\ sched'.kind = sched.kind /\ sched'.ready = sched.ready
    <3>3. CASE Sweep(row)
      <4>1. CASE sched.kind \in Ceremony
        <5>1. sched' = [sched EXCEPT !.at = "ensure", !.row = row, !.queue = Rest(row),
                                     !.held = TRUE, !.cached = TRUE]
          BY <3>3, <4>1 DEF Sweep
        <5>2. /\ sched'.at = "ensure" /\ sched' \in SchedType /\ sched'.row = row
              /\ sched'.queue = Rest(row) /\ sched'.kind = sched.kind
              /\ sched'.ready = sched.ready
          BY <1>0, <2>0, <5>1 DEF SchedType
        <5> QED  BY <5>2
      <4>2. CASE sched.kind \notin Ceremony
        <5>1. sched' = [sched EXCEPT !.queue = Rest(row), !.cached = TRUE]
          BY <3>3, <4>2 DEF Sweep
        <5>2. /\ sched'.at = "sweep" /\ sched' \in SchedType
              /\ sched'.queue = Rest(row) /\ sched'.kind = sched.kind
              /\ sched'.ready = sched.ready
          BY <1>0, <2>0, <5>1 DEF SchedType
        <5> QED  BY <5>2
      <4> QED  BY <4>1, <4>2
    <3>4. CASE FireOrPlan(row)
      <4>1. PICK at \in {"ensure", "fire"} :
              sched' = [sched EXCEPT !.at = at, !.row = row, !.queue = Rest(row), !.cached = TRUE]
        BY <3>4 DEF FireOrPlan
      <4>2. sched.kind = "planning"
        BY <3>4 DEF FireOrPlan
      <4>3. /\ sched'.at = at /\ sched' \in SchedType /\ sched'.row = row
            /\ sched'.queue = Rest(row) /\ sched'.kind = sched.kind
            /\ sched'.ready = sched.ready
        BY <1>0, <2>0, <4>1 DEF SchedType
      <4> QED  BY <4>2, <4>3
    <3>5. CASE SettingsFail(row)
      <4>1. CASE sched.kind = "planning"
        <5>1. sched' = [sched EXCEPT !.at = "fire", !.row = row, !.queue = Rest(row),
                                     !.blind = TRUE]
          BY <3>5, <4>1 DEF SettingsFail
        <5>2. /\ sched'.at = "fire" /\ sched' \in SchedType /\ sched'.row = row
              /\ sched'.queue = Rest(row) /\ sched'.kind = sched.kind
              /\ sched'.ready = sched.ready
          BY <1>0, <2>0, <5>1 DEF SchedType
        <5> QED  BY <4>1, <5>2
      <4>2. CASE sched.kind # "planning"
        <5>1. sched' = [sched EXCEPT !.queue = Rest(row), !.blind = TRUE]
          BY <3>5, <4>2 DEF SettingsFail
        <5>2. /\ sched'.at = "sweep" /\ sched' \in SchedType
              /\ sched'.queue = Rest(row) /\ sched'.kind = sched.kind
              /\ sched'.ready = sched.ready
          BY <1>0, <2>0, <5>1 DEF SchedType
        <5> QED  BY <5>2
      <4> QED  BY <4>1, <4>2
    <3> QED  BY <1>5, <3>3, <3>4, <3>5
  <2>2. CerTypes'
    BY <2>0, <2>1, StoredTypes
  <2>3. RowsFresh'
    BY <2>0, <2>1 DEF RowsFresh, Tending, Stored
  <2> QED  BY <2>0, <2>1, <2>2, <2>3, LiveInvStored
<1> QED  BY <1>1, <1>2, <1>3, <1>4, <1>5

\* On to the next row, the store as it was.
LEMMA PassOverTypes ==
  ASSUME CerTypes, PassOver
  PROVE  /\ sched' \in SchedType /\ sched'.at = "sweep" /\ sched'.kind = sched.kind
         /\ sched'.queue = sched.queue /\ sched'.ready = sched.ready
         /\ sched'.held = sched.held /\ sched'.blind = sched.blind
<1>1. sched \in SchedType
  BY DEF CerTypes
<1> QED  BY <1>1 DEF PassOver, SchedType

LEMMA GoesTypes ==
  ASSUME CerTypes, NEW at \in {"start", "record"}, CycleGoes(at)
  PROVE  /\ sched' \in SchedType /\ sched'.at = at /\ sched'.kind = sched.kind
         /\ sched'.queue = sched.queue /\ sched'.ready = sched.ready
         /\ sched'.held = sched.held /\ sched'.blind = sched.blind /\ sched'.row = sched.row
<1>1. sched \in SchedType
  BY DEF CerTypes
<1> QED  BY <1>1 DEF CycleGoes, SchedType

LEMMA PassOverFresh ==
  ASSUME RowsFresh, sched'.at = "sweep", sched'.kind = sched.kind,
         sched'.queue = sched.queue, sched'.ready = sched.ready, UNCHANGED ref
  PROVE  RowsFresh'
BY DEF RowsFresh, Tending

\* The run started last, on top of those there were.
LEMMA StartTypes ==
  ASSUME CerTypes, Tending, runs' = Append(runs, Run(sched.kind, sched.row.sprint))
  PROVE  /\ runs' \in Seq(RunType) /\ Len(runs') = Len(runs) + 1 /\ Len(runs) \in Nat
         /\ \A q \in 1..Len(runs) : runs'[q] = runs[q]
         /\ runs'[Len(runs')] = Run(sched.kind, sched.row.sprint)
         /\ ref \in [Kinds -> [Sprints -> 0..Len(runs')]]
<1>1. sched.kind \in Kinds /\ sched.row.sprint \in Sprints
  BY DEF CerTypes, OnRow, SchedType, RowType
<1>2. Run(sched.kind, sched.row.sprint) \in RunType
  BY <1>1 DEF Run, RunType
<1>3. runs \in Seq(RunType) /\ Len(runs) \in Nat
  BY DEF CerTypes
<1>4. /\ runs' \in Seq(RunType) /\ Len(runs') = Len(runs) + 1
      /\ \A q \in 1..Len(runs) : runs'[q] = runs[q]
      /\ runs'[Len(runs')] = Run(sched.kind, sched.row.sprint)
  BY <1>2, <1>3
<1>5. \A x \in 0..Len(runs) : x \in 0..Len(runs')
  BY <1>3, <1>4
<1>6. ref \in [Kinds -> [Sprints -> 0..Len(runs')]]
  BY <1>5 DEF CerTypes
<1> QED  BY <1>3, <1>4, <1>6

LEMMA LiveInvStarts ==
  ASSUME LiveInv, Start \/ StartUnheard
  PROVE  LiveInv'
<1> USE DEF LiveInv
<1>0. sched.at = "start" /\ Tending /\ UNCHANGED <<work, late, stamps, ref>>
      /\ runs' = Append(runs, Run(sched.kind, sched.row.sprint))
  BY DEF Start, StartUnheard, MayStart, Tending
<1>1. /\ runs' \in Seq(RunType) /\ Len(runs') = Len(runs) + 1 /\ Len(runs) \in Nat
      /\ \A q \in 1..Len(runs) : runs'[q] = runs[q]
      /\ runs'[Len(runs')] = Run(sched.kind, sched.row.sprint)
      /\ ref \in [Kinds -> [Sprints -> 0..Len(runs')]]
  BY <1>0, StartTypes
<1>2. /\ sched' \in SchedType /\ sched'.at \in {"sweep", "record"}
      /\ sched'.kind = sched.kind /\ sched'.queue = sched.queue /\ sched'.ready = sched.ready
      /\ sched'.at = "record" => sched'.row = sched.row
  BY GoesTypes, PassOverTypes DEF Start, StartUnheard
<1>3. CerTypes'
  BY <1>0, <1>1, <1>2 DEF CerTypes, OnRow, Tending
<1>4. RowsFresh'
  BY <1>0, <1>2 DEF RowsFresh, Tending
<1>5. DOMAIN runs = 1..Len(runs) /\ DOMAIN runs' = 1..Len(runs')
  BY <1>1 DEF CerTypes
<1>6. \A q \in DOMAIN runs : q \in DOMAIN runs' /\ runs'[q] = runs[q]
  BY <1>1, <1>5
<1>7. LastEnded'
  BY <1>0, <1>2, <1>6 DEF LastEnded
<1>8. LastStarted'
  BY <1>1, <1>2 DEF LastStarted, Run
<1>9. LiveIsNamed'
  <2> SUFFICES ASSUME NEW r \in DOMAIN runs', runs'[r].recorded
               PROVE  runs'[r].at # "ended" => ref[runs'[r].kind][runs'[r].sprint] = r
    BY <1>0 DEF LiveIsNamed
  <2>1. r # Len(runs')
    BY <1>1 DEF Run
  <2>2. r \in DOMAIN runs
    BY <1>1, <1>5, <2>1
  <2> QED  BY <1>6, <2>2 DEF LiveIsNamed
<1> QED  BY <1>3, <1>4, <1>7, <1>8, <1>9

LEMMA LiveInvRecord == ASSUME LiveInv, Record PROVE LiveInv'
<1> USE DEF LiveInv
<1> DEFINE l == Len(runs)
<1>0. sched.at = "record" /\ Tending /\ UNCHANGED <<work, late, stamps>> /\ PassOver
  BY DEF Record, Tending
<1>1. PICK k \in Kinds, n \in Sprints : k = sched.kind /\ n = sched.row.sprint
  BY <1>0 DEF CerTypes, OnRow, SchedType, RowType
<1>2. ref' = [ref EXCEPT ![k][n] = l] /\ runs' = [runs EXCEPT ![l].recorded = TRUE]
  BY <1>1 DEF Record
<1>3. runs \in Seq(RunType) /\ l \in 1..Len(runs) /\ DOMAIN runs = 1..Len(runs)
      /\ runs[l].kind = k /\ runs[l].sprint = n
  BY <1>0, <1>1 DEF CerTypes, LastStarted
<1>4. runs[l] \in RunType
  BY <1>3
<1>5. PICK s \in RunType : s = [runs[l] EXCEPT !.recorded = TRUE]
  BY <1>4 DEF RunType
<1>6. s.kind = k /\ s.sprint = n /\ s.at = runs[l].at
  BY <1>3, <1>4, <1>5 DEF RunType
<1>7. /\ runs' \in Seq(RunType) /\ Len(runs') = l /\ DOMAIN runs' = 1..l
      /\ runs'[l] = s /\ \A q \in 1..l : q # l => runs'[q] = runs[q]
  <2>1. runs' = [runs EXCEPT ![l] = s]
    BY <1>2, <1>5
  <2>2. PICK i \in 1..Len(runs) : i = l
    BY <1>3
  <2>3. runs' = [runs EXCEPT ![i] = s]
    BY <2>1, <2>2
  <2>4. runs' \in Seq(RunType) /\ Len(runs') = Len(runs)
    BY <1>3, <2>3
  <2>5. DOMAIN runs' = 1..Len(runs')
    BY <2>4
  <2>6. runs'[i] = s /\ \A q \in 1..Len(runs) : q # i => runs'[q] = runs[q]
    BY <1>3, <2>3
  <2> QED  BY <2>2, <2>4, <2>5, <2>6
<1>8. /\ ref' \in [Kinds -> [Sprints -> 0..Len(runs')]]
      /\ ref'[k][n] = l
      /\ \A j \in Kinds, m \in Sprints : (j # k \/ m # n) => ref'[j][m] = ref[j][m]
  <2>1. l \in 0..l
    BY <1>3
  <2> QED  BY <1>2, <1>7, <2>1 DEF CerTypes
<1>9. /\ sched' \in SchedType /\ sched'.at = "sweep" /\ sched'.kind = k
      /\ sched'.queue = sched.queue /\ sched'.ready = sched.ready
  BY <1>0, <1>1, PassOverTypes
<1>10. CerTypes'
  BY <1>0, <1>7, <1>8, <1>9 DEF CerTypes, OnRow, Tending
<1>11. RowsFresh'
  <2>1. \A a \in sched.queue \cup sched.ready : a.sprint \in Sprints
    BY DEF CerTypes, SchedType, RowType
  <2>2. \A a \in sched.queue : a.sprint # n /\ a.run = ref[k][a.sprint]
    BY <1>0, <1>1 DEF RowsFresh
  <2>3. \A a \in sched.queue : a.run = ref'[k][a.sprint]
    BY <1>1, <1>8, <2>1, <2>2
  <2>4. k # "planning" => \A a \in sched.ready : a.run = ref'["planning"][a.sprint]
    BY <1>1, <1>8, <2>1 DEF RowsFresh, Kinds
  <2> QED  BY <1>9, <2>3, <2>4 DEF RowsFresh, Tending
<1>12. LastEnded' /\ LastStarted'
  BY <1>9 DEF LastEnded, LastStarted
<1>13. LiveIsNamed'
  <2> SUFFICES ASSUME NEW r \in DOMAIN runs', runs'[r].recorded, runs'[r].at # "ended"
               PROVE  ref'[runs'[r].kind][runs'[r].sprint] = r
    BY DEF LiveIsNamed
  <2>1. CASE r = l
    BY <1>6, <1>7, <1>8, <2>1
  <2>2. CASE r # l
    <3>1. r \in DOMAIN runs /\ runs'[r] = runs[r]
      BY <1>3, <1>7, <2>2
    <3>2. ref[runs[r].kind][runs[r].sprint] = r
      BY <3>1 DEF LiveIsNamed
    <3>3. runs[r] \in RunType
      BY <1>3, <3>1
    <3>4. PICK j \in Kinds, m \in Sprints : j = runs[r].kind /\ m = runs[r].sprint
      BY <3>3 DEF RunType
    <3>5. ~(j = k /\ m = n)
      <4> SUFFICES ASSUME j = k, m = n PROVE FALSE
        OBVIOUS
      <4>1. sched.row.run = r
        BY <1>0, <1>1, <3>2, <3>4 DEF RowsFresh
      <4>2. r # 0
        BY <1>3, <3>1
      <4>3. runs[r].at = "ended"
        BY <1>0, <4>1, <4>2 DEF LastEnded
      <4> QED  BY <3>1, <4>3
    <3> QED  BY <1>8, <3>1, <3>2, <3>4, <3>5
  <2> QED  BY <2>1, <2>2
<1> QED  BY <1>10, <1>11, <1>12, <1>13

LEMMA LiveInvRest ==
  ASSUME LiveInv, fireSprint \/ Ensure \/ NotNow \/ RecordFails \/ Crash
  PROVE  LiveInv'
<1> USE DEF LiveInv
<1>1. CASE fireSprint
  <2>1. PassOver /\ UNCHANGED <<late, stamps, ref, runs>>
    BY <1>1 DEF fireSprint
  <2>2. work' \in [Sprints -> {"backlog", "running", "done"}]
    BY <1>1 DEF fireSprint, CerTypes
  <2>3. CerTypes' /\ RowsFresh'
    BY <2>1, <2>2, PassOverTypes, PassOverFresh DEF CerTypes, OnRow, Tending
  <2>4. LastEnded' /\ LastStarted' /\ LiveIsNamed'
    BY <2>1, PassOverTypes DEF LastEnded, LastStarted, LiveIsNamed
  <2> QED  BY <2>3, <2>4
<1>2. CASE PassOver /\ Stored
  <2>1. CerTypes'
    BY <1>2, PassOverTypes, StoredTypes
  <2>2. RowsFresh'
    BY <1>2, PassOverTypes, PassOverFresh DEF Stored
  <2> QED  BY <1>2, <2>1, <2>2, PassOverTypes, LiveInvStored
<1>3. CASE Ensure
  <2>1. Stored /\ sched.at = "ensure" /\ Tending
    BY <1>3 DEF Ensure, Tending
  <2>2. CASE CycleGoes("start") /\ ~(sched.row.run # 0 /\ ~isTerminalStatus(sched.row.run))
    <3>1. /\ sched' \in SchedType /\ sched'.at = "start" /\ sched'.kind = sched.kind
          /\ sched'.queue = sched.queue /\ sched'.ready = sched.ready /\ sched'.row = sched.row
      BY <2>2, GoesTypes
    <3>2. sched.row \in RowType
      BY <2>1 DEF CerTypes, OnRow
    <3>3. CerTypes'
      BY <2>1, <3>1, <3>2, StoredTypes
    <3>4. RowsFresh'
      BY <2>1, <3>1 DEF RowsFresh, Tending, Stored
    <3>5. sched.row.run = 0 \/ (sched.row.run \in DOMAIN runs /\ runs[sched.row.run].at = "ended")
      <4>1. PICK k \in Kinds, n \in Sprints : k = sched.kind /\ n = sched.row.sprint
        BY <2>1, <3>2 DEF CerTypes, SchedType, RowType
      <4>2. sched.row.run = ref[k][n] /\ ref[k][n] \in 0..Len(runs)
        BY <2>1, <4>1 DEF RowsFresh, CerTypes
      <4>3. Len(runs) \in Nat /\ DOMAIN runs = 1..Len(runs)
        BY DEF CerTypes
      <4> QED  BY <2>2, <4>2, <4>3 DEF isTerminalStatus
    <3> QED  BY <2>1, <3>1, <3>3, <3>4, <3>5, LiveInvStored
  <2> QED  BY <1>2, <1>3, <2>1, <2>2 DEF Ensure
<1>4. CASE Crash
  <2>1. Stored /\ sched' = Idle
    BY <1>4 DEF Crash
  <2>2. CerTypes'
    BY <2>1, IdleTypes, StoredTypes
  <2>3. RowsFresh'
    BY <2>1, IdleTypes DEF RowsFresh, Tending
  <2> QED  BY <2>1, <2>2, <2>3, IdleTypes, LiveInvStored
<1> QED  BY <1>1, <1>2, <1>3, <1>4 DEF NotNow, RecordFails

LEMMA LiveInvInit == CeremonyInit => LiveInv
<1> SUFFICES ASSUME CeremonyInit PROVE LiveInv
  OBVIOUS
<1>1. runs \in Seq(RunType) /\ Len(runs) = 0 /\ DOMAIN runs = {}
  BY DEF CeremonyInit
<1>2. ref \in [Kinds -> [Sprints -> 0..Len(runs)]]
  BY <1>1 DEF CeremonyInit
<1>3. CerTypes
  BY <1>1, <1>2, IdleTypes DEF CeremonyInit, CerTypes, OnRow, Tending
<1>4. RowsFresh /\ LastEnded /\ LastStarted
  BY IdleTypes DEF CeremonyInit, RowsFresh, LastEnded, LastStarted, Tending
<1> QED  BY <1>1, <1>3, <1>4 DEF LiveInv, LiveIsNamed

LEMMA LiveInvNext == ASSUME LiveInv, [CeremonyNext]_ceremonyVars PROVE LiveInv'
<1>1. CASE UNCHANGED ceremonyVars
  BY <1>1 DEF ceremonyVars, LiveInv, CerTypes, RowsFresh, LastEnded, LastStarted, LiveIsNamed,
      OnRow, Tending
<1>2. CASE CeremonyNext
  BY <1>2, LiveInvSweep, LiveInvStarts, LiveInvRecord, LiveInvRest, LiveInvQuiet, QuietSteps DEF
      CeremonyNext, Cycle, Faulty, LiveInv
<1> QED  BY <1>1, <1>2

(* Of the recorded runs of one sprint's ceremony at most one is live, through *)
(* lost answers, records that fail, crashes and runs that end in any order.   *)
THEOREM OneCeremonyLives == CeremonySpec => []OneLiveCeremony
<1>1. LiveInv => OneLiveCeremony
  BY DEF LiveInv, LiveIsNamed, OneLiveCeremony, isTerminalStatus
<1> QED  BY <1>1, LiveInvInit, LiveInvNext, PTL DEF CeremonySpec

-----------------------------------------------------------------------------
(* What a cycle saw before it fires.                                       *)

LEMMA AwaitedTypes == ASSUME CerTypes PROVE Awaited \subseteq Sprints
BY DEF Awaited, CerTypes, SchedType, RowType

\* The rows of a list that has just been read.
LEMMA AwaitedRows ==
  ASSUME CerTypes, NEW k \in Kinds, NEW S \in SUBSET Sprints, sched'.queue = Rows(k, S)
  PROVE  Awaited' = S
BY RowsTypes DEF Awaited

\* The ready list stands, and the pass over it goes on.
LEMMA ReadyStandsOn ==
  ASSUME CerTypes, ReadyStands,
         sched'.ready = sched.ready \/ sched'.ready = {},
         \A n \in Sprints : work[n] = "done" => work'[n] = "done",
         stamps'["planning"] = stamps["planning"],
         sched'.kind = "planning" =>
           /\ sched'.ready = sched.ready
           /\ sched'.queue \subseteq sched.ready
           /\ sched'.at \in {"ensure", "start", "record", "fire"} => sched'.row \in sched.ready,
         sched'.at = "fire" => sched'.blind \/ sched'.row.stamped \/ "planning" \notin Ceremony
  PROVE  ReadyStands'
<1>1. ASSUME NEW a \in sched'.ready
      PROVE  /\ \A m \in Before(a.sprint) : work'[m] = "done"
             /\ a.stamped => a.sprint \in stamps'["planning"]
  BY DEF ReadyStands, Before
<1> QED  BY <1>1 DEF ReadyStands, Before, OnRow, Tending

LEMMA GateInvSweep ==
  ASSUME Settings, GateInv, CerTypes',
         \/ ListReady \/ ListAwaiting \/ ListAwaitingFails \/ SweepEnds
         \/ \E row \in sched.queue : Sweep(row) \/ FireOrPlan(row) \/ SettingsFail(row)
  PROVE  GateInv'
<1> USE DEF GateInv
<1>0. sched \in SchedType /\ stamps \in [Kinds -> SUBSET Sprints]
  BY DEF CerTypes
<1>1. CASE ListReady
  <2>1. PICK R \in SUBSET RowType : R = Rows("planning", Ready)
    BY RowsTypes DEF Ready, Kinds
  <2>2. sched' = [Idle EXCEPT !.at = "list_review", !.ready = R] /\ Stored
    BY <1>1, <2>1 DEF ListReady
  <2>3. sched'.at = "list_review" /\ sched'.kind = "review" /\ sched'.ready = R
    BY <2>2 DEF Idle
  <2>4. \A a \in R : a.sprint \in Ready /\ (a.stamped => a.sprint \in stamps["planning"])
    BY <2>1, RowsTypes DEF Ready, Kinds
  <2>5. ReadyStands'
    BY <2>2, <2>3, <2>4 DEF ReadyStands, Stored, Before, Ready, OnRow, Tending
  <2> QED  BY <2>3, <2>5 DEF GatesSeen
<1>2. CASE ListAwaiting
  <2>1. sched.kind \in {"review", "retro"} /\ Stored
        /\ sched.at = IF sched.kind = "review" THEN "list_review" ELSE "list_retro"
    BY <1>2 DEF ListAwaiting, CerTypes
  <2>2. PICK S \in SUBSET Sprints :
          /\ S = IF sched.kind = "review" THEN DoneSprintsAwaitingReview
                                          ELSE ReviewedSprintsAwaitingRetro
          /\ sched' = [sched EXCEPT !.at = "sweep", !.queue = Rows(sched.kind, S)]
    BY <1>2 DEF ListAwaiting, DoneSprintsAwaitingReview,
        ReviewedSprintsAwaitingRetro, CerTypes, Kinds
  <2>3. sched'.at = "sweep" /\ sched'.kind = sched.kind /\ sched'.ready = sched.ready
        /\ sched'.held = sched.held /\ sched'.blind = sched.blind
        /\ sched'.queue = Rows(sched.kind, S)
    BY <1>0, <2>2 DEF SchedType
  <2>4. Awaited' = S
    BY <2>1, <2>3, AwaitedRows DEF Kinds
  <2>5. ReadyStands'
    BY <2>1, <2>3, ReadyStandsOn DEF Stored
  <2>6. CASE sched.kind = "review"
    <3>1. ASSUME NEW a \in sched.ready
          PROVE  Before(a.sprint) \subseteq stamps["review"] \cup late \cup S
      BY <2>2, <2>6 DEF ReadyStands, Before, DoneSprintsAwaitingReview
    <3> QED  BY <2>1, <2>3, <2>4, <2>5, <2>6, <3>1 DEF GatesSeen, SeenThrough, Stored
  <2>7. CASE sched.kind = "retro"
    <3>1. ASSUME NEW a \in sched.ready, "review" \in Ceremony, ~sched.held, ~sched.blind
          PROVE  Before(a.sprint) \subseteq stamps["retro"] \cup late \cup S
      <4>1. Before(a.sprint) \subseteq stamps["review"] \cup late
        BY <2>7, <3>1 DEF GatesSeen, SeenThrough
      <4> QED  BY <2>2, <2>7, <4>1 DEF ReviewedSprintsAwaitingRetro
    <3>2. SeenThrough("review", {})'
      BY <2>1, <2>3, <2>7 DEF GatesSeen, SeenThrough, Stored
    <3>3. SeenThrough("retro", Awaited)'
      BY <2>1, <2>3, <2>4, <3>1 DEF SeenThrough, Stored, Settings
    <3> QED  BY <2>3, <2>5, <2>7, <3>2, <3>3 DEF GatesSeen
  <2> QED  BY <2>1, <2>6, <2>7
<1>3. CASE ListAwaitingFails
  <2>1. Stored /\ sched' = [sched EXCEPT !.at = "sweep", !.queue = {}, !.blind = TRUE]
        /\ sched.kind \in {"review", "retro"}
    BY <1>3 DEF ListAwaitingFails, CerTypes
  <2>2. sched'.at = "sweep" /\ sched'.kind = sched.kind /\ sched'.blind
        /\ sched'.ready = sched.ready
    BY <1>0, <2>1 DEF SchedType
  <2>3. ReadyStands'
    BY <2>1, <2>2, ReadyStandsOn DEF Stored
  <2> QED  BY <2>1, <2>2, <2>3 DEF GatesSeen, SeenThrough
<1>4. CASE SweepEnds
  <2>0. Stored /\ sched.at = "sweep" /\ sched.queue = {} /\ Awaited = {}
    BY <1>4 DEF SweepEnds, Awaited
  <2>1. CASE sched.kind = "review"
    <3>1. sched' = [sched EXCEPT !.at = "list_retro", !.kind = "retro"]
      BY <1>4, <2>1 DEF SweepEnds
    <3>2. sched'.at = "list_retro" /\ sched'.kind = "retro" /\ sched'.ready = sched.ready
          /\ sched'.held = sched.held /\ sched'.blind = sched.blind
      BY <1>0, <3>1 DEF SchedType
    <3>3. ReadyStands'
      BY <2>0, <3>2, ReadyStandsOn DEF Stored
    <3>4. SeenThrough("review", {})'
      BY <2>0, <2>1, <3>2 DEF GatesSeen, SeenThrough, Stored
    <3> QED  BY <3>2, <3>3, <3>4 DEF GatesSeen
  <2>2. CASE sched.kind = "retro" /\ ~sched.held
    <3>1. sched' = [sched EXCEPT !.kind = "planning", !.queue = sched.ready]
      BY <1>4, <2>2 DEF SweepEnds
    <3>2. sched'.at = "sweep" /\ sched'.kind = "planning" /\ sched'.ready = sched.ready
          /\ sched'.held = sched.held /\ sched'.blind = sched.blind
          /\ sched'.queue = sched.ready
      BY <1>0, <2>0, <3>1 DEF SchedType
    <3>3. ReadyStands'
      BY <2>0, <3>2, ReadyStandsOn DEF Stored
    <3>4. SeenThrough("review", {})' /\ SeenThrough("retro", {})'
      BY <2>0, <2>2, <3>2 DEF GatesSeen, SeenThrough, Stored
    <3> QED  BY <2>2, <3>2, <3>3, <3>4 DEF GatesSeen
  <2>3. CASE ~(sched.kind = "review") /\ ~(sched.kind = "retro" /\ ~sched.held)
    <3>1. sched' = Idle
      BY <1>4, <2>3 DEF SweepEnds
    <3> QED
      BY <3>1, IdleTypes DEF ReadyStands, GatesSeen, SeenThrough, OnRow, Tending
  <2> QED  BY <2>1, <2>2, <2>3
<1>5. ASSUME NEW row \in sched.queue, Sweep(row), sched.kind \in Ceremony
      PROVE  GateInv'
  <2>1. sched' = [sched EXCEPT !.at = "ensure", !.row = row, !.queue = Rest(row),
                              !.held = TRUE, !.cached = TRUE]
        /\ Stored /\ sched.kind \in {"review", "retro"}
    BY <1>0, <1>5 DEF Sweep, SchedType, Kinds
  <2>2. sched'.at = "ensure" /\ sched'.kind = sched.kind /\ sched'.held
        /\ sched'.ready = sched.ready
    BY <1>0, <2>1 DEF SchedType
  <2>3. ReadyStands'
    BY <2>1, <2>2, ReadyStandsOn DEF Stored
  <2> QED  BY <2>1, <2>2, <2>3 DEF GatesSeen, SeenThrough
<1>6. ASSUME NEW row \in sched.queue, Sweep(row), sched.kind \notin Ceremony
      PROVE  GateInv'
  <2>1. sched' = [sched EXCEPT !.queue = Rest(row), !.cached = TRUE]
        /\ Stored /\ sched.kind \in {"review", "retro"} /\ sched.at = "sweep"
    BY <1>0, <1>6 DEF Sweep, Takes, SchedType, Kinds
  <2>2. sched'.at = "sweep" /\ sched'.kind = sched.kind /\ sched'.ready = sched.ready
        /\ sched'.held = sched.held /\ sched'.blind = sched.blind
    BY <1>0, <2>1 DEF SchedType
  <2>3. ReadyStands'
    BY <2>1, <2>2, ReadyStandsOn DEF Stored
  <2> QED  BY <1>6, <2>1, <2>2, <2>3 DEF GatesSeen, SeenThrough, Stored
<1>7. ASSUME NEW row \in sched.queue, FireOrPlan(row)
      PROVE  GateInv'
  <2>1. PICK at \in {"ensure", "fire"} :
          /\ sched' = [sched EXCEPT !.at = at, !.row = row, !.queue = Rest(row), !.cached = TRUE]
          /\ at = "fire" => row.stamped \/ "planning" \notin Ceremony
    BY <1>7 DEF FireOrPlan
  <2>2. Stored /\ sched.kind = "planning" /\ row \in sched.ready /\ Rest(row) \subseteq sched.ready
    BY <1>7 DEF FireOrPlan, ReadyStands, Rest
  <2>3. sched'.at = at /\ sched'.kind = sched.kind /\ sched'.ready = sched.ready
        /\ sched'.held = sched.held /\ sched'.blind = sched.blind
        /\ sched'.row = row /\ sched'.queue = Rest(row)
    BY <1>0, <2>1 DEF SchedType
  <2>4. ReadyStands'
    BY <2>1, <2>2, <2>3, ReadyStandsOn DEF Stored
  <2> QED  BY <2>2, <2>3, <2>4 DEF GatesSeen, SeenThrough, Stored
<1>8. ASSUME NEW row \in sched.queue, SettingsFail(row)
      PROVE  GateInv'
  <2>0. Stored /\ sched.at = "sweep"
    BY <1>8 DEF SettingsFail, Takes
  <2>1. CASE sched.kind = "planning"
    <3>1. sched' = [sched EXCEPT !.at = "fire", !.row = row, !.queue = Rest(row), !.blind = TRUE]
      BY <1>8, <2>1 DEF SettingsFail
    <3>2. row \in sched.ready /\ Rest(row) \subseteq sched.ready
      BY <2>1 DEF ReadyStands, Rest
    <3>3. sched'.at = "fire" /\ sched'.kind = sched.kind /\ sched'.ready = sched.ready
          /\ sched'.held = sched.held /\ sched'.blind
          /\ sched'.row = row /\ sched'.queue = Rest(row)
      BY <1>0, <3>1 DEF SchedType
    <3>4. ReadyStands'
      BY <2>0, <3>2, <3>3, ReadyStandsOn DEF Stored
    <3> QED  BY <2>1, <3>3, <3>4 DEF GatesSeen, SeenThrough
  <2>2. CASE sched.kind # "planning"
    <3>1. sched' = [sched EXCEPT !.queue = Rest(row), !.blind = TRUE]
      BY <1>8, <2>2 DEF SettingsFail
    <3>2. sched'.at = "sweep" /\ sched'.kind = sched.kind /\ sched'.ready = sched.ready
          /\ sched'.blind
      BY <1>0, <2>0, <3>1 DEF SchedType
    <3>3. ReadyStands'
      BY <2>0, <2>2, <3>2, ReadyStandsOn DEF Stored
    <3> QED  BY <2>2, <3>2, <3>3 DEF GatesSeen, SeenThrough
  <2> QED  BY <2>1, <2>2
<1> QED  BY <1>1, <1>2, <1>3, <1>4, <1>5, <1>6, <1>7, <1>8

\* The rest of a pass keeps the lists and only grows what was seen.
LEMMA GateInvRest ==
  ASSUME GateInv, CerTypes', CerTypes,
         \/ fireSprint \/ Ensure \/ NotNow \/ Start \/ StartUnheard
         \/ Record \/ RecordFails \/ Crash
  PROVE  GateInv'
<1> USE DEF GateInv
<1>1. CASE Crash
  BY <1>1, IdleTypes DEF Crash, ReadyStands, GatesSeen, SeenThrough, OnRow, Tending
<1>2. CASE \/ fireSprint \/ Ensure \/ NotNow
           \/ Start \/ StartUnheard \/ Record \/ RecordFails
  <2>1. UNCHANGED <<late, stamps>> /\ \A n \in Sprints : work[n] = "done" => work'[n] = "done"
    BY <1>2 DEF fireSprint, Ensure, NotNow, Start, StartUnheard, Record,
        RecordFails, Stored, CerTypes
  <2>2. sched.at \in {"ensure", "start", "record", "fire"}
    BY <1>2 DEF fireSprint, Ensure, NotNow, Start, MayStart,
        StartUnheard, Record, RecordFails
  <2>3. /\ sched'.at \in {"sweep", "start", "record"}
        /\ sched'.kind = sched.kind /\ sched'.queue = sched.queue /\ sched'.ready = sched.ready
        /\ sched'.held = sched.held /\ sched'.blind = sched.blind
        /\ sched'.at # "sweep" => sched'.row = sched.row
    <3>1. PassOver \/ CycleGoes("start") \/ CycleGoes("record")
      BY <1>2 DEF fireSprint, Ensure, NotNow, Start, StartUnheard,
          Record, RecordFails
    <3> QED  BY <3>1, PassOverTypes, GoesTypes
  <2>4. ReadyStands'
    <3>1. sched.kind = "planning" => sched.row \in sched.ready /\ sched.queue \subseteq sched.ready
      BY <2>2 DEF ReadyStands, OnRow, Tending
    <3> QED  BY <2>1, <2>3, <3>1, ReadyStandsOn
  <2>5. Awaited' = Awaited
    BY <2>3 DEF Awaited
  <2> QED  BY <2>1, <2>2, <2>3, <2>4, <2>5 DEF GatesSeen, SeenThrough
<1> QED  BY <1>1, <1>2

LEMMA GateInvNext ==
  ASSUME Settings, GateInv, CerTypes', [CeremonyNext]_ceremonyVars
  PROVE  GateInv'
<1>1. CASE UNCHANGED ceremonyVars
  BY <1>1 DEF ceremonyVars, GateInv, CerTypes, ReadyStands, GatesSeen, SeenThrough, Awaited, Before,
      OnRow, Tending
<1>2. CASE CeremonyNext
  BY <1>2, GateInvSweep, GateInvRest, GateInvQuiet, QuietSteps DEF CeremonyNext, Cycle,
      Faulty, GateInv
<1> QED  BY <1>1, <1>2

LEMMA GateInvInit == CeremonyInit => GateInv
<1> SUFFICES ASSUME CeremonyInit PROVE GateInv
  OBVIOUS
<1>1. CerTypes
  BY LiveInvInit DEF LiveInv
<1> QED
  BY <1>1, IdleTypes DEF CeremonyInit, GateInv, ReadyStands, GatesSeen, SeenThrough, OnRow, Tending

LEMMA FiresApproved ==
  ASSUME Settings, GateInv, [CeremonyNext]_ceremonyVars
  PROVE  \A n \in Sprints :
           work[n] = "backlog" /\ work'[n] = "running" /\ ~sched.blind =>
             /\ "planning" \in Ceremony => n \in stamps["planning"]
             /\ \A k \in Ceremony \ {"planning"} : \A m \in Sprints :
                  m < n => m \in stamps[k] \cup late
<1> SUFFICES ASSUME NEW n \in Sprints, work[n] = "backlog", work'[n] = "running", ~sched.blind
             PROVE  /\ "planning" \in Ceremony => n \in stamps["planning"]
                    /\ \A k \in Ceremony \ {"planning"} : Before(n) \subseteq stamps[k] \cup late
  BY DEF Before
<1>1. fireSprint
  <2>1. work' # work
    OBVIOUS
  <2>2. ~(\E m \in Sprints : Built(m) \/ Requeued(m))
    BY DEF Built, Requeued, GateInv, CerTypes
  <2>3. CeremonyNext
    BY <2>1 DEF ceremonyVars
  <2> QED
    BY <2>1, <2>2, <2>3 DEF CeremonyNext, Cycle, Faulty, ListReady, ListAwaiting,
        SweepEnds, Sweep, FireOrPlan, Ensure, Start, Record,
        ListAwaitingFails, NotNow, StartUnheard, RecordFails, Crash,
        SettingsFail, Stored, Progress, ReachGate, Approve,
        PublishCorrections, Close, Reject, RunFails, Alone
<1>2. sched.row.sprint = n /\ sched.at = "fire"
  BY <1>1 DEF fireSprint, GateInv, CerTypes
<1>3. sched.kind = "planning" /\ sched.row \in sched.ready
  BY <1>2 DEF GateInv, CerTypes, ReadyStands, OnRow
<1>4. "planning" \in Ceremony => n \in stamps["planning"]
  BY <1>2, <1>3 DEF GateInv, ReadyStands
<1>5. \A k \in Ceremony \ {"planning"} : Before(n) \subseteq stamps[k] \cup late
  BY <1>2, <1>3 DEF GateInv, GatesSeen, SeenThrough, Settings, Kinds
<1> QED  BY <1>4, <1>5

(* Whatever fails, is rejected or crashes, a cycle that could read its lists  *)
(* and settings starts a sprint only with its plan approved and with those    *)
(* before it through their review and retro, but for one that was overtaken   *)
(* by a late correction.                                                      *)
THEOREM OnlyApprovedSprintsFire ==
  ASSUME Settings
  PROVE  CeremonySpec => NothingFiresUnapproved
<1>1. GateInv /\ CerTypes' /\ [CeremonyNext]_ceremonyVars => GateInv'
  BY GateInvNext
<1>2. GateInv /\ [CeremonyNext]_ceremonyVars =>
        [\A n \in Sprints :
           work[n] = "backlog" /\ work'[n] = "running" /\ ~sched.blind =>
             /\ "planning" \in Ceremony => n \in stamps["planning"]
             /\ \A k \in Ceremony \ {"planning"} : \A m \in Sprints :
                  m < n => m \in stamps[k] \cup late]_ceremonyVars
  BY FiresApproved
<1>3. LiveInv => CerTypes
  BY DEF LiveInv
<1> QED
  BY <1>1, <1>2, <1>3, GateInvInit, LiveInvInit, LiveInvNext, PTL DEF CeremonySpec,
      NothingFiresUnapproved
=============================================================================
