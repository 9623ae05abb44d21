--------------------------- MODULE CircuitBreaker ---------------------------
(***************************************************************************)
(* The factory pause (engine_control.go): two atomics of an Engine value,  *)
(* paused and pausedUntil, that the WorkerLoop goroutines, the credit      *)
(* circuit-breaker they trip, and the operator's Pause and Resume read and *)
(* write one at a time.  Each action is one atomic load, store or swap.    *)
(* Every process (the control plane, each cmd/worker) has its own Engine.  *)
(*                                                                         *)
(* MaxTime and MaxCalls bound the clock and the operator.                  *)
(***************************************************************************)
EXTENDS Naturals, FiniteSets

CONSTANTS
  Procs,     \* processes: each one has the two atomics
  Workers,   \* WorkerLoop goroutines
  Home,      \* Home[w]: the process of worker w
  Operators, \* threads serving pause and resume calls
  Control,   \* the process that serves them
  Backoffs,  \* how far ahead a provider limit puts the resume time
  MaxTime,   \* bound: the clock
  MaxCalls   \* bound: operator calls

Threads == Workers \cup Operators

ASSUME HomeAssumption == Home \in [Workers -> Procs] /\ Control \in Procs
ASSUME ThreadAssumption == Workers \cap Operators = {}
ASSUME BoundAssumption ==
  Backoffs \subseteq Nat \ {0} /\ MaxTime \in Nat \ {0} /\ MaxCalls \in Nat

VARIABLES
  paused,       \* paused[p]: the flag the workers of p look at
  pausedUntil,  \* pausedUntil[p]: the auto-resume time, 0 for none
  now,          \* the clock
  pc,           \* pc[t]: where thread t is
  want,         \* want[w]: the resumeAt of the last limit w met
  calls,        \* operator calls made
  ordered,      \* an operator paused Control since its flag was last down
  since,        \* since[w]: steps w began since the flag of its process is up
  lost,         \* lost[p]: a clear took away the time of a PauseUntil it crossed
  held          \* held[w]: since w met its limit, no two calls on the atomics of its
                \* process overlapped and no operator resumed

vars == <<paused, pausedUntil, now, pc, want, calls, ordered, since, lost, held>>
atomics == <<paused, pausedUntil>>
history == <<ordered, since, lost, held>>  \* what the properties remember

Init ==
  /\ paused = [p \in Procs |-> FALSE]
  /\ pausedUntil = [p \in Procs |-> 0]
  /\ now = 1
  /\ pc = [t \in Threads |-> "idle"]
  /\ want = [w \in Workers |-> 0]
  /\ calls = 0
  /\ ordered = FALSE
  /\ since = [w \in Workers |-> 0]
  /\ lost = [p \in Procs |-> FALSE]
  /\ held = [w \in Workers |-> FALSE]

Goes(t, from, to) == pc[t] = from /\ pc' = [pc EXCEPT ![t] = to]

\* The calls that access both atomics, one after the other: PauseUntil, Resume
\* and the auto-resume.  Nothing in the code keeps two of them from overlapping.
Crossable == {"arm", "arm_check", "arm_store", "arm_swap", "swap", "clear", "resume"}
Serves(t, p) == IF t \in Operators THEN p = Control ELSE Home[t] = p
Uncontended(p) == \A t \in Threads : Serves(t, p) => pc[t] \notin Crossable

\* The flag of p comes down: a pause is over.
Lifts(p) ==
  /\ ordered' = (ordered /\ p # Control)
  /\ since' = [v \in Workers |-> IF Home[v] = p THEN 0 ELSE since[v]]

\* The time of p is cleared under a pause that nobody ordered, or under a
\* PauseUntil that has stored it and not yet put up the flag.
Clears(p) ==
  LET breaker == paused[p] /\ ~(ordered /\ p = Control)
      storing == \E w \in Workers : Home[w] = p /\ pc[w] = "arm_swap"
  IN  lost' = [lost EXCEPT ![p] = @ \/ breaker \/ storing]

-----------------------------------------------------------------------------
(* WorkerLoop                                                              *)

\* Faulty variant: the flag is not read.
CheckPaused_Ignored(w) ==
  /\ Goes(w, "idle", "claim")
  /\ UNCHANGED <<atomics, now, want, calls, history>>

CheckPaused(w) ==
  /\ Goes(w, "idle", IF paused[Home[w]] THEN "paused" ELSE "claim")
  /\ UNCHANGED <<atomics, now, want, calls, history>>

WindowElapsed(p) == pausedUntil[p] > 0 /\ now >= pausedUntil[p]

CheckWindow(w) ==
  /\ Goes(w, "paused", IF WindowElapsed(Home[w]) THEN "swap" ELSE "idle")
  /\ held' = [v \in Workers |->
       held[v] /\ (Home[v] = Home[w] /\ WindowElapsed(Home[w]) => Uncontended(Home[w]))]
  /\ UNCHANGED <<atomics, now, want, calls, ordered, since, lost>>

\* The first worker to flip the flag clears the time, in a store of its own.
SwapOff(w) ==
  /\ Goes(w, "swap", IF paused[Home[w]] THEN "clear" ELSE "claim")
  /\ paused' = [paused EXCEPT ![Home[w]] = FALSE]
  /\ Lifts(Home[w])
  /\ UNCHANGED <<pausedUntil, now, want, calls, lost, held>>

ClearUntil(w) ==
  /\ Goes(w, "clear", "claim")
  /\ pausedUntil' = [pausedUntil EXCEPT ![Home[w]] = 0]
  /\ Clears(Home[w])
  /\ UNCHANGED <<paused, now, want, calls, ordered, since, held>>

\* ExecuteOne claims a step and runs it.
ExecuteOne(w) ==
  /\ Goes(w, "claim", "step")
  /\ since' = [since EXCEPT ![w] = IF paused[Home[w]] THEN @ + 1 ELSE @]
  /\ UNCHANGED <<atomics, now, want, calls, ordered, lost, held>>

StepReturns(w) ==
  /\ Goes(w, "step", "idle")
  /\ UNCHANGED <<atomics, now, want, calls, history>>

\* The step hit a provider limit: PauseUntil(now + d).
HitLimit(w, d) ==
  /\ now + d <= MaxTime
  /\ Goes(w, "step", "arm")
  /\ want' = [want EXCEPT ![w] = now + d]
  /\ held' = [v \in Workers |->
       IF Home[v] = Home[w] THEN (v = w \/ held[v]) /\ Uncontended(Home[w]) ELSE held[v]]
  /\ UNCHANGED <<atomics, now, calls, ordered, since, lost>>

-----------------------------------------------------------------------------
(* PauseUntil                                                              *)

\* Faulty variant: the last limit met wins, be it the earlier one.
LoadUntil_Overwrites(w) ==
  /\ Goes(w, "arm", "arm_store")
  /\ UNCHANGED <<atomics, now, want, calls, history>>

LoadUntil(w) ==
  /\ Goes(w, "arm", IF pausedUntil[Home[w]] >= want[w] THEN "arm_check" ELSE "arm_store")
  /\ UNCHANGED <<atomics, now, want, calls, history>>

AlreadyPaused(w) ==
  /\ Goes(w, "arm_check", IF paused[Home[w]] THEN "idle" ELSE "arm_store")
  /\ UNCHANGED <<atomics, now, want, calls, history>>

\* Faulty variant: the resume time is not stored.
StoreUntil_Lost(w) ==
  /\ Goes(w, "arm_store", "arm_swap")
  /\ lost' = [lost EXCEPT ![Home[w]] = FALSE]
  /\ UNCHANGED <<atomics, now, want, calls, ordered, since, held>>

StoreUntil(w) ==
  /\ Goes(w, "arm_store", "arm_swap")
  /\ pausedUntil' = [pausedUntil EXCEPT ![Home[w]] = want[w]]
  /\ lost' = [lost EXCEPT ![Home[w]] = FALSE]
  /\ UNCHANGED <<paused, now, want, calls, ordered, since, held>>

SwapOn(w) ==
  /\ Goes(w, "arm_swap", "idle")
  /\ paused' = [paused EXCEPT ![Home[w]] = TRUE]
  /\ UNCHANGED <<pausedUntil, now, want, calls, history>>

-----------------------------------------------------------------------------
(* The operator, and time                                                  *)

Call == calls < MaxCalls /\ calls' = calls + 1

Pause(o) ==
  /\ Call /\ Goes(o, "idle", "idle")
  /\ paused' = [paused EXCEPT ![Control] = TRUE]
  /\ ordered' = TRUE
  /\ UNCHANGED <<pausedUntil, now, want, since, lost, held>>

ResumeFlag(o) ==
  /\ Call /\ Goes(o, "idle", "resume")
  /\ paused' = [paused EXCEPT ![Control] = FALSE]
  /\ Lifts(Control)
  /\ held' = [v \in Workers |-> held[v] /\ Home[v] # Control]
  /\ UNCHANGED <<pausedUntil, now, want, lost>>

ResumeClear(o) ==
  /\ Goes(o, "resume", "idle")
  /\ pausedUntil' = [pausedUntil EXCEPT ![Control] = 0]
  /\ Clears(Control)
  /\ UNCHANGED <<paused, now, want, calls, ordered, since, held>>

Tick ==
  /\ now < MaxTime
  /\ now' = now + 1
  /\ UNCHANGED <<atomics, pc, want, calls, history>>

-----------------------------------------------------------------------------
Loop(w) ==
  \/ CheckPaused(w) \/ CheckWindow(w) \/ SwapOff(w) \/ ClearUntil(w)
  \/ ExecuteOne(w) \/ StepReturns(w)
  \/ LoadUntil(w) \/ AlreadyPaused(w) \/ StoreUntil(w) \/ SwapOn(w)

Next ==
  \/ \E w \in Workers : Loop(w) \/ \E d \in Backoffs : HitLimit(w, d)
  \/ \E o \in Operators : Pause(o) \/ ResumeFlag(o) \/ ResumeClear(o)
  \/ Tick

Spec == Init /\ [][Next]_vars

\* The loops run, handlers return, the clock advances.
Fairness ==
  /\ WF_vars(Tick)
  /\ \A w \in Workers : WF_vars(Loop(w))
  /\ \A o \in Operators : WF_vars(ResumeClear(o))

FairSpec == Spec /\ Fairness

-----------------------------------------------------------------------------
(* Properties                                                              *)

TypeOK ==
  /\ paused \in [Procs -> BOOLEAN]
  /\ pausedUntil \in [Procs -> 0..MaxTime]
  /\ now \in 1..MaxTime
  /\ pc \in [Threads -> {"idle", "paused", "swap", "clear", "claim", "step", "arm",
                         "arm_check", "arm_store", "arm_swap", "resume"}]
  /\ want \in [Workers -> 0..MaxTime]
  /\ calls \in 0..MaxCalls /\ ordered \in BOOLEAN /\ since \in [Workers -> Nat]
  /\ lost \in [Procs -> BOOLEAN] /\ held \in [Workers -> BOOLEAN]

\* A pause that an operator ordered, or that lost its resume time to a clear.
Endless(p) == (ordered /\ p = Control) \/ lost[p]

\* engine_control.go: the breaker "pauses the WHOLE factory ... until resumeAt,
\* then auto-resumes": whatever the workers and operators do at the same time,
\* the flag comes down again, unless an operator put it up or a clear that
\* crossed the PauseUntil took the resume time away.
BreakerResumes ==
  \A p \in Procs : []<>(~paused[p] \/ Endless(p))

\* engine.go, pausedUntil: "0 = manual/indefinite": a pause without a resume
\* time was ordered by an operator, or lost its time to such a clear.
EndlessIsExplained ==
  \A p \in Procs : paused[p] /\ pausedUntil[p] = 0 => Endless(p)

\* No step starts in a credit window that an earlier step of the worker met,
\* whatever limits the other workers meet before and after, unless calls on the
\* two atomics overlapped meanwhile or an operator resumed.
NoStepInTheWindow ==
  \A w \in Workers : held[w] /\ now < want[w] => pc[w] # "step"

\* engine_control.go: "Pause halts new claims": once the factory is paused, by an operator or the breaker,
\* a worker begins at most the one step for which it had already read the flag.
PauseAdmitsOneStep == \A w \in Workers : since[w] <= 1

-----------------------------------------------------------------------------
(* What comments promise and the code does not keep when calls overlap.    *)

\* engine_control.go: "Re-arming while already paused keeps the LATER resume
\* time": while the flag is up, the resume time never moves to an earlier one.
KeepsTheLater ==
  [][\A p \in Procs :
       paused[p] /\ pausedUntil'[p] > 0 => pausedUntil'[p] >= pausedUntil[p]]_vars

\* "then auto-resumes": a pause that no operator ordered always ends.
AutoResumes ==
  \A p \in Procs : []<>(~paused[p] \/ (ordered /\ p = Control))

\* engine.go, pausedUntil: "0 = manual/indefinite": a pause that an operator
\* ordered ends only when an operator resumes.
OrderedPauseHolds ==
  [][ordered /\ ~paused'[Control] => \E o \in Operators : ResumeFlag(o)]_vars
=============================================================================
