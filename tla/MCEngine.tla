------------------------------ MODULE MCEngine ------------------------------
(* Flows, initial states and model values for checking Engine.              *)
EXTENDS Engine, TLC

CONSTANTS w1, w2, c1, c2, run1

OneWorker  == {w1}
TwoWorkers == {w1, w2}
OneClient  == {c1}
TwoClients == {c1, c2}
OneRun  == {run1}

Work(goto, max) == [kind |-> "work", goto |-> goto, max |-> max, skippable |-> FALSE]
Gate(goto, max) == [kind |-> "human_gate", goto |-> goto, max |-> max, skippable |-> FALSE]
Guarded         == [kind |-> "work", goto |-> 0, max |-> 0, skippable |-> TRUE]

\* A design phase with its gate, then a publishing step (design.yaml).
DesignFlow == <<Work(0, 0), Gate(1, 1), Work(0, 0)>>

\* implement, then a gate that loops back (factory.yaml).
FactoryFlow == <<Work(0, 0), Work(1, 1)>>

\* report, guarded corrections, review gate looping to them (sprint-review.yaml).
ReviewFlow == <<Work(0, 0), Guarded, Gate(2, 1), Work(0, 0)>>

\* A phase with its gate, then a step that is repeated once when it fails.
RetryFlow == <<Work(0, 0), Gate(1, 1), Work(3, 1)>>

Phase == {1}

AllPCs == PCs
WhileRunning == {"running"}

Others ==
  /\ boundary = [r \in Runs |-> [at |-> 0, kept |-> TRUE]]
  /\ answers = [r \in Runs |-> [s \in Steps |-> 0]]
  /\ th = [h \in Threads |-> Resting]
  /\ calls = 0
  /\ faults = 0

\* StartRun has returned: run1 is RUNNING and its first task is queued.
InitStarted ==
  /\ tasks = <<NewRow(run1, 1, "none")>>
  /\ runs = [r \in Runs |-> "RUNNING"]
  /\ Others

\* Every step of run1 has been executed once and the run is DONE.
InitCompleted ==
  /\ tasks = [s \in Steps |-> [NewRow(run1, s, "none") EXCEPT
                !.status = "DONE", !.fence = 1, !.claimedBy = w1, !.fresh = TRUE]]
  /\ runs = [r \in Runs |-> "DONE"]
  /\ Others

SpecStarted   == InitStarted /\ [][Next]_vars
SpecEither    == (InitStarted \/ InitCompleted) /\ [][Next]_vars
SpecCompleted == InitCompleted /\ [][Next]_vars
LiveSpec      == SpecStarted /\ Fairness

Symmetry == Permutations(Workers) \cup Permutations(Clients)
=============================================================================
