----------------------------- MODULE TaskQueue -----------------------------
(***************************************************************************)
(* The task queue of the kernel: the store operations of claim.go as the   *)
(* workers, the reaper and the control plane call them.  A worker process  *)
(* holds its claim in memory (task id and fence); nothing else ties it to  *)
(* the row, so a worker that stalls keeps acting on a claim it has lost.   *)
(*                                                                         *)
(* MaxTasks and MaxFence bound the environment (how many tasks are         *)
(* submitted, how often a claim is lost); no guard of the code uses them.  *)
(***************************************************************************)
EXTENDS TaskStore, FiniteSets

CONSTANTS
  Workers,   \* worker goroutines and processes
  Slots,     \* a (run, step) pair: what ResolveAwaiting looks a gate up by
  None,      \* the empty claimed_by column
  MaxTasks,  \* bound: tasks ever submitted
  MaxFence   \* bound: claims lost per task

ASSUME NoneAssumption  == None \notin Workers
ASSUME BoundAssumption == MaxTasks \in Nat /\ MaxFence \in Nat

VARIABLES
  tasks,  \* the tasks table, in creation order
  claim   \* claim[w]: the task and fence worker w believes it holds

vars == <<tasks, claim>>

Row == [slot: Slots, status: Status, fence: Nat, claimedBy: Workers \cup {None},
        fresh: BOOLEAN, due: BOOLEAN]

NewRow(s) == [slot |-> s, status |-> "QUEUED", fence |-> 0, claimedBy |-> None,
              fresh |-> FALSE, due |-> TRUE]

Idle == [task |-> 0, fence |-> 0]

Ids == DOMAIN tasks

Busy(w) == claim[w].task # 0

TypeOK ==
  /\ tasks \in Seq(Row)
  /\ claim \in [Workers -> [task: Nat, fence: Nat]]
  /\ \A w \in Workers : Busy(w) => claim[w].task \in Ids

Init ==
  /\ tasks = <<>>
  /\ claim = [w \in Workers |-> Idle]

-----------------------------------------------------------------------------
(* Workers                                                                 *)

EnqueueTask(s) ==
  /\ Len(tasks) < MaxTasks
  /\ tasks' = Append(tasks, NewRow(s))
  /\ UNCHANGED claim

\* Oldest claimable row first; QUEUED and due are read under the write lock.
Claim(w) ==
  /\ ~Busy(w)
  /\ \E i \in Ids :
       /\ Claimable(tasks[i])
       /\ \A j \in 1..(i - 1) : ~Claimable(tasks[j])
       /\ tasks' = [tasks EXCEPT ![i] = ClaimedRow(@, w)]
       /\ claim' = [claim EXCEPT ![w] = [task |-> i, fence |-> tasks[i].fence + 1]]

Heartbeat(w) ==
  /\ Busy(w)
  /\ Owns(tasks[claim[w].task], claim[w].fence)
  /\ tasks' = [tasks EXCEPT ![claim[w].task].fresh = TRUE]
  /\ UNCHANGED claim

\* A worker's Transition, fenced; a refused report changes nothing and the
\* worker moves on to its next claim.
Report(w, to) ==
  LET i == claim[w].task IN
  /\ Busy(w)
  /\ tasks' = IF MayReport(tasks[i], claim[w].fence, to)
                THEN [tasks EXCEPT ![i] = MovedRow(@, to)]
                ELSE tasks
  /\ claim' = [claim EXCEPT ![w] = Idle]

\* The provider limit: back off, or (on a lost fence) fall back to a failure
\* report, which the same fence refuses.
RequeueTransient(w) ==
  LET i == claim[w].task IN
  /\ Busy(w)
  /\ tasks[i].fence < MaxFence
  /\ tasks' = IF MayRequeue(tasks[i], claim[w].fence)
                THEN [tasks EXCEPT ![i] = BackedOffRow(@, None)]
                ELSE IF MayReport(tasks[i], claim[w].fence, "FAILED")
                       THEN [tasks EXCEPT ![i] = MovedRow(@, "FAILED")]
                       ELSE tasks
  /\ claim' = [claim EXCEPT ![w] = Idle]

-----------------------------------------------------------------------------
(* Reaper and control plane                                                *)

RequeueStale ==
  /\ \E i \in Ids : Stale(tasks[i])
  /\ tasks' = Reaped(tasks, None)
  /\ UNCHANGED claim

\* ResolveAwaiting and AnswerAwaiting: the newest AWAITING row of the slot.
ResolveAwaiting(s, to) ==
  /\ \E i \in Ids :
       /\ tasks[i].slot = s /\ tasks[i].status = "AWAITING"
       /\ \A j \in (i + 1)..Len(tasks) :
            ~(tasks[j].slot = s /\ tasks[j].status = "AWAITING")
       /\ tasks' = [tasks EXCEPT ![i] = MovedRow(@, to)]
  /\ UNCHANGED claim

Cancel(i) ==
  /\ i \in Ids
  /\ MayCancel(tasks[i])
  /\ tasks' = [tasks EXCEPT ![i] = MovedRow(@, "CANCELLED")]
  /\ UNCHANGED claim

-----------------------------------------------------------------------------
(* Time and crashes                                                        *)

\* A heartbeat grows old: its worker died, stalled, or cannot reach the store.
HeartbeatExpires(i) ==
  /\ i \in Ids
  /\ Owns(tasks[i], tasks[i].fence) /\ tasks[i].fresh
  /\ tasks[i].fence < MaxFence
  /\ tasks' = [tasks EXCEPT ![i].fresh = FALSE]
  /\ UNCHANGED claim

BackoffElapses(i) ==
  /\ i \in Ids
  /\ ~tasks[i].due
  /\ tasks' = [tasks EXCEPT ![i].due = TRUE]
  /\ UNCHANGED claim

Crash(w) ==
  /\ Busy(w)
  /\ tasks[claim[w].task].fence < MaxFence
  /\ claim' = [claim EXCEPT ![w] = Idle]
  /\ UNCHANGED tasks

-----------------------------------------------------------------------------
WorkerStep(w) ==
  \/ Claim(w)
  \/ Heartbeat(w)
  \/ \E to \in {"DONE", "FAILED", "AWAITING"} : Report(w, to)
  \/ RequeueTransient(w)

Next ==
  \/ \E s \in Slots : EnqueueTask(s)
  \/ \E w \in Workers : WorkerStep(w) \/ Crash(w)
  \/ RequeueStale
  \/ \E s \in Slots, to \in {"DONE", "FAILED"} : ResolveAwaiting(s, to)
  \/ \E i \in Ids : Cancel(i) \/ HeartbeatExpires(i) \/ BackoffElapses(i)

Spec == Init /\ [][Next]_vars

\* A row nobody works on: its worker crashed, so no ping keeps it fresh.
Orphan(i) ==
  /\ i \in Ids
  /\ \A w \in Workers : claim[w] # [task |-> i, fence |-> tasks[i].fence]

\* WorkerLoop and ReaperLoop poll forever; a runner returns (every step has a
\* timeout); the clock advances.  Humans and the control plane owe nothing.
Fairness ==
  /\ \A w \in Workers :
       /\ WF_vars(Claim(w))
       /\ WF_vars(\E to \in {"DONE", "FAILED", "AWAITING"} : Report(w, to))
  /\ WF_vars(RequeueStale)
  /\ \A i \in 1..MaxTasks :
       /\ WF_vars(Orphan(i) /\ HeartbeatExpires(i))
       /\ WF_vars(BackoffElapses(i))

FairSpec == Spec /\ Fairness

-----------------------------------------------------------------------------
(* Properties                                                              *)

Current(w) == Busy(w) /\ claim[w].fence = tasks[claim[w].task].fence

\* No two workers believe in the same claim, and a row that is RUNNING under
\* the fence a worker presents is that worker's row: what the fencing token of
\* claim.go is for.
ExclusiveClaim ==
  /\ \A v, w \in Workers : v # w /\ Busy(v) => claim[v] # claim[w]
  /\ \A w \in Workers :
       Busy(w) /\ Owns(tasks[claim[w].task], claim[w].fence)
         => tasks[claim[w].task].claimedBy = w

\* A worker whose claim was reaped, handed over or backed off changes no row
\* when it finally reports, parks or asks for a retry.
StaleWorkerIsHarmless ==
  [][\A w \in Workers :
       Busy(w) /\ ~Current(w) /\ claim'[w] # claim[w] => tasks' = tasks]_vars

\* A reported result is final: no late report, reaper pass, cancel or second
\* decision moves a row that is DONE or FAILED.
ResultIsFinal ==
  [][\A i \in Ids : tasks[i].status \in {"DONE", "FAILED"}
                      => tasks'[i].status = tasks[i].status]_vars

\* types.go: "legalTransitions is the ONLY source of truth for what state
\* changes are allowed. Any transition not present here is rejected".
OnlyLegalTransitions ==
  [][\A i \in Ids :
       \/ tasks'[i].status = tasks[i].status
       \/ transitionAllowed(tasks[i].status, tasks'[i].status)]_vars

\* With the workers, the reaper and the clock running, a queued task is
\* eventually settled or parked, however often its workers crash or stall.
QueuedIsServed ==
  \A i \in 1..MaxTasks :
    (i \in Ids /\ tasks[i].status = "QUEUED")
      ~> (i \in Ids /\ tasks[i].status \in {"AWAITING", "DONE", "FAILED", "CANCELLED"})

-----------------------------------------------------------------------------
(* The queue implements the lease.                                         *)

PhaseOf(s) ==
  CASE s = "QUEUED"    -> "open"
    [] s = "RUNNING"   -> "held"
    [] s = "AWAITING"  -> "parked"
    [] s = "CANCELLED" -> "withdrawn"
    [] OTHER           -> "closed"

HolderOf(t) == IF t.status = "RUNNING" THEN t.claimedBy ELSE None

TheLease == INSTANCE Lease WITH
  Nobody <- None,
  phase  <- [i \in Ids |-> PhaseOf(tasks[i].status)],
  holder <- [i \in Ids |-> HolderOf(tasks[i])],
  job    <- [w \in Workers |-> claim[w].task]

\* Every store operation is a step of the abstract lease: granted to one worker
\* at a time, returned only by its holder, taken back only on expiry or cancel.
ImplementsLease == TheLease!Spec
=============================================================================
