----------------------------- MODULE AgentStep -----------------------------
(***************************************************************************)
(* A sandboxed agent step on top of the task queue: agent/runner.go stages *)
(* a copy of the run's worktree at <workdir>.agent, lets the agent edit    *)
(* the copy, and on return syncs it back if it still owns the claim.  Both *)
(* directories belong to the run, not to the attempt, so two workers that  *)
(* run the same task (one of them reaped) share them.                      *)
(*                                                                         *)
(* A tree is abstracted to the claim whose agent produced it.              *)
(***************************************************************************)
EXTENDS TaskQueue

CONSTANTS
  NoTree,  \* the staging directory does not exist
  Seed,    \* the worktree as the run started it
  Wiped,   \* the worktree after a sync from a missing staging directory
  LoseAt,  \* LoseAt[s]: the phases in which the reaper may meet the stale row of
           \* a live worker of run s; in the others its heartbeats arrive
  Relaunch \* whether a run whose task was cancelled or settled is run again

Phases == {"idle", "claimed", "working", "owner", "leaving", "returned"}

ASSUME TreeAssumption   == NoTree \notin [task: Nat, fence: Nat]  \* not a claim
ASSUME LoseAtAssumption == LoseAt \in [Slots -> SUBSET Phases]

VARIABLES
  stage,     \* stage[s]: the claim whose copy is at <workdir>.agent
  worktree,  \* worktree[s]: the claim whose edits the run's worktree holds
  phase      \* phase[w]: where worker w is in the runner

agentVars == <<tasks, claim, stage, worktree, phase>>
dirVars   == <<stage, worktree>>

Dir(w) == tasks[claim[w].task].slot

Holds(w) == Busy(w) /\ Owns(tasks[claim[w].task], claim[w].fence)

AgentInit ==
  /\ Init
  /\ stage = [s \in Slots |-> NoTree]
  /\ worktree = [s \in Slots |-> Seed]
  /\ phase = [w \in Workers |-> "idle"]

Goes(w, from, to) == phase[w] = from /\ phase' = [phase EXCEPT ![w] = to]

ClaimStep(w) == Claim(w) /\ Goes(w, "idle", "claimed") /\ UNCHANGED dirVars

\* Faulty variant: a staging directory left by a dead worker is reused.
Stage_Reuse(w) ==
  /\ Goes(w, "claimed", "working")
  /\ stage' = [stage EXCEPT ![Dir(w)] = IF @ = NoTree THEN claim[w] ELSE @]
  /\ UNCHANGED <<tasks, claim, worktree>>

\* RemoveAll, then CopyTreeNoGit: whatever was staged before is gone.
Stage(w) ==
  /\ Goes(w, "claimed", "working")
  /\ stage' = [stage EXCEPT ![Dir(w)] = claim[w]]
  /\ UNCHANGED <<tasks, claim, worktree>>

\* Faulty variant: the sync is unconditional.
CheckOwner_Always(w) ==
  /\ Goes(w, "working", "owner")
  /\ UNCHANGED <<tasks, claim, dirVars>>

\* The deferred StillOwnsWorkdir, a read of its own.
CheckOwner(w) ==
  /\ phase[w] = "working"
  /\ phase' = [phase EXCEPT ![w] = IF Holds(w) THEN "owner" ELSE "leaving"]
  /\ UNCHANGED <<tasks, claim, dirVars>>

\* SyncBack clears the worktree and copies what is staged; its error is ignored.
SyncBack(w) ==
  /\ Goes(w, "owner", "leaving")
  /\ worktree' = [worktree EXCEPT ![Dir(w)] =
                    IF stage[Dir(w)] = NoTree THEN Wiped ELSE stage[Dir(w)]]
  /\ UNCHANGED <<tasks, claim, stage>>

\* The first deferred call, hence the last to run: owner or not, the staging
\* directory is removed.
RemoveStage(w) ==
  /\ Goes(w, "leaving", "returned")
  /\ stage' = [stage EXCEPT ![Dir(w)] = NoTree]
  /\ UNCHANGED <<tasks, claim, worktree>>

ReturnStep(w) ==
  /\ Goes(w, "returned", "idle")
  /\ (\E to \in {"DONE", "FAILED"} : Report(w, to)) \/ RequeueTransient(w)
  /\ UNCHANGED dirVars

\* A dead worker leaves both directories as they are.
CrashStep(w) ==
  /\ Crash(w)
  /\ phase' = [phase EXCEPT ![w] = "idle"]
  /\ UNCHANGED dirVars

AgentWorker(w) ==
  \/ ClaimStep(w) \/ Stage(w) \/ CheckOwner(w) \/ SyncBack(w)
  \/ RemoveStage(w) \/ ReturnStep(w) \/ CrashStep(w)

\* A run has one live task; a retry or rerun enqueues into the same directory.
EnqueueStep(s) ==
  /\ \A i \in Ids : tasks[i].slot = s => Relaunch /\ IsTerminal(tasks[i].status)
  /\ EnqueueTask(s)

ReapStep ==
  /\ \A w \in Workers :
       Holds(w) /\ Stale(tasks[claim[w].task]) => phase[w] \in LoseAt[Dir(w)]
  /\ RequeueStale

QueueStep ==
  /\ \/ \E s \in Slots : EnqueueStep(s)
     \/ ReapStep
     \/ \E w \in Workers : Heartbeat(w)
     \/ \E i \in Ids : Cancel(i) \/ BackoffElapses(i) \/ HeartbeatExpires(i)
  /\ UNCHANGED <<dirVars, phase>>

AgentNext == QueueStep \/ \E w \in Workers : AgentWorker(w)

AgentSpec == AgentInit /\ [][AgentNext]_agentVars

-----------------------------------------------------------------------------
(* Properties                                                              *)

Accepts(w) == Holds(w) /\ tasks'[claim[w].task].status = "DONE"

\* agent/runner.go: "edits sync back to the run worktree (so the gate sees
\* them)": the step that is accepted as DONE left its own edits in the worktree.
AcceptedWorkIsInTheTree ==
  [][\A w \in Workers : Accepts(w) => worktree[Dir(w)] = claim[w]]_agentVars

\* The same of the runs whose live workers are never reaped: what a dead worker
\* left staged, or synced before it died, is never what a later attempt hands in.
UndisturbedWorkIsInTheTree ==
  [][\A w \in Workers :
       Accepts(w) /\ LoseAt[Dir(w)] = {} => worktree[Dir(w)] = claim[w]]_agentVars

\* claim.go, OwnsClaim: "a reaped worker that returns late must NOT clobber the
\* worktree a live worker now owns".
OnlyTheOwnerSyncs ==
  [][\A w \in Workers :
       phase[w] = "owner" /\ phase'[w] = "leaving"
         => \A v \in Workers \ {w} : Holds(v) => Dir(v) # Dir(w)]_agentVars
=============================================================================
