----------------------------- MODULE TaskStore -----------------------------
(***************************************************************************)
(* The rows of the kernel store (engine/internal/store): the state machine *)
(* of a task and what each store operation writes into one task row.  The  *)
(* modules TaskQueue and Engine are built on these operators; a store      *)
(* operation is one BEGIN IMMEDIATE transaction, hence one atomic update.  *)
(*                                                                         *)
(* Clock values are abstracted to what the code compares them with:        *)
(*   fresh  heartbeat_at is within the reaper's stale window               *)
(*   due    available_at is not in the future                              *)
(*                                                                         *)
(* A definition called X_Something is a faulty variant of X: the checks    *)
(* are shown to notice when X is replaced by it.                           *)
(***************************************************************************)
EXTENDS Naturals, Sequences

Status == {"QUEUED", "RUNNING", "AWAITING", "DONE", "FAILED", "CANCELLED"}

legalTransitions ==
  [QUEUED    |-> {"RUNNING", "CANCELLED"},
   RUNNING   |-> {"DONE", "FAILED", "QUEUED", "CANCELLED", "AWAITING"},
   AWAITING  |-> {"DONE", "FAILED", "CANCELLED"},
   FAILED    |-> {"QUEUED"},
   DONE      |-> {},
   CANCELLED |-> {}]

transitionAllowed(from, to) == to \in legalTransitions[from]

IsTerminal(s) == s \in {"DONE", "FAILED", "CANCELLED"}

-----------------------------------------------------------------------------
(* What each operation makes of the row t.                                 *)

\* Faulty variant: a task is claimable once.
Claimable_Once(t) == t.status = "QUEUED" /\ t.due /\ t.fence = 0
\* Faulty variant: the status is not looked at.
Claimable_AnyStatus(t) == t.due
Claimable(t) == t.status = "QUEUED" /\ t.due

\* Faulty variant: the fence is not rotated.
ClaimedRow_SameFence(t, w) ==
  [t EXCEPT !.status = "RUNNING", !.claimedBy = w, !.fresh = TRUE]
ClaimedRow(t, w) ==
  [t EXCEPT !.status = "RUNNING", !.fence = @ + 1, !.claimedBy = w, !.fresh = TRUE]

\* Faulty variant: any fence will do.
MayReport_Unfenced(t, fence, to) == transitionAllowed(t.status, to)
\* Transition with a fence: the presented fence must be the stored one.
MayReport(t, fence, to) == fence = t.fence /\ transitionAllowed(t.status, to)

MovedRow(t, to) == [t EXCEPT !.status = to]

\* Transition with fence < 0, as CancelRun calls it.
MayCancel(t) == transitionAllowed(t.status, "CANCELLED")

\* The guard of RequeueTransient compares fences and nothing else.
MayRequeue(t, fence) == fence = t.fence

\* Faulty variant: a status that types.go does not know.
BackedOffRow_Retrying(t, none) ==
  [t EXCEPT !.status = "RETRYING", !.fence = @ + 1, !.claimedBy = none]
BackedOffRow(t, none) ==
  [t EXCEPT !.status = "QUEUED", !.fence = @ + 1, !.claimedBy = none,
            !.fresh = FALSE, !.due = FALSE]

\* Faulty variant: old heartbeats of settled tasks count too.
Stale_AnyStatus(t) == ~t.fresh /\ t.fence > 0
Stale(t) == t.status = "RUNNING" /\ ~t.fresh

ReapedRow(t, none) ==
  [t EXCEPT !.status = "QUEUED", !.fence = @ + 1, !.claimedBy = none]

\* RequeueStale treats every stale row in one transaction.
Reaped(rows, none) ==
  [i \in DOMAIN rows |-> IF Stale(rows[i]) THEN ReapedRow(rows[i], none) ELSE rows[i]]

Owns(t, fence) == fence = t.fence /\ t.status = "RUNNING"
=============================================================================
