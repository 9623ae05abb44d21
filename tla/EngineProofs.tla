---------------------------- MODULE EngineProofs ----------------------------
(***************************************************************************)
(* Proofs about Engine, for any manifest, any number of workers, callers   *)
(* and runs, and any faults.                                               *)
(***************************************************************************)
EXTENDS Engine, SequenceTheorems, FiniteSetTheorems, WellFoundedInduction, TLAPS

Local == [pc: PCs, run: Runs \cup {None}, task: Nat, fence: Nat, ok: BOOLEAN,
          step: Nat, mark: Marks, to: Status, todo: SUBSET Nat]

(***************************************************************************)
(* Types.  ThreadOK says what the locals of a thread are worth at each     *)
(* program counter: a thread that advances a run has its finished task.    *)
(***************************************************************************)
Types ==
  /\ tasks \in Seq(Row)
  /\ runs \in [Runs -> Status \cup {"NONE"}]
  /\ boundary \in [Runs -> [at: Nat, kept: BOOLEAN]]
  /\ answers \in [Runs -> [Steps -> Nat]]
  /\ th \in [Threads -> Local]
  /\ calls \in Nat /\ faults \in Nat

ThreadOK(h) ==
  /\ At(h, "running") => h \in Workers
  /\ h \in Workers => th[h].pc \in {"idle", "running", "decide", "apply"}
  /\ ~At(h, "idle") => th[h].run \in Runs /\ runs[th[h].run] # "NONE"
  /\ th[h].pc \in {"running", "decide", "apply"} =>
       th[h].task \in Ids /\ th[h].run = tasks[th[h].task].run
  /\ At(h, "decide") => tasks[th[h].task].status = (IF th[h].ok THEN "DONE" ELSE "FAILED")
  /\ At(h, "apply") => /\ tasks[th[h].task].status \in {"DONE", "FAILED"}
                       /\ th[h].step \in Steps \cup {0}
                       /\ th[h].step = 0 => th[h].to \in {"DONE", "FAILED"}
  /\ th[h].pc \in {"answer", "rerun_reopen", "enqueue"} => th[h].step \in Steps
  /\ At(h, "answer") => Flow[th[h].step].goto # 0 /\ th[h].mark = "none"
  /\ th[h].pc \in {"retry_reopen", "retry_pick"} => th[h].mark = "none"
  /\ At(h, "cancel") => th[h].todo \subseteq Ids

(***************************************************************************)
(* Claims.  Fences only grow, so a claim is never ahead of its row; claims *)
(* differ because a grant uses a fence nobody holds; while a claim is      *)
(* current its row is still RUNNING for that worker, or was cancelled.     *)
(***************************************************************************)
Holds(w) == At(w, "running") /\ th[w].fence = tasks[th[w].task].fence

ClaimsBehindRows ==
  \A w \in Threads : At(w, "running") => th[w].fence <= tasks[th[w].task].fence

ClaimsDiffer ==
  \A v, w \in Threads :
    v # w /\ At(v, "running") /\ At(w, "running")
      => <<th[v].task, th[v].fence>> # <<th[w].task, th[w].fence>>

CurrentClaimsHold ==
  \A w \in Threads :
    Holds(w) => /\ tasks[th[w].task].status \in {"RUNNING", "CANCELLED"}
                /\ tasks[th[w].task].claimedBy = w

Begun == \A i \in Ids : runs[tasks[i].run] # "NONE"

CInv == /\ Types
        /\ Begun
        /\ \A h \in Threads : ThreadOK(h)
        /\ ClaimsBehindRows
        /\ ClaimsDiffer
        /\ CurrentClaimsHold
        /\ AdvanceOnce


-----------------------------------------------------------------------------
(* What the operations of the store make of a row, and of the table.       *)

Same(t, u) == u.run = t.run /\ u.step = t.step /\ u.mark = t.mark

LEMMA RowOps ==
  ASSUME NEW t \in Row
  PROVE  /\ \A w \in Workers :
              /\ ClaimedRow(t, w) \in Row /\ Same(t, ClaimedRow(t, w))
              /\ ClaimedRow(t, w).status = "RUNNING" /\ ClaimedRow(t, w).fence = t.fence + 1
              /\ ClaimedRow(t, w).claimedBy = w
         /\ \A to \in Status :
              /\ MovedRow(t, to) \in Row /\ Same(t, MovedRow(t, to))
              /\ MovedRow(t, to).status = to /\ MovedRow(t, to).fence = t.fence
              /\ MovedRow(t, to).claimedBy = t.claimedBy
         /\ \A u \in {BackedOffRow(t, None), ReapedRow(t, None)} :
              u \in Row /\ Same(t, u) /\ u.status = "QUEUED" /\ u.fence = t.fence + 1
         /\ \A u \in {[t EXCEPT !.fresh = TRUE], [t EXCEPT !.fresh = FALSE], [t EXCEPT !.due = TRUE]} :
              /\ u \in Row /\ Same(t, u) /\ u.status = t.status /\ u.fence = t.fence
              /\ u.claimedBy = t.claimedBy
<1> DEFINE n == t.fence + 1
<1>1. n \in Nat
  BY DEF Row
<1>2. "RUNNING" \in Status /\ "QUEUED" \in Status
  BY DEF Status
<1>3. ASSUME NEW w \in Workers
      PROVE  /\ ClaimedRow(t, w) \in Row /\ Same(t, ClaimedRow(t, w))
             /\ ClaimedRow(t, w).status = "RUNNING" /\ ClaimedRow(t, w).fence = n
             /\ ClaimedRow(t, w).claimedBy = w
  <2> DEFINE u == [t EXCEPT !.status = "RUNNING", !.fence = n, !.claimedBy = w, !.fresh = TRUE]
  <2>1. ClaimedRow(t, w) = u
    BY DEF ClaimedRow
  <2> HIDE DEF n
  <2>2. u \in Row /\ Same(t, u) /\ u.status = "RUNNING" /\ u.fence = n /\ u.claimedBy = w
    BY <1>1, <1>2 DEF Row, Same
  <2> QED
    BY <2>1, <2>2
<1>4. LET u == BackedOffRow(t, None)
      IN  u \in Row /\ Same(t, u) /\ u.status = "QUEUED" /\ u.fence = n
  <2> DEFINE u == [t EXCEPT !.status = "QUEUED", !.fence = n, !.claimedBy = None,
                            !.fresh = FALSE, !.due = FALSE]
  <2>1. BackedOffRow(t, None) = u
    BY DEF BackedOffRow
  <2> HIDE DEF n
  <2>2. u \in Row /\ Same(t, u) /\ u.status = "QUEUED" /\ u.fence = n
    BY <1>1, <1>2 DEF Row, Same
  <2> QED
    BY <2>1, <2>2
<1>5. LET u == ReapedRow(t, None)
      IN  u \in Row /\ Same(t, u) /\ u.status = "QUEUED" /\ u.fence = n
  <2> DEFINE u == [t EXCEPT !.status = "QUEUED", !.fence = n, !.claimedBy = None]
  <2>1. ReapedRow(t, None) = u
    BY DEF ReapedRow
  <2> HIDE DEF n
  <2>2. u \in Row /\ Same(t, u) /\ u.status = "QUEUED" /\ u.fence = n
    BY <1>1, <1>2 DEF Row, Same
  <2> QED
    BY <2>1, <2>2
<1>6. ASSUME NEW to \in Status
      PROVE  /\ MovedRow(t, to) \in Row /\ Same(t, MovedRow(t, to))
             /\ MovedRow(t, to).status = to /\ MovedRow(t, to).fence = t.fence
             /\ MovedRow(t, to).claimedBy = t.claimedBy
  BY DEF Row, MovedRow, Same
<1>7. ASSUME NEW u \in {[t EXCEPT !.fresh = TRUE], [t EXCEPT !.fresh = FALSE], [t EXCEPT !.due = TRUE]}
      PROVE  /\ u \in Row /\ Same(t, u) /\ u.status = t.status /\ u.fence = t.fence
             /\ u.claimedBy = t.claimedBy
  BY <1>7 DEF Row, Same
<1> QED
  BY <1>3, <1>4, <1>5, <1>6, <1>7

\* Row i becomes t, the others stay.
Puts(i, t) ==
  /\ tasks' \in Seq(Row) /\ Ids' = Ids /\ Len(tasks') = Len(tasks)
  /\ tasks'[i] = t
  /\ \A j \in Ids \ {i} : tasks'[j] = tasks[j]

LEMMA RowPut ==
  ASSUME tasks \in Seq(Row), NEW i \in Ids, NEW t \in Row, tasks' = [tasks EXCEPT ![i] = t]
  PROVE  Puts(i, t)
<1>1. i \in 1..Len(tasks) /\ Ids = 1..Len(tasks)
  BY LenProperties DEF Ids
<1>2. /\ tasks' \in Seq(Row) /\ Len(tasks') = Len(tasks)
      /\ \A j \in 1..Len(tasks) : tasks'[j] = IF j = i THEN t ELSE tasks[j]
  BY <1>1, ExceptSeq
<1>3. Ids' = Ids
  BY <1>1, <1>2, LenProperties DEF Ids
<1> QED
  BY <1>1, <1>2, <1>3 DEF Puts

LEMMA RowsAreRows ==
  ASSUME tasks \in Seq(Row)
  PROVE  /\ Len(tasks) \in Nat /\ Ids = 1..Len(tasks)
         /\ \A i \in Ids : /\ tasks[i] \in Row /\ i \in Nat /\ i # 0
                           /\ tasks[i].fence \in Nat /\ tasks[i].run \in Runs
                           /\ tasks[i].step \in Steps /\ tasks[i].status \in Status
<1>1. Len(tasks) \in Nat /\ Ids = 1..Len(tasks) /\ \A i \in 1..Len(tasks) : tasks[i] \in Row
  BY LenProperties DEF Ids
<1> QED
  BY <1>1 DEF Row

\* Thread h goes on as l, the others stay where they are.
Turns(h, l) ==
  /\ th' \in [Threads -> Local]
  /\ th'[h] = l
  /\ \A g \in Threads \ {h} : th'[g] = th[g]

LEMMA ThreadTurns ==
  ASSUME th \in [Threads -> Local], NEW h \in Threads, NEW l \in Local, Become(h, l)
  PROVE  Turns(h, l)
BY DEF Become, Turns

LEMMA RestingType == Resting \in Local /\ Resting.pc = "idle"
BY DEF Resting, Local, PCs, Marks, Status

LEMMA ThreadRests ==
  ASSUME th \in [Threads -> Local], NEW h \in Threads, Rest(h)
  PROVE  Turns(h, Resting)
BY RestingType, ThreadTurns DEF Rest

\* A new task at the end of the table.
Adds(r, s, m) ==
  /\ tasks' \in Seq(Row) /\ Len(tasks') = Len(tasks) + 1
  /\ Ids' = Ids \cup {Len(tasks) + 1} /\ Len(tasks) + 1 \notin Ids
  /\ tasks'[Len(tasks) + 1] = NewRow(r, s, m)
  /\ \A i \in Ids : tasks'[i] = tasks[i]

LEMMA RowAdded ==
  ASSUME tasks \in Seq(Row), NEW r \in Runs, NEW s \in Steps, NEW m \in Marks, Enqueue(r, s, m)
  PROVE  /\ Adds(r, s, m)
         /\ NewRow(r, s, m).run = r /\ NewRow(r, s, m).step = s /\ NewRow(r, s, m).mark = m
         /\ NewRow(r, s, m).status = "QUEUED" /\ NewRow(r, s, m).fence = 0
<1>1. /\ NewRow(r, s, m) \in Row
      /\ NewRow(r, s, m).run = r /\ NewRow(r, s, m).step = s /\ NewRow(r, s, m).mark = m
      /\ NewRow(r, s, m).status = "QUEUED" /\ NewRow(r, s, m).fence = 0
  BY DEF NewRow, Row, Status
<1> DEFINE e == NewRow(r, s, m)
<1>2. tasks' = Append(tasks, e)
  BY DEF Enqueue
<1> HIDE DEF e
<1>3. e \in Row
  BY <1>1 DEF e
<1>4. /\ tasks' \in Seq(Row) /\ Len(tasks') = Len(tasks) + 1
      /\ tasks'[Len(tasks) + 1] = e
      /\ \A i \in 1..Len(tasks) : tasks'[i] = tasks[i]
  BY <1>2, <1>3, AppendProperties
<1>5. Len(tasks) \in Nat /\ Ids = 1..Len(tasks) /\ Ids' = 1..(Len(tasks) + 1)
  BY <1>4, LenProperties DEF Ids
<1>6. Adds(r, s, m)
  BY <1>4, <1>5 DEF Adds, e
<1> QED
  BY <1>1, <1>6

\* The reaper's pass.
Reaps ==
  /\ tasks' \in Seq(Row) /\ Ids' = Ids /\ Len(tasks') = Len(tasks)
  /\ \A i \in Ids :
       /\ Same(tasks[i], tasks'[i])
       /\ \/ tasks'[i] = tasks[i]
          \/ tasks[i].status = "RUNNING" /\ tasks'[i].status = "QUEUED"
             /\ tasks'[i].fence = tasks[i].fence + 1

LEMMA RowsReaped ==
  ASSUME tasks \in Seq(Row), tasks' = Reaped(tasks, None)
  PROVE  Reaps
<1>1. Ids = 1..Len(tasks) /\ Len(tasks) \in Nat /\ \A i \in Ids : tasks[i] \in Row
  BY RowsAreRows
<1>2. \A i \in Ids : tasks'[i] = IF Stale(tasks[i]) THEN ReapedRow(tasks[i], None) ELSE tasks[i]
  BY DEF Reaped, Ids
<1>3. tasks' \in [1..Len(tasks) -> Row]
  BY <1>1, RowOps DEF Reaped, Ids
<1>4. tasks' \in Seq(Row) /\ Ids' = Ids
  BY <1>1, <1>3, SeqDef DEF Ids
<1>5. Len(tasks') = Len(tasks)
  BY <1>1, <1>4, LenProperties DEF Ids
<1>6. ASSUME NEW i \in Ids
      PROVE  /\ Same(tasks[i], tasks'[i])
             /\ \/ tasks'[i] = tasks[i]
                \/ tasks[i].status = "RUNNING" /\ tasks'[i].status = "QUEUED"
                   /\ tasks'[i].fence = tasks[i].fence + 1
  <2>1. tasks[i] \in Row
    BY <1>1
  <2>2. /\ Same(tasks[i], ReapedRow(tasks[i], None)) /\ ReapedRow(tasks[i], None).status = "QUEUED"
        /\ ReapedRow(tasks[i], None).fence = tasks[i].fence + 1
    BY <2>1, RowOps
  <2>3. CASE Stale(tasks[i])
    BY <1>2, <2>2, <2>3 DEF Stale
  <2>4. CASE ~Stale(tasks[i])
    BY <1>2, <2>4 DEF Same
  <2> QED
    BY <2>3, <2>4
<1> QED
  BY <1>4, <1>5, <1>6 DEF Reaps

-----------------------------------------------------------------------------
(* Effects: what each action does to the table and to the thread that      *)
(* takes it, in the terms in which the invariants are stated.              *)

\* Row i moves to a status, with a fence and an owner; it stays the same task.
Moves(i, st, n, who) ==
  /\ i \in Ids /\ Ids' = Ids /\ Len(tasks') = Len(tasks)
  /\ \A j \in Ids : Same(tasks[j], tasks'[j])
  /\ \A j \in Ids \ {i} : tasks'[j] = tasks[j]
  /\ tasks'[i].status = st /\ tasks'[i].fence = n /\ tasks'[i].claimedBy = who

Calm == runs' = runs /\ boundary' = boundary

\* The thread gives up what it was doing and writes nothing into the table.
Quits(h) == Turns(h, Resting) /\ tasks' = tasks /\ boundary' = boundary

Refreshes(i) ==
  Moves(i, tasks[i].status, tasks[i].fence, tasks[i].claimedBy) /\ th' = th /\ Calm

LEMMA PutMoves ==
  ASSUME NEW i \in Ids, NEW t, Puts(i, t), Same(tasks[i], t)
  PROVE  Moves(i, t.status, t.fence, t.claimedBy)
BY DEF Puts, Moves, Same

\* A status in which a task can be reported, parked, decided or cancelled.
LEMMA LegalSources ==
  ASSUME NEW st \in Status
  PROVE  /\ \A to \in {"DONE", "FAILED"} :
              transitionAllowed(st, to) => st \in {"RUNNING", "AWAITING"}
         /\ transitionAllowed(st, "AWAITING") => st = "RUNNING"
         /\ transitionAllowed(st, "CANCELLED") => st \in {"QUEUED", "RUNNING", "AWAITING"}
         /\ transitionAllowed(st, "RUNNING") => st = "QUEUED"
BY DEF transitionAllowed, legalTransitions, Status

LEMMA ClaimEffect ==
  ASSUME CInv, NEW w \in Workers, Claim(w)
  PROVE  /\ Types' /\ Calm /\ w \in Threads /\ At(w, "idle")
         /\ \E i \in Ids :
              /\ tasks[i].status = "QUEUED"
              /\ Moves(i, "RUNNING", tasks[i].fence + 1, w)
              /\ Turns(w, th'[w])
              /\ th'[w].pc = "running" /\ th'[w].run = tasks[i].run
              /\ th'[w].task = i /\ th'[w].fence = tasks[i].fence + 1
<1>1. PICK i \in Ids :
        /\ Claimable(tasks[i])
        /\ tasks' = [tasks EXCEPT ![i] = ClaimedRow(tasks[i], w)]
        /\ Become(w, [Resting EXCEPT !.pc = "running", !.run = tasks[i].run,
                                     !.task = i, !.fence = tasks[i].fence + 1])
  BY DEF Claim
<1> DEFINE n == tasks[i].fence + 1
           l == [Resting EXCEPT !.pc = "running", !.run = tasks[i].run, !.task = i, !.fence = n]
<1>2. Types /\ w \in Threads
  BY DEF CInv, Threads
<1>3. tasks[i] \in Row /\ i \in Nat /\ n \in Nat /\ tasks[i].run \in Runs
  BY <1>2, RowsAreRows DEF Types
<1>6. Become(w, l)
  BY <1>1
<1> DEFINE t == ClaimedRow(tasks[i], w)
<1>a. /\ t \in Row /\ Same(tasks[i], t) /\ t.status = "RUNNING" /\ t.fence = n /\ t.claimedBy = w
      /\ tasks' = [tasks EXCEPT ![i] = t]
  BY <1>1, <1>3, RowOps
<1> HIDE DEF n, t
<1>4. Puts(i, t)
  BY <1>2, <1>a, RowPut DEF Types
<1>5. Moves(i, "RUNNING", n, w)
  BY <1>a, <1>4, PutMoves
<1>7. /\ l \in Local /\ l.pc = "running" /\ l.run = tasks[i].run
      /\ l.task = i /\ l.fence = n
  BY <1>3 DEF Resting, Local, PCs, Marks, Status
<1> HIDE DEF l
<1>8. Turns(w, l)
  BY <1>2, <1>6, <1>7, ThreadTurns DEF Types
<1>9. /\ UNCHANGED <<runs, boundary, answers, calls, faults>> /\ At(w, "idle")
  BY DEF Claim, budget
<1>10. Types'
  BY <1>2, <1>4, <1>8, <1>9 DEF Types, Puts, Turns
<1>11. tasks[i].status = "QUEUED"
  BY <1>1 DEF Claimable
<1>12. /\ Turns(w, th'[w])
       /\ th'[w].pc = "running" /\ th'[w].run = tasks[i].run
       /\ th'[w].task = i /\ th'[w].fence = tasks[i].fence + 1
  BY <1>7, <1>8 DEF Turns, n
<1> QED
  BY <1>2, <1>5, <1>9, <1>10, <1>11, <1>12 DEF Calm, n

LEMMA HeartbeatEffect ==
  ASSUME CInv, NEW w \in Workers, Heartbeat(w)
  PROVE  Types' /\ Refreshes(th[w].task)
<1> DEFINE i == th[w].task
<1>1. Types /\ w \in Threads /\ i \in Ids
  BY DEF CInv, Threads, ThreadOK, Heartbeat, At
<1>2. tasks' = [tasks EXCEPT ![i] = [tasks[i] EXCEPT !.fresh = TRUE]]
  BY DEF Heartbeat
<1>3. tasks[i] \in Row
  BY <1>1, RowsAreRows DEF Types
<1> HIDE DEF i
<1>4. Puts(i, [tasks[i] EXCEPT !.fresh = TRUE])
  BY <1>1, <1>2, <1>3, RowOps, RowPut DEF Types
<1>5. Moves(i, tasks[i].status, tasks[i].fence, tasks[i].claimedBy)
  <2>1. /\ Same(tasks[i], [tasks[i] EXCEPT !.fresh = TRUE])
        /\ [tasks[i] EXCEPT !.fresh = TRUE].status = tasks[i].status
        /\ [tasks[i] EXCEPT !.fresh = TRUE].fence = tasks[i].fence
        /\ [tasks[i] EXCEPT !.fresh = TRUE].claimedBy = tasks[i].claimedBy
    BY <1>3, RowOps
  <2>2. Moves(i, [tasks[i] EXCEPT !.fresh = TRUE].status, [tasks[i] EXCEPT !.fresh = TRUE].fence,
              [tasks[i] EXCEPT !.fresh = TRUE].claimedBy)
    BY <1>1, <1>4, <2>1, PutMoves
  <2> QED
    BY <2>1, <2>2
<1>6. UNCHANGED <<runs, boundary, answers, th, calls, faults>>
  BY DEF Heartbeat, budget
<1> QED
  BY <1>1, <1>4, <1>5, <1>6 DEF Types, Puts, Refreshes, Calm, i

LEMMA HeartbeatExpiresEffect ==
  ASSUME CInv, NEW i \in Ids, HeartbeatExpires(i)
  PROVE  Types' /\ Refreshes(i)
<1>1. Types
  BY DEF CInv
<1>2. tasks' = [tasks EXCEPT ![i] = [tasks[i] EXCEPT !.fresh = FALSE]]
  BY DEF HeartbeatExpires
<1>3. tasks[i] \in Row
  BY <1>1, RowsAreRows DEF Types
<1> DEFINE t == [tasks[i] EXCEPT !.fresh = FALSE]
<1>4. /\ t \in Row /\ Same(tasks[i], t) /\ t.status = tasks[i].status
      /\ t.fence = tasks[i].fence /\ t.claimedBy = tasks[i].claimedBy
  BY <1>3, RowOps
<1>5. tasks' = [tasks EXCEPT ![i] = t]
  BY <1>2
<1> HIDE DEF t
<1>6. Puts(i, t)
  BY <1>1, <1>4, <1>5, RowPut DEF Types
<1>7. Moves(i, tasks[i].status, tasks[i].fence, tasks[i].claimedBy)
  BY <1>4, <1>6, PutMoves
<1>8. UNCHANGED <<runs, boundary, answers, th>> /\ calls' \in Nat /\ faults' \in Nat
  BY <1>1 DEF HeartbeatExpires, budget, Spend, Types
<1> QED
  BY <1>1, <1>6, <1>7, <1>8 DEF Types, Puts, Refreshes, Calm

LEMMA BackoffElapsesEffect ==
  ASSUME CInv, NEW i \in Ids, BackoffElapses(i)
  PROVE  Types' /\ Refreshes(i)
<1>1. Types
  BY DEF CInv
<1>2. tasks' = [tasks EXCEPT ![i] = [tasks[i] EXCEPT !.due = TRUE]]
  BY DEF BackoffElapses
<1>3. tasks[i] \in Row
  BY <1>1, RowsAreRows DEF Types
<1> DEFINE t == [tasks[i] EXCEPT !.due = TRUE]
<1>4. /\ t \in Row /\ Same(tasks[i], t) /\ t.status = tasks[i].status
      /\ t.fence = tasks[i].fence /\ t.claimedBy = tasks[i].claimedBy
  BY <1>3, RowOps
<1>5. tasks' = [tasks EXCEPT ![i] = t]
  BY <1>2
<1> HIDE DEF t
<1>6. Puts(i, t)
  BY <1>1, <1>4, <1>5, RowPut DEF Types
<1>7. Moves(i, tasks[i].status, tasks[i].fence, tasks[i].claimedBy)
  BY <1>4, <1>6, PutMoves
<1>8. UNCHANGED <<runs, boundary, answers, th, calls, faults>>
  BY DEF BackoffElapses, budget
<1> QED
  BY <1>1, <1>6, <1>7, <1>8 DEF Types, Puts, Refreshes, Calm

LEMMA RecordEffect ==
  ASSUME CInv, NEW w \in Workers, NEW to \in {"DONE", "FAILED", "AWAITING"}, NEW next \in Local,
         RecordResult(w, to, next)
  PROVE  /\ Types' /\ Calm /\ w \in Threads /\ At(w, "running")
         /\ \/ Quits(w)
            \/ /\ Holds(w) /\ tasks[th[w].task].status = "RUNNING"
               /\ Moves(th[w].task, to, tasks[th[w].task].fence, tasks[th[w].task].claimedBy)
               /\ Turns(w, next)
<1> DEFINE i == th[w].task
           t == MovedRow(tasks[i], to)
<1>1. /\ Types /\ w \in Threads /\ At(w, "running")
      /\ UNCHANGED <<runs, boundary, answers, calls, faults>>
  BY DEF CInv, Threads, RecordResult, budget
<1>2. i \in Ids
  BY <1>1 DEF CInv, ThreadOK, At
<1> HIDE DEF i
<1>3. tasks[i] \in Row /\ tasks[i].status \in Status /\ to \in Status
  BY <1>1, <1>2, RowsAreRows DEF Types, Status
<1>4. /\ t \in Row /\ Same(tasks[i], t) /\ t.status = to
      /\ t.fence = tasks[i].fence /\ t.claimedBy = tasks[i].claimedBy
  BY <1>3, RowOps
<1> HIDE DEF t
<1>5. CASE MayReport(tasks[i], th[w].fence, to)
  <2>1. tasks' = [tasks EXCEPT ![i] = t] /\ Become(w, next)
    BY <1>5 DEF RecordResult, t, i
  <2>2. Puts(i, t) /\ Turns(w, next)
    BY <1>1, <1>2, <1>4, <2>1, RowPut, ThreadTurns DEF Types
  <2>3. Moves(i, to, tasks[i].fence, tasks[i].claimedBy)
    BY <1>2, <1>4, <2>2, PutMoves
  <2>4. Holds(w) /\ transitionAllowed(tasks[i].status, to)
    BY <1>1, <1>5 DEF Holds, MayReport, i
  <2>5. tasks[i].status = "RUNNING"
    <3>1. tasks[i].status \in {"RUNNING", "CANCELLED"}
      BY <1>1, <2>4 DEF CInv, CurrentClaimsHold, i
    <3> QED
      BY <1>3, <2>4, <3>1, LegalSources
  <2>6. Types'
    BY <1>1, <2>2 DEF Types, Puts, Turns
  <2> QED
    BY <1>1, <2>2, <2>3, <2>4, <2>5, <2>6 DEF Calm, i
<1>6. CASE ~MayReport(tasks[i], th[w].fence, to)
  <2>1. tasks' = tasks /\ Rest(w)
    BY <1>6 DEF RecordResult, i
  <2>2. Turns(w, Resting)
    BY <1>1, <2>1, ThreadRests DEF Types
  <2>3. Types'
    BY <1>1, <2>1, <2>2 DEF Types, Turns
  <2> QED
    BY <1>1, <2>1, <2>2, <2>3 DEF Calm, Quits
<1> QED
  BY <1>5, <1>6

LEMMA ReportEffect ==
  ASSUME CInv, NEW w \in Workers, NEW ok \in BOOLEAN, Report(w, ok)
  PROVE  /\ Types' /\ Calm /\ w \in Threads /\ At(w, "running")
         /\ \/ Quits(w)
            \/ /\ Holds(w) /\ tasks[th[w].task].status = "RUNNING"
               /\ StepOf(w).kind = "work"
               /\ Moves(th[w].task, IF ok THEN "DONE" ELSE "FAILED",
                        tasks[th[w].task].fence, tasks[th[w].task].claimedBy)
               /\ Turns(w, th'[w]) /\ th'[w].pc = "decide" /\ th'[w].ok = ok
               /\ th'[w].run = th[w].run /\ th'[w].task = th[w].task
<1> DEFINE next == [th[w] EXCEPT !.pc = "decide", !.ok = ok, !.fence = 0]
           to == IF ok THEN "DONE" ELSE "FAILED"
<1>1. th[w] \in Local
  BY DEF CInv, Types, Threads
<1>2. /\ next \in Local /\ next.pc = "decide" /\ next.ok = ok
      /\ next.run = th[w].run /\ next.task = th[w].task
  BY <1>1 DEF Local, PCs
<1>3. RecordResult(w, to, next) /\ to \in {"DONE", "FAILED", "AWAITING"} /\ StepOf(w).kind = "work"
  BY DEF Report
<1> HIDE DEF next, to
<1>4. /\ Types' /\ Calm /\ w \in Threads /\ At(w, "running")
      /\ \/ Quits(w)
         \/ /\ Holds(w) /\ tasks[th[w].task].status = "RUNNING"
            /\ Moves(th[w].task, to, tasks[th[w].task].fence, tasks[th[w].task].claimedBy)
            /\ Turns(w, next)
  BY <1>2, <1>3, RecordEffect
<1>5. Turns(w, next) => th'[w] = next
  BY DEF Turns
<1> QED
  BY <1>2, <1>3, <1>4, <1>5 DEF to

LEMMA ParkEffect ==
  ASSUME CInv, NEW w \in Workers, Park(w)
  PROVE  /\ Types' /\ Calm /\ w \in Threads /\ At(w, "running")
         /\ \/ Quits(w)
            \/ /\ Holds(w) /\ tasks[th[w].task].status = "RUNNING"
               /\ Moves(th[w].task, "AWAITING", tasks[th[w].task].fence, tasks[th[w].task].claimedBy)
               /\ Turns(w, Resting)
BY RecordEffect, RestingType DEF Park

LEMMA FailTaskEffect ==
  ASSUME CInv, NEW w \in Workers, FailTask(w)
  PROVE  /\ Types' /\ Calm /\ w \in Threads /\ At(w, "running") /\ Infra
         /\ \/ Quits(w)
            \/ /\ Holds(w) /\ tasks[th[w].task].status = "RUNNING"
               /\ Moves(th[w].task, "FAILED", tasks[th[w].task].fence, tasks[th[w].task].claimedBy)
               /\ Turns(w, th'[w]) /\ th'[w].pc = "apply" /\ th'[w].step = 0 /\ th'[w].to = "FAILED"
               /\ th'[w].run = th[w].run /\ th'[w].task = th[w].task
<1> DEFINE next == [th[w] EXCEPT !.pc = "apply", !.step = 0, !.to = "FAILED", !.fence = 0]
<1>1. th[w] \in Local
  BY DEF CInv, Types, Threads
<1>2. /\ next \in Local /\ next.pc = "apply" /\ next.step = 0 /\ next.to = "FAILED"
      /\ next.run = th[w].run /\ next.task = th[w].task
  BY <1>1 DEF Local, PCs, Status
<1>3. RecordResult(w, "FAILED", next) /\ Infra
  BY DEF FailTask
<1> HIDE DEF next
<1>4. /\ Types' /\ Calm /\ w \in Threads /\ At(w, "running")
      /\ \/ Quits(w)
         \/ /\ Holds(w) /\ tasks[th[w].task].status = "RUNNING"
            /\ Moves(th[w].task, "FAILED", tasks[th[w].task].fence, tasks[th[w].task].claimedBy)
            /\ Turns(w, next)
  BY <1>2, <1>3, RecordEffect
<1>5. Turns(w, next) => th'[w] = next
  BY DEF Turns
<1> QED
  BY <1>2, <1>3, <1>4, <1>5

LEMMA RequeueTransientEffect ==
  ASSUME CInv, NEW w \in Workers, RequeueTransient(w)
  PROVE  /\ Types' /\ Calm /\ w \in Threads /\ At(w, "running")
         /\ \/ Quits(w)
            \/ /\ Holds(w) /\ tasks[th[w].task].status \in {"RUNNING", "CANCELLED"}
               /\ Moves(th[w].task, "QUEUED", tasks[th[w].task].fence + 1, tasks'[th[w].task].claimedBy)
               /\ Turns(w, Resting)
<1> DEFINE i == th[w].task
           t == BackedOffRow(tasks[i], None)
<1>1. /\ Types /\ w \in Threads /\ At(w, "running") /\ Turns(w, Resting)
      /\ UNCHANGED <<runs, boundary, answers, calls>> /\ faults' \in Nat
  BY ThreadRests DEF CInv, Threads, RequeueTransient, Spend, Types
<1>2. i \in Ids
  BY <1>1 DEF CInv, ThreadOK, At
<1> HIDE DEF i
<1>3. tasks[i] \in Row
  BY <1>1, <1>2, RowsAreRows DEF Types
<1>4. t \in Row /\ Same(tasks[i], t) /\ t.status = "QUEUED" /\ t.fence = tasks[i].fence + 1
  BY <1>3, RowOps
<1> HIDE DEF t
<1>5. CASE MayRequeue(tasks[i], th[w].fence)
  <2>1. tasks' = [tasks EXCEPT ![i] = t]
    BY <1>5 DEF RequeueTransient, t, i
  <2>2. Puts(i, t)
    BY <1>1, <1>2, <1>4, <2>1, RowPut DEF Types
  <2>3. Moves(i, "QUEUED", tasks[i].fence + 1, t.claimedBy) /\ tasks'[i] = t
    BY <1>2, <1>4, <2>2, PutMoves DEF Puts
  <2>4. Holds(w) /\ tasks[i].status \in {"RUNNING", "CANCELLED"}
    BY <1>1, <1>5 DEF Holds, MayRequeue, CInv, CurrentClaimsHold, i
  <2>5. Types'
    BY <1>1, <2>2 DEF Types, Puts, Turns
  <2> QED
    BY <1>1, <2>3, <2>4, <2>5 DEF Calm, i
<1>6. CASE ~MayRequeue(tasks[i], th[w].fence)
  <2>1. tasks' = tasks
    BY <1>6 DEF RequeueTransient, i
  <2>2. Types'
    BY <1>1, <2>1 DEF Types, Turns
  <2> QED
    BY <1>1, <2>1, <2>2 DEF Calm, Quits
<1> QED
  BY <1>5, <1>6

LEMMA StepFacts ==
  /\ 1 \in Steps /\ Steps \subseteq Nat /\ 0 \notin Steps /\ Steps = 1..Len(Flow) /\ Len(Flow) \in Nat
  /\ \A s \in Steps : /\ Flow[s].kind \in Kinds /\ Flow[s].goto \in Steps \cup {0}
                      /\ Flow[s].max \in Nat /\ Flow[s].skippable \in BOOLEAN
<1> DEFINE Step == [kind: Kinds, goto: Nat, max: Nat, skippable: BOOLEAN]
<1>1. Flow \in Seq(Step) /\ Flow # <<>>
  BY FlowAssumption
<1>2. Len(Flow) \in Nat /\ Flow \in [1..Len(Flow) -> Step] /\ DOMAIN Flow = 1..Len(Flow)
  BY <1>1, LenProperties
<1>3. Len(Flow) # 0
  BY <1>1, EmptySeq
<1>4. \A s \in Steps : Flow[s] \in Step
  BY <1>2 DEF Steps
<1> QED
  BY <1>2, <1>3, <1>4, GotoAssumption DEF Steps

LEMMA DecideEffect ==
  ASSUME CInv, NEW h \in Threads, Decide(h)
  PROVE  /\ Types' /\ Calm /\ tasks' = tasks /\ At(h, "decide")
         /\ Turns(h, th'[h]) /\ th'[h].pc = "apply"
         /\ th'[h].run = th[h].run /\ th'[h].task = th[h].task
         /\ LET t == tasks[th[h].task]  n == th'[h].step IN
              \/ /\ th[h].ok /\ n = 0 /\ th'[h].to = "DONE"
                 /\ t.mark = "none" => 0 \in NextSteps(t.step)
              \/ /\ th[h].ok /\ n \in NextSteps(t.step) \ {0}
                 /\ \/ t.mark = "none" /\ th'[h].mark = "none"
                    \/ t.mark = "rerun" /\ th'[h].mark = "rerun_terminal" /\ Flow[n].kind = "human_gate"
              \/ /\ ~th[h].ok /\ n = Flow[t.step].goto /\ n # 0 /\ th'[h].mark = "none"
                 /\ countFailures(t.run, t.step) <= Flow[t.step].max
              \/ /\ ~th[h].ok /\ n = 0 /\ th'[h].to = "FAILED"
                 /\ Flow[t.step].goto # 0 => ~(countFailures(t.run, t.step) <= Flow[t.step].max)
<1> DEFINE t == tasks[th[h].task]
<1>1. /\ Types /\ At(h, "decide") /\ th[h] \in Local
      /\ UNCHANGED <<tasks, runs, boundary, answers, calls, faults>>
  BY DEF CInv, Decide, store, budget, Types
<1>2. t \in Row /\ t.step \in Steps /\ t.mark \in Marks
  <2>1. th[h].task \in Ids
    BY <1>1 DEF CInv, ThreadOK, At
  <2> QED
    BY <1>1, <2>1, RowsAreRows DEF Types, Row
<1>3. PICK plan \in (IF th[h].ok THEN AfterSuccess(h, t) ELSE AfterFailure(h, t)) : Become(h, plan)
  BY DEF Decide
<1>4. \A s \in Steps, m \in Marks :
        /\ EnqueuePlan(h, s, m) \in Local /\ EnqueuePlan(h, s, m).pc = "apply"
        /\ EnqueuePlan(h, s, m).run = th[h].run /\ EnqueuePlan(h, s, m).task = th[h].task
        /\ EnqueuePlan(h, s, m).step = s /\ EnqueuePlan(h, s, m).mark = m
  BY <1>1, StepFacts DEF EnqueuePlan, Local, PCs
<1>5. \A to \in {"DONE", "FAILED"} :
        /\ FinishPlan(h, to) \in Local /\ FinishPlan(h, to).pc = "apply"
        /\ FinishPlan(h, to).run = th[h].run /\ FinishPlan(h, to).task = th[h].task
        /\ FinishPlan(h, to).step = 0 /\ FinishPlan(h, to).to = to
  BY <1>1 DEF FinishPlan, Local, PCs, Status
<1> DEFINE Choice ==
              \/ /\ th[h].ok /\ plan.step = 0 /\ plan.to = "DONE"
                 /\ t.mark = "none" => 0 \in NextSteps(t.step)
              \/ /\ th[h].ok /\ plan.step \in NextSteps(t.step) \ {0}
                 /\ \/ t.mark = "none" /\ plan.mark = "none"
                    \/ t.mark = "rerun" /\ plan.mark = "rerun_terminal" /\ Flow[plan.step].kind = "human_gate"
              \/ /\ ~th[h].ok /\ plan.step = Flow[t.step].goto /\ plan.step # 0 /\ plan.mark = "none"
                 /\ countFailures(t.run, t.step) <= Flow[t.step].max
              \/ /\ ~th[h].ok /\ plan.step = 0 /\ plan.to = "FAILED"
                 /\ Flow[t.step].goto # 0 => ~(countFailures(t.run, t.step) <= Flow[t.step].max)
           Good == /\ plan \in Local /\ plan.pc = "apply"
                   /\ plan.run = th[h].run /\ plan.task = th[h].task
<1>6. ASSUME th[h].ok
      PROVE  Good /\ Choice
  <2>1. CASE t.mark = "rerun_terminal"
    <3>1. plan = FinishPlan(h, "DONE")
      BY <1>3, <1>6, <2>1 DEF AfterSuccess
    <3> QED
      BY <1>5, <1>6, <2>1, <3>1
  <2>2. CASE t.mark # "rerun_terminal"
    <3>1. PICK n \in NextSteps(t.step) :
            plan = IF n = 0 THEN FinishPlan(h, "DONE")
                   ELSE IF t.mark # "rerun" THEN EnqueuePlan(h, n, "none")
                   ELSE IF Flow[n].kind = "human_gate" THEN EnqueuePlan(h, n, "rerun_terminal")
                   ELSE FinishPlan(h, "DONE")
      BY <1>3, <1>6, <2>2 DEF AfterSuccess
    <3>2. n \in Steps \cup {0}
      BY DEF NextSteps
    <3>3. {"none", "rerun_terminal"} \subseteq Marks /\ t.mark \in {"none", "rerun", "rerun_terminal"}
      BY <1>2 DEF Marks
    <3>4. CASE n = 0
      BY <1>5, <1>6, <3>1, <3>4
    <3>5. CASE n # 0 /\ t.mark # "rerun"
      BY <1>4, <1>6, <2>2, <3>1, <3>2, <3>3, <3>5
    <3>6. CASE n # 0 /\ t.mark = "rerun"
      BY <1>4, <1>5, <1>6, <3>1, <3>2, <3>3, <3>6
    <3> QED
      BY <3>4, <3>5, <3>6
  <2> QED
    BY <2>1, <2>2
<1>7. ASSUME ~th[h].ok
      PROVE  Good /\ Choice
  <2>1. plan \in AfterFailure(h, t)
    BY <1>3, <1>7
  <2>2. CASE Flow[t.step].goto # 0 /\ countFailures(t.run, t.step) <= Flow[t.step].max
    <3> DEFINE n == Flow[t.step].goto
    <3>1. plan = EnqueuePlan(h, n, "none")
      BY <2>1, <2>2 DEF AfterFailure
    <3>2. n \in Steps /\ "none" \in Marks /\ n # 0
      BY <1>2, <2>2, StepFacts DEF Marks
    <3> HIDE DEF n, t
    <3>3. Good /\ plan.step = n /\ plan.mark = "none"
      BY <1>4, <3>1, <3>2
    <3> QED
      BY <1>7, <2>2, <3>2, <3>3 DEF n
  <2>3. CASE ~(Flow[t.step].goto # 0 /\ countFailures(t.run, t.step) <= Flow[t.step].max)
    <3>1. plan = FinishPlan(h, "FAILED")
      BY <2>1, <2>3 DEF AfterFailure
    <3> QED
      BY <1>5, <1>7, <2>3, <3>1
  <2> QED
    BY <2>2, <2>3
<1>8. Good /\ Choice
  BY <1>6, <1>7
<1>9. Turns(h, plan) /\ th'[h] = plan
  BY <1>1, <1>3, <1>8, ThreadTurns DEF Types, Turns
<1>10. Types'
  BY <1>1, <1>9 DEF Types, Turns
<1> QED
  BY <1>1, <1>8, <1>9, <1>10 DEF Calm

\* The status of one run changes.
Sets(r, to) == runs'[r] = to /\ \A q \in Runs \ {r} : runs'[q] = runs[q]

LEMMA StatusIsSet ==
  ASSUME runs \in [Runs -> Status \cup {"NONE"}], NEW r \in Runs, NEW to \in Status, runs[r] # "NONE",
         SetRunStatus(r, to)
  PROVE  /\ runs' \in [Runs -> Status \cup {"NONE"}]
         /\ \/ runs' = runs
            \/ transitionAllowed(runs[r], to) /\ Sets(r, to)
BY DEF SetRunStatus, Sets

LEMMA ApplyEffect ==
  ASSUME CInv, NEW h \in Threads, Apply(h)
  PROVE  /\ Types' /\ At(h, "apply")
         /\ \/ /\ th[h].step \in Steps /\ Calm /\ Turns(h, Resting)
               /\ Adds(th[h].run, th[h].step, th[h].mark)
            \/ /\ th[h].step = 0 /\ Quits(h)
               /\ runs' = runs \/ Sets(th[h].run, th[h].to)
<1>1. /\ Types /\ At(h, "apply") /\ ThreadOK(h) /\ th[h] \in Local
      /\ UNCHANGED <<boundary, answers, calls, faults>>
      /\ Turns(h, Resting)
  BY ThreadRests DEF CInv, Apply, budget, Types
<1>2. th[h].run \in Runs /\ runs[th[h].run] # "NONE" /\ th[h].step \in Steps \cup {0} /\ th[h].mark \in Marks
  BY <1>1 DEF ThreadOK, At, Local
<1>3. CASE th[h].step # 0
  <2>1. Enqueue(th[h].run, th[h].step, th[h].mark) /\ runs' = runs
    BY <1>3 DEF Apply
  <2>2. Adds(th[h].run, th[h].step, th[h].mark)
    BY <1>1, <1>2, <1>3, <2>1, RowAdded DEF Types
  <2>3. Types'
    BY <1>1, <2>1, <2>2 DEF Types, Adds, Turns
  <2> QED
    BY <1>1, <1>2, <1>3, <2>1, <2>2, <2>3 DEF Calm
<1>4. CASE th[h].step = 0
  <2>1. SetRunStatus(th[h].run, th[h].to) /\ tasks' = tasks
    BY <1>4 DEF Apply
  <2>2. th[h].to \in Status
    BY <1>1 DEF Local
  <2>3. /\ runs' \in [Runs -> Status \cup {"NONE"}]
        /\ runs' = runs \/ Sets(th[h].run, th[h].to)
    BY <1>1, <1>2, <2>1, <2>2, StatusIsSet DEF Types
  <2>4. Types'
    BY <1>1, <2>1, <2>3 DEF Types, Turns
  <2> QED
    BY <1>1, <1>4, <2>1, <2>3, <2>4 DEF Quits
<1> QED
  BY <1>3, <1>4

LEMMA StartCreateEffect ==
  ASSUME CInv, NEW c \in Clients, NEW r \in Runs, StartCreate(c, r)
  PROVE  /\ Types' /\ c \in Threads /\ At(c, "idle") /\ tasks' = tasks /\ boundary' = boundary
         /\ runs[r] = "NONE" /\ Sets(r, "QUEUED")
         /\ Turns(c, th'[c]) /\ th'[c].pc = "start_enqueue" /\ th'[c].run = r
<1> DEFINE l == [Resting EXCEPT !.pc = "start_enqueue", !.run = r]
<1>1. /\ Types /\ c \in Threads /\ At(c, "idle") /\ runs[r] = "NONE"
      /\ UNCHANGED <<tasks, boundary, answers, faults>> /\ calls' \in Nat
      /\ runs' = [runs EXCEPT ![r] = "QUEUED"] /\ Become(c, l)
  BY DEF CInv, Threads, StartCreate, Call, Types
<1>2. l \in Local /\ l.pc = "start_enqueue" /\ l.run = r
  BY DEF Resting, Local, PCs, Marks, Status
<1> HIDE DEF l
<1>3. Turns(c, l) /\ th'[c] = l
  BY <1>1, <1>2, ThreadTurns DEF Types, Turns
<1>4. Sets(r, "QUEUED") /\ runs' \in [Runs -> Status \cup {"NONE"}]
  BY <1>1 DEF Types, Sets, Status
<1>5. Types'
  BY <1>1, <1>3, <1>4 DEF Types, Turns
<1> QED
  BY <1>1, <1>2, <1>3, <1>4, <1>5

LEMMA StartEnqueueEffect ==
  ASSUME CInv, NEW c \in Clients, StartEnqueue(c)
  PROVE  /\ Types' /\ Calm /\ c \in Threads /\ At(c, "start_enqueue")
         /\ Adds(th[c].run, 1, "none")
         /\ Turns(c, th'[c]) /\ th'[c].pc = "start_running" /\ th'[c].run = th[c].run
<1> DEFINE l == [th[c] EXCEPT !.pc = "start_running"]
<1>1. /\ Types /\ c \in Threads /\ At(c, "start_enqueue") /\ ThreadOK(c) /\ th[c] \in Local
      /\ UNCHANGED <<runs, boundary, answers, calls, faults>>
      /\ Enqueue(th[c].run, 1, "none") /\ Become(c, l)
  BY DEF CInv, Threads, StartEnqueue, budget, Types
<1>2. th[c].run \in Runs /\ "none" \in Marks
  BY <1>1 DEF ThreadOK, At, Marks
<1>3. l \in Local /\ l.pc = "start_running" /\ l.run = th[c].run
  BY <1>1 DEF Local, PCs
<1> HIDE DEF l
<1>4. Turns(c, l) /\ th'[c] = l
  BY <1>1, <1>3, ThreadTurns DEF Types, Turns
<1>5. Adds(th[c].run, 1, "none")
  BY <1>1, <1>2, StepFacts, RowAdded DEF Types
<1>6. Types'
  BY <1>1, <1>4, <1>5 DEF Types, Turns, Adds
<1> QED
  BY <1>1, <1>3, <1>4, <1>5, <1>6 DEF Calm

LEMMA StartSeedFailsEffect ==
  ASSUME CInv, NEW c \in Clients, StartSeedFails(c)
  PROVE  Types' /\ Calm /\ c \in Threads /\ At(c, "start_enqueue") /\ Quits(c)
<1>1. /\ Types /\ c \in Threads /\ At(c, "start_enqueue") /\ Turns(c, Resting)
      /\ UNCHANGED <<tasks, runs, boundary, answers, calls, faults>>
  BY ThreadRests DEF CInv, Threads, StartSeedFails, store, budget, Types
<1> QED
  BY <1>1 DEF Types, Turns, Calm, Quits

LEMMA StartRunningEffect ==
  ASSUME CInv, NEW c \in Clients, StartRunning(c)
  PROVE  /\ Types' /\ c \in Threads /\ At(c, "start_running") /\ Quits(c)
         /\ runs' = runs \/ (runs[th[c].run] = "QUEUED" /\ Sets(th[c].run, "RUNNING"))
<1>1. /\ Types /\ c \in Threads /\ At(c, "start_running") /\ ThreadOK(c) /\ Turns(c, Resting)
      /\ UNCHANGED <<tasks, boundary, answers, calls, faults>>
      /\ SetRunStatus(th[c].run, "RUNNING")
  BY ThreadRests DEF CInv, Threads, StartRunning, budget, Types
<1>2. /\ th[c].run \in Runs /\ runs[th[c].run] # "NONE" /\ "RUNNING" \in Status
      /\ runs[th[c].run] \in Status
  BY <1>1 DEF ThreadOK, At, Status, Types
<1>3. /\ runs' \in [Runs -> Status \cup {"NONE"}]
      /\ runs' = runs \/ (transitionAllowed(runs[th[c].run], "RUNNING") /\ Sets(th[c].run, "RUNNING"))
  BY <1>1, <1>2, StatusIsSet DEF Types
<1>4. Types'
  BY <1>1, <1>3 DEF Types, Turns
<1> QED
  BY <1>1, <1>2, <1>3, <1>4, LegalSources DEF Quits

LEMMA ResolveEffect ==
  ASSUME CInv, NEW c \in Clients, NEW r \in Runs, NEW s \in Steps, NEW ok \in BOOLEAN, Resolve(c, r, s, ok)
  PROVE  /\ Types' /\ Calm /\ c \in Threads /\ At(c, "idle")
         /\ (IF ok THEN "approve" ELSE "reject") \in Ops
         /\ \E i \in Ids :
              /\ tasks[i].status = "AWAITING"
              /\ Moves(i, IF ok THEN "DONE" ELSE "FAILED", tasks[i].fence, tasks[i].claimedBy)
              /\ Turns(c, th'[c]) /\ th'[c].pc = "decide" /\ th'[c].ok = ok
              /\ th'[c].run = tasks[i].run /\ th'[c].task = i
<1> DEFINE to == IF ok THEN "DONE" ELSE "FAILED"
<1>1. /\ Types /\ c \in Threads /\ At(c, "idle") /\ (IF ok THEN "approve" ELSE "reject") \in Ops
      /\ UNCHANGED <<runs, boundary, answers, faults>> /\ calls' \in Nat
  BY DEF CInv, Threads, Resolve, Call, Types
<1>2. PICK i \in Ids :
        /\ tasks[i].run = r /\ tasks[i].status = "AWAITING"
        /\ tasks' = [tasks EXCEPT ![i] = MovedRow(tasks[i], to)]
        /\ Become(c, [Resting EXCEPT !.pc = "decide", !.run = r, !.task = i, !.ok = ok])
  BY DEF Resolve, NewestAwaiting
<1> DEFINE t == MovedRow(tasks[i], to)
           l == [Resting EXCEPT !.pc = "decide", !.run = r, !.task = i, !.ok = ok]
<1>3. tasks[i] \in Row /\ i \in Nat /\ to \in Status
  BY <1>1, RowsAreRows DEF Types, Status
<1> HIDE DEF to
<1>4. /\ t \in Row /\ Same(tasks[i], t) /\ t.status = to
      /\ t.fence = tasks[i].fence /\ t.claimedBy = tasks[i].claimedBy
  BY <1>3, RowOps
<1>5. l \in Local /\ l.pc = "decide" /\ l.run = r /\ l.task = i /\ l.ok = ok
  BY <1>3 DEF Resting, Local, PCs, Marks, Status
<1>6. tasks' = [tasks EXCEPT ![i] = t] /\ Become(c, l)
  BY <1>2
<1> HIDE DEF t, l
<1>7. Puts(i, t)
  BY <1>1, <1>4, <1>6, RowPut DEF Types
<1>8. Moves(i, to, tasks[i].fence, tasks[i].claimedBy)
  BY <1>4, <1>7, PutMoves
<1>9. Turns(c, l) /\ th'[c] = l
  BY <1>1, <1>5, <1>6, ThreadTurns DEF Types, Turns
<1>10. Types'
  BY <1>1, <1>7, <1>9 DEF Types, Turns, Puts
<1> QED
  BY <1>1, <1>2, <1>5, <1>8, <1>9, <1>10 DEF Calm, to

LEMMA AnswerCountEffect ==
  ASSUME CInv, NEW c \in Clients, NEW r \in Runs, NEW s \in Steps, AnswerCount(c, r, s)
  PROVE  /\ Types' /\ Calm /\ tasks' = tasks /\ c \in Threads /\ At(c, "idle")
         /\ "answer" \in Ops /\ runs[r] # "NONE" /\ Flow[s].goto # 0
         /\ Turns(c, th'[c]) /\ th'[c].pc = "answer" /\ th'[c].run = r /\ th'[c].step = s
         /\ th'[c].mark = "none"
<1> DEFINE l == [Resting EXCEPT !.pc = "answer", !.run = r, !.step = s]
<1>1. /\ Types /\ c \in Threads /\ At(c, "idle") /\ "answer" \in Ops /\ runs[r] # "NONE" /\ Flow[s].goto # 0
      /\ UNCHANGED <<tasks, runs, boundary, answers, faults>> /\ calls' \in Nat /\ Become(c, l)
  BY DEF CInv, Threads, AnswerCount, Call, Types, store
<1>2. s \in Nat
  BY StepFacts
<1>3. l \in Local /\ l.pc = "answer" /\ l.run = r /\ l.step = s /\ l.mark = "none"
  BY <1>2 DEF Resting, Local, PCs, Marks, Status
<1> HIDE DEF l
<1>4. Turns(c, l) /\ th'[c] = l
  BY <1>1, <1>3, ThreadTurns DEF Types, Turns
<1>5. Types'
  BY <1>1, <1>4 DEF Types, Turns
<1> QED
  BY <1>1, <1>3, <1>4, <1>5 DEF Calm

LEMMA AnswerAwaitingEffect ==
  ASSUME CInv, NEW c \in Clients, AnswerAwaiting(c)
  PROVE  /\ Types' /\ Calm /\ c \in Threads /\ At(c, "answer")
         /\ \/ Quits(c)
            \/ \E i \in Ids :
                 /\ tasks[i].status = "AWAITING" /\ tasks[i].run = th[c].run
                 /\ tasks[i].step = th[c].step
                 /\ Moves(i, "DONE", tasks[i].fence, tasks[i].claimedBy)
                 /\ Turns(c, th'[c]) /\ th'[c].pc = "apply" /\ th'[c].run = th[c].run
                 /\ th'[c].task = i /\ th'[c].step = Flow[th[c].step].goto
                 /\ th'[c].mark = th[c].mark
<1>1. /\ Types /\ c \in Threads /\ At(c, "answer") /\ ThreadOK(c) /\ th[c] \in Local
      /\ UNCHANGED <<runs, boundary, calls, faults>>
  BY DEF CInv, Threads, AnswerAwaiting, budget, Types
<1>2. th[c].run \in Runs /\ th[c].step \in Steps /\ Flow[th[c].step].goto \in Nat
  BY <1>1, StepFacts DEF ThreadOK, At
<1>3. CASE \E i \in Ids : NewestAwaiting(th[c].run, th[c].step, i)
  <2>1. PICK i \in Ids :
          /\ tasks[i].run = th[c].run /\ tasks[i].step = th[c].step /\ tasks[i].status = "AWAITING"
          /\ tasks' = [tasks EXCEPT ![i] = MovedRow(tasks[i], "DONE")]
          /\ answers' = [answers EXCEPT ![th[c].run][th[c].step] = @ + 1]
          /\ Become(c, [th[c] EXCEPT !.pc = "apply", !.task = i, !.step = Flow[th[c].step].goto])
    BY <1>3 DEF AnswerAwaiting, NewestAwaiting
  <2> DEFINE t == MovedRow(tasks[i], "DONE")
             g == Flow[th[c].step].goto
             l == [th[c] EXCEPT !.pc = "apply", !.task = i, !.step = g]
  <2>2. tasks[i] \in Row /\ i \in Nat /\ g \in Nat /\ "DONE" \in Status
    BY <1>1, <1>2, RowsAreRows DEF Types, Status
  <2>3. /\ t \in Row /\ Same(tasks[i], t) /\ t.status = "DONE"
        /\ t.fence = tasks[i].fence /\ t.claimedBy = tasks[i].claimedBy
    BY <2>2, RowOps
  <2>4. tasks' = [tasks EXCEPT ![i] = t] /\ Become(c, l)
    BY <2>1
  <2> HIDE DEF t, g
  <2>5. /\ l \in Local /\ l.pc = "apply" /\ l.run = th[c].run /\ l.task = i /\ l.step = g
        /\ l.mark = th[c].mark
    BY <1>1, <2>2 DEF Local, PCs
  <2> HIDE DEF l
  <2>6. Puts(i, t)
    BY <1>1, <2>3, <2>4, RowPut DEF Types
  <2>7. Moves(i, "DONE", tasks[i].fence, tasks[i].claimedBy)
    BY <2>3, <2>6, PutMoves
  <2>8. Turns(c, l) /\ th'[c] = l
    BY <1>1, <2>4, <2>5, ThreadTurns DEF Types, Turns
  <2>9. answers' \in [Runs -> [Steps -> Nat]]
    <3>1. answers \in [Runs -> [Steps -> Nat]]
      BY <1>1 DEF Types
    <3>2. [answers[th[c].run] EXCEPT ![th[c].step] = @ + 1] \in [Steps -> Nat]
      BY <1>2, <3>1
    <3> QED
      BY <1>2, <2>1, <3>1, <3>2
  <2>10. Types'
    BY <1>1, <2>6, <2>8, <2>9 DEF Types, Turns, Puts
  <2> QED
    BY <1>1, <2>1, <2>5, <2>7, <2>8, <2>10 DEF Calm, g
<1>4. CASE ~\E i \in Ids : NewestAwaiting(th[c].run, th[c].step, i)
  <2>1. Rest(c) /\ UNCHANGED <<tasks, answers>>
    BY <1>4 DEF AnswerAwaiting
  <2>2. Turns(c, Resting)
    BY <1>1, <2>1, ThreadRests DEF Types
  <2>3. Types'
    BY <1>1, <2>1, <2>2 DEF Types, Turns
  <2> QED
    BY <1>1, <2>1, <2>2, <2>3 DEF Calm, Quits
<1> QED
  BY <1>3, <1>4

LEMMA CancelListEffect ==
  ASSUME CInv, NEW c \in Clients, NEW r \in Runs, CancelList(c, r)
  PROVE  /\ Types' /\ Calm /\ tasks' = tasks /\ c \in Threads /\ At(c, "idle") /\ runs[r] # "NONE"
         /\ Turns(c, th'[c]) /\ th'[c].pc = "cancel" /\ th'[c].run = r /\ th'[c].todo \subseteq Ids
<1> DEFINE some == {i \in Ids : tasks[i].run = r /\ ~IsTerminal(tasks[i].status)}
           l == [Resting EXCEPT !.pc = "cancel", !.run = r, !.todo = some]
<1>1. /\ Types /\ c \in Threads /\ At(c, "idle") /\ runs[r] # "NONE"
      /\ UNCHANGED <<tasks, runs, boundary, answers, faults>> /\ calls' \in Nat /\ Become(c, l)
  BY DEF CInv, Threads, CancelList, Call, Types, store
<1>2. some \subseteq Ids /\ some \in SUBSET Nat
  BY <1>1, RowsAreRows DEF Types
<1> HIDE DEF some
<1>3. l \in Local /\ l.pc = "cancel" /\ l.run = r /\ l.todo = some
  BY <1>2 DEF Resting, Local, PCs, Marks, Status
<1> HIDE DEF l
<1>4. Turns(c, l) /\ th'[c] = l
  BY <1>1, <1>3, ThreadTurns DEF Types, Turns
<1>5. Types'
  BY <1>1, <1>4 DEF Types, Turns
<1> QED
  BY <1>1, <1>2, <1>3, <1>4, <1>5 DEF Calm

\* Every set of numbers has a least one, every set of task numbers a greatest.
LessThan == {p \in Nat \X Nat : p[1] < p[2]}

LEMMA NatWF == IsWellFoundedOn(LessThan, Nat)
<1>1. LessThan = OpToRel(<, Nat)
  BY DEF LessThan, OpToRel
<1> QED
  BY <1>1, NatLessThanWellFounded

LEMMA Least ==
  ASSUME NEW S \in SUBSET Nat, S # {}
  PROVE  \E a \in S : \A i \in S : a <= i
<1>1. PICK a \in S : \A i \in S : <<i, a>> \notin LessThan
  BY NatWF, WFMin
<1>2. \A i \in S : <<i, a>> \in Nat \X Nat /\ <<i, a>>[1] = i /\ <<i, a>>[2] = a
  OBVIOUS
<1>3. \A i \in S : ~(i < a)
  BY <1>1, <1>2 DEF LessThan
<1> QED
  BY <1>3

LEMMA Greatest ==
  ASSUME NEW n \in Nat, NEW S \in SUBSET (1..n), S # {}
  PROVE  \E a \in S : \A i \in S : i <= a
<1> DEFINE T == {n - i : i \in S}
<1>1. T \in SUBSET Nat /\ T # {}
  <2>1. PICK i \in S : TRUE
    OBVIOUS
  <2>2. n - i \in T
    OBVIOUS
  <2>3. \A k \in S : n - k \in Nat
    OBVIOUS
  <2> QED
    BY <2>2, <2>3
<1>2. PICK a \in T : \A i \in T : a <= i
  BY <1>1, Least
<1>3. PICK b \in S : a = n - b
  BY <1>2
<1>4. \A i \in S : n - b <= n - i
  BY <1>2, <1>3
<1> QED
  BY <1>4

LEMMA TaskEnds ==
  ASSUME tasks \in Seq(Row), NEW S \in SUBSET Ids, S # {}
  PROVE  Min(S) \in S /\ Max(S) \in S /\ \A i \in S : i <= Max(S)
<1>1. Ids = 1..Len(tasks) /\ Len(tasks) \in Nat
  BY RowsAreRows
<1>2. S \in SUBSET Nat /\ S \in SUBSET (1..Len(tasks))
  BY <1>1
<1>3. PICK a \in S : \A i \in S : a <= i
  BY <1>2, Least
<1>4. PICK z \in S : \A i \in S : i <= z
  BY <1>1, <1>2, Greatest
<1>5. Min(S) \in S
  BY <1>3 DEF Min
<1>6. Max(S) \in S /\ \A i \in S : i <= Max(S)
  BY <1>2, <1>4 DEF Max
<1> QED
  BY <1>5, <1>6

LEMMA CancelTaskEffect ==
  ASSUME CInv, NEW c \in Clients, CancelTask(c)
  PROVE  /\ Types' /\ Calm /\ c \in Threads /\ At(c, "cancel")
         /\ \/ Quits(c)
            \/ \E i \in Ids :
                 /\ tasks[i].status \in {"QUEUED", "RUNNING", "AWAITING"}
                 /\ Moves(i, "CANCELLED", tasks[i].fence, tasks[i].claimedBy)
                 /\ Turns(c, th'[c]) /\ th'[c].pc = "cancel" /\ th'[c].run = th[c].run
                 /\ th'[c].todo \subseteq Ids
<1> DEFINE i == Min(th[c].todo)
           t == MovedRow(tasks[i], "CANCELLED")
           l == [th[c] EXCEPT !.todo = th[c].todo \ {i}]
<1>1. /\ Types /\ c \in Threads /\ At(c, "cancel") /\ ThreadOK(c) /\ th[c] \in Local
      /\ th[c].todo # {} /\ UNCHANGED <<runs, boundary, answers, calls, faults>>
  BY DEF CInv, Threads, CancelTask, budget, Types
<1>2. th[c].todo \subseteq Ids /\ th[c].todo \in SUBSET Nat
  BY <1>1 DEF ThreadOK, At, Local
<1>3. i \in Ids
  BY <1>1, <1>2, TaskEnds DEF Types
<1>4. /\ MayCancel(tasks[i]) => tasks' = [tasks EXCEPT ![i] = t] /\ Become(c, l)
      /\ ~MayCancel(tasks[i]) => Rest(c) /\ tasks' = tasks
  BY DEF CancelTask
<1> HIDE DEF i
<1>5. tasks[i] \in Row /\ tasks[i].status \in Status /\ "CANCELLED" \in Status
  BY <1>1, <1>3, RowsAreRows DEF Types, Status
<1>6. /\ t \in Row /\ Same(tasks[i], t) /\ t.status = "CANCELLED"
      /\ t.fence = tasks[i].fence /\ t.claimedBy = tasks[i].claimedBy
  BY <1>5, RowOps
<1>7. /\ l \in Local /\ l.pc = "cancel" /\ l.run = th[c].run /\ l.todo \subseteq Ids
  BY <1>1, <1>2 DEF Local, PCs, At
<1> HIDE DEF t, l
<1>8. CASE MayCancel(tasks[i])
  <2>1. Puts(i, t)
    BY <1>1, <1>3, <1>4, <1>6, <1>8, RowPut DEF Types
  <2>2. Moves(i, "CANCELLED", tasks[i].fence, tasks[i].claimedBy)
    BY <1>3, <1>6, <2>1, PutMoves
  <2>3. Turns(c, l) /\ th'[c] = l
    BY <1>1, <1>4, <1>7, <1>8, ThreadTurns DEF Types, Turns
  <2>4. tasks[i].status \in {"QUEUED", "RUNNING", "AWAITING"}
    BY <1>5, <1>8, LegalSources DEF MayCancel
  <2>5. Types'
    BY <1>1, <2>1, <2>3 DEF Types, Turns, Puts
  <2> QED
    BY <1>1, <1>3, <1>7, <2>2, <2>3, <2>4, <2>5 DEF Calm
<1>9. CASE ~MayCancel(tasks[i])
  <2>1. Turns(c, Resting) /\ tasks' = tasks
    BY <1>1, <1>4, <1>9, ThreadRests DEF Types
  <2>2. Types'
    BY <1>1, <2>1 DEF Types, Turns
  <2> QED
    BY <1>1, <2>1, <2>2 DEF Calm, Quits
<1> QED
  BY <1>8, <1>9

LEMMA CancelRunEffect ==
  ASSUME CInv, NEW c \in Clients, CancelRun(c)
  PROVE  /\ Types' /\ c \in Threads /\ At(c, "cancel") /\ Quits(c)
         /\ runs' = runs \/ (~IsTerminal(runs[th[c].run]) /\ Sets(th[c].run, "CANCELLED"))
<1>1. /\ Types /\ c \in Threads /\ At(c, "cancel") /\ ThreadOK(c) /\ Turns(c, Resting)
      /\ UNCHANGED <<tasks, boundary, answers, calls, faults>>
      /\ \/ runs' = runs
         \/ ~IsTerminal(runs[th[c].run]) /\ runs' = [runs EXCEPT ![th[c].run] = "CANCELLED"]
  BY ThreadRests DEF CInv, Threads, CancelRun, budget, Types
<1>2. th[c].run \in Runs
  BY <1>1 DEF ThreadOK, At
<1>3. /\ runs' \in [Runs -> Status \cup {"NONE"}]
      /\ runs' = runs \/ (~IsTerminal(runs[th[c].run]) /\ Sets(th[c].run, "CANCELLED"))
  BY <1>1, <1>2 DEF Types, Sets, Status
<1>4. Types'
  BY <1>1, <1>3 DEF Types, Turns
<1> QED
  BY <1>1, <1>3, <1>4 DEF Quits

LEMMA RetryReadEffect ==
  ASSUME CInv, NEW c \in Clients, NEW r \in Runs, RetryRead(c, r)
  PROVE  /\ Types' /\ Calm /\ tasks' = tasks /\ c \in Threads /\ At(c, "idle")
         /\ "retry" \in Ops /\ runs[r] \in RetryFrom \ {"NONE", "DONE"}
         /\ Turns(c, th'[c]) /\ th'[c].run = r /\ th'[c].mark = "none"
         /\ th'[c].pc = (IF runs[r] \in {"FAILED", "CANCELLED"} THEN "retry_reopen" ELSE "retry_pick")
<1> DEFINE p == IF runs[r] \in {"FAILED", "CANCELLED"} THEN "retry_reopen" ELSE "retry_pick"
           l == [Resting EXCEPT !.run = r, !.pc = p]
<1>1. /\ Types /\ c \in Threads /\ At(c, "idle") /\ "retry" \in Ops /\ runs[r] \in RetryFrom \ {"NONE", "DONE"}
      /\ UNCHANGED <<tasks, runs, boundary, answers, faults>> /\ calls' \in Nat /\ Become(c, l)
  BY DEF CInv, Threads, RetryRead, Call, Types, store
<1>2. p \in PCs
  BY DEF PCs
<1> HIDE DEF p
<1>3. l \in Local /\ l.pc = p /\ l.run = r /\ l.mark = "none"
  BY <1>2 DEF Resting, Local, Marks, Status
<1> HIDE DEF l
<1>4. Turns(c, l) /\ th'[c] = l
  BY <1>1, <1>3, ThreadTurns DEF Types, Turns
<1>5. Types'
  BY <1>1, <1>4 DEF Types, Turns
<1> QED
  BY <1>1, <1>3, <1>4, <1>5 DEF Calm, p

LEMMA RerunReadEffect ==
  ASSUME CInv, NEW c \in Clients, NEW r \in Runs, NEW s \in Steps, RerunRead(c, r, s)
  PROVE  /\ Types' /\ Calm /\ tasks' = tasks /\ c \in Threads /\ At(c, "idle")
         /\ "rerun" \in Ops /\ runs[r] \in RerunFrom \ {"NONE"} /\ s \in RerunAt
         /\ Turns(c, th'[c]) /\ th'[c].run = r /\ th'[c].mark = "rerun" /\ th'[c].step = s
         /\ th'[c].pc = (IF IsTerminal(runs[r]) THEN "rerun_reopen" ELSE "enqueue")
<1> DEFINE p == IF IsTerminal(runs[r]) THEN "rerun_reopen" ELSE "enqueue"
           l == [Resting EXCEPT !.run = r, !.step = s, !.mark = "rerun", !.pc = p]
<1>1. /\ Types /\ c \in Threads /\ At(c, "idle") /\ "rerun" \in Ops /\ runs[r] \in RerunFrom \ {"NONE"}
      /\ s \in RerunAt
      /\ UNCHANGED <<tasks, runs, boundary, answers, faults>> /\ calls' \in Nat /\ Become(c, l)
  BY DEF CInv, Threads, RerunRead, Call, Types, store
<1>2. p \in PCs /\ s \in Nat
  BY StepFacts DEF PCs
<1> HIDE DEF p
<1>3. l \in Local /\ l.pc = p /\ l.run = r /\ l.mark = "rerun" /\ l.step = s
  BY <1>2 DEF Resting, Local, Marks, Status
<1> HIDE DEF l
<1>4. Turns(c, l) /\ th'[c] = l
  BY <1>1, <1>3, ThreadTurns DEF Types, Turns
<1>5. Types'
  BY <1>1, <1>4 DEF Types, Turns
<1> QED
  BY <1>1, <1>3, <1>4, <1>5 DEF Calm, p

LEMMA ReopenEffect ==
  ASSUME CInv, NEW c \in Clients, Reopen(c)
  PROVE  /\ Types' /\ tasks' = tasks /\ c \in Threads
         /\ th[c].pc \in {"retry_reopen", "rerun_reopen"}
         /\ Sets(th[c].run, "RUNNING")
         /\ boundary'[th[c].run] = [at |-> Len(tasks), kept |-> TRUE]
         /\ \A q \in Runs \ {th[c].run} : boundary'[q] = boundary[q]
         /\ Turns(c, th'[c]) /\ th'[c].run = th[c].run /\ th'[c].mark = th[c].mark
         /\ th'[c].step = th[c].step
         /\ th'[c].pc = (IF At(c, "retry_reopen") THEN "retry_pick" ELSE "enqueue")
<1> DEFINE p == IF At(c, "retry_reopen") THEN "retry_pick" ELSE "enqueue"
           l == [th[c] EXCEPT !.pc = p]
<1>1. /\ Types /\ c \in Threads /\ ThreadOK(c) /\ th[c] \in Local
      /\ th[c].pc \in {"retry_reopen", "rerun_reopen"}
      /\ UNCHANGED <<tasks, answers, calls, faults>> /\ Become(c, l)
      /\ runs' = [runs EXCEPT ![th[c].run] = "RUNNING"]
      /\ boundary' = [boundary EXCEPT ![th[c].run] = [at |-> Len(tasks), kept |-> TRUE]]
  BY DEF CInv, Threads, Reopen, Types, budget, At
<1>2. p \in PCs /\ th[c].run \in Runs /\ Len(tasks) \in Nat
  BY <1>1, RowsAreRows DEF PCs, ThreadOK, At, Types
<1> HIDE DEF p
<1>3. l \in Local /\ l.pc = p /\ l.run = th[c].run /\ l.mark = th[c].mark /\ l.step = th[c].step
  BY <1>1, <1>2 DEF Local
<1> HIDE DEF l
<1>4. Turns(c, l) /\ th'[c] = l
  BY <1>1, <1>3, ThreadTurns DEF Types, Turns
<1>5. /\ Sets(th[c].run, "RUNNING") /\ runs' \in [Runs -> Status \cup {"NONE"}]
      /\ boundary' \in [Runs -> [at: Nat, kept: BOOLEAN]]
      /\ boundary'[th[c].run] = [at |-> Len(tasks), kept |-> TRUE]
      /\ \A q \in Runs \ {th[c].run} : boundary'[q] = boundary[q]
  BY <1>1, <1>2 DEF Types, Sets, Status
<1>6. Types'
  BY <1>1, <1>4, <1>5 DEF Types, Turns
<1> QED
  BY <1>1, <1>3, <1>4, <1>5, <1>6 DEF p

LEMMA RetryPickEffect ==
  ASSUME CInv, NEW c \in Clients, RetryPick(c)
  PROVE  /\ Types' /\ Calm /\ tasks' = tasks /\ c \in Threads /\ At(c, "retry_pick")
         /\ \/ Quits(c)
            \/ \E i \in FailedTasks(th[c].run) :
                 /\ Turns(c, th'[c]) /\ th'[c].pc = "enqueue" /\ th'[c].run = th[c].run
                 /\ th'[c].mark = th[c].mark /\ th'[c].step = tasks[i].step /\ tasks[i].step \in Steps
<1> DEFINE failed == FailedTasks(th[c].run)
           i == Max(failed)
           s == tasks[i].step
           l == [th[c] EXCEPT !.pc = "enqueue", !.step = s]
<1>1. /\ Types /\ c \in Threads /\ At(c, "retry_pick") /\ th[c] \in Local
      /\ UNCHANGED <<tasks, runs, boundary, answers, calls, faults>>
      /\ failed = {} => Rest(c)
      /\ failed # {} => Become(c, l)
  BY DEF CInv, Threads, RetryPick, Types, store, budget
<1>2. CASE failed = {}
  <2>1. Turns(c, Resting)
    BY <1>1, <1>2, ThreadRests DEF Types
  <2>2. Types'
    BY <1>1, <2>1 DEF Types, Turns
  <2> QED
    BY <1>1, <2>1, <2>2 DEF Calm, Quits
<1>3. CASE failed # {}
  <2>1. i \in failed /\ i \in Ids
    BY <1>1, <1>3, TaskEnds DEF Types, FailedTasks
  <2>2. s \in Steps /\ s \in Nat
    BY <1>1, <2>1, RowsAreRows, StepFacts DEF Types
  <2>3. Become(c, l)
    BY <1>1, <1>3
  <2> HIDE DEF s
  <2>4. l \in Local /\ l.pc = "enqueue" /\ l.run = th[c].run /\ l.mark = th[c].mark /\ l.step = s
    BY <1>1, <2>2 DEF Local, PCs
  <2> HIDE DEF l, i
  <2>5. Turns(c, l) /\ th'[c] = l
    BY <1>1, <2>3, <2>4, ThreadTurns DEF Types, Turns
  <2>6. Types'
    BY <1>1, <2>5 DEF Types, Turns
  <2> QED
    BY <1>1, <2>1, <2>2, <2>4, <2>5, <2>6 DEF Calm, s
<1> QED
  BY <1>2, <1>3

LEMMA EnqueueAgainEffect ==
  ASSUME CInv, NEW c \in Clients, EnqueueAgain(c)
  PROVE  /\ Types' /\ Calm /\ c \in Threads /\ At(c, "enqueue")
         /\ Adds(th[c].run, th[c].step, th[c].mark) /\ Turns(c, Resting)
<1>1. /\ Types /\ c \in Threads /\ At(c, "enqueue") /\ ThreadOK(c) /\ th[c] \in Local /\ Turns(c, Resting)
      /\ UNCHANGED <<runs, boundary, answers, calls, faults>>
      /\ Enqueue(th[c].run, th[c].step, th[c].mark)
  BY ThreadRests DEF CInv, Threads, EnqueueAgain, budget, Types
<1>2. th[c].run \in Runs /\ th[c].step \in Steps /\ th[c].mark \in Marks
  BY <1>1 DEF ThreadOK, At, Local
<1>3. Adds(th[c].run, th[c].step, th[c].mark)
  BY <1>1, <1>2, RowAdded DEF Types
<1>4. Types'
  BY <1>1, <1>3 DEF Types, Turns, Adds
<1> QED
  BY <1>1, <1>3, <1>4 DEF Calm

LEMMA RequeueStaleEffect ==
  ASSUME CInv, RequeueStale
  PROVE  Types' /\ Calm /\ Reaps /\ th' = th
BY RowsReaped DEF CInv, RequeueStale, Types, Calm, budget, Reaps

LEMMA PruneEventsEffect ==
  ASSUME CInv, NEW r \in Runs, PruneEvents(r)
  PROVE  /\ Types' /\ tasks' = tasks /\ runs' = runs /\ th' = th /\ Retention
         /\ \A q \in Runs : boundary'[q].at = boundary[q].at
<1>1. PICK left \in [Steps -> 0..MaxAnswers], kept \in BOOLEAN :
        /\ answers' = [answers EXCEPT ![r] = left]
        /\ boundary' = [boundary EXCEPT ![r].kept = kept]
  BY DEF PruneEvents
<1>2. UNCHANGED <<tasks, runs, th, calls, faults>> /\ Types /\ Retention
  BY DEF PruneEvents, budget, CInv
<1>3. left \in [Steps -> Nat]
  BY BoundAssumption
<1>4. answers' \in [Runs -> [Steps -> Nat]]
  BY <1>1, <1>2, <1>3 DEF Types
<1>5. /\ boundary' \in [Runs -> [at: Nat, kept: BOOLEAN]]
      /\ \A q \in Runs : boundary'[q].at = boundary[q].at
  BY <1>1, <1>2 DEF Types
<1> QED
  BY <1>2, <1>4, <1>5 DEF Types

LEMMA CrashEffect ==
  ASSUME CInv, NEW h \in Threads, Crash(h)
  PROVE  Types' /\ Calm /\ ~At(h, "idle") /\ Quits(h)
<1>1. /\ Types /\ ~At(h, "idle") /\ Turns(h, Resting)
      /\ UNCHANGED <<tasks, runs, boundary, answers, calls>> /\ faults' \in Nat
  BY ThreadRests DEF CInv, Crash, Types, store, Spend
<1> QED
  BY <1>1 DEF Types, Turns, Calm, Quits

-----------------------------------------------------------------------------
(* The claims invariant is inductive.                                      *)

\* Every step but a grant: tasks stay what they are, results stay, fences do not
\* go back, one thread at most moves, and it does not start to run a task.
LEMMA ClaimsKept ==
  ASSUME CInv, Types', Ids \subseteq Ids',
         \A i \in Ids :
           /\ Same(tasks[i], tasks'[i]) /\ tasks'[i].fence >= tasks[i].fence
           /\ tasks[i].status \in {"DONE", "FAILED"} => tasks'[i].status = tasks[i].status,
         \A i \in Ids' \ Ids : runs'[tasks'[i].run] # "NONE",
         \A r \in Runs : runs[r] # "NONE" => runs'[r] # "NONE",
         \A g, h \in Threads : th'[g] # th[g] /\ th'[h] # th[h] => g = h,
         \A h \in Threads :
           \/ th'[h] = th[h]
           \/ /\ th'[h].pc # "running" /\ ThreadOK(h)'
              /\ Advancing(h)' => \/ Advancing(h) /\ th'[h].task = th[h].task
                                  \/ tasks[th'[h].task].status \notin {"DONE", "FAILED"},
         \A w \in Threads :
           /\ Holds(w) /\ th'[w] = th[w]
           /\ tasks'[th[w].task].fence = tasks[th[w].task].fence
           => /\ tasks'[th[w].task].status \in {"RUNNING", "CANCELLED"}
              /\ tasks'[th[w].task].claimedBy = w
  PROVE  CInv'
<1>1. \A i \in Ids : /\ tasks[i].run \in Runs /\ tasks[i].fence \in Nat
                     /\ i \in Ids' /\ tasks'[i].fence \in Nat
  <2>1. Types
    BY DEF CInv
  <2>2. \A i \in Ids' : tasks'[i].fence \in Nat
    <3>1. tasks' \in Seq(Row) /\ Ids' = DOMAIN tasks'
      BY DEF Types, Ids
    <3>2. \A i \in DOMAIN tasks' : tasks'[i] \in Row
      BY <3>1, LenProperties
    <3> QED
      BY <3>1, <3>2 DEF Row
  <2> QED
    BY <2>1, <2>2, RowsAreRows DEF Types
<1>2. \A h \in Threads : th[h].fence \in Nat /\ th[h].run \in Runs \cup {None}
  BY DEF CInv, Types, Local
<1>3. ASSUME NEW h \in Threads
      PROVE  ThreadOK(h)'
  <2>1. CASE th'[h] = th[h]
    <3>1. ThreadOK(h)
      BY DEF CInv
    <3>2. th[h].pc \in {"running", "decide", "apply"} => th[h].task \in Ids
      BY <3>1 DEF ThreadOK
    <3> QED
      BY <1>1, <2>1, <3>1, <3>2 DEF ThreadOK, At, Same
  <2>2. CASE th'[h] # th[h]
    BY <2>2
  <2> QED
    BY <2>1, <2>2
<1>4. \A w \in Threads : At(w, "running")' => /\ At(w, "running") /\ th'[w] = th[w]
                                              /\ th[w].task \in Ids
  BY DEF CInv, ThreadOK, At
<1>5. Begun'
  <2> SUFFICES ASSUME NEW i \in Ids'
               PROVE  runs'[tasks'[i].run] # "NONE"
    BY DEF Begun
  <2>1. CASE i \in Ids
    BY <1>1, <2>1 DEF CInv, Begun, Same
  <2>2. CASE i \notin Ids
    BY <2>2
  <2> QED
    BY <2>1, <2>2
<1>6. ClaimsBehindRows'
  <2> SUFFICES ASSUME NEW w \in Threads, At(w, "running")'
               PROVE  th'[w].fence <= tasks'[th'[w].task].fence
    BY DEF ClaimsBehindRows
  <2>1. At(w, "running") /\ th'[w] = th[w] /\ th[w].task \in Ids
    BY <1>4
  <2>2. th[w].fence <= tasks[th[w].task].fence
    BY <2>1 DEF CInv, ClaimsBehindRows
  <2> QED
    BY <1>1, <1>2, <2>1, <2>2
<1>7. ClaimsDiffer'
  BY <1>4 DEF CInv, ClaimsDiffer
<1>8. CurrentClaimsHold'
  <2> SUFFICES ASSUME NEW w \in Threads, Holds(w)'
               PROVE  /\ tasks'[th'[w].task].status \in {"RUNNING", "CANCELLED"}
                      /\ tasks'[th'[w].task].claimedBy = w
    BY DEF CurrentClaimsHold
  <2>1. /\ At(w, "running") /\ th'[w] = th[w] /\ th[w].task \in Ids
        /\ th[w].fence = tasks'[th[w].task].fence
    BY <1>4 DEF Holds
  <2>2. th[w].fence <= tasks[th[w].task].fence
    BY <2>1 DEF CInv, ClaimsBehindRows
  <2>3. tasks'[th[w].task].fence = tasks[th[w].task].fence
    BY <1>1, <1>2, <2>1, <2>2
  <2> QED
    BY <2>1, <2>3 DEF Holds
<1>9. AdvanceOnce'
  <2> SUFFICES ASSUME NEW g \in Threads, NEW h \in Threads, g # h, Advancing(g)', Advancing(h)'
               PROVE  th'[g].task # th'[h].task
    BY DEF AdvanceOnce
  <2>1. \A x \in Threads : Advancing(x) => tasks[th[x].task].status \in {"DONE", "FAILED"}
    BY DEF CInv, ThreadOK, Advancing, At
  <2>2. \A x \in Threads : th'[x] = th[x] => (Advancing(x)' <=> Advancing(x))
    BY DEF Advancing
  <2>3. CASE th'[g] = th[g] /\ th'[h] = th[h]
    BY <2>2, <2>3 DEF CInv, AdvanceOnce
  <2>4. CASE th'[g] # th[g] /\ th'[h] = th[h]
    BY <2>1, <2>2, <2>4 DEF CInv, AdvanceOnce
  <2>5. CASE th'[g] = th[g] /\ th'[h] # th[h]
    BY <2>1, <2>2, <2>5 DEF CInv, AdvanceOnce
  <2> QED
    BY <2>3, <2>4, <2>5
<1> QED
  BY <1>3, <1>5, <1>6, <1>7, <1>8, <1>9 DEF CInv

\* A step that leaves the table alone.
LEMMA ClaimsTurn ==
  ASSUME CInv, Types', tasks' = tasks, NEW h \in Threads, Turns(h, th'[h]),
         \A r \in Runs : runs[r] # "NONE" => runs'[r] # "NONE",
         th'[h].pc # "running", ThreadOK(h)',
         Advancing(h)' => Advancing(h) /\ th'[h].task = th[h].task
  PROVE  CInv'
<1>1. Ids' = Ids /\ \A i \in Ids : tasks[i].fence \in Nat
  BY RowsAreRows DEF Ids, CInv, Types
<1>2. \A g \in Threads \ {h} : th'[g] = th[g]
  BY DEF Turns
<1>3. \A i \in Ids : Same(tasks[i], tasks'[i]) /\ tasks'[i].fence >= tasks[i].fence
                     /\ tasks'[i].status = tasks[i].status
  BY <1>1 DEF Same
<1>4. \A w \in Threads : Holds(w) => /\ tasks'[th[w].task].status \in {"RUNNING", "CANCELLED"}
                                     /\ tasks'[th[w].task].claimedBy = w
  BY DEF CInv, CurrentClaimsHold
<1> QED
  BY <1>1, <1>2, <1>3, <1>4, ClaimsKept

LEMMA ClaimsQuit ==
  ASSUME CInv, Types', NEW h \in Threads, Quits(h),
         \A r \in Runs : runs[r] # "NONE" => runs'[r] # "NONE"
  PROVE  CInv'
<1>1. tasks' = tasks /\ Turns(h, th'[h]) /\ th'[h] = Resting
  BY DEF Quits, Turns
<1>2. th'[h].pc = "idle"
  BY <1>1, RestingType
<1>3. ThreadOK(h)' /\ ~Advancing(h)'
  BY <1>2 DEF ThreadOK, At, Advancing
<1> QED
  BY <1>1, <1>2, <1>3, ClaimsTurn

\* A step on one row.
LEMMA ClaimsMove ==
  ASSUME CInv, Types', NEW i \in Ids, NEW st, NEW n, NEW who, Moves(i, st, n, who), n >= tasks[i].fence,
         tasks[i].status \notin {"DONE", "FAILED"} \/ st = tasks[i].status,
         \A r \in Runs : runs[r] # "NONE" => runs'[r] # "NONE",
         \A g, h \in Threads : th'[g] # th[g] /\ th'[h] # th[h] => g = h,
         \A h \in Threads :
           \/ th'[h] = th[h]
           \/ /\ th'[h].pc # "running" /\ ThreadOK(h)'
              /\ Advancing(h)' => \/ Advancing(h) /\ th'[h].task = th[h].task
                                  \/ tasks[th'[h].task].status \notin {"DONE", "FAILED"},
         \A w \in Threads :
           Holds(w) /\ th'[w] = th[w] /\ th[w].task = i /\ n = tasks[i].fence
             => st \in {"RUNNING", "CANCELLED"} /\ who = w
  PROVE  CInv'
<1>1. \A j \in Ids : tasks[j].fence \in Nat
  BY RowsAreRows DEF CInv, Types
<1>2. /\ Ids' = Ids /\ \A j \in Ids : Same(tasks[j], tasks'[j])
      /\ \A j \in Ids \ {i} : tasks'[j] = tasks[j]
      /\ tasks'[i].status = st /\ tasks'[i].fence = n /\ tasks'[i].claimedBy = who
  BY DEF Moves
<1>3. \A j \in Ids : /\ Same(tasks[j], tasks'[j]) /\ tasks'[j].fence >= tasks[j].fence
                     /\ tasks[j].status \in {"DONE", "FAILED"} => tasks'[j].status = tasks[j].status
  BY <1>1, <1>2
<1>4. ASSUME NEW w \in Threads, Holds(w), th'[w] = th[w],
             tasks'[th[w].task].fence = tasks[th[w].task].fence
      PROVE  /\ tasks'[th[w].task].status \in {"RUNNING", "CANCELLED"}
             /\ tasks'[th[w].task].claimedBy = w
  <2>1. th[w].task \in Ids
    BY <1>4 DEF CInv, ThreadOK, Holds, At
  <2>2. CASE th[w].task = i
    BY <1>2, <1>4, <2>2
  <2>3. CASE th[w].task # i
    BY <1>2, <1>4, <2>1, <2>3 DEF CInv, CurrentClaimsHold
  <2> QED
    BY <2>2, <2>3
<1> QED
  BY <1>2, <1>3, <1>4, ClaimsKept

\* A step that adds a task of a run that has begun.
LEMMA ClaimsAdd ==
  ASSUME CInv, Types', NEW h \in Threads, NEW s, NEW m, Adds(th[h].run, s, m),
         Turns(h, th'[h]), runs' = runs, ~At(h, "idle"), th'[h].pc # "running", ThreadOK(h)', ~Advancing(h)'
  PROVE  CInv'
<1>1. \A g \in Threads \ {h} : th'[g] = th[g]
  BY DEF Turns
<1>2. runs[th[h].run] # "NONE"
  BY DEF CInv, ThreadOK
<1>3. /\ Ids \subseteq Ids' /\ \A i \in Ids : tasks'[i] = tasks[i]
      /\ \A i \in Ids' \ Ids : tasks'[i].run = th[h].run
  BY DEF Adds, NewRow
<1>4. \A i \in Ids : tasks[i].fence \in Nat
  BY RowsAreRows DEF CInv, Types
<1>5. \A i \in Ids : Same(tasks[i], tasks'[i]) /\ tasks'[i].fence >= tasks[i].fence
                     /\ tasks'[i].status = tasks[i].status
  BY <1>3, <1>4 DEF Same
<1>6. \A w \in Threads : Holds(w) => /\ tasks'[th[w].task].status \in {"RUNNING", "CANCELLED"}
                                     /\ tasks'[th[w].task].claimedBy = w
  BY <1>3 DEF CInv, CurrentClaimsHold, ThreadOK, Holds, At
<1> QED
  BY <1>1, <1>2, <1>3, <1>5, <1>6, ClaimsKept

\* The thread that takes a step on the row it holds is its only holder.
LEMMA OneHolder ==
  ASSUME CInv, NEW w \in Threads, NEW v \in Threads, Holds(w), Holds(v), th[v].task = th[w].task
  PROVE  v = w
BY DEF CInv, ClaimsDiffer, Holds

LEMMA ClaimsGrant ==
  ASSUME CInv, NEW w \in Workers, Claim(w)
  PROVE  CInv'
<1>1. /\ Types' /\ Calm /\ w \in Threads /\ At(w, "idle") /\ Types
  BY ClaimEffect DEF CInv
<1>2. PICK i \in Ids :
         /\ tasks[i].status = "QUEUED"
         /\ Moves(i, "RUNNING", tasks[i].fence + 1, w)
         /\ Turns(w, th'[w])
         /\ th'[w].pc = "running" /\ th'[w].run = tasks[i].run
         /\ th'[w].task = i /\ th'[w].fence = tasks[i].fence + 1
  BY ClaimEffect
<1>3. /\ Ids' = Ids /\ \A j \in Ids : Same(tasks[j], tasks'[j])
      /\ \A j \in Ids \ {i} : tasks'[j] = tasks[j]
      /\ tasks'[i].status = "RUNNING" /\ tasks'[i].fence = tasks[i].fence + 1 /\ tasks'[i].claimedBy = w
  BY <1>2 DEF Moves
<1>4. \A j \in Ids : tasks[j].fence \in Nat /\ tasks[j].run \in Runs
  BY <1>1, RowsAreRows DEF Types
<1>5. \A h \in Threads : th[h].fence \in Nat
  BY <1>1 DEF Types, Local
<1>6. \A g \in Threads \ {w} : th'[g] = th[g]
  BY <1>2 DEF Turns
<1>7. \A g \in Threads \ {w} : At(g, "running")' => At(g, "running") /\ th[g].task \in Ids
  BY <1>6 DEF CInv, ThreadOK, At
<1>8. \A g \in Threads : ThreadOK(g)'
  <2> SUFFICES ASSUME NEW g \in Threads
               PROVE  ThreadOK(g)'
    OBVIOUS
  <2>1. CASE g = w
    BY <1>1, <1>2, <1>3, <1>4, <2>1 DEF ThreadOK, At, Calm, CInv, Begun, Same
  <2>2. CASE g # w
    <3>1. ThreadOK(g) /\ th'[g] = th[g]
      BY <1>6, <2>2 DEF CInv
    <3>2. th[g].pc \in {"running", "decide", "apply"} => th[g].task \in Ids
      BY <3>1 DEF ThreadOK
    <3>3. th[g].pc \in {"decide", "apply"} => tasks[th[g].task].status \in {"DONE", "FAILED"}
      BY <3>1 DEF ThreadOK, At
    <3>4. th[g].pc \in {"decide", "apply"} => tasks'[th[g].task] = tasks[th[g].task]
      BY <1>2, <1>3, <3>2, <3>3
    <3>5. th[g].pc \in {"running", "decide", "apply"} => tasks'[th[g].task].run = tasks[th[g].task].run
      BY <1>3, <3>2 DEF Same
    <3> QED
      BY <1>1, <1>3, <3>1, <3>2, <3>3, <3>4, <3>5 DEF ThreadOK, At, Calm
  <2> QED
    BY <2>1, <2>2
<1>9. Begun'
  BY <1>1, <1>3 DEF Begun, Calm, CInv, Same
<1>10. \A g \in Threads \ {w} : At(g, "running") /\ th[g].task = i => th[g].fence < tasks[i].fence + 1
  BY <1>4, <1>5 DEF CInv, ClaimsBehindRows
<1>11. ClaimsBehindRows'
  <2> SUFFICES ASSUME NEW g \in Threads, At(g, "running")'
               PROVE  th'[g].fence <= tasks'[th'[g].task].fence
    BY DEF ClaimsBehindRows
  <2>1. CASE g = w
    BY <1>2, <1>3, <1>4, <2>1
  <2>2. CASE g # w /\ th[g].task = i
    BY <1>3, <1>4, <1>5, <1>6, <1>7, <1>10, <2>2
  <2>3. CASE g # w /\ th[g].task # i
    BY <1>3, <1>6, <1>7, <2>3 DEF CInv, ClaimsBehindRows
  <2> QED
    BY <2>1, <2>2, <2>3
<1>12. ClaimsDiffer'
  <2>1. \A g \in Threads \ {w} : At(g, "running")' => <<th'[g].task, th'[g].fence>> # <<th'[w].task, th'[w].fence>>
    BY <1>2, <1>4, <1>5, <1>6, <1>7, <1>10
  <2> QED
    BY <1>6, <1>7, <2>1 DEF ClaimsDiffer, CInv
<1>13. CurrentClaimsHold'
  <2> SUFFICES ASSUME NEW g \in Threads, Holds(g)'
               PROVE  /\ tasks'[th'[g].task].status \in {"RUNNING", "CANCELLED"}
                      /\ tasks'[th'[g].task].claimedBy = g
    BY DEF CurrentClaimsHold
  <2>1. CASE g = w
    BY <1>2, <1>3, <2>1
  <2>2. CASE g # w
    <3>1. th'[g] = th[g] /\ At(g, "running") /\ th[g].task \in Ids /\ th[g].fence = tasks'[th[g].task].fence
      BY <1>6, <1>7, <2>2 DEF Holds
    <3>2. th[g].task # i
      BY <1>3, <1>4, <1>5, <1>10, <2>2, <3>1
    <3> QED
      BY <1>3, <3>1, <3>2 DEF CInv, CurrentClaimsHold, Holds
  <2> QED
    BY <2>1, <2>2
<1>14. AdvanceOnce'
  <2>1. ~Advancing(w)' /\ \A g \in Threads \ {w} : Advancing(g)' = Advancing(g)
    BY <1>2, <1>6 DEF Advancing
  <2> QED
    BY <1>6, <2>1 DEF AdvanceOnce, CInv
<1> QED
  BY <1>1, <1>8, <1>9, <1>11, <1>12, <1>13, <1>14 DEF CInv

LEMMA ClaimsSettle ==
  ASSUME CInv, Types', Calm, NEW h \in Threads, NEW i \in Ids, NEW st \in {"DONE", "FAILED", "AWAITING"},
         Moves(i, st, tasks[i].fence, tasks[i].claimedBy), Turns(h, th'[h]),
         \/ tasks[i].status = "AWAITING"
         \/ tasks[i].status = "RUNNING" /\ Holds(h) /\ th[h].task = i,
         th'[h].pc # "running", ThreadOK(h)', Advancing(h)' => th'[h].task = i
  PROVE  CInv'
<1>1. \A g \in Threads \ {h} : th'[g] = th[g]
  BY DEF Turns
<1>2. tasks[i].status \notin {"DONE", "FAILED"} /\ tasks[i].fence \in Nat
  BY RowsAreRows DEF CInv, Types
<1>3. \A r \in Runs : runs[r] # "NONE" => runs'[r] # "NONE"
  BY DEF Calm
<1>4. ASSUME NEW w \in Threads, Holds(w), th'[w] = th[w], th[w].task = i
      PROVE  FALSE
  <2>1. tasks[i].status \in {"RUNNING", "CANCELLED"}
    BY <1>4 DEF CInv, CurrentClaimsHold
  <2>2. Holds(h) /\ th[h].task = i
    BY <2>1
  <2>3. w = h
    BY <1>4, <2>2, OneHolder
  <2> QED
    BY <1>4, <2>3 DEF Holds, At
<1>5. tasks[i].fence >= tasks[i].fence
  BY <1>2
<1>6. \A g, f \in Threads : th'[g] # th[g] /\ th'[f] # th[f] => g = f
  BY <1>1
<1>7. \A g \in Threads :
        \/ th'[g] = th[g]
        \/ /\ th'[g].pc # "running" /\ ThreadOK(g)'
           /\ Advancing(g)' => \/ Advancing(g) /\ th'[g].task = th[g].task
                               \/ tasks[th'[g].task].status \notin {"DONE", "FAILED"}
  <2> SUFFICES ASSUME NEW g \in Threads, th'[g] # th[g]
               PROVE  /\ th'[g].pc # "running" /\ ThreadOK(g)'
                      /\ Advancing(g)' => tasks[th'[g].task].status \notin {"DONE", "FAILED"}
    OBVIOUS
  <2>1. g = h
    BY <1>1
  <2> QED
    BY <1>2, <2>1
<1> QED
  BY <1>2, <1>3, <1>4, <1>5, <1>6, <1>7, ClaimsMove

LEMMA ClaimsRefresh ==
  ASSUME CInv, Types', NEW i \in Ids, Refreshes(i)
  PROVE  CInv'
<1>1. Moves(i, tasks[i].status, tasks[i].fence, tasks[i].claimedBy) /\ th' = th /\ runs' = runs
  BY DEF Refreshes, Calm
<1>2. tasks[i].fence >= tasks[i].fence
  BY RowsAreRows DEF CInv, Types
<1>3. \A w \in Threads : Holds(w) /\ th[w].task = i
        => tasks[i].status \in {"RUNNING", "CANCELLED"} /\ tasks[i].claimedBy = w
  BY DEF CInv, CurrentClaimsHold
<1> QED
  BY <1>1, <1>2, <1>3, ClaimsMove

LEMMA ClaimsReap ==
  ASSUME CInv, RequeueStale
  PROVE  CInv'
<1>1. Types' /\ Calm /\ Reaps /\ th' = th
  BY RequeueStaleEffect
<1>2. Ids' = Ids /\ \A i \in Ids : tasks[i].fence \in Nat
  BY <1>1, RowsAreRows DEF Reaps, CInv, Types
<1>3. \A i \in Ids :
        /\ Same(tasks[i], tasks'[i])
        /\ \/ tasks'[i] = tasks[i]
           \/ /\ tasks[i].status = "RUNNING" /\ tasks'[i].status = "QUEUED"
              /\ tasks'[i].fence = tasks[i].fence + 1
  BY <1>1 DEF Reaps
<1>4. \A i \in Ids : /\ Same(tasks[i], tasks'[i]) /\ tasks'[i].fence >= tasks[i].fence
                     /\ tasks[i].status \in {"DONE", "FAILED"} => tasks'[i].status = tasks[i].status
  BY <1>2, <1>3
<1>5. ASSUME NEW w \in Threads, Holds(w), tasks'[th[w].task].fence = tasks[th[w].task].fence
      PROVE  /\ tasks'[th[w].task].status \in {"RUNNING", "CANCELLED"}
             /\ tasks'[th[w].task].claimedBy = w
  <2>1. th[w].task \in Ids
    BY <1>5 DEF CInv, ThreadOK, Holds, At
  <2>2. tasks'[th[w].task] = tasks[th[w].task]
    BY <1>2, <1>3, <1>5, <2>1
  <2> QED
    BY <1>5, <2>2 DEF CInv, CurrentClaimsHold
<1> QED
  BY <1>1, <1>2, <1>4, <1>5, ClaimsKept DEF Calm

LEMMA ClaimsByWorkers ==
  ASSUME CInv, NEW w \in Workers, WorkerStep(w)
  PROVE  CInv'
<1>1. CASE Claim(w)
  BY <1>1, ClaimsGrant
<1>2. CASE Heartbeat(w)
  <2>1. th[w].task \in Ids
    BY <1>2 DEF CInv, ThreadOK, Heartbeat, At, Threads
  <2> QED
    BY <1>2, <2>1, HeartbeatEffect, ClaimsRefresh
<1>3. CASE Park(w)
  <2>1. CASE Quits(w)
    BY <1>3, <2>1, ParkEffect, ClaimsQuit DEF Calm
  <2>2. CASE ~Quits(w)
    <3>1. /\ Types' /\ Calm /\ w \in Threads /\ At(w, "running")
          /\ Holds(w) /\ tasks[th[w].task].status = "RUNNING"
          /\ Moves(th[w].task, "AWAITING", tasks[th[w].task].fence, tasks[th[w].task].claimedBy)
          /\ Turns(w, Resting)
      BY <1>3, <2>2, ParkEffect
    <3>2. th'[w] = Resting /\ th'[w].pc = "idle" /\ th[w].task \in Ids
      BY <3>1, RestingType DEF Turns, Moves
    <3>3. ThreadOK(w)' /\ ~Advancing(w)'
      BY <3>2 DEF ThreadOK, At, Advancing
    <3> QED
      BY <3>1, <3>2, <3>3, ClaimsSettle
  <2> QED
    BY <2>1, <2>2
<1>4. CASE FailTask(w)
  <2>1. CASE Quits(w)
    BY <1>4, <2>1, FailTaskEffect, ClaimsQuit DEF Calm
  <2>2. CASE ~Quits(w)
    <3> DEFINE i == th[w].task
    <3>1. /\ Types' /\ Calm /\ w \in Threads /\ At(w, "running")
          /\ Holds(w) /\ tasks[i].status = "RUNNING"
          /\ Moves(i, "FAILED", tasks[i].fence, tasks[i].claimedBy)
          /\ Turns(w, th'[w]) /\ th'[w].pc = "apply" /\ th'[w].step = 0 /\ th'[w].to = "FAILED"
          /\ th'[w].run = th[w].run /\ th'[w].task = i
      BY <1>4, <2>2, FailTaskEffect
    <3>2. /\ i \in Ids /\ th[w].run = tasks[i].run /\ th[w].run \in Runs /\ runs[th[w].run] # "NONE"
      BY <3>1 DEF CInv, ThreadOK, At
    <3>3. /\ i \in Ids' /\ tasks'[i].run = tasks[i].run /\ tasks'[i].status = "FAILED"
      BY <3>1, <3>2 DEF Moves, Same
    <3>4. ThreadOK(w)'
      BY <3>1, <3>2, <3>3 DEF ThreadOK, At, Calm
    <3> QED
      BY <3>1, <3>2, <3>4, ClaimsSettle
  <2> QED
    BY <2>1, <2>2
<1>5. CASE RequeueTransient(w)
  <2>1. CASE Quits(w)
    BY <1>5, <2>1, RequeueTransientEffect, ClaimsQuit DEF Calm
  <2>2. CASE ~Quits(w)
    <3> DEFINE i == th[w].task
    <3>1. /\ Types' /\ Calm /\ w \in Threads /\ At(w, "running")
          /\ Holds(w) /\ tasks[i].status \in {"RUNNING", "CANCELLED"}
          /\ Moves(i, "QUEUED", tasks[i].fence + 1, tasks'[i].claimedBy)
          /\ Turns(w, Resting)
      BY <1>5, <2>2, RequeueTransientEffect
    <3>2. /\ th'[w] = Resting /\ th'[w].pc = "idle" /\ i \in Ids
          /\ \A g \in Threads \ {w} : th'[g] = th[g]
      BY <3>1, RestingType DEF Turns, Moves
    <3>3. ThreadOK(w)' /\ ~Advancing(w)'
      BY <3>2 DEF ThreadOK, At, Advancing
    <3>4. tasks[i].fence + 1 >= tasks[i].fence /\ tasks[i].fence + 1 # tasks[i].fence
      BY <3>2, RowsAreRows DEF CInv, Types
    <3> HIDE DEF i
    <3>5. tasks[i].status \notin {"DONE", "FAILED"} /\ runs' = runs
      BY <3>1 DEF Calm
    <3>6. \A g \in Threads : th'[g] = th[g] \/ (th'[g].pc # "running" /\ ThreadOK(g)' /\ ~Advancing(g)')
      BY <3>2, <3>3
    <3> QED
      BY <3>1, <3>2, <3>4, <3>5, <3>6, ClaimsMove
  <2> QED
    BY <2>1, <2>2
<1>6. CASE \E ok \in BOOLEAN : Report(w, ok)
  <2> PICK ok \in BOOLEAN : Report(w, ok)
    BY <1>6
  <2>1. CASE Quits(w)
    BY <2>1, ReportEffect, ClaimsQuit DEF Calm
  <2>2. CASE ~Quits(w)
    <3> DEFINE i == th[w].task
               st == IF ok THEN "DONE" ELSE "FAILED"
    <3>1. /\ Types' /\ Calm /\ w \in Threads /\ At(w, "running")
          /\ Holds(w) /\ tasks[i].status = "RUNNING"
          /\ Moves(i, st, tasks[i].fence, tasks[i].claimedBy)
          /\ Turns(w, th'[w]) /\ th'[w].pc = "decide" /\ th'[w].ok = ok
          /\ th'[w].run = th[w].run /\ th'[w].task = i
      BY <2>2, ReportEffect
    <3>2. /\ i \in Ids /\ th[w].run = tasks[i].run /\ th[w].run \in Runs /\ runs[th[w].run] # "NONE"
      BY <3>1 DEF CInv, ThreadOK, At
    <3>3. /\ i \in Ids' /\ tasks'[i].run = tasks[i].run /\ tasks'[i].status = st
      BY <3>1, <3>2 DEF Moves, Same
    <3>4. ThreadOK(w)'
      BY <3>1, <3>2, <3>3 DEF ThreadOK, At, Calm
    <3>5. st \in {"DONE", "FAILED", "AWAITING"}
      OBVIOUS
    <3> HIDE DEF st
    <3> QED
      BY <3>1, <3>2, <3>4, <3>5, ClaimsSettle
  <2> QED
    BY <2>1, <2>2
<1> QED
  BY <1>1, <1>2, <1>3, <1>4, <1>5, <1>6 DEF WorkerStep

\* A run that has begun stays begun.
LEMMA SetsBegins ==
  ASSUME NEW r \in Runs, NEW to \in Status, Sets(r, to)
  PROVE  \A q \in Runs : runs[q] # "NONE" => runs'[q] # "NONE"
BY DEF Sets, Status

LEMMA ClaimsByCalls ==
  ASSUME CInv, NEW c \in Clients, CallStep(c)
  PROVE  CInv'
<1>0. c \notin Workers
  BY ThreadAssumption
<1>1. ASSUME NEW r \in Runs, StartCreate(c, r)
      PROVE  CInv'
  <2>1. /\ Types' /\ c \in Threads /\ tasks' = tasks /\ Sets(r, "QUEUED")
        /\ Turns(c, th'[c]) /\ th'[c].pc = "start_enqueue" /\ th'[c].run = r
    BY <1>1, StartCreateEffect
  <2>2. \A q \in Runs : runs[q] # "NONE" => runs'[q] # "NONE"
    BY <2>1, SetsBegins DEF Status
  <2>3. ThreadOK(c)' /\ ~Advancing(c)' /\ th'[c].pc # "running"
    BY <1>0, <2>1 DEF ThreadOK, At, Advancing, Sets
  <2> QED
    BY <2>1, <2>2, <2>3, ClaimsTurn
<1>2. ASSUME NEW r \in Runs, CancelList(c, r)
      PROVE  CInv'
  <2>1. /\ Types' /\ Calm /\ tasks' = tasks /\ c \in Threads /\ runs[r] # "NONE"
        /\ Turns(c, th'[c]) /\ th'[c].pc = "cancel" /\ th'[c].run = r /\ th'[c].todo \subseteq Ids
    BY <1>2, CancelListEffect
  <2>2. ThreadOK(c)' /\ ~Advancing(c)' /\ th'[c].pc # "running"
    BY <1>0, <2>1 DEF ThreadOK, At, Advancing, Calm, Ids
  <2> QED
    BY <2>1, <2>2, ClaimsTurn DEF Calm
<1>3. ASSUME NEW r \in Runs, RetryRead(c, r)
      PROVE  CInv'
  <2>1. /\ Types' /\ Calm /\ tasks' = tasks /\ c \in Threads /\ runs[r] # "NONE"
        /\ Turns(c, th'[c]) /\ th'[c].pc \in {"retry_reopen", "retry_pick"} /\ th'[c].run = r
        /\ th'[c].mark = "none"
    BY <1>3, RetryReadEffect
  <2>2. ThreadOK(c)' /\ ~Advancing(c)' /\ th'[c].pc # "running"
    BY <1>0, <2>1 DEF ThreadOK, At, Advancing, Calm
  <2> QED
    BY <2>1, <2>2, ClaimsTurn DEF Calm
<1>4. ASSUME NEW r \in Runs, NEW s \in Steps, NEW ok \in BOOLEAN, Resolve(c, r, s, ok)
      PROVE  CInv'
  <2>1. Types' /\ Calm /\ c \in Threads /\ Types
    BY <1>4, ResolveEffect DEF CInv
  <2> DEFINE st == IF ok THEN "DONE" ELSE "FAILED"
  <2>2. PICK i \in Ids :
          /\ tasks[i].status = "AWAITING"
          /\ Moves(i, st, tasks[i].fence, tasks[i].claimedBy)
          /\ Turns(c, th'[c]) /\ th'[c].pc = "decide" /\ th'[c].ok = ok
          /\ th'[c].run = tasks[i].run /\ th'[c].task = i
    BY <1>4, ResolveEffect
  <2>3. tasks[i].run \in Runs /\ runs[tasks[i].run] # "NONE"
    BY <2>1, RowsAreRows DEF CInv, Begun, Types
  <2>4. i \in Ids' /\ tasks'[i].run = tasks[i].run /\ tasks'[i].status = st
    BY <2>2 DEF Moves, Same
  <2>5. ThreadOK(c)'
    BY <1>0, <2>1, <2>2, <2>3, <2>4 DEF ThreadOK, At, Calm
  <2>6. st \in {"DONE", "FAILED", "AWAITING"}
    OBVIOUS
  <2> HIDE DEF st
  <2> QED
    BY <2>1, <2>2, <2>5, <2>6, ClaimsSettle
<1>5. ASSUME NEW r \in Runs, NEW s \in Steps, AnswerCount(c, r, s)
      PROVE  CInv'
  <2>1. /\ Types' /\ Calm /\ tasks' = tasks /\ c \in Threads /\ runs[r] # "NONE" /\ Flow[s].goto # 0
        /\ Turns(c, th'[c]) /\ th'[c].pc = "answer" /\ th'[c].run = r /\ th'[c].step = s
        /\ th'[c].mark = "none"
    BY <1>5, AnswerCountEffect
  <2>2. ThreadOK(c)' /\ ~Advancing(c)' /\ th'[c].pc # "running"
    BY <1>0, <2>1 DEF ThreadOK, At, Advancing, Calm
  <2> QED
    BY <2>1, <2>2, ClaimsTurn DEF Calm
<1>6. ASSUME NEW r \in Runs, NEW s \in Steps, RerunRead(c, r, s)
      PROVE  CInv'
  <2>1. /\ Types' /\ Calm /\ tasks' = tasks /\ c \in Threads /\ runs[r] # "NONE"
        /\ Turns(c, th'[c]) /\ th'[c].pc \in {"rerun_reopen", "enqueue"} /\ th'[c].run = r
        /\ th'[c].step = s
    BY <1>6, RerunReadEffect
  <2>2. ThreadOK(c)' /\ ~Advancing(c)' /\ th'[c].pc # "running"
    BY <1>0, <2>1 DEF ThreadOK, At, Advancing, Calm
  <2> QED
    BY <2>1, <2>2, ClaimsTurn DEF Calm
<1> QED
  BY <1>1, <1>2, <1>3, <1>4, <1>5, <1>6 DEF CallStep

LEMMA ClaimsByCallRests ==
  ASSUME CInv, NEW c \in Clients, CallRest(c)
  PROVE  CInv'
<1>0. c \notin Workers /\ c \in Threads
  BY ThreadAssumption DEF Threads
<1>1. CASE StartEnqueue(c)
  <2>1. /\ Types' /\ Calm /\ At(c, "start_enqueue") /\ Adds(th[c].run, 1, "none")
        /\ Turns(c, th'[c]) /\ th'[c].pc = "start_running" /\ th'[c].run = th[c].run
    BY <1>1, StartEnqueueEffect
  <2>2. /\ ThreadOK(c)' /\ ~Advancing(c)' /\ th'[c].pc # "running" /\ runs' = runs /\ ~At(c, "idle")
    <3>1. th[c].run \in Runs /\ runs[th[c].run] # "NONE"
      BY <1>0, <2>1 DEF CInv, ThreadOK, At
    <3> QED
      BY <1>0, <2>1, <3>1 DEF ThreadOK, At, Advancing, Calm
  <2> QED
    BY <1>0, <2>1, <2>2, ClaimsAdd
<1>2. CASE StartSeedFails(c)
  BY <1>2, StartSeedFailsEffect, ClaimsQuit DEF Calm
<1>3. CASE StartRunning(c)
  <2>1. /\ Types' /\ Quits(c) /\ At(c, "start_running")
        /\ runs' = runs \/ Sets(th[c].run, "RUNNING")
    BY <1>3, StartRunningEffect
  <2>2. th[c].run \in Runs
    BY <1>0, <2>1 DEF CInv, ThreadOK, At
  <2>3. \A q \in Runs : runs[q] # "NONE" => runs'[q] # "NONE"
    BY <2>1, <2>2, SetsBegins DEF Status
  <2> QED
    BY <1>0, <2>1, <2>3, ClaimsQuit
<1>4. CASE AnswerAwaiting(c)
  <2>1. CASE Quits(c)
    BY <1>4, <2>1, AnswerAwaitingEffect, ClaimsQuit DEF Calm
  <2>2. CASE ~Quits(c)
    <3>1. Types' /\ Calm /\ At(c, "answer") /\ ThreadOK(c)
      BY <1>0, <1>4, AnswerAwaitingEffect DEF CInv
    <3>2. PICK i \in Ids :
            /\ tasks[i].status = "AWAITING" /\ tasks[i].run = th[c].run
            /\ Moves(i, "DONE", tasks[i].fence, tasks[i].claimedBy)
            /\ Turns(c, th'[c]) /\ th'[c].pc = "apply" /\ th'[c].run = th[c].run
            /\ th'[c].task = i /\ th'[c].step = Flow[th[c].step].goto
      BY <1>4, <2>2, AnswerAwaitingEffect
    <3>3. /\ th[c].run \in Runs /\ runs[th[c].run] # "NONE" /\ th[c].step \in Steps
          /\ Flow[th[c].step].goto \in Steps
      BY <3>1, StepFacts DEF ThreadOK, At
    <3>4. i \in Ids' /\ tasks'[i].run = tasks[i].run /\ tasks'[i].status = "DONE"
      BY <3>2 DEF Moves, Same
    <3>5. ThreadOK(c)'
      BY <1>0, <3>1, <3>2, <3>3, <3>4, StepFacts DEF ThreadOK, At, Calm
    <3> QED
      BY <1>0, <3>1, <3>2, <3>5, ClaimsSettle
  <2> QED
    BY <2>1, <2>2
<1>5. CASE CancelTask(c)
  <2>1. CASE Quits(c)
    BY <1>5, <2>1, CancelTaskEffect, ClaimsQuit DEF Calm
  <2>2. CASE ~Quits(c)
    <3>1. Types' /\ Calm /\ At(c, "cancel") /\ ThreadOK(c) /\ runs' = runs
      BY <1>0, <1>5, CancelTaskEffect DEF CInv, Calm
    <3>2. PICK i \in Ids :
            /\ tasks[i].status \in {"QUEUED", "RUNNING", "AWAITING"}
            /\ Moves(i, "CANCELLED", tasks[i].fence, tasks[i].claimedBy)
            /\ Turns(c, th'[c]) /\ th'[c].pc = "cancel" /\ th'[c].run = th[c].run
            /\ th'[c].todo \subseteq Ids
      BY <1>5, <2>2, CancelTaskEffect
    <3>3. Ids' = Ids /\ \A g \in Threads \ {c} : th'[g] = th[g]
      BY <3>2 DEF Moves, Turns
    <3>4. ThreadOK(c)' /\ ~Advancing(c)' /\ th'[c].pc # "running"
      BY <1>0, <3>1, <3>2, <3>3 DEF ThreadOK, At, Advancing
    <3>5. tasks[i].fence >= tasks[i].fence
      BY RowsAreRows DEF CInv, Types
    <3>6. \A w \in Threads : Holds(w) /\ th[w].task = i => tasks[i].claimedBy = w
      BY DEF CInv, CurrentClaimsHold
    <3>7. \A g \in Threads : th'[g] = th[g] \/ (th'[g].pc # "running" /\ ThreadOK(g)' /\ ~Advancing(g)')
      BY <3>3, <3>4
    <3> QED
      BY <1>0, <3>1, <3>2, <3>3, <3>5, <3>6, <3>7, ClaimsMove
  <2> QED
    BY <2>1, <2>2
<1>6. CASE CancelRun(c)
  <2>1. /\ Types' /\ Quits(c) /\ At(c, "cancel")
        /\ runs' = runs \/ Sets(th[c].run, "CANCELLED")
    BY <1>6, CancelRunEffect
  <2>2. th[c].run \in Runs
    BY <1>0, <2>1 DEF CInv, ThreadOK, At
  <2>3. \A q \in Runs : runs[q] # "NONE" => runs'[q] # "NONE"
    BY <2>1, <2>2, SetsBegins DEF Status
  <2> QED
    BY <1>0, <2>1, <2>3, ClaimsQuit
<1>7. CASE Reopen(c)
  <2>1. /\ Types' /\ tasks' = tasks /\ Sets(th[c].run, "RUNNING")
        /\ th[c].pc \in {"retry_reopen", "rerun_reopen"}
        /\ Turns(c, th'[c]) /\ th'[c].run = th[c].run /\ th'[c].mark = th[c].mark
        /\ th'[c].step = th[c].step
        /\ th'[c].pc = (IF At(c, "retry_reopen") THEN "retry_pick" ELSE "enqueue")
    BY <1>7, ReopenEffect
  <2>2. th[c].run \in Runs /\ ThreadOK(c)
    BY <1>0, <2>1 DEF CInv, ThreadOK, At
  <2>3. \A q \in Runs : runs[q] # "NONE" => runs'[q] # "NONE"
    BY <2>1, <2>2, SetsBegins DEF Status
  <2>4. ThreadOK(c)' /\ ~Advancing(c)' /\ th'[c].pc # "running"
    BY <1>0, <2>1, <2>2, <2>3 DEF ThreadOK, At, Advancing
  <2> QED
    BY <1>0, <2>1, <2>3, <2>4, ClaimsTurn
<1>8. CASE RetryPick(c)
  <2>1. CASE Quits(c)
    BY <1>8, <2>1, RetryPickEffect, ClaimsQuit DEF Calm
  <2>2. CASE ~Quits(c)
    <3>1. /\ Types' /\ Calm /\ tasks' = tasks /\ At(c, "retry_pick")
          /\ Turns(c, th'[c]) /\ th'[c].pc = "enqueue" /\ th'[c].run = th[c].run
          /\ th'[c].step \in Steps
      BY <1>8, <2>2, RetryPickEffect
    <3>2. th[c].run \in Runs /\ runs[th[c].run] # "NONE"
      BY <1>0, <3>1 DEF CInv, ThreadOK, At
    <3>3. ThreadOK(c)' /\ ~Advancing(c)' /\ th'[c].pc # "running"
      BY <1>0, <3>1, <3>2 DEF ThreadOK, At, Advancing, Calm
    <3> QED
      BY <1>0, <3>1, <3>3, ClaimsTurn DEF Calm
  <2> QED
    BY <2>1, <2>2
<1>9. CASE EnqueueAgain(c)
  <2>1. /\ Types' /\ Calm /\ At(c, "enqueue") /\ Adds(th[c].run, th[c].step, th[c].mark)
        /\ Turns(c, Resting)
    BY <1>9, EnqueueAgainEffect
  <2>2. /\ th'[c] = Resting /\ th'[c].pc = "idle" /\ Turns(c, th'[c]) /\ runs' = runs /\ ~At(c, "idle")
    BY <2>1, RestingType DEF Turns, Calm, At
  <2>3. ThreadOK(c)' /\ ~Advancing(c)'
    BY <2>2 DEF ThreadOK, At, Advancing
  <2> QED
    BY <1>0, <2>1, <2>2, <2>3, ClaimsAdd
<1> QED
  BY <1>1, <1>2, <1>3, <1>4, <1>5, <1>6, <1>7, <1>8, <1>9 DEF CallRest

LEMMA ClaimsByAdvance ==
  ASSUME CInv, NEW h \in Threads, Advance(h)
  PROVE  CInv'
<1>1. CASE Decide(h)
  <2>1. /\ Types' /\ Calm /\ tasks' = tasks /\ At(h, "decide")
        /\ Turns(h, th'[h]) /\ th'[h].pc = "apply"
        /\ th'[h].run = th[h].run /\ th'[h].task = th[h].task
    BY <1>1, DecideEffect
  <2>2. th'[h].step \in Steps \cup {0} /\ (th'[h].step = 0 => th'[h].to \in {"DONE", "FAILED"})
    <3>1. th[h].task \in Ids /\ tasks[th[h].task].step \in Steps
      BY <2>1, RowsAreRows DEF CInv, ThreadOK, At, Types
    <3>2. \/ th'[h].step = 0 /\ th'[h].to \in {"DONE", "FAILED"}
          \/ th'[h].step \in NextSteps(tasks[th[h].task].step) \ {0}
          \/ th'[h].step = Flow[tasks[th[h].task].step].goto /\ th'[h].step # 0
      BY <1>1, DecideEffect
    <3> QED
      BY <3>1, <3>2, StepFacts DEF NextSteps
  <2>3. ThreadOK(h) /\ Ids' = Ids
    BY <2>1 DEF CInv, Ids
  <2>4. ThreadOK(h)' /\ th'[h].pc # "running" /\ Advancing(h)
    BY <2>1, <2>2, <2>3 DEF ThreadOK, At, Advancing, Calm
  <2> QED
    BY <2>1, <2>4, ClaimsTurn DEF Calm
<1>2. CASE Apply(h)
  <2>1. CASE Quits(h)
    <3>1. th[h].step # 0 => FALSE
      <4>1. Quits(h) => Len(tasks') = Len(tasks) /\ Len(tasks) \in Nat
        BY RowsAreRows DEF Quits, CInv, Types
      <4>2. th[h].step # 0 => Len(tasks') = Len(tasks) + 1
        BY <1>2, ApplyEffect DEF Adds
      <4> QED
        BY <2>1, <4>1, <4>2
    <3>2. /\ Types' /\ At(h, "apply") /\ th[h].step = 0 /\ (runs' = runs \/ Sets(th[h].run, th[h].to))
      BY <1>2, <3>1, ApplyEffect, StepFacts
    <3>3. th[h].run \in Runs /\ th[h].to \in Status
      BY <3>2 DEF CInv, ThreadOK, At, Status
    <3>4. \A q \in Runs : runs[q] # "NONE" => runs'[q] # "NONE"
      BY <3>2, <3>3, SetsBegins
    <3> QED
      BY <2>1, <3>2, <3>4, ClaimsQuit
  <2>2. CASE ~Quits(h)
    <3>1. /\ Types' /\ At(h, "apply") /\ Calm /\ Turns(h, Resting)
          /\ Adds(th[h].run, th[h].step, th[h].mark)
      BY <1>2, <2>2, ApplyEffect
    <3>2. /\ th'[h] = Resting /\ th'[h].pc = "idle" /\ Turns(h, th'[h]) /\ runs' = runs /\ ~At(h, "idle")
      BY <3>1, RestingType DEF Turns, Calm, At
    <3>3. ThreadOK(h)' /\ ~Advancing(h)'
      BY <3>2 DEF ThreadOK, At, Advancing
    <3> QED
      BY <3>1, <3>2, <3>3, ClaimsAdd
  <2> QED
    BY <2>1, <2>2
<1> QED
  BY <1>1, <1>2 DEF Advance

LEMMA InitClaims == Init => CInv
<1> SUFFICES ASSUME Init
             PROVE  CInv
  OBVIOUS
<1>1. Resting.pc = "idle" /\ Resting \in Local
  BY RestingType
<1>2. /\ tasks = <<>> /\ runs = [r \in Runs |-> "NONE"]
      /\ boundary = [r \in Runs |-> [at |-> 0, kept |-> TRUE]]
      /\ answers = [r \in Runs |-> [s \in Steps |-> 0]]
      /\ th = [h \in Threads |-> Resting] /\ calls = 0 /\ faults = 0
  BY DEF Init
<1>3. Types
  BY <1>1, <1>2 DEF Types
<1>4. Ids = {}
  BY <1>2 DEF Ids
<1>5. \A h \in Threads : th[h].pc = "idle"
  BY <1>1, <1>2
<1> QED
  BY <1>3, <1>4, <1>5
  DEF CInv, ThreadOK, Begun, ClaimsBehindRows, ClaimsDiffer, CurrentClaimsHold, AdvanceOnce,
      Holds, At, Advancing

LEMMA NextClaims == CInv /\ [Next]_vars => CInv'
<1> SUFFICES ASSUME CInv, [Next]_vars
             PROVE  CInv'
  OBVIOUS
<1>1. CASE UNCHANGED vars
  BY <1>1
  DEF vars, CInv, Types, ThreadOK, Begun, ClaimsBehindRows, ClaimsDiffer, CurrentClaimsHold,
      AdvanceOnce, Holds, At, Advancing, Ids
<1>2. CASE \E w \in Workers : WorkerStep(w)
  BY <1>2, ClaimsByWorkers
<1>3. CASE \E c \in Clients : CallStep(c) \/ CallRest(c)
  BY <1>3, ClaimsByCalls, ClaimsByCallRests
<1>4. CASE \E h \in Threads : Advance(h) \/ Crash(h)
  BY <1>4, ClaimsByAdvance, CrashEffect, ClaimsQuit DEF Calm
<1>5. CASE RequeueStale
  BY <1>5, ClaimsReap
<1>6. CASE \E r \in Runs : PruneEvents(r)
  <2>1. Types' /\ tasks' = tasks /\ runs' = runs /\ th' = th
    BY <1>6, PruneEventsEffect
  <2> QED
    BY <2>1
    DEF CInv, ThreadOK, Begun, ClaimsBehindRows, ClaimsDiffer, CurrentClaimsHold,
        AdvanceOnce, Holds, At, Advancing, Ids
<1>7. CASE \E i \in Ids : HeartbeatExpires(i) \/ BackoffElapses(i)
  BY <1>7, HeartbeatExpiresEffect, BackoffElapsesEffect, ClaimsRefresh
<1> QED
  BY <1>1, <1>2, <1>3, <1>4, <1>5, <1>6, <1>7 DEF Next

LEMMA ClaimsInvariant == Spec => []CInv
BY InitClaims, NextClaims, PTL DEF Spec

\* Every variable keeps its type, whatever is called and whatever fails.
THEOREM TypeCorrect == Spec => []TypeOK
<1>1. CInv => TypeOK
  BY DEF CInv, Types, TypeOK, Local
<1> QED
  BY <1>1, ClaimsInvariant, PTL

\* A recorded result is advanced by one thread, for any number of workers and
\* callers, with crashes, reapers, provider limits and cancels in between.
THEOREM AdvancedOnce == Spec => []AdvanceOnce
<1>1. CInv => AdvanceOnce
  BY DEF CInv
<1> QED
  BY <1>1, ClaimsInvariant, PTL

-----------------------------------------------------------------------------
(***************************************************************************)
(* One step at a time.  A task may live again: RequeueTransient requeues a *)
(* task that was cancelled under the feet of its worker.  A thread carries *)
(* a run when it is about to enqueue a task of it or to end it.  The       *)
(* invariant: a run has at most one task that may live or one thread that  *)
(* carries it, and an ended run has none of them but a call reopening it.  *)
(***************************************************************************)
MayLive(i) ==
  \/ Live(i)
  \/ tasks[i].status = "CANCELLED" /\ \E w \in Workers : Holds(w) /\ th[w].task = i

Reopening == {"retry_reopen", "rerun_reopen"}
Carrying == {"decide", "apply", "start_enqueue", "retry_pick", "enqueue"} \cup Reopening
Carries(h, r) == th[h].pc \in Carrying /\ th[h].run = r

RunSerial(r) ==
  /\ \A i, j \in Ids :
       tasks[i].run = r /\ MayLive(i) /\ tasks[j].run = r /\ MayLive(j) => i = j
  /\ \A i \in Ids, h \in Threads : tasks[i].run = r /\ MayLive(i) => ~Carries(h, r)
  /\ \A g, h \in Threads : Carries(g, r) /\ Carries(h, r) => g = h
  /\ runs[r] \in {"DONE", "FAILED"} =>
       /\ \A i \in Ids : tasks[i].run = r => ~MayLive(i)
       /\ \A h \in Threads : Carries(h, r) => th[h].pc \in Reopening
  /\ \A h \in Threads : At(h, "start_enqueue") /\ th[h].run = r => \A i \in Ids : tasks[i].run # r

SInv == \A r \in Runs : RunSerial(r)

(***************************************************************************)
(* What it takes.  Two retries of one run reopen it twice and enqueue two  *)
(* tasks, so does a rerun of a run that is still going: callers either     *)
(* never ask for these, or call one at a time and only about ended runs.   *)
(***************************************************************************)
OneCallAtATime == \A c, d \in Clients : c = d
Serial ==
  \/ Ops \cap {"retry", "rerun"} = {}
  \/ OneCallAtATime /\ RetryFrom \subseteq {"FAILED"} /\ RerunFrom \subseteq {"DONE"}

\* A step that gives run q no new task that may live and no new carrier.
Untouched(q) ==
  /\ \A i \in Ids' : tasks'[i].run = q =>
       i \in Ids /\ tasks[i].run = q /\ (MayLive(i)' => MayLive(i))
  /\ \A h \in Threads : Carries(h, q)' =>
       /\ Carries(h, q)
       /\ At(h, "start_enqueue")' => At(h, "start_enqueue")
       /\ th[h].pc \in Reopening => th'[h].pc \in Reopening
  /\ runs'[q] \in {"DONE", "FAILED"} => runs'[q] = runs[q]

LEMMA UntouchedKept ==
  ASSUME NEW q \in Runs, RunSerial(q), Untouched(q)
  PROVE  RunSerial(q)'
<1>1. \A i \in Ids' : tasks'[i].run = q =>
        i \in Ids /\ tasks[i].run = q /\ (MayLive(i)' => MayLive(i))
  BY DEF Untouched
<1>2. \A h \in Threads : Carries(h, q)' =>
       /\ Carries(h, q)
       /\ At(h, "start_enqueue")' => At(h, "start_enqueue")
       /\ th[h].pc \in Reopening => th'[h].pc \in Reopening
  BY DEF Untouched
<1>3. runs'[q] \in {"DONE", "FAILED"} => runs'[q] = runs[q]
  BY DEF Untouched
<1>4. \A h \in Threads : At(h, "start_enqueue")' /\ th'[h].run = q => At(h, "start_enqueue") /\ th[h].run = q
  BY <1>2 DEF Carries, Carrying, At
<1>5. \A i, j \in Ids' :
        tasks'[i].run = q /\ MayLive(i)' /\ tasks'[j].run = q /\ MayLive(j)' => i = j
  BY <1>1 DEF RunSerial
<1>6. \A i \in Ids', h \in Threads : tasks'[i].run = q /\ MayLive(i)' => ~Carries(h, q)'
  BY <1>1, <1>2 DEF RunSerial
<1>7. \A g, h \in Threads : Carries(g, q)' /\ Carries(h, q)' => g = h
  BY <1>2 DEF RunSerial
<1>8. runs'[q] \in {"DONE", "FAILED"} =>
        /\ \A i \in Ids' : tasks'[i].run = q => ~MayLive(i)'
        /\ \A h \in Threads : Carries(h, q)' => th'[h].pc \in Reopening
  BY <1>1, <1>2, <1>3 DEF RunSerial
<1>9. \A h \in Threads : At(h, "start_enqueue")' /\ th'[h].run = q => \A i \in Ids' : tasks'[i].run # q
  BY <1>1, <1>4 DEF RunSerial
<1> QED
  BY <1>5, <1>6, <1>7, <1>8, <1>9 DEF RunSerial

\* A row that keeps its status and fence lives no more than before, unless a
\* worker took it up.
LEMMA MayLiveFrom ==
  ASSUME NEW i \in Ids, MayLive(i)',
         tasks'[i].status = tasks[i].status, tasks'[i].fence = tasks[i].fence,
         \A w \in Workers : At(w, "running")' /\ th'[w].task = i => th'[w] = th[w]
  PROVE  MayLive(i)
<1>1. CASE Live(i)'
  BY <1>1 DEF Live, MayLive
<1>2. CASE tasks'[i].status = "CANCELLED" /\ \E w \in Workers : Holds(w)' /\ th'[w].task = i
  <2>1. PICK w \in Workers : Holds(w)' /\ th'[w].task = i
    BY <1>2
  <2>2. th'[w] = th[w]
    BY <2>1 DEF Holds
  <2>3. Holds(w) /\ th[w].task = i
    BY <2>1, <2>2 DEF Holds, At
  <2> QED
    BY <1>2, <2>3 DEF MayLive
<1> QED
  BY <1>1, <1>2 DEF MayLive

\* A row whose worker just moved it.
LEMMA HolderMayLive ==
  ASSUME NEW w \in Workers, Holds(w), tasks[th[w].task].status \in {"RUNNING", "CANCELLED"}
  PROVE  MayLive(th[w].task)
BY DEF MayLive, Live

\* What a step on row i says of the run of any task.
LEMMA MoveFacts ==
  ASSUME NEW i \in Ids, NEW st, NEW n, NEW who, Moves(i, st, n, who), NEW h \in Threads, Turns(h, th'[h]),
         At(h, "running")' => th'[h].task = i
  PROVE  /\ Ids' = Ids /\ \A j \in Ids : tasks'[j].run = tasks[j].run
         /\ \A j \in Ids \ {i} : MayLive(j)' => MayLive(j)
         /\ \A g \in Threads \ {h}, q \in Runs : Carries(g, q)' => Carries(g, q) /\ th'[g] = th[g]
<1>1. /\ Ids' = Ids /\ \A j \in Ids : Same(tasks[j], tasks'[j])
      /\ \A j \in Ids \ {i} : tasks'[j] = tasks[j]
  BY DEF Moves
<1>2. \A g \in Threads \ {h} : th'[g] = th[g]
  BY DEF Turns
<1>3. \A w \in Workers, j \in Ids \ {i} : At(w, "running")' /\ th'[w].task = j => th'[w] = th[w]
  BY <1>2 DEF Threads
<1>4. \A j \in Ids \ {i} : MayLive(j)' => MayLive(j)
  BY <1>1, <1>3, MayLiveFrom
<1>5. \A g \in Threads \ {h}, q \in Runs : Carries(g, q)' => Carries(g, q)
  BY <1>2 DEF Carries
<1> QED
  BY <1>1, <1>2, <1>4, <1>5 DEF Same

\* A step on a task that may live, by a thread that carries nothing after it.
LEMMA SerialMove ==
  ASSUME SInv, NEW i \in Ids, NEW st, NEW n, NEW who, Moves(i, st, n, who), NEW h \in Threads,
         Turns(h, th'[h]), At(h, "running")' => th'[h].task = i,
         MayLive(i), runs' = runs, th'[h].pc \notin Carrying
  PROVE  SInv'
<1>1. /\ Ids' = Ids /\ \A j \in Ids : tasks'[j].run = tasks[j].run
      /\ \A j \in Ids \ {i} : MayLive(j)' => MayLive(j)
      /\ \A g \in Threads \ {h}, q \in Runs : Carries(g, q)' => Carries(g, q) /\ th'[g] = th[g]
  BY MoveFacts
<1>2. \A q \in Runs : ~Carries(h, q)'
  BY DEF Carries
<1>3. \A q \in Runs : Untouched(q)
  BY <1>1, <1>2 DEF Untouched, At
<1> QED
  BY <1>3, UntouchedKept DEF SInv

\* A task is settled and its run is carried by the thread that settled it.
LEMMA SerialSettle ==
  ASSUME CInv, SInv, NEW i \in Ids, NEW st \in {"DONE", "FAILED"}, NEW n, NEW who, Moves(i, st, n, who),
         NEW h \in Threads, Turns(h, th'[h]), MayLive(i), runs' = runs,
         NEW r \in Runs, tasks[i].run = r, th'[h].run = r, th'[h].pc \in {"decide", "apply"}
  PROVE  SInv'
<1>1. /\ Ids' = Ids /\ \A j \in Ids : tasks'[j].run = tasks[j].run
      /\ \A j \in Ids \ {i} : MayLive(j)' => MayLive(j)
      /\ \A g \in Threads \ {h}, q \in Runs : Carries(g, q)' => Carries(g, q) /\ th'[g] = th[g]
  BY MoveFacts DEF At
<1>2. ~MayLive(i)'
  BY DEF MayLive, Live, Moves
<1>3. ASSUME NEW q \in Runs, q # r
      PROVE  RunSerial(q)'
  <2>1. ~Carries(h, q)'
    BY <1>3 DEF Carries
  <2>2. Untouched(q)
    BY <1>1, <1>2, <2>1 DEF Untouched, At
  <2> QED
    BY <2>2, UntouchedKept DEF SInv
<1>4. RunSerial(r)'
  <2>1. RunSerial(r)
    BY DEF SInv
  <2>2. /\ runs[r] \notin {"DONE", "FAILED"}
        /\ \A j \in Ids : tasks[j].run = r /\ MayLive(j) => j = i
        /\ \A g \in Threads : ~Carries(g, r)
    BY <2>1 DEF RunSerial
  <2>3. \A j \in Ids' : tasks'[j].run = r => ~MayLive(j)'
    BY <1>1, <1>2, <2>2
  <2>4. \A g \in Threads : Carries(g, r)' => g = h
    BY <1>1, <1>2, <2>2
  <2>5. \A g \in Threads : At(g, "start_enqueue")' => g # h
    BY DEF At
  <2>6. \A g \in Threads : At(g, "start_enqueue")' /\ th'[g].run = r => Carries(g, r)'
    BY DEF At, Carries, Carrying
  <2> QED
    BY <2>2, <2>3, <2>4, <2>5, <2>6 DEF RunSerial
<1> QED
  BY <1>3, <1>4 DEF SInv

\* The table stays: no task lives again.
LEMMA StayFacts ==
  ASSUME tasks' = tasks, NEW h \in Threads, Turns(h, th'[h]), ~At(h, "running")'
  PROVE  /\ Ids' = Ids /\ \A j \in Ids : tasks'[j].run = tasks[j].run
         /\ \A j \in Ids : MayLive(j)' => MayLive(j)
         /\ \A g \in Threads \ {h}, q \in Runs : Carries(g, q)' => Carries(g, q) /\ th'[g] = th[g]
<1>1. Ids' = Ids
  BY DEF Ids
<1>2. \A g \in Threads \ {h} : th'[g] = th[g]
  BY DEF Turns
<1>3. \A w \in Workers : At(w, "running")' => th'[w] = th[w]
  BY <1>2 DEF Threads
<1>4. \A j \in Ids : MayLive(j)' => MayLive(j)
  BY <1>3, MayLiveFrom
<1>5. \A g \in Threads \ {h}, q \in Runs : Carries(g, q)' => Carries(g, q)
  BY <1>2 DEF Carries
<1> QED
  BY <1>1, <1>2, <1>4, <1>5

\* A thread gives up; its run may get any status but DONE and FAILED.
LEMMA SerialQuit ==
  ASSUME SInv, NEW h \in Threads, Quits(h),
         \A q \in Runs : runs'[q] \in {"DONE", "FAILED"} => runs'[q] = runs[q]
  PROVE  SInv'
<1>1. tasks' = tasks /\ Turns(h, th'[h]) /\ th'[h].pc = "idle"
  BY RestingType DEF Quits, Turns
<1>2. \A q \in Runs : ~Carries(h, q)'
  BY <1>1 DEF Carries, Carrying, Reopening
<1>3. /\ Ids' = Ids /\ \A j \in Ids : tasks'[j].run = tasks[j].run
      /\ \A j \in Ids : MayLive(j)' => MayLive(j)
      /\ \A g \in Threads \ {h}, q \in Runs : Carries(g, q)' => Carries(g, q) /\ th'[g] = th[g]
  BY <1>1, StayFacts DEF At
<1>4. \A q \in Runs : Untouched(q)
  BY <1>2, <1>3 DEF Untouched, At
<1> QED
  BY <1>4, UntouchedKept DEF SInv

\* A thread goes on with the run it carries, or carries none.
LEMMA SerialTurn ==
  ASSUME SInv, tasks' = tasks, runs' = runs, NEW h \in Threads, Turns(h, th'[h]), ~At(h, "running")',
         \/ th'[h].pc \notin Carrying
         \/ /\ th[h].pc \in Carrying \ Reopening /\ th'[h].run = th[h].run
            /\ th'[h].pc # "start_enqueue"
  PROVE  SInv'
<1>1. /\ Ids' = Ids /\ \A j \in Ids : tasks'[j].run = tasks[j].run
      /\ \A j \in Ids : MayLive(j)' => MayLive(j)
      /\ \A g \in Threads \ {h}, q \in Runs : Carries(g, q)' => Carries(g, q) /\ th'[g] = th[g]
  BY StayFacts
<1>2. \A q \in Runs : Carries(h, q)' => Carries(h, q) /\ th[h].pc \notin Reopening /\ ~At(h, "start_enqueue")'
  BY DEF Carries, At
<1>3. \A q \in Runs : Untouched(q)
  BY <1>1, <1>2 DEF Untouched, At
<1> QED
  BY <1>3, UntouchedKept DEF SInv

\* A call takes up a run that has neither a task that may live nor a carrier.
LEMMA SerialTake ==
  ASSUME SInv, tasks' = tasks, NEW h \in Threads, Turns(h, th'[h]), NEW r \in Runs, th'[h].run = r,
         \A q \in Runs \ {r} : runs'[q] = runs[q],
         \A i \in Ids : tasks[i].run = r => ~MayLive(i),
         \A g \in Threads \ {h} : ~Carries(g, r),
         ~At(h, "running")',
         runs'[r] \in {"DONE", "FAILED"} => th'[h].pc \in Reopening,
         At(h, "start_enqueue")' => \A i \in Ids : tasks[i].run # r
  PROVE  SInv'
<1>1. /\ Ids' = Ids /\ \A j \in Ids : tasks'[j].run = tasks[j].run
      /\ \A j \in Ids : MayLive(j)' => MayLive(j)
      /\ \A g \in Threads \ {h}, q \in Runs : Carries(g, q)' => Carries(g, q) /\ th'[g] = th[g]
  BY StayFacts
<1>2. ASSUME NEW q \in Runs, q # r
      PROVE  RunSerial(q)'
  <2>1. ~Carries(h, q)'
    BY <1>2 DEF Carries
  <2>2. Untouched(q)
    BY <1>1, <1>2, <2>1 DEF Untouched, At
  <2> QED
    BY <2>2, UntouchedKept DEF SInv
<1>3. RunSerial(r)'
  <2>1. \A j \in Ids' : tasks'[j].run = r => ~MayLive(j)'
    BY <1>1
  <2>2. \A g \in Threads : Carries(g, r)' => g = h
    BY <1>1
  <2>3. \A g \in Threads : At(g, "start_enqueue")' /\ th'[g].run = r => Carries(g, r)'
    BY DEF At, Carries, Carrying
  <2>4. \A g \in Threads : At(g, "start_enqueue")' /\ th'[g].run = r => \A i \in Ids' : tasks'[i].run # r
    BY <1>1, <2>2, <2>3
  <2> QED
    BY <2>1, <2>2, <2>4 DEF RunSerial
<1> QED
  BY <1>2, <1>3 DEF SInv

\* The carrier of a run enqueues its next task and carries it no more.
LEMMA SerialAdd ==
  ASSUME SInv, NEW h \in Threads, NEW r \in Runs, NEW s, NEW m, Adds(r, s, m), Turns(h, th'[h]),
         runs' = runs, th[h].run = r, th[h].pc \in Carrying \ Reopening,
         th'[h].pc \notin Carrying, ~At(h, "running")'
  PROVE  SInv'
<1> DEFINE k == Len(tasks) + 1
<1>1. /\ Ids' = Ids \cup {k} /\ k \notin Ids /\ \A i \in Ids : tasks'[i] = tasks[i]
      /\ tasks'[k].run = r /\ tasks'[k].status = "QUEUED"
  BY DEF Adds, NewRow
<1>2. \A g \in Threads \ {h} : th'[g] = th[g]
  BY DEF Turns
<1>3. \A w \in Workers : At(w, "running")' => th'[w] = th[w]
  BY <1>2 DEF Threads
<1>4. \A j \in Ids : MayLive(j)' => MayLive(j)
  BY <1>1, <1>3, MayLiveFrom
<1>5. \A g \in Threads, q \in Runs : Carries(g, q)' => g # h /\ Carries(g, q) /\ th'[g] = th[g]
  BY <1>2 DEF Carries
<1> HIDE DEF k
<1>7. ASSUME NEW q \in Runs, q # r
      PROVE  RunSerial(q)'
  <2>1. Untouched(q)
    BY <1>1, <1>4, <1>5, <1>7 DEF Untouched, At
  <2> QED
    BY <2>1, UntouchedKept DEF SInv
<1>8. RunSerial(r)'
  <2>1. RunSerial(r) /\ Carries(h, r)
    BY DEF SInv, Carries
  <2>2. /\ runs[r] \notin {"DONE", "FAILED"}
        /\ \A j \in Ids : tasks[j].run = r => ~MayLive(j)
        /\ \A g \in Threads : Carries(g, r) => g = h
    BY <2>1 DEF RunSerial
  <2>3. \A j \in Ids' : tasks'[j].run = r /\ MayLive(j)' => j = k
    BY <1>1, <1>4, <2>2
  <2>4. \A g \in Threads : ~Carries(g, r)'
    BY <1>5, <2>2
  <2>5. \A g \in Threads : At(g, "start_enqueue")' /\ th'[g].run = r => Carries(g, r)'
    BY DEF At, Carries, Carrying
  <2> QED
    BY <2>2, <2>3, <2>4, <2>5 DEF RunSerial
<1> QED
  BY <1>7, <1>8 DEF SInv

\* The carrier of a run ends it.
LEMMA SerialEnd ==
  ASSUME SInv, NEW h \in Threads, Quits(h), At(h, "apply"), NEW r \in Runs, th[h].run = r,
         \A q \in Runs \ {r} : runs'[q] = runs[q]
  PROVE  SInv'
<1>1. tasks' = tasks /\ Turns(h, th'[h]) /\ th'[h].pc = "idle"
  BY RestingType DEF Quits, Turns
<1>2. \A q \in Runs : ~Carries(h, q)'
  BY <1>1 DEF Carries, Carrying, Reopening
<1>3. /\ Ids' = Ids /\ \A j \in Ids : tasks'[j].run = tasks[j].run
      /\ \A j \in Ids : MayLive(j)' => MayLive(j)
      /\ \A g \in Threads \ {h}, q \in Runs : Carries(g, q)' => Carries(g, q) /\ th'[g] = th[g]
  BY <1>1, StayFacts DEF At
<1>4. Carries(h, r)
  BY DEF At, Carries, Carrying
<1>5. ASSUME NEW q \in Runs, q # r
      PROVE  RunSerial(q)'
  <2>1. Untouched(q)
    BY <1>2, <1>3, <1>5 DEF Untouched, At
  <2> QED
    BY <2>1, UntouchedKept DEF SInv
<1>6. RunSerial(r)'
  <2>1. RunSerial(r)
    BY DEF SInv
  <2>2. /\ \A j \in Ids : tasks[j].run = r => ~MayLive(j)
        /\ \A g \in Threads : Carries(g, r) => g = h
    BY <1>4, <2>1 DEF RunSerial
  <2>3. \A j \in Ids' : tasks'[j].run = r => ~MayLive(j)'
    BY <1>3, <2>2
  <2>4. \A g \in Threads : ~Carries(g, r)'
    BY <1>2, <1>3, <1>4, <2>2
  <2>5. \A g \in Threads : At(g, "start_enqueue")' /\ th'[g].run = r => Carries(g, r)'
    BY DEF At, Carries, Carrying
  <2> QED
    BY <2>3, <2>4, <2>5 DEF RunSerial
<1> QED
  BY <1>5, <1>6 DEF SInv

\* Nothing moves but heartbeats and deadlines.
LEMMA SerialRefresh ==
  ASSUME SInv, NEW i \in Ids, Refreshes(i)
  PROVE  SInv'
<1>1. /\ Ids' = Ids /\ th' = th /\ runs' = runs
      /\ \A j \in Ids : /\ tasks'[j].run = tasks[j].run /\ tasks'[j].status = tasks[j].status
                        /\ tasks'[j].fence = tasks[j].fence
  BY DEF Refreshes, Moves, Same, Calm
<1>2. \A j \in Ids : MayLive(j)' => MayLive(j)
  BY <1>1, MayLiveFrom
<1>3. \A q \in Runs : Untouched(q)
  BY <1>1, <1>2 DEF Untouched, Carries, At
<1> QED
  BY <1>3, UntouchedKept DEF SInv

LEMMA SerialReap ==
  ASSUME CInv, SInv, RequeueStale
  PROVE  SInv'
<1>1. Calm /\ Reaps /\ th' = th
  BY RequeueStaleEffect
<1>2. ASSUME NEW j \in Ids, MayLive(j)'
      PROVE  MayLive(j)
  <2>1. CASE tasks'[j] = tasks[j]
    BY <1>1, <1>2, <2>1, MayLiveFrom
  <2>2. CASE tasks[j].status = "RUNNING"
    BY <2>2 DEF MayLive, Live
  <2> QED
    BY <1>1, <2>1, <2>2 DEF Reaps
<1>3. \A q \in Runs : Untouched(q)
  BY <1>1, <1>2 DEF Untouched, Carries, At, Reaps, Same, Calm
<1> QED
  BY <1>3, UntouchedKept DEF SInv

LEMMA SerialByWorkers ==
  ASSUME CInv, SInv, NEW w \in Workers, WorkerStep(w)
  PROVE  SInv'
<1>0. /\ \A q \in Runs : runs'[q] \in {"DONE", "FAILED"} => runs'[q] = runs[q]
      /\ w \in Threads /\ runs' = runs
  <2>1. runs' = runs
    BY DEF WorkerStep, Claim, Heartbeat, Park, FailTask, RequeueTransient, Report, RecordResult
  <2> QED
    BY <2>1 DEF Threads
<1>1. CASE Claim(w)
  <2>1. PICK i \in Ids :
          /\ tasks[i].status = "QUEUED" /\ Moves(i, "RUNNING", tasks[i].fence + 1, w)
          /\ Turns(w, th'[w]) /\ th'[w].pc = "running" /\ th'[w].task = i
    BY <1>1, ClaimEffect
  <2>2. MayLive(i) /\ th'[w].pc \notin Carrying
    BY <2>1 DEF MayLive, Live, Carrying, Reopening
  <2> QED
    BY <1>0, <2>1, <2>2, SerialMove
<1>2. CASE Heartbeat(w)
  <2>1. th[w].task \in Ids
    BY <1>2 DEF CInv, ThreadOK, Heartbeat, At, Threads
  <2> QED
    BY <1>2, <2>1, HeartbeatEffect, SerialRefresh
<1>3. CASE Park(w)
  <2>1. CASE Quits(w)
    BY <1>0, <2>1, SerialQuit
  <2>2. CASE ~Quits(w)
    <3>1. /\ Holds(w) /\ tasks[th[w].task].status = "RUNNING"
          /\ Moves(th[w].task, "AWAITING", tasks[th[w].task].fence, tasks[th[w].task].claimedBy)
          /\ Turns(w, Resting)
      BY <1>3, <2>2, ParkEffect
    <3>2. /\ Turns(w, th'[w]) /\ th'[w].pc = "idle" /\ th[w].task \in Ids /\ MayLive(th[w].task)
      BY <3>1, RestingType, HolderMayLive DEF Turns, Moves
    <3>3. th'[w].pc \notin Carrying /\ ~At(w, "running")'
      BY <3>2 DEF Carrying, Reopening, At
    <3> QED
      BY <1>0, <3>1, <3>2, <3>3, SerialMove
  <2> QED
    BY <2>1, <2>2
<1>4. CASE FailTask(w)
  <2>1. CASE Quits(w)
    BY <1>0, <2>1, SerialQuit
  <2>2. CASE ~Quits(w)
    <3>1. /\ At(w, "running") /\ Holds(w) /\ tasks[th[w].task].status = "RUNNING"
          /\ Moves(th[w].task, "FAILED", tasks[th[w].task].fence, tasks[th[w].task].claimedBy)
          /\ Turns(w, th'[w]) /\ th'[w].pc = "apply" /\ th'[w].run = th[w].run
      BY <1>4, <2>2, FailTaskEffect
    <3>2. /\ th[w].task \in Ids /\ MayLive(th[w].task) /\ th[w].run \in Runs
          /\ tasks[th[w].task].run = th[w].run
      BY <1>0, <3>1, HolderMayLive DEF CInv, ThreadOK, At
    <3> QED
      BY <1>0, <3>1, <3>2, SerialSettle
  <2> QED
    BY <2>1, <2>2
<1>5. CASE RequeueTransient(w)
  <2>1. CASE Quits(w)
    BY <1>0, <2>1, SerialQuit
  <2>2. CASE ~Quits(w)
    <3>1. /\ Holds(w) /\ tasks[th[w].task].status \in {"RUNNING", "CANCELLED"}
          /\ Moves(th[w].task, "QUEUED", tasks[th[w].task].fence + 1, tasks'[th[w].task].claimedBy)
          /\ Turns(w, Resting)
      BY <1>5, <2>2, RequeueTransientEffect
    <3>2. /\ Turns(w, th'[w]) /\ th'[w].pc = "idle" /\ th[w].task \in Ids /\ MayLive(th[w].task)
      BY <3>1, RestingType, HolderMayLive DEF Turns, Moves
    <3>3. th'[w].pc \notin Carrying /\ ~At(w, "running")'
      BY <3>2 DEF Carrying, Reopening, At
    <3> QED
      BY <1>0, <3>1, <3>2, <3>3, SerialMove
  <2> QED
    BY <2>1, <2>2
<1>6. CASE \E ok \in BOOLEAN : Report(w, ok)
  <2> PICK ok \in BOOLEAN : Report(w, ok)
    BY <1>6
  <2>1. CASE Quits(w)
    BY <1>0, <2>1, SerialQuit
  <2>2. CASE ~Quits(w)
    <3> DEFINE st == IF ok THEN "DONE" ELSE "FAILED"
    <3>1. /\ At(w, "running") /\ Holds(w) /\ tasks[th[w].task].status = "RUNNING"
          /\ Moves(th[w].task, st, tasks[th[w].task].fence, tasks[th[w].task].claimedBy)
          /\ Turns(w, th'[w]) /\ th'[w].pc = "decide" /\ th'[w].run = th[w].run
      BY <2>2, ReportEffect
    <3>2. st \in {"DONE", "FAILED"}
      OBVIOUS
    <3> HIDE DEF st
    <3>3. /\ th[w].task \in Ids /\ MayLive(th[w].task) /\ th[w].run \in Runs
          /\ tasks[th[w].task].run = th[w].run
      BY <1>0, <3>1, HolderMayLive DEF CInv, ThreadOK, At
    <3> QED
      BY <1>0, <3>1, <3>2, <3>3, SerialSettle
  <2> QED
    BY <2>1, <2>2
<1> QED
  BY <1>1, <1>2, <1>3, <1>4, <1>5, <1>6 DEF WorkerStep

\* A client that is idle is the only one that could be reopening a run.
LEMMA NobodyReopens ==
  ASSUME CInv, SInv, OneCallAtATime, NEW c \in Clients, At(c, "idle"), NEW r \in Runs,
         runs[r] \in {"DONE", "FAILED"}
  PROVE  /\ \A i \in Ids : tasks[i].run = r => ~MayLive(i)
         /\ \A g \in Threads : ~Carries(g, r)
<1>1. /\ \A i \in Ids : tasks[i].run = r => ~MayLive(i)
      /\ \A g \in Threads : Carries(g, r) => th[g].pc \in Reopening
  BY DEF SInv, RunSerial
<1>2. \A g \in Threads : th[g].pc \in Reopening => g \in Clients
  BY DEF CInv, ThreadOK, Reopening, Threads
<1>3. th[c].pc \notin Reopening
  BY DEF At, Reopening
<1> QED
  BY <1>1, <1>2, <1>3 DEF OneCallAtATime

LEMMA SerialByCalls ==
  ASSUME CInv, SInv, Serial, NEW c \in Clients, CallStep(c)
  PROVE  SInv'
<1>0. c \in Threads
  BY DEF Threads
<1>1. ASSUME NEW r \in Runs, StartCreate(c, r)
      PROVE  SInv'
  <2>1. /\ tasks' = tasks /\ runs[r] = "NONE" /\ Sets(r, "QUEUED")
        /\ Turns(c, th'[c]) /\ th'[c].pc = "start_enqueue" /\ th'[c].run = r
    BY <1>1, StartCreateEffect
  <2>2. \A i \in Ids : tasks[i].run # r
    BY <2>1 DEF CInv, Begun
  <2>3. \A g \in Threads : ~Carries(g, r)
    BY <2>1 DEF CInv, ThreadOK, At, Carries, Carrying, Reopening
  <2>4. ~At(c, "running")' /\ runs'[r] = "QUEUED" /\ \A q \in Runs \ {r} : runs'[q] = runs[q]
    BY <2>1 DEF At, Sets
  <2>5. runs'[r] \notin {"DONE", "FAILED"}
    BY <2>4
  <2> QED
    BY <1>0, <2>1, <2>2, <2>3, <2>4, <2>5, SerialTake
<1>2. ASSUME NEW r \in Runs, CancelList(c, r)
      PROVE  SInv'
  <2>1. tasks' = tasks /\ runs' = runs /\ Turns(c, th'[c]) /\ th'[c].pc = "cancel"
    BY <1>2, CancelListEffect DEF Calm
  <2>2. ~At(c, "running")' /\ th'[c].pc \notin Carrying
    BY <2>1 DEF At, Carrying, Reopening
  <2> QED
    BY <1>0, <2>1, <2>2, SerialTurn
<1>3. ASSUME NEW r \in Runs, RetryRead(c, r)
      PROVE  SInv'
  <2>1. /\ tasks' = tasks /\ runs' = runs /\ At(c, "idle") /\ "retry" \in Ops
        /\ runs[r] \in RetryFrom /\ Turns(c, th'[c]) /\ th'[c].run = r
        /\ th'[c].pc = (IF runs[r] \in {"FAILED", "CANCELLED"} THEN "retry_reopen" ELSE "retry_pick")
    BY <1>3, RetryReadEffect DEF Calm
  <2>2. OneCallAtATime /\ runs[r] = "FAILED"
    BY <2>1 DEF Serial
  <2>3. /\ \A i \in Ids : tasks[i].run = r => ~MayLive(i)
        /\ \A g \in Threads : ~Carries(g, r)
    BY <2>1, <2>2, NobodyReopens
  <2>4. ~At(c, "running")' /\ ~At(c, "start_enqueue")' /\ th'[c].pc \in Reopening
    BY <2>1, <2>2 DEF At, Reopening
  <2> QED
    BY <1>0, <2>1, <2>3, <2>4, SerialTake
<1>4. ASSUME NEW r \in Runs, NEW s \in Steps, NEW ok \in BOOLEAN, Resolve(c, r, s, ok)
      PROVE  SInv'
  <2> DEFINE st == IF ok THEN "DONE" ELSE "FAILED"
  <2>1. PICK i \in Ids :
          /\ tasks[i].status = "AWAITING" /\ Moves(i, st, tasks[i].fence, tasks[i].claimedBy)
          /\ Turns(c, th'[c]) /\ th'[c].pc = "decide" /\ th'[c].run = tasks[i].run
    BY <1>4, ResolveEffect
  <2>2. st \in {"DONE", "FAILED"}
    OBVIOUS
  <2> HIDE DEF st
  <2>3. MayLive(i) /\ runs' = runs /\ tasks[i].run \in Runs
    BY <1>4, <2>1, RowsAreRows DEF MayLive, Live, Resolve, CInv, Types
  <2> QED
    BY <1>0, <2>1, <2>2, <2>3, SerialSettle
<1>5. ASSUME NEW r \in Runs, NEW s \in Steps, AnswerCount(c, r, s)
      PROVE  SInv'
  <2>1. tasks' = tasks /\ runs' = runs /\ Turns(c, th'[c]) /\ th'[c].pc = "answer"
    BY <1>5, AnswerCountEffect DEF Calm
  <2>2. ~At(c, "running")' /\ th'[c].pc \notin Carrying
    BY <2>1 DEF At, Carrying, Reopening
  <2> QED
    BY <1>0, <2>1, <2>2, SerialTurn
<1>6. ASSUME NEW r \in Runs, NEW s \in Steps, RerunRead(c, r, s)
      PROVE  SInv'
  <2>1. /\ tasks' = tasks /\ runs' = runs /\ At(c, "idle") /\ "rerun" \in Ops
        /\ runs[r] \in RerunFrom /\ Turns(c, th'[c]) /\ th'[c].run = r
        /\ th'[c].pc = (IF IsTerminal(runs[r]) THEN "rerun_reopen" ELSE "enqueue")
    BY <1>6, RerunReadEffect DEF Calm
  <2>2. OneCallAtATime /\ runs[r] = "DONE"
    BY <2>1 DEF Serial
  <2>3. /\ \A i \in Ids : tasks[i].run = r => ~MayLive(i)
        /\ \A g \in Threads : ~Carries(g, r)
    BY <2>1, <2>2, NobodyReopens
  <2>4. ~At(c, "running")' /\ ~At(c, "start_enqueue")' /\ th'[c].pc \in Reopening
    BY <2>1, <2>2 DEF At, Reopening, IsTerminal
  <2> QED
    BY <1>0, <2>1, <2>3, <2>4, SerialTake
<1> QED
  BY <1>1, <1>2, <1>3, <1>4, <1>5, <1>6 DEF CallStep

LEMMA SerialByCallRests ==
  ASSUME CInv, SInv, NEW c \in Clients, CallRest(c)
  PROVE  SInv'
<1>0. c \in Threads
  BY DEF Threads
<1>1. CASE StartEnqueue(c)
  <2>1. /\ runs' = runs /\ At(c, "start_enqueue") /\ Adds(th[c].run, 1, "none")
        /\ Turns(c, th'[c]) /\ th'[c].pc = "start_running"
    BY <1>1, StartEnqueueEffect DEF Calm
  <2>2. /\ th[c].pc \in Carrying \ Reopening /\ th'[c].pc \notin Carrying /\ ~At(c, "running")'
        /\ th[c].run \in Runs
    BY <1>0, <2>1 DEF CInv, ThreadOK, At, Carrying, Reopening
  <2> QED
    BY <1>0, <2>1, <2>2, SerialAdd
<1>2. CASE StartSeedFails(c)
  BY <1>0, <1>2, StartSeedFailsEffect, SerialQuit DEF Calm
<1>3. CASE StartRunning(c)
  <2>1. /\ Quits(c) /\ At(c, "start_running")
        /\ runs' = runs \/ Sets(th[c].run, "RUNNING")
    BY <1>3, StartRunningEffect
  <2>2. \A q \in Runs : runs'[q] \in {"DONE", "FAILED"} => runs'[q] = runs[q]
    BY <2>1 DEF Sets
  <2> QED
    BY <1>0, <2>1, <2>2, SerialQuit
<1>4. CASE AnswerAwaiting(c)
  <2>1. runs' = runs
    BY <1>4, AnswerAwaitingEffect DEF Calm
  <2>2. CASE Quits(c)
    BY <1>0, <2>1, <2>2, SerialQuit
  <2>3. CASE ~Quits(c)
    <3>1. PICK i \in Ids :
            /\ tasks[i].status = "AWAITING" /\ tasks[i].run = th[c].run
            /\ Moves(i, "DONE", tasks[i].fence, tasks[i].claimedBy)
            /\ Turns(c, th'[c]) /\ th'[c].pc = "apply" /\ th'[c].run = th[c].run
      BY <1>4, <2>3, AnswerAwaitingEffect
    <3>2. MayLive(i) /\ tasks[i].run \in Runs
      BY <3>1, RowsAreRows DEF MayLive, Live, CInv, Types
    <3> QED
      BY <1>0, <2>1, <3>1, <3>2, SerialSettle
  <2> QED
    BY <2>2, <2>3
<1>5. CASE CancelTask(c)
  <2>1. runs' = runs
    BY <1>5, CancelTaskEffect DEF Calm
  <2>2. CASE Quits(c)
    BY <1>0, <2>1, <2>2, SerialQuit
  <2>3. CASE ~Quits(c)
    <3>1. PICK i \in Ids :
            /\ tasks[i].status \in {"QUEUED", "RUNNING", "AWAITING"}
            /\ Moves(i, "CANCELLED", tasks[i].fence, tasks[i].claimedBy)
            /\ Turns(c, th'[c]) /\ th'[c].pc = "cancel"
      BY <1>5, <2>3, CancelTaskEffect
    <3>2. MayLive(i) /\ ~At(c, "running")' /\ th'[c].pc \notin Carrying
      BY <3>1 DEF MayLive, Live, At, Carrying, Reopening
    <3> QED
      BY <1>0, <2>1, <3>1, <3>2, SerialMove
  <2> QED
    BY <2>2, <2>3
<1>6. CASE CancelRun(c)
  <2>1. Quits(c) /\ (runs' = runs \/ Sets(th[c].run, "CANCELLED"))
    BY <1>6, CancelRunEffect
  <2>2. \A q \in Runs : runs'[q] \in {"DONE", "FAILED"} => runs'[q] = runs[q]
    BY <2>1 DEF Sets
  <2> QED
    BY <1>0, <2>1, <2>2, SerialQuit
<1>7. CASE Reopen(c)
  <2>1. /\ tasks' = tasks /\ Sets(th[c].run, "RUNNING") /\ th[c].pc \in Reopening
        /\ Turns(c, th'[c]) /\ th'[c].run = th[c].run
        /\ th'[c].pc \in {"retry_pick", "enqueue"}
    BY <1>7, ReopenEffect DEF Reopening
  <2>2. th[c].run \in Runs /\ Carries(c, th[c].run)
    BY <1>0, <2>1 DEF CInv, ThreadOK, At, Carries, Carrying, Reopening
  <2>3. /\ \A i \in Ids : tasks[i].run = th[c].run => ~MayLive(i)
        /\ \A g \in Threads \ {c} : ~Carries(g, th[c].run)
    BY <1>0, <2>2 DEF SInv, RunSerial
  <2>4. /\ ~At(c, "running")' /\ ~At(c, "start_enqueue")'
        /\ \A q \in Runs \ {th[c].run} : runs'[q] = runs[q]
        /\ runs'[th[c].run] \notin {"DONE", "FAILED"}
    BY <2>1, <2>2 DEF At, Sets
  <2> QED
    BY <1>0, <2>1, <2>2, <2>3, <2>4, SerialTake
<1>8. CASE RetryPick(c)
  <2>1. runs' = runs /\ tasks' = tasks /\ At(c, "retry_pick")
    BY <1>8, RetryPickEffect DEF Calm
  <2>2. CASE Quits(c)
    BY <1>0, <2>1, <2>2, SerialQuit
  <2>3. CASE ~Quits(c)
    <3>1. Turns(c, th'[c]) /\ th'[c].pc = "enqueue" /\ th'[c].run = th[c].run
      BY <1>8, <2>3, RetryPickEffect
    <3>2. th[c].pc \in Carrying \ Reopening /\ ~At(c, "running")' /\ th'[c].pc # "start_enqueue"
      BY <2>1, <3>1 DEF At, Carrying, Reopening
    <3> QED
      BY <1>0, <2>1, <3>1, <3>2, SerialTurn
  <2> QED
    BY <2>2, <2>3
<1>9. CASE EnqueueAgain(c)
  <2>1. runs' = runs /\ At(c, "enqueue") /\ Adds(th[c].run, th[c].step, th[c].mark) /\ Turns(c, Resting)
    BY <1>9, EnqueueAgainEffect DEF Calm
  <2>2. /\ Turns(c, th'[c]) /\ th'[c].pc = "idle" /\ th[c].run \in Runs
    BY <1>0, <2>1, RestingType DEF Turns, CInv, ThreadOK, At
  <2>3. th[c].pc \in Carrying \ Reopening /\ ~At(c, "running")' /\ th'[c].pc \notin Carrying
    BY <2>1, <2>2 DEF At, Carrying, Reopening
  <2> QED
    BY <1>0, <2>1, <2>2, <2>3, SerialAdd
<1> QED
  BY <1>1, <1>2, <1>3, <1>4, <1>5, <1>6, <1>7, <1>8, <1>9 DEF CallRest

LEMMA SerialByAdvance ==
  ASSUME CInv, SInv, NEW h \in Threads, Advance(h)
  PROVE  SInv'
<1>1. CASE Decide(h)
  <2>1. /\ tasks' = tasks /\ runs' = runs /\ At(h, "decide")
        /\ Turns(h, th'[h]) /\ th'[h].pc = "apply" /\ th'[h].run = th[h].run
    BY <1>1, DecideEffect DEF Calm
  <2>2. th[h].pc \in Carrying \ Reopening /\ ~At(h, "running")' /\ th'[h].pc # "start_enqueue"
    BY <2>1 DEF At, Carrying, Reopening
  <2> QED
    BY <2>1, <2>2, SerialTurn
<1>2. CASE Apply(h)
  <2>0. At(h, "apply") /\ th[h].run \in Runs
    BY <1>2, ApplyEffect DEF CInv, ThreadOK, At
  <2>1. CASE th[h].step = 0
    <3>1. Quits(h) /\ (runs' = runs \/ Sets(th[h].run, th[h].to))
      BY <1>2, <2>1, ApplyEffect, StepFacts
    <3>2. \A q \in Runs \ {th[h].run} : runs'[q] = runs[q]
      BY <3>1 DEF Sets
    <3> QED
      BY <2>0, <3>1, <3>2, SerialEnd
  <2>2. CASE th[h].step # 0
    <3>1. runs' = runs /\ Turns(h, Resting) /\ Adds(th[h].run, th[h].step, th[h].mark)
      BY <1>2, <2>2, ApplyEffect DEF Calm
    <3>2. /\ Turns(h, th'[h]) /\ th'[h].pc = "idle"
      BY <3>1, RestingType DEF Turns
    <3>3. th[h].pc \in Carrying \ Reopening /\ ~At(h, "running")' /\ th'[h].pc \notin Carrying
      BY <2>0, <3>2 DEF At, Carrying, Reopening
    <3> QED
      BY <2>0, <3>1, <3>2, <3>3, SerialAdd
  <2> QED
    BY <2>1, <2>2
<1> QED
  BY <1>1, <1>2 DEF Advance

LEMMA InitSerial == Init => SInv
<1> SUFFICES ASSUME Init
             PROVE  SInv
  OBVIOUS
<1>1. Resting.pc = "idle" /\ runs = [r \in Runs |-> "NONE"] /\ th = [h \in Threads |-> Resting]
  BY RestingType DEF Init
<1>2. Ids = {}
  BY DEF Ids, Init
<1>3. \A h \in Threads : th[h].pc = "idle"
  BY <1>1
<1> QED
  BY <1>1, <1>2, <1>3 DEF SInv, RunSerial, Carries, Carrying, Reopening, At

LEMMA NextSerial ==
  ASSUME Serial
  PROVE  CInv /\ SInv /\ [Next]_vars => SInv'
<1> SUFFICES ASSUME CInv, SInv, [Next]_vars
             PROVE  SInv'
  OBVIOUS
<1>1. CASE UNCHANGED vars
  BY <1>1 DEF vars, SInv, RunSerial, MayLive, Live, Holds, Carries, At, Ids
<1>2. CASE \E w \in Workers : WorkerStep(w)
  BY <1>2, SerialByWorkers
<1>3. CASE \E c \in Clients : CallStep(c) \/ CallRest(c)
  BY <1>3, SerialByCalls, SerialByCallRests
<1>4. CASE \E h \in Threads : Advance(h) \/ Crash(h)
  BY <1>4, SerialByAdvance, CrashEffect, SerialQuit DEF Calm
<1>5. CASE RequeueStale
  BY <1>5, SerialReap
<1>6. CASE \E r \in Runs : PruneEvents(r)
  <2>1. tasks' = tasks /\ runs' = runs /\ th' = th
    BY <1>6, PruneEventsEffect
  <2> QED
    BY <2>1 DEF SInv, RunSerial, MayLive, Live, Holds, Carries, At, Ids
<1>7. CASE \E i \in Ids : HeartbeatExpires(i) \/ BackoffElapses(i)
  BY <1>7, HeartbeatExpiresEffect, BackoffElapsesEffect, SerialRefresh
<1> QED
  BY <1>1, <1>2, <1>3, <1>4, <1>5, <1>6, <1>7 DEF Next

LEMMA SerialInvariant ==
  ASSUME Serial
  PROVE  Spec => [](CInv /\ SInv)
<1>1. Init => CInv /\ SInv
  BY InitClaims, InitSerial
<1>2. CInv /\ SInv /\ [Next]_vars => CInv' /\ SInv'
  BY NextClaims, NextSerial
<1> QED
  BY <1>1, <1>2, PTL DEF Spec

LEMMA AtMostOne ==
  ASSUME NEW S, \A a, b \in S : a = b
  PROVE  Cardinality(S) = 0 \/ Cardinality(S) = 1
<1>1. CASE S = {}
  BY <1>1, FS_EmptySet
<1>2. CASE S # {}
  <2>1. PICK a : S = {a}
    BY <1>2
  <2> QED
    BY <2>1, FS_Singleton
<1> QED
  BY <1>1, <1>2

\* Serial callers see one step of a run at a time: one task queued, running or
\* parked, or one recorded result being advanced, never two of them, whatever
\* is cancelled, requeued, reaped or crashes.
THEOREM OneStepAtATime ==
  ASSUME Serial
  PROVE  Spec => []SerialSteps
<1>1. CInv /\ SInv => SerialSteps
  <2> SUFFICES ASSUME SInv, NEW r \in Runs
               PROVE  Cardinality(LiveTasks(r)) + Cardinality(Advancers(r)) <= 1
    BY DEF SerialSteps
  <2>1. /\ \A i, j \in LiveTasks(r) : i = j
        /\ \A g, h \in Advancers(r) : g = h
        /\ LiveTasks(r) = {} \/ Advancers(r) = {}
    <3>1. \A i \in LiveTasks(r) : i \in Ids /\ tasks[i].run = r /\ MayLive(i)
      BY DEF LiveTasks, MayLive
    <3>2. \A h \in Advancers(r) : h \in Threads /\ Carries(h, r)
      BY DEF Advancers, Advancing, Carries, Carrying
    <3> QED
      BY <3>1, <3>2 DEF SInv, RunSerial
  <2>2. /\ Cardinality(LiveTasks(r)) \in {0, 1} /\ Cardinality(Advancers(r)) \in {0, 1}
    BY <2>1, AtMostOne
  <2>3. Cardinality(LiveTasks(r)) = 0 \/ Cardinality(Advancers(r)) = 0
    BY <2>1, FS_EmptySet
  <2> QED
    BY <2>2, <2>3
<1> QED
  BY <1>1, SerialInvariant, PTL

\* A run recorded as DONE or FAILED has nothing queued, running or parked left.
THEOREM EndedIsQuiet ==
  ASSUME Serial
  PROVE  Spec => []EndedRunIsQuiet
<1>1. CInv /\ SInv => EndedRunIsQuiet
  BY DEF SInv, RunSerial, EndedRunIsQuiet, LiveTasks, MayLive
<1> QED
  BY <1>1, SerialInvariant, PTL

-----------------------------------------------------------------------------
(***************************************************************************)
(* Loops.  A step that has used up its budget is not tried again: the run  *)
(* has no task left that may live, and whoever carries it is about to see  *)
(* the budget gone, about to fail the run, or about to reopen it, which    *)
(* starts a new count.  A retry that has reopened the run therefore finds  *)
(* every failure of it before the boundary.                                *)
(***************************************************************************)
FailedSince(r, s) ==
  {i \in Ids : /\ i > boundary[r].at /\ tasks[i].run = r /\ tasks[i].step = s
               /\ tasks[i].status = "FAILED"}
Failures(r, s) == FailuresSince(r, s, boundary[r].at)

GivesUp(h, s) ==
  \/ At(h, "decide") /\ ~th[h].ok /\ tasks[th[h].task].step = s
  \/ At(h, "apply") /\ th[h].step = 0
  \/ th[h].pc \in Reopening

UsedUp(r) ==
  \A s \in Steps : Flow[s].goto # 0 /\ Failures(r, s) > Flow[s].max =>
    /\ Failures(r, s) = Flow[s].max + 1
    /\ \A i \in Ids : tasks[i].run = r => ~MayLive(i)
    /\ \A h \in Threads : Carries(h, r) => GivesUp(h, s)

Again(h, r) == th[h].pc \in {"retry_pick", "enqueue"} /\ th[h].run = r
FreshCount(r) ==
  \A h \in Threads : Again(h, r) => \A i \in FailedTasks(r) : i <= boundary[r].at

LInv == \A r \in Runs : UsedUp(r) /\ FreshCount(r)

LEMMA FailedAreFinite ==
  ASSUME Types, NEW r \in Runs, NEW s \in Steps
  PROVE  /\ IsFiniteSet(FailedSince(r, s)) /\ Failures(r, s) = Cardinality(FailedSince(r, s))
         /\ Failures(r, s) \in Nat
<1>1. IsFiniteSet(Ids)
  BY RowsAreRows, FS_Interval DEF Types
<1>2. IsFiniteSet(FailedSince(r, s))
  BY <1>1, FS_Subset DEF FailedSince
<1>3. Failures(r, s) = Cardinality(FailedSince(r, s))
  BY DEF Failures, FailuresSince, FailedSince
<1> QED
  BY <1>2, <1>3, FS_CardinalityType

LEMMA FailuresShrink ==
  ASSUME Types, Types', NEW r \in Runs, NEW s \in Steps, FailedSince(r, s)' \subseteq FailedSince(r, s)
  PROVE  /\ Failures(r, s)' <= Failures(r, s)
         /\ Failures(r, s)' \in Nat /\ Failures(r, s) \in Nat
<1>1. /\ IsFiniteSet(FailedSince(r, s)) /\ Failures(r, s) = Cardinality(FailedSince(r, s))
      /\ Failures(r, s) \in Nat
  BY FailedAreFinite
<1>2. /\ IsFiniteSet(FailedSince(r, s)') /\ Failures(r, s)' = Cardinality(FailedSince(r, s)')
      /\ Failures(r, s)' \in Nat
  BY <1>1, FS_Subset, FS_CardinalityType DEF Failures, FailuresSince, FailedSince
<1>3. Cardinality(FailedSince(r, s)') <= Cardinality(FailedSince(r, s))
  BY <1>1, FS_Subset
<1> QED
  BY <1>1, <1>2, <1>3

LEMMA FailuresGrow ==
  ASSUME Types, Types', NEW r \in Runs, NEW s \in Steps, NEW i,
         FailedSince(r, s)' \subseteq FailedSince(r, s) \cup {i}
  PROVE  /\ Failures(r, s)' <= Failures(r, s) + 1
         /\ Failures(r, s)' \in Nat /\ Failures(r, s) \in Nat
<1>1. /\ IsFiniteSet(FailedSince(r, s)) /\ Failures(r, s) = Cardinality(FailedSince(r, s))
      /\ Failures(r, s) \in Nat
  BY FailedAreFinite
<1> DEFINE set == FailedSince(r, s)
           more == set \cup {i}
<1>2. IsFiniteSet(more) /\ Cardinality(more) \in Nat /\ Cardinality(more) <= Failures(r, s) + 1
  <2>1. IsFiniteSet(set) /\ Failures(r, s) = Cardinality(set)
    BY <1>1
  <2> HIDE DEF set
  <2>2. /\ IsFiniteSet(set \cup {i})
        /\ i \in set => Cardinality(set \cup {i}) = Cardinality(set)
        /\ i \notin set => Cardinality(set \cup {i}) = Cardinality(set) + 1
    BY <2>1, FS_AddElement
  <2> QED
    BY <1>1, <2>1, <2>2
<1> HIDE DEF more
<1>3. FailedSince(r, s)' \subseteq more
  BY DEF more
<1>4. /\ IsFiniteSet(FailedSince(r, s)') /\ Failures(r, s)' = Cardinality(FailedSince(r, s)')
      /\ Failures(r, s)' \in Nat /\ Cardinality(FailedSince(r, s)') <= Cardinality(more)
  BY <1>2, <1>3, FS_Subset, FS_CardinalityType DEF Failures, FailuresSince, FailedSince
<1> QED
  BY <1>1, <1>2, <1>4

\* Run q has no failure it did not have, and counts them from the same event.
NoNewFailure(q) ==
  /\ boundary'[q].at = boundary[q].at
  /\ \A i \in Ids' : tasks'[i].run = q /\ tasks'[i].status = "FAILED" =>
       /\ i \in Ids /\ tasks[i].status = "FAILED" /\ tasks[i].run = q
       /\ tasks'[i].step = tasks[i].step

LEMMA FailedShrinks ==
  ASSUME NEW q, NoNewFailure(q)
  PROVE  /\ \A s \in Steps : FailedSince(q, s)' \subseteq FailedSince(q, s)
         /\ FailedTasks(q)' \subseteq FailedTasks(q)
BY DEF NoNewFailure, FailedSince, FailedTasks

LEMMA LoopKept ==
  ASSUME CInv, Types', NEW q \in Runs, UsedUp(q), FreshCount(q), NoNewFailure(q),
         \A j \in Ids : tasks'[j].step = tasks[j].step,
         \A j \in Ids' : tasks'[j].run = q /\ MayLive(j)' => j \in Ids /\ tasks[j].run = q /\ MayLive(j),
         \A h \in Threads : Carries(h, q)' =>
           \/ th'[h] = th[h]
           \/ th'[h].pc \in Reopening
           \/ /\ Carries(h, q) /\ (Again(h, q)' => Again(h, q))
              /\ \A s \in Steps :
                   Flow[s].goto # 0 /\ Failures(q, s) > Flow[s].max /\ GivesUp(h, s) => GivesUp(h, s)'
  PROVE  UsedUp(q)' /\ FreshCount(q)'
<1>1. \A s \in Steps : FailedSince(q, s)' \subseteq FailedSince(q, s)
  BY FailedShrinks
<1>2. FailedTasks(q)' \subseteq FailedTasks(q) /\ boundary'[q].at = boundary[q].at
  BY FailedShrinks DEF NoNewFailure
<1>3. ASSUME NEW h \in Threads, Again(h, q)'
      PROVE  Again(h, q)
  <2>1. Carries(h, q)' /\ th'[h].pc \notin Reopening
    BY <1>3 DEF Again, Carries, Carrying, Reopening
  <2> QED
    BY <1>3, <2>1 DEF Again
<1>4. FreshCount(q)'
  BY <1>2, <1>3 DEF FreshCount
<1>5. ASSUME NEW s \in Steps, Flow[s].goto # 0, Failures(q, s)' > Flow[s].max
      PROVE  /\ Failures(q, s)' = Flow[s].max + 1
             /\ \A i \in Ids' : tasks'[i].run = q => ~MayLive(i)'
             /\ \A h \in Threads : Carries(h, q)' => GivesUp(h, s)'
  <2>1. /\ Failures(q, s)' <= Failures(q, s) /\ Failures(q, s)' \in Nat /\ Failures(q, s) \in Nat
        /\ Flow[s].max \in Nat
    BY <1>1, FailuresShrink, StepFacts DEF CInv
  <2>2. Failures(q, s) > Flow[s].max
    BY <1>5, <2>1
  <2>3. /\ Failures(q, s) = Flow[s].max + 1
        /\ \A i \in Ids : tasks[i].run = q => ~MayLive(i)
        /\ \A h \in Threads : Carries(h, q) => GivesUp(h, s)
    BY <1>5, <2>2 DEF UsedUp
  <2>4. ASSUME NEW h \in Threads, Carries(h, q)'
        PROVE  GivesUp(h, s)'
    <3>1. CASE th'[h] = th[h]
      <4>1. Carries(h, q) /\ GivesUp(h, s)
        BY <2>3, <2>4, <3>1 DEF Carries
      <4>2. At(h, "decide") => th[h].task \in Ids
        BY DEF CInv, ThreadOK, At
      <4> QED
        BY <3>1, <4>1, <4>2 DEF GivesUp, At
    <3>2. CASE th'[h].pc \in Reopening
      BY <3>2 DEF GivesUp
    <3>3. CASE /\ Carries(h, q)
               /\ \A z \in Steps :
                    Flow[z].goto # 0 /\ Failures(q, z) > Flow[z].max /\ GivesUp(h, z) => GivesUp(h, z)'
      BY <1>5, <2>2, <2>3, <3>3
    <3> QED
      BY <2>4, <3>1, <3>2, <3>3
  <2>5. Failures(q, s)' = Flow[s].max + 1
    BY <1>5, <2>1, <2>3
  <2> QED
    BY <2>3, <2>4, <2>5
<1>6. UsedUp(q)'
  BY <1>5 DEF UsedUp
<1> QED
  BY <1>4, <1>6

\* A run whose steps all have attempts left.
Free(q) == \A s \in Steps : Flow[s].goto # 0 => Failures(q, s) <= Flow[s].max

LEMMA FreeRuns ==
  ASSUME CInv, NEW q \in Runs, UsedUp(q),
         \/ \E i \in Ids : tasks[i].run = q /\ MayLive(i)
         \/ \E h \in Threads : Carries(h, q) /\ \A s \in Steps : ~GivesUp(h, s)
  PROVE  Free(q)
<1> SUFFICES ASSUME NEW s \in Steps, Flow[s].goto # 0
             PROVE  Failures(q, s) <= Flow[s].max
  BY DEF Free
<1>1. ~(Failures(q, s) > Flow[s].max)
  BY DEF UsedUp
<1>2. Failures(q, s) \in Nat /\ Flow[s].max \in Nat
  BY FailedAreFinite, StepFacts DEF CInv
<1> QED
  BY <1>1, <1>2

LEMMA FreeStays ==
  ASSUME CInv, Types', NEW q \in Runs, Free(q), NoNewFailure(q)
  PROVE  Free(q)'
<1> SUFFICES ASSUME NEW s \in Steps, Flow[s].goto # 0
             PROVE  Failures(q, s)' <= Flow[s].max
  BY DEF Free
<1>1. Failures(q, s)' <= Failures(q, s) /\ Failures(q, s)' \in Nat /\ Failures(q, s) \in Nat
  BY FailedShrinks, FailuresShrink DEF CInv
<1> QED
  BY <1>1, StepFacts DEF Free

\* A run without failures since its boundary.
LEMMA FreeAfter ==
  ASSUME CInv, Types', NEW q \in Runs, FailedTasks(q)' \subseteq Ids', 
         \A i \in FailedTasks(q)' : ~(i > boundary'[q].at)
  PROVE  Free(q)'
<1> SUFFICES ASSUME NEW s \in Steps, Flow[s].goto # 0
             PROVE  Failures(q, s)' <= Flow[s].max
  BY DEF Free
<1>1. FailedSince(q, s)' = {}
  BY DEF FailedSince, FailedTasks
<1>2. Failures(q, s)' = 0
  BY <1>1, FS_EmptySet DEF Failures, FailuresSince, FailedSince
<1> QED
  BY <1>2, StepFacts

LEMMA FreeLoops ==
  ASSUME Types', NEW q \in Runs, Free(q)'
  PROVE  UsedUp(q)'
<1>1. ASSUME NEW s \in Steps, Flow[s].goto # 0
      PROVE  ~(Failures(q, s)' > Flow[s].max)
  <2>1. FailedSince(q, s)' \in SUBSET Ids' /\ IsFiniteSet(Ids')
    <3>1. Len(tasks') \in Nat /\ Ids' = 1..Len(tasks')
      BY LenProperties DEF Types, Ids
    <3> QED
      BY <3>1, FS_Interval DEF FailedSince
  <2>2. Failures(q, s)' \in Nat
    BY <2>1, FS_Subset, FS_CardinalityType DEF Failures, FailuresSince, FailedSince
  <2> QED
    BY <1>1, <2>2, StepFacts DEF Free
<1> QED
  BY <1>1 DEF UsedUp

\* A step on a task that may live, by a thread that carries nothing after it.
LEMMA LoopMove ==
  ASSUME CInv, LInv, Types', NEW i \in Ids, NEW st, NEW n, NEW who, Moves(i, st, n, who),
         NEW h \in Threads, Turns(h, th'[h]), At(h, "running")' => th'[h].task = i,
         MayLive(i), st # "FAILED", boundary' = boundary, th'[h].pc \notin Carrying
  PROVE  LInv'
<1>1. /\ Ids' = Ids /\ \A j \in Ids : tasks'[j].run = tasks[j].run
      /\ \A j \in Ids \ {i} : MayLive(j)' => MayLive(j)
      /\ \A g \in Threads \ {h}, q \in Runs : Carries(g, q)' => Carries(g, q) /\ th'[g] = th[g]
  BY MoveFacts
<1>2. \A j \in Ids : tasks'[j].step = tasks[j].step
  BY DEF Moves, Same
<1>3. \A q \in Runs : ~Carries(h, q)'
  BY DEF Carries
<1>4. \A q \in Runs : NoNewFailure(q)
  BY <1>1, <1>2 DEF NoNewFailure, Moves
<1> QED
  BY <1>1, <1>2, <1>3, <1>4, LoopKept DEF LInv

\* A task is settled: the count of its step may grow by one, and then the
\* thread that settled it carries the run alone.
LEMMA LoopSettle ==
  ASSUME CInv, SInv', LInv, Types', NEW i \in Ids, NEW st \in {"DONE", "FAILED"}, NEW n, NEW who,
         Moves(i, st, n, who), NEW h \in Threads, Turns(h, th'[h]), MayLive(i), boundary' = boundary,
         NEW r \in Runs, tasks[i].run = r, th'[h].run = r, th'[h].pc \in {"decide", "apply"},
         st = "FAILED" => \/ At(h, "decide")' /\ ~th'[h].ok /\ th'[h].task = i
                          \/ At(h, "apply")' /\ th'[h].step = 0
  PROVE  LInv'
<1>1. /\ Ids' = Ids /\ \A j \in Ids : tasks'[j].run = tasks[j].run
      /\ \A j \in Ids \ {i} : MayLive(j)' => MayLive(j)
      /\ \A g \in Threads \ {h}, q \in Runs : Carries(g, q)' => Carries(g, q) /\ th'[g] = th[g]
  BY MoveFacts DEF At
<1>2. \A j \in Ids : tasks'[j].step = tasks[j].step
  BY DEF Moves, Same
<1>3. ~MayLive(i)'
  BY DEF MayLive, Live, Moves
<1>4. \A q \in Runs \ {r} : NoNewFailure(q)
  BY <1>1, <1>2 DEF NoNewFailure, Moves
<1>5. \A q \in Runs \ {r} : ~Carries(h, q)'
  BY DEF Carries
<1>6. ASSUME NEW q \in Runs \ {r}
      PROVE  UsedUp(q)' /\ FreshCount(q)'
  <2>1. \A j \in Ids' : tasks'[j].run = q /\ MayLive(j)' => j \in Ids /\ tasks[j].run = q /\ MayLive(j)
    BY <1>1, <1>3
  <2>2. \A g \in Threads : Carries(g, q)' => th'[g] = th[g]
    BY <1>1, <1>5
  <2> QED
    BY <1>2, <1>4, <2>1, <2>2, LoopKept DEF LInv
<1>7. Carries(h, r)' /\ RunSerial(r)'
  BY DEF Carries, Carrying, SInv
<1>8. \A g \in Threads : Carries(g, r)' => g = h
  BY <1>7 DEF RunSerial
<1>9. \A j \in Ids' : tasks'[j].run = r => ~MayLive(j)'
  BY <1>7 DEF RunSerial
<1>10. FreshCount(r)'
  BY <1>8 DEF FreshCount, Again, Carries, Carrying
<1>11. Free(r)
  BY FreeRuns DEF LInv
<1>12. ASSUME NEW s \in Steps, Flow[s].goto # 0, Failures(r, s)' > Flow[s].max
       PROVE  Failures(r, s)' = Flow[s].max + 1 /\ GivesUp(h, s)'
  <2>1. Failures(r, s) <= Flow[s].max /\ Flow[s].max \in Nat
    BY <1>11, <1>12, StepFacts DEF Free
  <2>2. st = "FAILED" /\ tasks[i].step = s
    <3>1. SUFFICES ASSUME ~(st = "FAILED" /\ tasks[i].step = s)
                   PROVE  FALSE
      OBVIOUS
    <3>2. FailedSince(r, s)' \subseteq FailedSince(r, s)
      BY <1>1, <1>2, <3>1 DEF FailedSince, Moves
    <3>3. Failures(r, s)' <= Failures(r, s) /\ Failures(r, s)' \in Nat /\ Failures(r, s) \in Nat
      BY <3>2, FailuresShrink DEF CInv
    <3> QED
      BY <1>12, <2>1, <3>3
  <2>3. FailedSince(r, s)' \subseteq FailedSince(r, s) \cup {i}
    BY <1>1, <1>2 DEF FailedSince, Moves
  <2>4. Failures(r, s)' <= Failures(r, s) + 1 /\ Failures(r, s)' \in Nat /\ Failures(r, s) \in Nat
    BY <2>3, FailuresGrow DEF CInv
  <2>5. GivesUp(h, s)'
    BY <1>2, <2>2 DEF GivesUp, At
  <2> QED
    BY <1>12, <2>1, <2>4, <2>5
<1>13. UsedUp(r)'
  BY <1>8, <1>9, <1>12 DEF UsedUp
<1> QED
  BY <1>6, <1>10, <1>13 DEF LInv

\* The table stays, and the thread carries nothing after the step, reopens a
\* run, or gives up as it did before.
LEMMA LoopTurn ==
  ASSUME CInv, LInv, Types', tasks' = tasks, boundary' = boundary, NEW h \in Threads, Turns(h, th'[h]),
         ~At(h, "running")',
         \/ th'[h].pc \notin Carrying
         \/ th'[h].pc \in Reopening
         \/ /\ th[h].pc \in Carrying /\ th'[h].run = th[h].run
            /\ th'[h].pc \in {"retry_pick", "enqueue"} => th[h].pc \in {"retry_pick", "enqueue"}
            /\ \A s \in Steps : Flow[s].goto # 0 /\ Failures(th[h].run, s) > Flow[s].max /\ GivesUp(h, s)
                               => GivesUp(h, s)'
  PROVE  LInv'
<1>1. /\ Ids' = Ids /\ \A j \in Ids : tasks'[j].run = tasks[j].run
      /\ \A j \in Ids : MayLive(j)' => MayLive(j)
      /\ \A g \in Threads \ {h}, q \in Runs : Carries(g, q)' => Carries(g, q) /\ th'[g] = th[g]
  BY StayFacts
<1>2. \A q \in Runs : NoNewFailure(q)
  BY <1>1 DEF NoNewFailure
<1>3. ASSUME NEW q \in Runs
      PROVE  \A g \in Threads : Carries(g, q)' =>
               \/ th'[g] = th[g]
               \/ th'[g].pc \in Reopening
               \/ /\ Carries(g, q) /\ (Again(g, q)' => Again(g, q))
                  /\ \A s \in Steps :
                       Flow[s].goto # 0 /\ Failures(q, s) > Flow[s].max /\ GivesUp(g, s) => GivesUp(g, s)'
  BY <1>1 DEF Carries, Again
<1> QED
  BY <1>1, <1>2, <1>3, LoopKept DEF LInv

\* A new task of a run that its carrier leaves.
LEMMA LoopAdd ==
  ASSUME CInv, SInv', LInv, Types', NEW h \in Threads, NEW r \in Runs, NEW s, NEW m, Adds(r, s, m),
         Turns(h, th'[h]), boundary' = boundary, th[h].run = r, Free(r),
         th'[h].pc \notin Carrying, ~At(h, "running")'
  PROVE  LInv'
<1> DEFINE k == Len(tasks) + 1
<1>1. /\ Ids' = Ids \cup {k} /\ k \notin Ids /\ \A i \in Ids : tasks'[i] = tasks[i]
      /\ tasks'[k].run = r /\ tasks'[k].status = "QUEUED" /\ k \in Ids'
  BY DEF Adds, NewRow
<1>2. \A g \in Threads \ {h} : th'[g] = th[g]
  BY DEF Turns
<1>3. \A w \in Workers : At(w, "running")' => th'[w] = th[w]
  BY <1>2 DEF Threads
<1>4. \A j \in Ids : MayLive(j)' => MayLive(j)
  BY <1>1, <1>3, MayLiveFrom
<1>5. \A g \in Threads, q \in Runs : Carries(g, q)' => g # h /\ th'[g] = th[g]
  BY <1>2 DEF Carries
<1> HIDE DEF k
<1>6. \A q \in Runs : NoNewFailure(q)
  BY <1>1 DEF NoNewFailure
<1>7. ASSUME NEW q \in Runs \ {r}
      PROVE  UsedUp(q)' /\ FreshCount(q)'
  <2>1. \A j \in Ids' : tasks'[j].run = q /\ MayLive(j)' => j \in Ids /\ tasks[j].run = q /\ MayLive(j)
    BY <1>1, <1>4
  <2> QED
    BY <1>1, <1>5, <1>6, <2>1, LoopKept DEF LInv
<1>8. Free(r)' /\ UsedUp(r)'
  BY <1>6, FreeStays, FreeLoops
<1>9. PICK j \in Ids' : tasks'[j].run = r /\ tasks'[j].status = "QUEUED"
  BY <1>1
<1>0. MayLive(j)'
  BY <1>9 DEF MayLive, Live
<1>10. \A g \in Threads : ~Carries(g, r)'
  BY <1>0, <1>9 DEF SInv, RunSerial
<1>11. FreshCount(r)'
  BY <1>10 DEF FreshCount, Again, Carries, Carrying
<1> QED
  BY <1>7, <1>8, <1>11 DEF LInv

\* The count of run r starts anew.
LEMMA LoopAnew ==
  ASSUME CInv, LInv, Types', tasks' = tasks, NEW h \in Threads, Turns(h, th'[h]), ~At(h, "running")',
         NEW r \in Runs, th'[h].run = r,
         \A q \in Runs \ {r} : boundary'[q] = boundary[q],
         \A i \in FailedTasks(r)' : i <= boundary'[r].at
  PROVE  LInv'
<1>1. /\ Ids' = Ids /\ \A j \in Ids : tasks'[j].run = tasks[j].run
      /\ \A j \in Ids : MayLive(j)' => MayLive(j)
      /\ \A g \in Threads \ {h}, q \in Runs : Carries(g, q)' => Carries(g, q) /\ th'[g] = th[g]
  BY StayFacts
<1>2. \A q \in Runs \ {r} : NoNewFailure(q)
  BY <1>1 DEF NoNewFailure
<1>3. \A q \in Runs \ {r} : ~Carries(h, q)'
  BY DEF Carries
<1>4. ASSUME NEW q \in Runs \ {r}
      PROVE  UsedUp(q)' /\ FreshCount(q)'
  BY <1>1, <1>2, <1>3, LoopKept DEF LInv
<1>5. FreshCount(r)'
  BY DEF FreshCount
<1>6. \A i \in FailedTasks(r)' : ~(i > boundary'[r].at)
  <2>1. boundary'[r].at \in Nat /\ \A i \in Ids' : i \in Nat
    BY <1>1, RowsAreRows DEF CInv, Types
  <2> QED
    BY <2>1 DEF FailedTasks
<1>7. UsedUp(r)'
  BY <1>6, FreeAfter, FreeLoops DEF FailedTasks
<1> QED
  BY <1>4, <1>5, <1>7 DEF LInv

LEMMA LoopRefresh ==
  ASSUME CInv, LInv, Types', NEW i \in Ids, Refreshes(i)
  PROVE  LInv'
<1>1. /\ Ids' = Ids /\ th' = th /\ boundary' = boundary
      /\ \A j \in Ids : /\ tasks'[j].run = tasks[j].run /\ tasks'[j].status = tasks[j].status
                        /\ tasks'[j].fence = tasks[j].fence /\ tasks'[j].step = tasks[j].step
  BY DEF Refreshes, Moves, Same, Calm
<1>2. \A j \in Ids : MayLive(j)' => MayLive(j)
  BY <1>1, MayLiveFrom
<1>3. \A q \in Runs : NoNewFailure(q)
  BY <1>1 DEF NoNewFailure
<1> QED
  BY <1>1, <1>2, <1>3, LoopKept DEF LInv

LEMMA LoopReap ==
  ASSUME CInv, LInv, RequeueStale
  PROVE  LInv'
<1>1. Types' /\ Calm /\ Reaps /\ th' = th
  BY RequeueStaleEffect
<1>2. ASSUME NEW j \in Ids, MayLive(j)'
      PROVE  MayLive(j)
  <2>1. CASE tasks'[j] = tasks[j]
    BY <1>1, <1>2, <2>1, MayLiveFrom
  <2>2. CASE tasks[j].status = "RUNNING"
    BY <2>2 DEF MayLive, Live
  <2> QED
    BY <1>1, <2>1, <2>2 DEF Reaps
<1>3. /\ Ids' = Ids /\ boundary' = boundary
      /\ \A j \in Ids : /\ tasks'[j].run = tasks[j].run /\ tasks'[j].step = tasks[j].step
                        /\ tasks'[j].status = "FAILED" => tasks[j].status = "FAILED"
  BY <1>1 DEF Reaps, Same, Calm
<1>4. \A q \in Runs : NoNewFailure(q)
  BY <1>3 DEF NoNewFailure
<1> QED
  BY <1>1, <1>2, <1>3, <1>4, LoopKept DEF LInv

LEMMA LoopQuit ==
  ASSUME CInv, LInv, Types', NEW h \in Threads, Quits(h)
  PROVE  LInv'
<1>1. /\ tasks' = tasks /\ boundary' = boundary /\ Turns(h, th'[h]) /\ th'[h].pc = "idle"
  BY RestingType DEF Quits, Turns
<1>2. ~At(h, "running")' /\ th'[h].pc \notin Carrying
  BY <1>1 DEF At, Carrying, Reopening
<1> QED
  BY <1>1, <1>2, LoopTurn

LEMMA LoopByWorkers ==
  ASSUME CInv, SInv', LInv, NEW w \in Workers, WorkerStep(w)
  PROVE  LInv'
<1>0. /\ w \in Threads /\ boundary' = boundary
  BY DEF Threads, WorkerStep, Claim, Heartbeat, Park, FailTask, RequeueTransient, Report, RecordResult
<1>1. CASE Claim(w)
  <2>0. Types'
    BY <1>1, ClaimEffect
  <2>1. PICK i \in Ids :
          /\ tasks[i].status = "QUEUED" /\ Moves(i, "RUNNING", tasks[i].fence + 1, w)
          /\ Turns(w, th'[w]) /\ th'[w].pc = "running" /\ th'[w].task = i
    BY <1>1, ClaimEffect
  <2>2. MayLive(i) /\ th'[w].pc \notin Carrying
    BY <2>1 DEF MayLive, Live, Carrying, Reopening
  <2> QED
    BY <1>0, <2>0, <2>1, <2>2, LoopMove
<1>2. CASE Heartbeat(w)
  <2>1. th[w].task \in Ids
    BY <1>2 DEF CInv, ThreadOK, Heartbeat, At, Threads
  <2> QED
    BY <1>2, <2>1, HeartbeatEffect, LoopRefresh
<1>3. CASE Park(w)
  <2>0. Types'
    BY <1>3, ParkEffect
  <2>1. CASE Quits(w)
    BY <1>0, <2>0, <2>1, LoopQuit
  <2>2. CASE ~Quits(w)
    <3>1. /\ Holds(w) /\ tasks[th[w].task].status = "RUNNING"
          /\ Moves(th[w].task, "AWAITING", tasks[th[w].task].fence, tasks[th[w].task].claimedBy)
          /\ Turns(w, Resting)
      BY <1>3, <2>2, ParkEffect
    <3>2. /\ Turns(w, th'[w]) /\ th'[w].pc = "idle" /\ th[w].task \in Ids /\ MayLive(th[w].task)
      BY <3>1, RestingType, HolderMayLive DEF Turns, Moves
    <3>3. th'[w].pc \notin Carrying /\ ~At(w, "running")'
      BY <3>2 DEF Carrying, Reopening, At
    <3> QED
      BY <1>0, <2>0, <3>1, <3>2, <3>3, LoopMove
  <2> QED
    BY <2>1, <2>2
<1>4. CASE FailTask(w)
  <2>0. Types'
    BY <1>4, FailTaskEffect
  <2>1. CASE Quits(w)
    BY <1>0, <2>0, <2>1, LoopQuit
  <2>2. CASE ~Quits(w)
    <3>1. /\ At(w, "running") /\ Holds(w) /\ tasks[th[w].task].status = "RUNNING"
          /\ Moves(th[w].task, "FAILED", tasks[th[w].task].fence, tasks[th[w].task].claimedBy)
          /\ Turns(w, th'[w]) /\ th'[w].pc = "apply" /\ th'[w].run = th[w].run
          /\ th'[w].step = 0
      BY <1>4, <2>2, FailTaskEffect
    <3>2. /\ th[w].task \in Ids /\ MayLive(th[w].task) /\ th[w].run \in Runs
          /\ tasks[th[w].task].run = th[w].run /\ At(w, "apply")'
      BY <1>0, <3>1, HolderMayLive DEF CInv, ThreadOK, At
    <3> QED
      BY <1>0, <2>0, <3>1, <3>2, LoopSettle
  <2> QED
    BY <2>1, <2>2
<1>5. CASE RequeueTransient(w)
  <2>0. Types'
    BY <1>5, RequeueTransientEffect
  <2>1. CASE Quits(w)
    BY <1>0, <2>0, <2>1, LoopQuit
  <2>2. CASE ~Quits(w)
    <3>1. /\ Holds(w) /\ tasks[th[w].task].status \in {"RUNNING", "CANCELLED"}
          /\ Moves(th[w].task, "QUEUED", tasks[th[w].task].fence + 1, tasks'[th[w].task].claimedBy)
          /\ Turns(w, Resting)
      BY <1>5, <2>2, RequeueTransientEffect
    <3>2. /\ Turns(w, th'[w]) /\ th'[w].pc = "idle" /\ th[w].task \in Ids /\ MayLive(th[w].task)
      BY <3>1, RestingType, HolderMayLive DEF Turns, Moves
    <3>3. th'[w].pc \notin Carrying /\ ~At(w, "running")'
      BY <3>2 DEF Carrying, Reopening, At
    <3> QED
      BY <1>0, <2>0, <3>1, <3>2, <3>3, LoopMove
  <2> QED
    BY <2>1, <2>2
<1>6. CASE \E ok \in BOOLEAN : Report(w, ok)
  <2> PICK ok \in BOOLEAN : Report(w, ok)
    BY <1>6
  <2>0. Types'
    BY ReportEffect
  <2>1. CASE Quits(w)
    BY <1>0, <2>0, <2>1, LoopQuit
  <2>2. CASE ~Quits(w)
    <3> DEFINE st == IF ok THEN "DONE" ELSE "FAILED"
    <3>1. /\ At(w, "running") /\ Holds(w) /\ tasks[th[w].task].status = "RUNNING"
          /\ Moves(th[w].task, st, tasks[th[w].task].fence, tasks[th[w].task].claimedBy)
          /\ Turns(w, th'[w]) /\ th'[w].pc = "decide" /\ th'[w].run = th[w].run
          /\ th'[w].ok = ok /\ th'[w].task = th[w].task
      BY <2>2, ReportEffect
    <3>2. st \in {"DONE", "FAILED"} /\ (st = "FAILED" => ~ok)
      OBVIOUS
    <3> HIDE DEF st
    <3>3. /\ th[w].task \in Ids /\ MayLive(th[w].task) /\ th[w].run \in Runs
          /\ tasks[th[w].task].run = th[w].run /\ At(w, "decide")'
      BY <1>0, <3>1, HolderMayLive DEF CInv, ThreadOK, At
    <3> QED
      BY <1>0, <2>0, <3>1, <3>2, <3>3, LoopSettle
  <2> QED
    BY <2>1, <2>2
<1> QED
  BY <1>1, <1>2, <1>3, <1>4, <1>5, <1>6 DEF WorkerStep

LEMMA LoopByCalls ==
  ASSUME CInv, SInv', Serial, LInv, NEW c \in Clients, CallStep(c)
  PROVE  LInv'
<1>0. c \in Threads
  BY DEF Threads
<1>1. ASSUME NEW r \in Runs, StartCreate(c, r)
      PROVE  LInv'
  <2>1. /\ Types' /\ tasks' = tasks /\ boundary' = boundary /\ runs[r] = "NONE"
        /\ Turns(c, th'[c]) /\ th'[c].pc = "start_enqueue" /\ th'[c].run = r
    BY <1>1, StartCreateEffect
  <2>2. \A i \in Ids : tasks[i].run # r
    BY <2>1 DEF CInv, Begun
  <2>3. FailedTasks(r)' = {} /\ ~At(c, "running")'
    BY <2>1, <2>2 DEF FailedTasks, Ids, At
  <2> QED
    BY <1>0, <2>1, <2>3, LoopAnew
<1>2. ASSUME NEW r \in Runs, CancelList(c, r)
      PROVE  LInv'
  <2>1. /\ Types' /\ tasks' = tasks /\ boundary' = boundary /\ Turns(c, th'[c]) /\ th'[c].pc = "cancel"
    BY <1>2, CancelListEffect DEF Calm
  <2>2. ~At(c, "running")' /\ th'[c].pc \notin Carrying
    BY <2>1 DEF At, Carrying, Reopening
  <2> QED
    BY <1>0, <2>1, <2>2, LoopTurn
<1>3. ASSUME NEW r \in Runs, RetryRead(c, r)
      PROVE  LInv'
  <2>1. /\ Types' /\ tasks' = tasks /\ boundary' = boundary /\ "retry" \in Ops
        /\ runs[r] \in RetryFrom /\ Turns(c, th'[c])
        /\ th'[c].pc = (IF runs[r] \in {"FAILED", "CANCELLED"} THEN "retry_reopen" ELSE "retry_pick")
    BY <1>3, RetryReadEffect DEF Calm
  <2>2. runs[r] = "FAILED"
    BY <2>1 DEF Serial
  <2>3. ~At(c, "running")' /\ th'[c].pc \in Reopening
    BY <2>1, <2>2 DEF At, Reopening
  <2> QED
    BY <1>0, <2>1, <2>3, LoopTurn
<1>4. ASSUME NEW r \in Runs, NEW s \in Steps, NEW ok \in BOOLEAN, Resolve(c, r, s, ok)
      PROVE  LInv'
  <2> DEFINE st == IF ok THEN "DONE" ELSE "FAILED"
  <2>0. Types' /\ boundary' = boundary
    BY <1>4, ResolveEffect DEF Calm
  <2>1. PICK i \in Ids :
          /\ tasks[i].status = "AWAITING" /\ Moves(i, st, tasks[i].fence, tasks[i].claimedBy)
          /\ Turns(c, th'[c]) /\ th'[c].pc = "decide" /\ th'[c].run = tasks[i].run
          /\ th'[c].ok = ok /\ th'[c].task = i
    BY <1>4, ResolveEffect
  <2>2. st \in {"DONE", "FAILED"} /\ (st = "FAILED" => ~ok)
    OBVIOUS
  <2> HIDE DEF st
  <2>3. MayLive(i) /\ tasks[i].run \in Runs /\ At(c, "decide")'
    BY <2>1, RowsAreRows DEF MayLive, Live, CInv, Types, At
  <2> QED
    BY <1>0, <2>0, <2>1, <2>2, <2>3, LoopSettle
<1>5. ASSUME NEW r \in Runs, NEW s \in Steps, AnswerCount(c, r, s)
      PROVE  LInv'
  <2>1. Types' /\ tasks' = tasks /\ boundary' = boundary /\ Turns(c, th'[c]) /\ th'[c].pc = "answer"
    BY <1>5, AnswerCountEffect DEF Calm
  <2>2. ~At(c, "running")' /\ th'[c].pc \notin Carrying
    BY <2>1 DEF At, Carrying, Reopening
  <2> QED
    BY <1>0, <2>1, <2>2, LoopTurn
<1>6. ASSUME NEW r \in Runs, NEW s \in Steps, RerunRead(c, r, s)
      PROVE  LInv'
  <2>1. /\ Types' /\ tasks' = tasks /\ boundary' = boundary /\ "rerun" \in Ops
        /\ runs[r] \in RerunFrom /\ Turns(c, th'[c])
        /\ th'[c].pc = (IF IsTerminal(runs[r]) THEN "rerun_reopen" ELSE "enqueue")
    BY <1>6, RerunReadEffect DEF Calm
  <2>2. runs[r] = "DONE"
    BY <2>1 DEF Serial
  <2>3. ~At(c, "running")' /\ th'[c].pc \in Reopening
    BY <2>1, <2>2 DEF At, Reopening, IsTerminal
  <2> QED
    BY <1>0, <2>1, <2>3, LoopTurn
<1> QED
  BY <1>1, <1>2, <1>3, <1>4, <1>5, <1>6 DEF CallStep

LEMMA LoopByCallRests ==
  ASSUME CInv, SInv, SInv', LInv, NEW c \in Clients, CallRest(c)
  PROVE  LInv'
<1>0. c \in Threads
  BY DEF Threads
<1>1. CASE StartEnqueue(c)
  <2>1. /\ Types' /\ boundary' = boundary /\ At(c, "start_enqueue") /\ Adds(th[c].run, 1, "none")
        /\ Turns(c, th'[c]) /\ th'[c].pc = "start_running"
    BY <1>1, StartEnqueueEffect DEF Calm
  <2>2. /\ Carries(c, th[c].run) /\ th'[c].pc \notin Carrying /\ ~At(c, "running")'
        /\ th[c].run \in Runs
    BY <1>0, <2>1 DEF CInv, ThreadOK, At, Carries, Carrying, Reopening
  <2>3. Free(th[c].run)
    BY <1>0, <2>1, <2>2, FreeRuns DEF LInv, GivesUp, At, Reopening
  <2> QED
    BY <1>0, <2>1, <2>2, <2>3, LoopAdd
<1>2. CASE StartSeedFails(c)
  BY <1>0, <1>2, StartSeedFailsEffect, LoopQuit
<1>3. CASE StartRunning(c)
  BY <1>0, <1>3, StartRunningEffect, LoopQuit
<1>4. CASE AnswerAwaiting(c)
  <2>1. Types' /\ boundary' = boundary
    BY <1>4, AnswerAwaitingEffect DEF Calm
  <2>2. CASE Quits(c)
    BY <1>0, <2>1, <2>2, LoopQuit
  <2>3. CASE ~Quits(c)
    <3>1. PICK i \in Ids :
            /\ tasks[i].status = "AWAITING" /\ tasks[i].run = th[c].run
            /\ Moves(i, "DONE", tasks[i].fence, tasks[i].claimedBy)
            /\ Turns(c, th'[c]) /\ th'[c].pc = "apply" /\ th'[c].run = th[c].run
      BY <1>4, <2>3, AnswerAwaitingEffect
    <3>2. MayLive(i) /\ tasks[i].run \in Runs
      BY <3>1, RowsAreRows DEF MayLive, Live, CInv, Types
    <3> QED
      BY <1>0, <2>1, <3>1, <3>2, LoopSettle
  <2> QED
    BY <2>2, <2>3
<1>5. CASE CancelTask(c)
  <2>1. Types' /\ boundary' = boundary
    BY <1>5, CancelTaskEffect DEF Calm
  <2>2. CASE Quits(c)
    BY <1>0, <2>1, <2>2, LoopQuit
  <2>3. CASE ~Quits(c)
    <3>1. PICK i \in Ids :
            /\ tasks[i].status \in {"QUEUED", "RUNNING", "AWAITING"}
            /\ Moves(i, "CANCELLED", tasks[i].fence, tasks[i].claimedBy)
            /\ Turns(c, th'[c]) /\ th'[c].pc = "cancel"
      BY <1>5, <2>3, CancelTaskEffect
    <3>2. MayLive(i) /\ ~At(c, "running")' /\ th'[c].pc \notin Carrying
      BY <3>1 DEF MayLive, Live, At, Carrying, Reopening
    <3> QED
      BY <1>0, <2>1, <3>1, <3>2, LoopMove
  <2> QED
    BY <2>2, <2>3
<1>6. CASE CancelRun(c)
  BY <1>0, <1>6, CancelRunEffect, LoopQuit
<1>7. CASE Reopen(c)
  <2>1. /\ Types' /\ tasks' = tasks /\ boundary'[th[c].run] = [at |-> Len(tasks), kept |-> TRUE]
        /\ \A q \in Runs \ {th[c].run} : boundary'[q] = boundary[q]
        /\ Turns(c, th'[c]) /\ th'[c].run = th[c].run /\ th[c].pc \in {"retry_reopen", "rerun_reopen"}
        /\ th'[c].pc \in {"retry_pick", "enqueue"}
    BY <1>7, ReopenEffect
  <2>2. th[c].run \in Runs /\ ~At(c, "running")'
    BY <1>0, <2>1 DEF CInv, ThreadOK, At
  <2>3. \A i \in FailedTasks(th[c].run)' : i <= boundary'[th[c].run].at
    <3>1. boundary'[th[c].run].at = Len(tasks)
      BY <2>1
    <3>2. \A i \in Ids' : i <= Len(tasks)
      BY <2>1, RowsAreRows DEF CInv, Types, Ids
    <3> QED
      BY <3>1, <3>2 DEF FailedTasks
  <2>4. FailedTasks(th[c].run)' = {i \in Ids' : tasks'[i].run = th'[c].run /\ tasks'[i].status = "FAILED"}
    BY <2>1 DEF FailedTasks
  <2> QED
    BY <1>0, <2>1, <2>2, <2>3, LoopAnew
<1>8. CASE RetryPick(c)
  <2>1. Types' /\ boundary' = boundary /\ tasks' = tasks /\ At(c, "retry_pick")
    BY <1>8, RetryPickEffect DEF Calm
  <2>2. CASE Quits(c)
    BY <1>0, <2>1, <2>2, LoopQuit
  <2>3. CASE ~Quits(c)
    <3>1. Turns(c, th'[c]) /\ th'[c].pc = "enqueue" /\ th'[c].run = th[c].run
      BY <1>8, <2>3, RetryPickEffect
    <3>2. /\ th[c].pc \in Carrying /\ th[c].pc \in {"retry_pick", "enqueue"} /\ ~At(c, "running")'
          /\ \A s \in Steps : ~GivesUp(c, s)
      BY <2>1, <3>1 DEF At, Carrying, Reopening, GivesUp
    <3> QED
      BY <1>0, <2>1, <3>1, <3>2, LoopTurn
  <2> QED
    BY <2>2, <2>3
<1>9. CASE EnqueueAgain(c)
  <2>1. /\ Types' /\ boundary' = boundary /\ At(c, "enqueue")
        /\ Adds(th[c].run, th[c].step, th[c].mark) /\ Turns(c, Resting)
    BY <1>9, EnqueueAgainEffect DEF Calm
  <2>2. /\ Turns(c, th'[c]) /\ th'[c].pc = "idle" /\ th[c].run \in Runs
    BY <1>0, <2>1, RestingType DEF Turns, CInv, ThreadOK, At
  <2>3. Carries(c, th[c].run) /\ ~At(c, "running")' /\ th'[c].pc \notin Carrying
    BY <2>1, <2>2 DEF At, Carries, Carrying, Reopening
  <2>4. Free(th[c].run)
    BY <1>0, <2>1, <2>2, <2>3, FreeRuns DEF LInv, GivesUp, At, Reopening
  <2> QED
    BY <1>0, <2>1, <2>2, <2>3, <2>4, LoopAdd
<1> QED
  BY <1>1, <1>2, <1>3, <1>4, <1>5, <1>6, <1>7, <1>8, <1>9 DEF CallRest

\* Failures are counted from the last retry event that is still in the table,
\* so never too few of them.
LEMMA CountsEnough ==
  ASSUME CInv, NEW r \in Runs, NEW s \in Steps
  PROVE  /\ Failures(r, s) <= countFailures(r, s) /\ Failures(r, s) \in Nat
         /\ countFailures(r, s) \in Nat
         /\ boundary[r].kept => Failures(r, s) = countFailures(r, s)
<1> DEFINE counted == {i \in Ids : /\ tasks[i].run = r /\ tasks[i].step = s
                                   /\ tasks[i].status = "FAILED" /\ i > LastRetryAt(r)}
<1>1. countFailures(r, s) = Cardinality(counted)
  BY DEF countFailures
<1>2. FailedSince(r, s) \subseteq counted
  <2>1. boundary[r].at \in Nat /\ \A i \in Ids : i \in Nat /\ i > 0
    BY RowsAreRows DEF CInv, Types
  <2> QED
    BY <2>1 DEF FailedSince, LastRetryAt
<1>3. boundary[r].kept => FailedSince(r, s) = counted
  BY DEF FailedSince, LastRetryAt
<1>4. IsFiniteSet(counted)
  <2>1. IsFiniteSet(Ids)
    BY RowsAreRows, FS_Interval DEF CInv, Types
  <2> QED
    BY <2>1, FS_Subset
<1> HIDE DEF counted
<1>5. Cardinality(FailedSince(r, s)) <= Cardinality(counted) /\ Cardinality(counted) \in Nat
  BY <1>2, <1>4, FS_Subset, FS_CardinalityType
<1> QED
  BY <1>1, <1>3, <1>5, FailedAreFinite DEF CInv

LEMMA LoopByAdvance ==
  ASSUME CInv, SInv, SInv', LInv, NEW h \in Threads, Advance(h)
  PROVE  LInv'
<1>1. CASE Decide(h)
  <2>1. /\ Types' /\ tasks' = tasks /\ boundary' = boundary /\ At(h, "decide")
        /\ Turns(h, th'[h]) /\ th'[h].pc = "apply" /\ th'[h].run = th[h].run
    BY <1>1, DecideEffect DEF Calm
  <2>2. th[h].pc \in Carrying /\ ~At(h, "running")' /\ th'[h].pc \notin {"retry_pick", "enqueue"}
    BY <2>1 DEF At, Carrying, Reopening
  <2>3. CASE th[h].ok
    <3>1. \A s \in Steps : ~GivesUp(h, s)
      BY <2>1, <2>3 DEF GivesUp, At, Reopening
    <3> QED
      BY <2>1, <2>2, <3>1, LoopTurn
  <2>4. CASE ~th[h].ok /\ th'[h].step = 0
    <3>1. \A s \in Steps : GivesUp(h, s)'
      BY <2>1, <2>4 DEF GivesUp, At
    <3> QED
      BY <2>1, <2>2, <3>1, LoopTurn
  <2>5. CASE ~th[h].ok /\ th'[h].step # 0
    <3> DEFINE t == tasks[th[h].task]
    <3>1. /\ countFailures(t.run, t.step) <= Flow[t.step].max
          /\ Flow[t.step].goto # 0
      BY <1>1, <2>5, DecideEffect
    <3>2. t.run \in Runs /\ t.step \in Steps /\ t.run = th[h].run
      BY <2>1, RowsAreRows DEF CInv, ThreadOK, At, Types
    <3> HIDE DEF t
    <3>3. Failures(t.run, t.step) <= Flow[t.step].max
      <4>1. Flow[t.step].max \in Nat
        BY <3>2, StepFacts
      <4> QED
        BY <3>1, <3>2, <4>1, CountsEnough
    <3>4. ASSUME NEW s \in Steps, GivesUp(h, s)
          PROVE  ~(Failures(th[h].run, s) > Flow[s].max)
      <4>1. s = t.step
        BY <2>1, <3>4 DEF GivesUp, At, Reopening, t
      <4>2. Failures(t.run, s) \in Nat /\ Flow[s].max \in Nat
        BY <3>2, FailedAreFinite, StepFacts DEF CInv
      <4> QED
        BY <3>2, <3>3, <4>1, <4>2
    <3> QED
      BY <2>1, <2>2, <3>4, LoopTurn
  <2> QED
    BY <2>3, <2>4, <2>5
<1>2. CASE Apply(h)
  <2>0. Types' /\ At(h, "apply") /\ th[h].run \in Runs
    BY <1>2, ApplyEffect DEF CInv, ThreadOK, At
  <2>1. CASE th[h].step = 0
    BY <1>2, <2>0, <2>1, ApplyEffect, StepFacts, LoopQuit
  <2>2. CASE th[h].step # 0
    <3>1. boundary' = boundary /\ Turns(h, Resting) /\ Adds(th[h].run, th[h].step, th[h].mark)
      BY <1>2, <2>2, ApplyEffect DEF Calm
    <3>2. /\ Turns(h, th'[h]) /\ th'[h].pc = "idle"
      BY <3>1, RestingType DEF Turns
    <3>3. Carries(h, th[h].run) /\ ~At(h, "running")' /\ th'[h].pc \notin Carrying
      BY <2>0, <3>2 DEF At, Carries, Carrying, Reopening
    <3>4. Free(th[h].run)
      BY <2>0, <2>2, <3>3, FreeRuns DEF LInv, GivesUp, At, Reopening
    <3> QED
      BY <2>0, <3>1, <3>2, <3>3, <3>4, LoopAdd
  <2> QED
    BY <2>1, <2>2
<1> QED
  BY <1>1, <1>2 DEF Advance

LEMMA InitLoop == Init => LInv
<1> SUFFICES ASSUME Init
             PROVE  LInv
  OBVIOUS
<1>1. Resting.pc = "idle" /\ th = [h \in Threads |-> Resting] /\ Ids = {}
  BY RestingType DEF Init, Ids
<1>2. \A r \in Runs : FreshCount(r)
  BY <1>1 DEF FreshCount, FailedTasks
<1>3. ASSUME NEW r \in Runs, NEW s \in Steps
      PROVE  Failures(r, s) = 0
  <2>1. FailedSince(r, s) = {}
    BY <1>1 DEF FailedSince
  <2> QED
    BY <2>1, FS_EmptySet DEF Failures, FailuresSince, FailedSince
<1>4. \A r \in Runs : UsedUp(r)
  BY <1>3, StepFacts DEF UsedUp
<1> QED
  BY <1>2, <1>4 DEF LInv

LEMMA NextLoop ==
  ASSUME Serial
  PROVE  CInv /\ SInv /\ LInv /\ [Next]_vars => LInv'
<1> SUFFICES ASSUME CInv, SInv, LInv, [Next]_vars
             PROVE  LInv'
  OBVIOUS
<1>0. SInv'
  BY NextSerial
<1>1. CASE UNCHANGED vars
  BY <1>1
  DEF vars, LInv, UsedUp, FreshCount, Again, Failures, FailuresSince, FailedTasks, GivesUp,
      MayLive, Live, Holds, Carries, At, Ids
<1>2. CASE \E w \in Workers : WorkerStep(w)
  BY <1>0, <1>2, LoopByWorkers
<1>3. CASE \E c \in Clients : CallStep(c) \/ CallRest(c)
  BY <1>0, <1>3, LoopByCalls, LoopByCallRests
<1>4. CASE \E h \in Threads : Advance(h) \/ Crash(h)
  BY <1>0, <1>4, LoopByAdvance, CrashEffect, LoopQuit
<1>5. CASE RequeueStale
  BY <1>5, LoopReap
<1>6. CASE \E r \in Runs : PruneEvents(r)
  <2>1. Types' /\ tasks' = tasks /\ th' = th /\ \A q \in Runs : boundary'[q].at = boundary[q].at
    BY <1>6, PruneEventsEffect
  <2>2. Ids' = Ids /\ \A q \in Runs : NoNewFailure(q)
    BY <2>1 DEF NoNewFailure, Ids
  <2>3. \A j \in Ids : MayLive(j)' => MayLive(j)
    BY <2>1 DEF MayLive, Live, Holds, At
  <2> QED
    BY <2>1, <2>2, <2>3, LoopKept DEF LInv
<1>7. CASE \E i \in Ids : HeartbeatExpires(i) \/ BackoffElapses(i)
  BY <1>7, HeartbeatExpiresEffect, BackoffElapsesEffect, LoopRefresh
<1> QED
  BY <1>1, <1>2, <1>3, <1>4, <1>5, <1>6, <1>7 DEF Next

\* on_fail.max bounds the attempts at a step, counted from the last retry,
\* whatever crashes, is requeued or loses its events to retention.
THEOREM LoopsAreBounded ==
  ASSUME Serial
  PROVE  Spec => []LoopBudget
<1>1. Init => CInv /\ SInv /\ LInv
  BY InitClaims, InitSerial, InitLoop
<1>2. CInv /\ SInv /\ LInv /\ [Next]_vars => CInv' /\ SInv' /\ LInv'
  BY NextClaims, NextSerial, NextLoop
<1>3. CInv /\ LInv => LoopBudget
  <2> SUFFICES ASSUME CInv, LInv, NEW r \in Runs, NEW s \in Steps, Flow[s].goto # 0
               PROVE  Failures(r, s) <= Flow[s].max + 1
    BY DEF LoopBudget, Failures
  <2>1. Failures(r, s) \in Nat /\ Flow[s].max \in Nat
    BY FailedAreFinite, StepFacts DEF CInv
  <2>2. Failures(r, s) > Flow[s].max => Failures(r, s) = Flow[s].max + 1
    BY DEF LInv, UsedUp
  <2> QED
    BY <2>1, <2>2
<1> QED
  BY <1>1, <1>2, <1>3, PTL DEF Spec

-----------------------------------------------------------------------------
(***************************************************************************)
(* What a step can be.  Whatever happens, rows keep their identity, a      *)
(* settled row stays settled and no task lives again that did not; the     *)
(* rest is who acts, and there are few kinds of acts.                      *)
(***************************************************************************)
Past ==
  /\ Types' /\ Ids \subseteq Ids' /\ Len(tasks) <= Len(tasks')
  /\ \A j \in Ids : /\ Same(tasks[j], tasks'[j])
                    /\ MayLive(j)' => MayLive(j)
                    /\ tasks[j].status \in {"DONE", "FAILED"} => tasks'[j].status = tasks[j].status

\* Nothing is settled or added, and who acts carries no run after it.
Idles ==
  /\ Past /\ Ids' = Ids
  /\ \A j \in Ids : tasks'[j].status \in {"DONE", "FAILED"} => tasks'[j].status = tasks[j].status
  /\ \A h \in Threads : th'[h] = th[h] \/ th'[h].pc \notin Carrying
  /\ \A q \in Runs : runs'[q] = runs[q] \/ runs'[q] \in {"RUNNING", "CANCELLED"}
  /\ \A q \in Runs : boundary'[q].at = boundary[q].at
  /\ boundary' = boundary \/ Retention

\* Thread h settles task i and carries its run.
Settles(h, i) ==
  /\ Past /\ Ids' = Ids /\ Calm /\ Turns(h, th'[h])
  /\ i \in Ids /\ MayLive(i) /\ \A j \in Ids \ {i} : tasks'[j] = tasks[j]
  /\ th'[h].run = tasks[i].run /\ th'[h].task = i
  /\ \/ /\ th'[h].pc = "decide" /\ tasks'[i].status = (IF th'[h].ok THEN "DONE" ELSE "FAILED")
        /\ \/ Flow[tasks[i].step].kind = "work"
           \/ (IF th'[h].ok THEN "approve" ELSE "reject") \in Ops
     \/ /\ Infra /\ th'[h].pc = "apply" /\ th'[h].step = 0 /\ th'[h].to = "FAILED"
        /\ tasks'[i].status = "FAILED"
     \/ /\ At(h, "answer") /\ th'[h].pc = "apply" /\ th'[h].step = Flow[tasks[i].step].goto
        /\ th'[h].mark = "none" /\ th'[h].step # 0 /\ tasks'[i].status = "DONE"

\* Thread h adds a task to the run it carries.
Enqueues(h, s, m) ==
  /\ Past /\ Calm /\ Turns(h, th'[h]) /\ th'[h].pc \notin Carrying /\ th[h].run \in Runs
  /\ Adds(th[h].run, s, m)
  /\ \/ At(h, "apply") /\ s = th[h].step /\ m = th[h].mark
     \/ At(h, "start_enqueue") /\ s = 1 /\ m = "none"
     \/ At(h, "enqueue") /\ s = th[h].step /\ m = th[h].mark

\* Thread h ends the run it carries.
Ends(h) ==
  /\ Past /\ Quits(h) /\ At(h, "apply") /\ th[h].step = 0 /\ th[h].run \in Runs
  /\ runs' = runs \/ Sets(th[h].run, th[h].to)


LEMMA PastOfStay ==
  ASSUME CInv, Types', tasks' = tasks, NEW h \in Threads, Turns(h, th'[h]), ~At(h, "running")'
  PROVE  Past /\ Ids' = Ids
BY StayFacts, RowsAreRows DEF Past, Same, CInv, Types

LEMMA PastOfMove ==
  ASSUME CInv, Types', NEW i \in Ids, NEW st, NEW n, NEW who, Moves(i, st, n, who),
         NEW h \in Threads, Turns(h, th'[h]), At(h, "running")' => th'[h].task = i, MayLive(i)
  PROVE  /\ Past /\ Ids' = Ids /\ \A j \in Ids \ {i} : tasks'[j] = tasks[j]
         /\ tasks'[i].status = st
<1>1. \A j \in Ids : MayLive(j)' => MayLive(j)
  BY MoveFacts
<1>2. tasks[i].status \notin {"DONE", "FAILED"}
  BY DEF MayLive, Live
<1>3. /\ Ids' = Ids /\ Len(tasks) <= Len(tasks')
      /\ \A j \in Ids : Same(tasks[j], tasks'[j])
      /\ \A j \in Ids \ {i} : tasks'[j] = tasks[j]
      /\ tasks'[i].status = st
  BY RowsAreRows DEF Moves, CInv, Types
<1> QED
  BY <1>1, <1>2, <1>3 DEF Past

LEMMA IdleQuit ==
  ASSUME CInv, Types', NEW h \in Threads, Quits(h),
         \A q \in Runs : runs'[q] = runs[q] \/ runs'[q] \in {"RUNNING", "CANCELLED"}
  PROVE  Idles
<1>1. /\ tasks' = tasks /\ boundary' = boundary /\ Turns(h, th'[h]) /\ th'[h].pc = "idle"
      /\ \A g \in Threads \ {h} : th'[g] = th[g]
  BY RestingType DEF Quits, Turns
<1>2. ~At(h, "running")' /\ th'[h].pc \notin Carrying
  BY <1>1 DEF At, Carrying, Reopening
<1> QED
  BY <1>1, <1>2, PastOfStay DEF Idles

LEMMA IdleTurn ==
  ASSUME CInv, Types', Calm, tasks' = tasks, NEW h \in Threads, Turns(h, th'[h]),
         th'[h].pc \notin Carrying, ~At(h, "running")'
  PROVE  Idles
BY PastOfStay DEF Idles, Calm, Turns

LEMMA IdleMove ==
  ASSUME CInv, Types', Calm, NEW i \in Ids, NEW st, NEW n, NEW who, Moves(i, st, n, who),
         NEW h \in Threads, Turns(h, th'[h]), At(h, "running")' => th'[h].task = i, MayLive(i),
         st \notin {"DONE", "FAILED"}, th'[h].pc \notin Carrying
  PROVE  Idles
BY PastOfMove DEF Idles, Calm, Turns

LEMMA IdleRefresh ==
  ASSUME CInv, Types', NEW i \in Ids, Refreshes(i)
  PROVE  Idles
<1>1. /\ Ids' = Ids /\ th' = th /\ runs' = runs /\ boundary' = boundary /\ Len(tasks') = Len(tasks)
      /\ \A j \in Ids : /\ Same(tasks[j], tasks'[j]) /\ tasks'[j].status = tasks[j].status
                        /\ tasks'[j].fence = tasks[j].fence
  BY DEF Refreshes, Moves, Same, Calm
<1>2. \A j \in Ids : MayLive(j)' => MayLive(j)
  BY <1>1, MayLiveFrom
<1> QED
  BY <1>1, <1>2, RowsAreRows DEF Idles, Past, CInv, Types

LEMMA IdleReap ==
  ASSUME CInv, RequeueStale
  PROVE  Idles
<1>1. Types' /\ Calm /\ Reaps /\ th' = th
  BY RequeueStaleEffect
<1>2. ASSUME NEW j \in Ids, MayLive(j)'
      PROVE  MayLive(j)
  <2>1. CASE tasks'[j] = tasks[j]
    BY <1>1, <1>2, <2>1, MayLiveFrom
  <2>2. CASE tasks[j].status = "RUNNING"
    BY <2>2 DEF MayLive, Live
  <2> QED
    BY <1>1, <2>1, <2>2 DEF Reaps
<1>3. \A j \in Ids : \/ tasks'[j].status = tasks[j].status
                     \/ tasks[j].status = "RUNNING" /\ tasks'[j].status = "QUEUED"
  BY <1>1 DEF Reaps
<1>4. Past /\ Ids' = Ids
  BY <1>1, <1>2, <1>3, RowsAreRows DEF Past, Reaps, CInv, Types
<1> QED
  BY <1>1, <1>3, <1>4 DEF Idles, Calm

LEMMA WorkerSteps ==
  ASSUME CInv, NEW w \in Workers, WorkerStep(w)
  PROVE  Idles \/ \E i \in Ids : Settles(w, i)
<1>0. w \in Threads
  BY DEF Threads
<1>1. CASE Claim(w)
  <2>0. Types' /\ Calm
    BY <1>1, ClaimEffect
  <2>1. PICK i \in Ids :
          /\ tasks[i].status = "QUEUED" /\ Moves(i, "RUNNING", tasks[i].fence + 1, w)
          /\ Turns(w, th'[w]) /\ th'[w].pc = "running" /\ th'[w].task = i
    BY <1>1, ClaimEffect
  <2>2. MayLive(i) /\ th'[w].pc \notin Carrying
    BY <2>1 DEF MayLive, Live, Carrying, Reopening
  <2> QED
    BY <1>0, <2>0, <2>1, <2>2, IdleMove
<1>2. CASE Heartbeat(w)
  <2>1. th[w].task \in Ids
    BY <1>2 DEF CInv, ThreadOK, Heartbeat, At, Threads
  <2> QED
    BY <1>2, <2>1, HeartbeatEffect, IdleRefresh
<1>3. CASE Park(w)
  <2>0. Types' /\ Calm
    BY <1>3, ParkEffect
  <2>1. CASE Quits(w)
    BY <1>0, <2>0, <2>1, IdleQuit DEF Calm
  <2>2. CASE ~Quits(w)
    <3>1. /\ Holds(w) /\ tasks[th[w].task].status = "RUNNING"
          /\ Moves(th[w].task, "AWAITING", tasks[th[w].task].fence, tasks[th[w].task].claimedBy)
          /\ Turns(w, Resting)
      BY <1>3, <2>2, ParkEffect
    <3>2. /\ Turns(w, th'[w]) /\ th'[w].pc = "idle" /\ th[w].task \in Ids /\ MayLive(th[w].task)
      BY <3>1, RestingType, HolderMayLive DEF Turns, Moves
    <3>3. th'[w].pc \notin Carrying /\ ~At(w, "running")'
      BY <3>2 DEF Carrying, Reopening, At
    <3> QED
      BY <1>0, <2>0, <3>1, <3>2, <3>3, IdleMove
  <2> QED
    BY <2>1, <2>2
<1>4. CASE FailTask(w)
  <2>0. Types' /\ Calm /\ Infra /\ At(w, "running")
    BY <1>4, FailTaskEffect
  <2>1. CASE Quits(w)
    BY <1>0, <2>0, <2>1, IdleQuit DEF Calm
  <2>2. CASE ~Quits(w)
    <3> DEFINE i == th[w].task
    <3>1. /\ Holds(w) /\ tasks[i].status = "RUNNING"
          /\ Moves(i, "FAILED", tasks[i].fence, tasks[i].claimedBy)
          /\ Turns(w, th'[w]) /\ th'[w].pc = "apply" /\ th'[w].run = th[w].run
          /\ th'[w].step = 0 /\ th'[w].to = "FAILED" /\ th'[w].task = i
      BY <1>4, <2>2, FailTaskEffect
    <3>2. /\ i \in Ids /\ MayLive(i) /\ tasks[i].run = th[w].run /\ ~At(w, "running")'
      BY <1>0, <2>0, <3>1, HolderMayLive DEF CInv, ThreadOK, At
    <3> HIDE DEF i
    <3>3. /\ Past /\ Ids' = Ids /\ \A j \in Ids \ {i} : tasks'[j] = tasks[j]
          /\ tasks'[i].status = "FAILED"
      BY <1>0, <2>0, <3>1, <3>2, PastOfMove
    <3> QED
      BY <1>0, <2>0, <3>1, <3>2, <3>3 DEF Settles
  <2> QED
    BY <2>1, <2>2
<1>5. CASE RequeueTransient(w)
  <2>0. Types' /\ Calm
    BY <1>5, RequeueTransientEffect
  <2>1. CASE Quits(w)
    BY <1>0, <2>0, <2>1, IdleQuit DEF Calm
  <2>2. CASE ~Quits(w)
    <3>1. /\ Holds(w) /\ tasks[th[w].task].status \in {"RUNNING", "CANCELLED"}
          /\ Moves(th[w].task, "QUEUED", tasks[th[w].task].fence + 1, tasks'[th[w].task].claimedBy)
          /\ Turns(w, Resting)
      BY <1>5, <2>2, RequeueTransientEffect
    <3>2. /\ Turns(w, th'[w]) /\ th'[w].pc = "idle" /\ th[w].task \in Ids /\ MayLive(th[w].task)
      BY <3>1, RestingType, HolderMayLive DEF Turns, Moves
    <3>3. th'[w].pc \notin Carrying /\ ~At(w, "running")'
      BY <3>2 DEF Carrying, Reopening, At
    <3> QED
      BY <1>0, <2>0, <3>1, <3>2, <3>3, IdleMove
  <2> QED
    BY <2>1, <2>2
<1>6. CASE \E ok \in BOOLEAN : Report(w, ok)
  <2> PICK ok \in BOOLEAN : Report(w, ok)
    BY <1>6
  <2>0. Types' /\ Calm /\ At(w, "running")
    BY ReportEffect
  <2>1. CASE Quits(w)
    BY <1>0, <2>0, <2>1, IdleQuit DEF Calm
  <2>2. CASE ~Quits(w)
    <3> DEFINE st == IF ok THEN "DONE" ELSE "FAILED"
               i == th[w].task
    <3>1. /\ Holds(w) /\ tasks[i].status = "RUNNING" /\ Flow[tasks[i].step].kind = "work"
          /\ Moves(i, st, tasks[i].fence, tasks[i].claimedBy)
          /\ Turns(w, th'[w]) /\ th'[w].pc = "decide" /\ th'[w].run = th[w].run
          /\ th'[w].ok = ok /\ th'[w].task = i
      BY <2>2, ReportEffect DEF StepOf
    <3>2. /\ i \in Ids /\ MayLive(i) /\ tasks[i].run = th[w].run /\ ~At(w, "running")'
      BY <1>0, <2>0, <3>1, HolderMayLive DEF CInv, ThreadOK, At
    <3> HIDE DEF i, st
    <3>3. /\ Past /\ Ids' = Ids /\ \A j \in Ids \ {i} : tasks'[j] = tasks[j]
          /\ tasks'[i].status = st
      BY <1>0, <2>0, <3>1, <3>2, PastOfMove
    <3>4. tasks'[i].status = (IF th'[w].ok THEN "DONE" ELSE "FAILED")
      BY <3>1, <3>3 DEF st
    <3> QED
      BY <1>0, <2>0, <3>1, <3>2, <3>3, <3>4 DEF Settles
  <2> QED
    BY <2>1, <2>2
<1> QED
  BY <1>1, <1>2, <1>3, <1>4, <1>5, <1>6 DEF WorkerStep

LEMMA CallSteps ==
  ASSUME CInv, NEW c \in Clients, CallStep(c)
  PROVE  \/ Idles
         \/ \E i \in Ids : Settles(c, i)
         \/ Past /\ \E r \in Runs : StartCreate(c, r) \/ RetryRead(c, r)
         \/ Past /\ \E r \in Runs, s \in Steps : RerunRead(c, r, s)
<1>0. c \in Threads
  BY DEF Threads
<1>1. ASSUME NEW r \in Runs, StartCreate(c, r)
      PROVE  Past
  <2>1. Types' /\ tasks' = tasks /\ Turns(c, th'[c]) /\ th'[c].pc = "start_enqueue"
    BY <1>1, StartCreateEffect
  <2> QED
    BY <1>0, <2>1, PastOfStay DEF At
<1>2. ASSUME NEW r \in Runs, CancelList(c, r)
      PROVE  Idles
  <2>1. Types' /\ Calm /\ tasks' = tasks /\ Turns(c, th'[c]) /\ th'[c].pc = "cancel"
    BY <1>2, CancelListEffect
  <2>2. ~At(c, "running")' /\ th'[c].pc \notin Carrying
    BY <2>1 DEF At, Carrying, Reopening
  <2> QED
    BY <1>0, <2>1, <2>2, IdleTurn
<1>3. ASSUME NEW r \in Runs, RetryRead(c, r)
      PROVE  Past
  <2>1. /\ Types' /\ tasks' = tasks /\ Turns(c, th'[c])
        /\ th'[c].pc = (IF runs[r] \in {"FAILED", "CANCELLED"} THEN "retry_reopen" ELSE "retry_pick")
    BY <1>3, RetryReadEffect
  <2>2. ~At(c, "running")'
    BY <2>1 DEF At
  <2> QED
    BY <1>0, <2>1, <2>2, PastOfStay
<1>4. ASSUME NEW r \in Runs, NEW s \in Steps, NEW ok \in BOOLEAN, Resolve(c, r, s, ok)
      PROVE  \E i \in Ids : Settles(c, i)
  <2> DEFINE st == IF ok THEN "DONE" ELSE "FAILED"
             op == IF ok THEN "approve" ELSE "reject"
  <2>0. Types' /\ Calm /\ op \in Ops
    BY <1>4, ResolveEffect
  <2>1. PICK i \in Ids :
          /\ tasks[i].status = "AWAITING" /\ Moves(i, st, tasks[i].fence, tasks[i].claimedBy)
          /\ Turns(c, th'[c]) /\ th'[c].pc = "decide" /\ th'[c].run = tasks[i].run
          /\ th'[c].ok = ok /\ th'[c].task = i
    BY <1>4, ResolveEffect
  <2>2. MayLive(i) /\ ~At(c, "running")'
    BY <2>1 DEF MayLive, Live, At
  <2>3. /\ op = (IF th'[c].ok THEN "approve" ELSE "reject")
        /\ st = (IF th'[c].ok THEN "DONE" ELSE "FAILED")
    BY <2>1
  <2> HIDE DEF st, op
  <2>4. /\ Past /\ Ids' = Ids /\ \A j \in Ids \ {i} : tasks'[j] = tasks[j]
        /\ tasks'[i].status = st
    BY <1>0, <2>0, <2>1, <2>2, PastOfMove
  <2>5. Settles(c, i)
    BY <2>0, <2>1, <2>2, <2>3, <2>4 DEF Settles
  <2> QED
    BY <2>5
<1>5. ASSUME NEW r \in Runs, NEW s \in Steps, AnswerCount(c, r, s)
      PROVE  Idles
  <2>1. Types' /\ Calm /\ tasks' = tasks /\ Turns(c, th'[c]) /\ th'[c].pc = "answer"
    BY <1>5, AnswerCountEffect
  <2>2. ~At(c, "running")' /\ th'[c].pc \notin Carrying
    BY <2>1 DEF At, Carrying, Reopening
  <2> QED
    BY <1>0, <2>1, <2>2, IdleTurn
<1>6. ASSUME NEW r \in Runs, NEW s \in Steps, RerunRead(c, r, s)
      PROVE  Past
  <2>1. /\ Types' /\ tasks' = tasks /\ Turns(c, th'[c])
        /\ th'[c].pc = (IF IsTerminal(runs[r]) THEN "rerun_reopen" ELSE "enqueue")
    BY <1>6, RerunReadEffect
  <2>2. ~At(c, "running")'
    BY <2>1 DEF At
  <2> QED
    BY <1>0, <2>1, <2>2, PastOfStay
<1> QED
  BY <1>1, <1>2, <1>3, <1>4, <1>5, <1>6 DEF CallStep

LEMMA PastOfAdd ==
  ASSUME CInv, Types', NEW r \in Runs, NEW s, NEW m, Adds(r, s, m), NEW h \in Threads, Turns(h, th'[h]),
         ~At(h, "running")'
  PROVE  Past
<1>1. Ids \subseteq Ids' /\ \A i \in Ids : tasks'[i] = tasks[i]
  BY DEF Adds
<1>2. \A w \in Workers : At(w, "running")' => th'[w] = th[w]
  BY DEF Threads, Turns
<1>3. \A j \in Ids : MayLive(j)' => MayLive(j)
  BY <1>1, <1>2, MayLiveFrom
<1>4. Len(tasks) <= Len(tasks')
  BY RowsAreRows DEF Adds, CInv, Types
<1> QED
  BY <1>1, <1>3, <1>4 DEF Past, Same

LEMMA CallRestSteps ==
  ASSUME CInv, NEW c \in Clients, CallRest(c)
  PROVE  \/ Idles
         \/ \E i \in Ids : Settles(c, i)
         \/ \E s \in Steps, m \in Marks : Enqueues(c, s, m)
         \/ Past /\ Reopen(c)
         \/ Past /\ RetryPick(c) /\ ~Quits(c)
<1>0. c \in Threads
  BY DEF Threads
<1>1. CASE StartEnqueue(c)
  <2>1. /\ Types' /\ Calm /\ At(c, "start_enqueue") /\ Adds(th[c].run, 1, "none")
        /\ Turns(c, th'[c]) /\ th'[c].pc = "start_running"
    BY <1>1, StartEnqueueEffect
  <2>2. /\ th'[c].pc \notin Carrying /\ ~At(c, "running")' /\ th[c].run \in Runs
    BY <1>0, <2>1 DEF CInv, ThreadOK, At, Carrying, Reopening
  <2>3. Past
    BY <1>0, <2>1, <2>2, PastOfAdd
  <2>4. Enqueues(c, 1, "none") /\ "none" \in Marks
    BY <2>1, <2>2, <2>3 DEF Enqueues, Marks
  <2> QED
    BY <2>4, StepFacts
<1>2. CASE StartSeedFails(c)
  BY <1>0, <1>2, StartSeedFailsEffect, IdleQuit DEF Calm
<1>3. CASE StartRunning(c)
  <2>1. /\ Types' /\ Quits(c) /\ (runs' = runs \/ Sets(th[c].run, "RUNNING"))
    BY <1>3, StartRunningEffect
  <2>2. \A q \in Runs : runs'[q] = runs[q] \/ runs'[q] \in {"RUNNING", "CANCELLED"}
    BY <2>1 DEF Sets
  <2> QED
    BY <1>0, <2>1, <2>2, IdleQuit
<1>4. CASE AnswerAwaiting(c)
  <2>1. Types' /\ Calm /\ At(c, "answer")
    BY <1>4, AnswerAwaitingEffect
  <2>2. CASE Quits(c)
    BY <1>0, <2>1, <2>2, IdleQuit DEF Calm
  <2>3. CASE ~Quits(c)
    <3>1. PICK i \in Ids :
            /\ tasks[i].status = "AWAITING" /\ tasks[i].run = th[c].run /\ tasks[i].step = th[c].step
            /\ Moves(i, "DONE", tasks[i].fence, tasks[i].claimedBy)
            /\ Turns(c, th'[c]) /\ th'[c].pc = "apply" /\ th'[c].run = th[c].run
            /\ th'[c].task = i /\ th'[c].step = Flow[th[c].step].goto /\ th'[c].mark = th[c].mark
      BY <1>4, <2>3, AnswerAwaitingEffect
    <3>2. MayLive(i) /\ ~At(c, "running")' /\ th[c].mark = "none" /\ th'[c].step # 0
      BY <1>0, <2>1, <3>1 DEF MayLive, Live, CInv, ThreadOK, At
    <3>3. /\ Past /\ Ids' = Ids /\ \A j \in Ids \ {i} : tasks'[j] = tasks[j]
          /\ tasks'[i].status = "DONE"
      BY <1>0, <2>1, <3>1, <3>2, PastOfMove
    <3>4. Settles(c, i)
      BY <2>1, <3>1, <3>2, <3>3 DEF Settles
    <3> QED
      BY <3>4
  <2> QED
    BY <2>2, <2>3
<1>5. CASE CancelTask(c)
  <2>1. Types' /\ Calm
    BY <1>5, CancelTaskEffect
  <2>2. CASE Quits(c)
    BY <1>0, <2>1, <2>2, IdleQuit DEF Calm
  <2>3. CASE ~Quits(c)
    <3>1. PICK i \in Ids :
            /\ tasks[i].status \in {"QUEUED", "RUNNING", "AWAITING"}
            /\ Moves(i, "CANCELLED", tasks[i].fence, tasks[i].claimedBy)
            /\ Turns(c, th'[c]) /\ th'[c].pc = "cancel"
      BY <1>5, <2>3, CancelTaskEffect
    <3>2. MayLive(i) /\ ~At(c, "running")' /\ th'[c].pc \notin Carrying
      BY <3>1 DEF MayLive, Live, At, Carrying, Reopening
    <3> QED
      BY <1>0, <2>1, <3>1, <3>2, IdleMove
  <2> QED
    BY <2>2, <2>3
<1>6. CASE CancelRun(c)
  <2>1. Types' /\ Quits(c) /\ (runs' = runs \/ Sets(th[c].run, "CANCELLED"))
    BY <1>6, CancelRunEffect
  <2>2. \A q \in Runs : runs'[q] = runs[q] \/ runs'[q] \in {"RUNNING", "CANCELLED"}
    BY <2>1 DEF Sets
  <2> QED
    BY <1>0, <2>1, <2>2, IdleQuit
<1>7. CASE Reopen(c)
  <2>1. /\ Types' /\ tasks' = tasks /\ Turns(c, th'[c])
        /\ th'[c].pc \in {"retry_pick", "enqueue"}
    BY <1>7, ReopenEffect
  <2> QED
    BY <1>0, <1>7, <2>1, PastOfStay DEF At
<1>8. CASE RetryPick(c)
  <2>1. Types' /\ Calm /\ tasks' = tasks
    BY <1>8, RetryPickEffect
  <2>2. CASE Quits(c)
    BY <1>0, <2>1, <2>2, IdleQuit DEF Calm
  <2>3. CASE ~Quits(c)
    <3>1. Turns(c, th'[c]) /\ th'[c].pc = "enqueue"
      BY <1>8, <2>3, RetryPickEffect
    <3> QED
      BY <1>0, <1>8, <2>1, <2>3, <3>1, PastOfStay DEF At
  <2> QED
    BY <2>2, <2>3
<1>9. CASE EnqueueAgain(c)
  <2>1. /\ Types' /\ Calm /\ At(c, "enqueue")
        /\ Adds(th[c].run, th[c].step, th[c].mark) /\ Turns(c, Resting)
    BY <1>9, EnqueueAgainEffect
  <2>2. /\ Turns(c, th'[c]) /\ th'[c].pc = "idle" /\ th[c].run \in Runs
        /\ th[c].step \in Steps /\ th[c].mark \in Marks
    BY <1>0, <2>1, RestingType DEF Turns, CInv, ThreadOK, At, Types, Local
  <2>3. ~At(c, "running")' /\ th'[c].pc \notin Carrying
    BY <2>2 DEF At, Carrying, Reopening
  <2>4. Past
    BY <1>0, <2>1, <2>2, <2>3, PastOfAdd
  <2>5. Enqueues(c, th[c].step, th[c].mark)
    BY <2>1, <2>2, <2>3, <2>4 DEF Enqueues
  <2> QED
    BY <2>2, <2>5
<1> QED
  BY <1>1, <1>2, <1>3, <1>4, <1>5, <1>6, <1>7, <1>8, <1>9 DEF CallRest

LEMMA AdvanceSteps ==
  ASSUME CInv, NEW h \in Threads, Advance(h)
  PROVE  \/ Past /\ Decide(h)
         \/ \E s \in Steps, m \in Marks : Enqueues(h, s, m)
         \/ Ends(h)
<1>1. CASE Decide(h)
  <2>1. /\ Types' /\ tasks' = tasks /\ Turns(h, th'[h]) /\ th'[h].pc = "apply"
    BY <1>1, DecideEffect
  <2> QED
    BY <1>1, <2>1, PastOfStay DEF At
<1>2. CASE Apply(h)
  <2>0. Types' /\ At(h, "apply") /\ th[h].run \in Runs /\ th[h].mark \in Marks
    BY <1>2, ApplyEffect DEF CInv, ThreadOK, At, Types, Local
  <2>1. CASE th[h].step = 0
    <3>1. Quits(h) /\ (runs' = runs \/ Sets(th[h].run, th[h].to))
      BY <1>2, <2>1, ApplyEffect, StepFacts
    <3>2. tasks' = tasks /\ Turns(h, th'[h]) /\ ~At(h, "running")'
      BY <3>1, RestingType DEF Quits, Turns, At
    <3> QED
      BY <2>0, <2>1, <3>1, <3>2, PastOfStay DEF Ends
  <2>2. CASE th[h].step # 0
    <3>1. Calm /\ Turns(h, Resting) /\ Adds(th[h].run, th[h].step, th[h].mark) /\ th[h].step \in Steps
      BY <1>2, <2>2, ApplyEffect
    <3>2. /\ Turns(h, th'[h]) /\ th'[h].pc = "idle"
      BY <3>1, RestingType DEF Turns
    <3>3. ~At(h, "running")' /\ th'[h].pc \notin Carrying
      BY <3>2 DEF At, Carrying, Reopening
    <3>4. Past
      BY <2>0, <3>1, <3>2, <3>3, PastOfAdd
    <3>5. Enqueues(h, th[h].step, th[h].mark)
      BY <2>0, <3>1, <3>2, <3>3, <3>4 DEF Enqueues
    <3> QED
      BY <2>0, <3>1, <3>5
  <2> QED
    BY <2>1, <2>2
<1> QED
  BY <1>1, <1>2 DEF Advance

LEMMA StepShapes ==
  ASSUME CInv, [Next]_vars
  PROVE  \/ Idles
         \/ \E h \in Threads, i \in Ids : Settles(h, i)
         \/ \E h \in Threads, s \in Steps, m \in Marks : Enqueues(h, s, m)
         \/ \E h \in Threads : Ends(h)
         \/ Past /\ \E h \in Threads : Decide(h)
         \/ Past /\ \E c \in Clients, r \in Runs : StartCreate(c, r) \/ RetryRead(c, r)
         \/ Past /\ \E c \in Clients, r \in Runs, s \in Steps : RerunRead(c, r, s)
         \/ Past /\ \E c \in Clients : Reopen(c) \/ (RetryPick(c) /\ ~Quits(c))
<1>0. Workers \subseteq Threads /\ Clients \subseteq Threads
  BY DEF Threads
<1>1. CASE UNCHANGED vars
  <2>1. /\ tasks' = tasks /\ runs' = runs /\ boundary' = boundary /\ th' = th /\ Types'
    BY <1>1 DEF vars, CInv, Types
  <2>2. Ids' = Ids /\ \A j \in Ids : MayLive(j)' => MayLive(j)
    BY <2>1 DEF MayLive, Live, Holds, At, Ids
  <2> QED
    BY <2>1, <2>2, RowsAreRows DEF Idles, Past, Same, CInv, Types
<1>2. CASE \E w \in Workers : WorkerStep(w)
  BY <1>0, <1>2, WorkerSteps
<1>3. CASE \E c \in Clients : CallStep(c)
  BY <1>0, <1>3, CallSteps
<1>4. CASE \E c \in Clients : CallRest(c)
  BY <1>0, <1>4, CallRestSteps
<1>5. CASE \E h \in Threads : Advance(h) \/ Crash(h)
  BY <1>5, AdvanceSteps, CrashEffect, IdleQuit DEF Calm
<1>6. CASE RequeueStale
  BY <1>6, IdleReap
<1>7. CASE \E r \in Runs : PruneEvents(r)
  <2>1. /\ Types' /\ tasks' = tasks /\ runs' = runs /\ th' = th /\ Retention
        /\ \A q \in Runs : boundary'[q].at = boundary[q].at
    BY <1>7, PruneEventsEffect
  <2>2. Ids' = Ids /\ \A j \in Ids : MayLive(j)' => MayLive(j)
    BY <2>1 DEF MayLive, Live, Holds, At, Ids
  <2> QED
    BY <2>1, <2>2, RowsAreRows DEF Idles, Past, Same, CInv, Types
<1>8. CASE \E i \in Ids : HeartbeatExpires(i) \/ BackoffElapses(i)
  BY <1>8, HeartbeatExpiresEffect, BackoffElapsesEffect, IdleRefresh
<1> QED
  BY <1>1, <1>2, <1>3, <1>4, <1>5, <1>6, <1>7, <1>8 DEF Next

-----------------------------------------------------------------------------
(***************************************************************************)
(* Why a run fails.  With manifests that load and events that are kept, a  *)
(* run is FAILED only when a step has no attempt left: a task that may     *)
(* live was enqueued after the boundary, so the failure that ends the run  *)
(* counts.                                                                 *)
(***************************************************************************)
Exhausted(r) ==
  \E s \in Steps : IF Flow[s].goto = 0 THEN Failures(r, s) > 0 ELSE Failures(r, s) > Flow[s].max

FailsOver(h, r) == At(h, "apply") /\ th[h].run = r /\ th[h].step = 0 /\ th[h].to = "FAILED"
SawFailure(h, r) == At(h, "decide") /\ th[h].run = r /\ ~th[h].ok

RunExhausts(r) ==
  /\ boundary[r].kept /\ boundary[r].at <= Len(tasks)
  /\ runs[r] = "FAILED" => Exhausted(r)
  /\ \A i \in Ids : tasks[i].run = r /\ MayLive(i) => i > boundary[r].at
  /\ \A h \in Threads : FailsOver(h, r) => Exhausted(r)
  /\ \A h \in Threads : SawFailure(h, r) => th[h].task > boundary[r].at

EInv == \A r \in Runs : RunExhausts(r)

LEMMA ExhaustedStays ==
  ASSUME CInv, Past, NEW r \in Runs, Exhausted(r), boundary'[r].at = boundary[r].at
  PROVE  Exhausted(r)'
<1>1. PICK s \in Steps :
        IF Flow[s].goto = 0 THEN Failures(r, s) > 0 ELSE Failures(r, s) > Flow[s].max
  BY DEF Exhausted
<1>2. FailedSince(r, s) \subseteq FailedSince(r, s)'
  BY DEF FailedSince, Past, Same
<1>3. IsFiniteSet(FailedSince(r, s)')
  <2>1. Len(tasks') \in Nat /\ Ids' = 1..Len(tasks')
    BY LenProperties DEF Past, Types, Ids
  <2>2. IsFiniteSet(Ids') /\ FailedSince(r, s)' \subseteq Ids'
    BY <2>1, FS_Interval DEF FailedSince
  <2> QED
    BY <2>2, FS_Subset
<1>4. Failures(r, s)' = Cardinality(FailedSince(r, s)') /\ Failures(r, s)' \in Nat
  BY <1>3, FS_CardinalityType DEF Failures, FailuresSince, FailedSince
<1>5. Failures(r, s) <= Failures(r, s)' /\ Failures(r, s) \in Nat
  BY <1>2, <1>3, <1>4, FailedAreFinite, FS_Subset DEF CInv
<1>6. IF Flow[s].goto = 0 THEN Failures(r, s)' > 0 ELSE Failures(r, s)' > Flow[s].max
  <2>1. Flow[s].max \in Nat
    BY StepFacts
  <2> QED
    BY <1>1, <1>4, <1>5, <2>1
<1> QED
  BY <1>6 DEF Exhausted

\* What keeps the invariant for a run whose boundary stays.
LEMMA ExhaustsKept ==
  ASSUME CInv, Past, NEW r \in Runs, RunExhausts(r), boundary'[r] = boundary[r],
         runs'[r] = "FAILED" => runs[r] = "FAILED" \/ Exhausted(r),
         \A j \in Ids' \ Ids : tasks'[j].run = r => j > Len(tasks),
         \A h \in Threads : FailsOver(h, r)' => FailsOver(h, r) \/ Exhausted(r)',
         \A h \in Threads : SawFailure(h, r)' =>
           (SawFailure(h, r) /\ th'[h].task = th[h].task) \/ th'[h].task > boundary[r].at
  PROVE  RunExhausts(r)'
<1>1. Exhausted(r) => Exhausted(r)'
  BY ExhaustedStays
<1>2. /\ boundary[r].kept /\ boundary[r].at <= Len(tasks) /\ boundary[r].at \in Nat
      /\ Len(tasks) \in Nat /\ Len(tasks') \in Nat /\ Len(tasks) <= Len(tasks')
  BY LenProperties DEF RunExhausts, Past, CInv, Types
<1>3. boundary'[r].kept /\ boundary'[r].at <= Len(tasks')
  BY <1>2
<1>4. \A i \in Ids' : i \in Nat
  BY LenProperties DEF Past, Types, Ids
<1>5. ASSUME NEW i \in Ids', tasks'[i].run = r, MayLive(i)'
      PROVE  i > boundary'[r].at
  <2>1. CASE i \in Ids
    BY <1>5, <2>1 DEF RunExhausts, Past, Same
  <2>2. CASE i \notin Ids
    BY <1>2, <1>4, <1>5, <2>2
  <2> QED
    BY <2>1, <2>2
<1>6. runs'[r] = "FAILED" => Exhausted(r)'
  BY <1>1 DEF RunExhausts
<1>7. \A h \in Threads : FailsOver(h, r)' => Exhausted(r)'
  BY <1>1 DEF RunExhausts
<1>8. \A h \in Threads : SawFailure(h, r)' => th'[h].task > boundary'[r].at
  BY DEF RunExhausts
<1> QED
  BY <1>3, <1>5, <1>6, <1>7, <1>8 DEF RunExhausts

\* Only thread h turns.
LEMMA ExhaustsTurned ==
  ASSUME CInv, Past, NEW r \in Runs, RunExhausts(r), boundary'[r] = boundary[r],
         runs'[r] = "FAILED" => runs[r] = "FAILED" \/ Exhausted(r),
         \A j \in Ids' \ Ids : tasks'[j].run = r => j > Len(tasks),
         NEW h \in Threads, \A g \in Threads \ {h} : th'[g] = th[g],
         FailsOver(h, r)' => Exhausted(r)', 
         SawFailure(h, r)' => th'[h].task > boundary[r].at
  PROVE  RunExhausts(r)'
<1>1. \A g \in Threads : FailsOver(g, r)' => FailsOver(g, r) \/ Exhausted(r)'
  BY DEF FailsOver, At
<1>2. \A g \in Threads : SawFailure(g, r)' =>
        (SawFailure(g, r) /\ th'[g].task = th[g].task) \/ th'[g].task > boundary[r].at
  BY DEF SawFailure, At
<1> QED
  BY <1>1, <1>2, ExhaustsKept

LEMMA NextExhausts ==
  ASSUME Serial, ~Infra, ~Retention
  PROVE  CInv /\ SInv /\ EInv /\ [Next]_vars => EInv'
<1> SUFFICES ASSUME CInv, SInv, EInv, [Next]_vars
             PROVE  EInv'
  OBVIOUS
<1>0. Clients \subseteq Threads
  BY DEF Threads
<1>1. CASE Idles
  <2> SUFFICES ASSUME NEW r \in Runs
               PROVE  RunExhausts(r)'
    BY DEF EInv
  <2>1. /\ Past /\ Ids' = Ids /\ boundary' = boundary
        /\ runs'[r] = "FAILED" => runs[r] = "FAILED"
    BY <1>1 DEF Idles
  <2>2. \A h \in Threads : th'[h] = th[h] \/ (~FailsOver(h, r)' /\ ~SawFailure(h, r)')
    BY <1>1 DEF Idles, FailsOver, SawFailure, At, Carrying
  <2>3. /\ \A h \in Threads : FailsOver(h, r)' => FailsOver(h, r)
        /\ \A h \in Threads : SawFailure(h, r)' => SawFailure(h, r) /\ th'[h].task = th[h].task
    BY <2>2 DEF FailsOver, SawFailure, At
  <2> QED
    BY <2>1, <2>3, ExhaustsKept DEF EInv
<1>2. ASSUME NEW h \in Threads, NEW i \in Ids, Settles(h, i)
      PROVE  EInv'
  <2> SUFFICES ASSUME NEW r \in Runs
               PROVE  RunExhausts(r)'
    BY DEF EInv
  <2>1. /\ Past /\ Ids' = Ids /\ boundary' = boundary /\ runs' = runs /\ MayLive(i)
        /\ \A g \in Threads \ {h} : th'[g] = th[g]
        /\ th'[h].run = tasks[i].run /\ th'[h].task = i
        /\ th'[h].pc = "apply" => th'[h].step # 0
    BY <1>2 DEF Settles, Turns, Calm
  <2>2. ~FailsOver(h, r)'
    BY <2>1 DEF FailsOver, At
  <2>3. SawFailure(h, r)' => th'[h].task > boundary[r].at
    BY <2>1 DEF SawFailure, EInv, RunExhausts
  <2> QED
    BY <2>1, <2>2, <2>3, ExhaustsTurned DEF EInv
<1>3. ASSUME NEW h \in Threads, NEW s \in Steps, NEW m \in Marks, Enqueues(h, s, m)
      PROVE  EInv'
  <2> SUFFICES ASSUME NEW r \in Runs
               PROVE  RunExhausts(r)'
    BY DEF EInv
  <2>1. /\ Past /\ boundary' = boundary /\ runs' = runs
        /\ \A g \in Threads \ {h} : th'[g] = th[g]
        /\ th'[h].pc \notin Carrying
        /\ \A j \in Ids' \ Ids : j = Len(tasks) + 1
    BY <1>3 DEF Enqueues, Turns, Calm, Adds
  <2>2. ~FailsOver(h, r)' /\ ~SawFailure(h, r)'
    BY <2>1 DEF FailsOver, SawFailure, At, Carrying
  <2>3. \A j \in Ids' \ Ids : j > Len(tasks)
    BY <2>1, RowsAreRows DEF CInv, Types
  <2> QED
    BY <2>1, <2>2, <2>3, ExhaustsTurned DEF EInv
<1>4. ASSUME NEW h \in Threads, Ends(h)
      PROVE  EInv'
  <2> SUFFICES ASSUME NEW r \in Runs
               PROVE  RunExhausts(r)'
    BY DEF EInv
  <2>1. /\ Past /\ tasks' = tasks /\ boundary' = boundary
        /\ \A g \in Threads \ {h} : th'[g] = th[g]
        /\ th'[h].pc = "idle" /\ At(h, "apply") /\ th[h].step = 0
        /\ runs' = runs \/ Sets(th[h].run, th[h].to)
    BY <1>4, RestingType DEF Ends, Quits, Turns
  <2>2. ~FailsOver(h, r)' /\ ~SawFailure(h, r)'
    BY <2>1 DEF FailsOver, SawFailure, At
  <2>3. runs'[r] = "FAILED" => runs[r] = "FAILED" \/ Exhausted(r)
    BY <2>1 DEF Sets, FailsOver, EInv, RunExhausts
  <2> QED
    BY <2>1, <2>2, <2>3, ExhaustsTurned DEF EInv, Ids
<1>5. ASSUME Past, NEW h \in Threads, Decide(h)
      PROVE  EInv'
  <2> SUFFICES ASSUME NEW r \in Runs
               PROVE  RunExhausts(r)'
    BY DEF EInv
  <2>1. /\ runs' = runs /\ boundary' = boundary /\ tasks' = tasks /\ At(h, "decide")
        /\ \A g \in Threads \ {h} : th'[g] = th[g]
        /\ th'[h].pc = "apply" /\ th'[h].run = th[h].run
    BY <1>5, DecideEffect DEF Calm, Turns
  <2>2. ASSUME FailsOver(h, r)'
        PROVE  Exhausted(r)
    <3> DEFINE i == th[h].task
               s == tasks[i].step
    <3>1. /\ ~th[h].ok /\ th[h].run = r
          /\ Flow[s].goto # 0 => ~(countFailures(tasks[i].run, s) <= Flow[s].max)
      BY <1>5, <2>1, <2>2, DecideEffect DEF FailsOver, At
    <3>2. /\ i \in Ids /\ tasks[i].run = r /\ s \in Steps /\ tasks[i].status = "FAILED"
      BY <2>1, <3>1, RowsAreRows DEF CInv, ThreadOK, At, Types
    <3>3. i > boundary[r].at /\ boundary[r].kept
      BY <2>1, <3>1 DEF EInv, RunExhausts, SawFailure
    <3>4. i \in FailedSince(r, s)
      BY <3>2, <3>3 DEF FailedSince
    <3> HIDE DEF i, s
    <3>5. Failures(r, s) > 0
      <4>1. IsFiniteSet(FailedSince(r, s)) /\ Failures(r, s) = Cardinality(FailedSince(r, s)) /\ Failures(r, s) \in Nat
        BY <3>2, FailedAreFinite DEF CInv
      <4>2. Cardinality(FailedSince(r, s)) # 0
        BY <3>4, <4>1, FS_EmptySet
      <4> QED
        BY <4>1, <4>2
    <3>6. Flow[s].goto # 0 => Failures(r, s) > Flow[s].max
      <4>1. /\ Failures(r, s) = countFailures(r, s) /\ Failures(r, s) \in Nat /\ Flow[s].max \in Nat
        BY <3>2, <3>3, CountsEnough, StepFacts
      <4> QED
        BY <3>1, <3>2, <4>1
    <3> QED
      BY <3>2, <3>5, <3>6 DEF Exhausted
  <2>3. Exhausted(r) => Exhausted(r)'
    BY <1>5, <2>1, ExhaustedStays
  <2>4. ~SawFailure(h, r)'
    BY <2>1 DEF SawFailure, At
  <2> QED
    BY <1>5, <2>1, <2>2, <2>3, <2>4, ExhaustsTurned DEF EInv, Ids
<1>6. ASSUME Past, NEW c \in Clients, NEW p \in Runs, StartCreate(c, p) \/ RetryRead(c, p)
      PROVE  EInv'
  <2> SUFFICES ASSUME NEW r \in Runs
               PROVE  RunExhausts(r)'
    BY DEF EInv
  <2>1. /\ boundary' = boundary /\ tasks' = tasks /\ c \in Threads
        /\ \A g \in Threads \ {c} : th'[g] = th[g]
        /\ th'[c].pc \in {"start_enqueue", "retry_reopen", "retry_pick"}
        /\ runs' = runs \/ Sets(p, "QUEUED")
    BY <1>6, StartCreateEffect, RetryReadEffect DEF Calm, Turns
  <2>2. /\ ~FailsOver(c, r)' /\ ~SawFailure(c, r)' /\ (runs'[r] = "FAILED" => runs[r] = "FAILED")
    BY <2>1 DEF FailsOver, SawFailure, At, Sets
  <2> QED
    BY <1>6, <2>1, <2>2, ExhaustsTurned DEF EInv, Ids
<1>7. ASSUME Past, NEW c \in Clients, NEW p \in Runs, NEW s \in Steps, RerunRead(c, p, s)
      PROVE  EInv'
  <2> SUFFICES ASSUME NEW r \in Runs
               PROVE  RunExhausts(r)'
    BY DEF EInv
  <2>1. /\ boundary' = boundary /\ tasks' = tasks /\ c \in Threads /\ runs' = runs
        /\ \A g \in Threads \ {c} : th'[g] = th[g]
        /\ th'[c].pc \in {"rerun_reopen", "enqueue"}
    BY <1>7, RerunReadEffect DEF Calm, Turns
  <2>2. ~FailsOver(c, r)' /\ ~SawFailure(c, r)'
    BY <2>1 DEF FailsOver, SawFailure, At
  <2> QED
    BY <1>7, <2>1, <2>2, ExhaustsTurned DEF EInv, Ids
<1>8. ASSUME Past, NEW c \in Clients, RetryPick(c), ~Quits(c)
      PROVE  EInv'
  <2> SUFFICES ASSUME NEW r \in Runs
               PROVE  RunExhausts(r)'
    BY DEF EInv
  <2>1. /\ boundary' = boundary /\ tasks' = tasks /\ c \in Threads /\ runs' = runs
        /\ \A g \in Threads \ {c} : th'[g] = th[g]
        /\ th'[c].pc = "enqueue"
    BY <1>8, RetryPickEffect DEF Calm, Turns
  <2>2. ~FailsOver(c, r)' /\ ~SawFailure(c, r)'
    BY <2>1 DEF FailsOver, SawFailure, At
  <2> QED
    BY <1>8, <2>1, <2>2, ExhaustsTurned DEF EInv, Ids
<1>9. ASSUME Past, NEW c \in Clients, Reopen(c)
      PROVE  EInv'
  <2>0. PICK p \in Runs : p = th[c].run
    BY <1>0, <1>9, ReopenEffect DEF CInv, ThreadOK, At
  <2>1. /\ tasks' = tasks /\ c \in Threads /\ Sets(p, "RUNNING") /\ th[c].pc \in Reopening
        /\ boundary'[p] = [at |-> Len(tasks), kept |-> TRUE]
        /\ \A q \in Runs \ {p} : boundary'[q] = boundary[q]
        /\ \A g \in Threads \ {c} : th'[g] = th[g]
        /\ th'[c].pc \in {"retry_pick", "enqueue"}
    BY <1>9, <2>0, ReopenEffect DEF Turns, Reopening
  <2>2. Carries(c, p) /\ RunSerial(p)
    BY <2>0, <2>1 DEF Carries, Carrying, SInv
  <2>3. ASSUME NEW r \in Runs \ {p}
        PROVE  RunExhausts(r)'
    <3>1. ~FailsOver(c, r)' /\ ~SawFailure(c, r)' /\ runs'[r] = runs[r]
      BY <2>1 DEF FailsOver, SawFailure, At, Sets
    <3> QED
      BY <1>9, <2>1, <3>1, ExhaustsTurned DEF EInv, Ids
  <2>4. RunExhausts(p)'
    <3>1. boundary'[p].kept /\ boundary'[p].at <= Len(tasks') /\ runs'[p] # "FAILED"
      BY <2>1, <2>2, RowsAreRows DEF Sets, CInv, Types
    <3>2. \A g \in Threads \ {c} : ~Carries(g, p) /\ ~FailsOver(g, p)' /\ ~SawFailure(g, p)'
      BY <2>1, <2>2 DEF RunSerial, Carries, Carrying, FailsOver, SawFailure, At
    <3>3. ~FailsOver(c, p)' /\ ~SawFailure(c, p)'
      BY <2>1 DEF FailsOver, SawFailure, At
    <3>4. \A i \in Ids : tasks[i].run = p => ~MayLive(i)
      BY <2>1, <2>2 DEF RunSerial
    <3>5. \A i \in Ids' : tasks'[i].run = p => ~MayLive(i)'
      BY <1>9, <2>1, <3>4 DEF Past, Ids
    <3> QED
      BY <3>1, <3>2, <3>3, <3>5 DEF RunExhausts
  <2> QED
    BY <2>3, <2>4 DEF EInv
<1> QED
  BY <1>1, <1>2, <1>3, <1>4, <1>5, <1>6, <1>7, <1>8, <1>9, StepShapes

LEMMA InitExhausts == Init => EInv
<1> SUFFICES ASSUME Init
             PROVE  EInv
  OBVIOUS
<1>1. /\ Resting.pc = "idle" /\ runs = [r \in Runs |-> "NONE"] /\ th = [h \in Threads |-> Resting]
      /\ boundary = [r \in Runs |-> [at |-> 0, kept |-> TRUE]] /\ tasks = <<>>
  BY RestingType DEF Init
<1>2. Ids = {} /\ Len(tasks) = 0
  BY <1>1 DEF Ids
<1>3. \A h \in Threads : th[h].pc = "idle"
  BY <1>1
<1> QED
  BY <1>1, <1>2, <1>3 DEF EInv, RunExhausts, FailsOver, SawFailure, At

\* A run fails only when a step without on_fail failed, or a step used up its
\* attempts since the last retry: the old failures of a retried run never fail
\* it again.
THEOREM FailuresExhaust ==
  ASSUME Serial, ~Infra, ~Retention
  PROVE  Spec => []FailedMeansExhausted
<1>1. Init => CInv /\ SInv /\ EInv
  BY InitClaims, InitSerial, InitExhausts
<1>2. CInv /\ SInv /\ EInv /\ [Next]_vars => CInv' /\ SInv' /\ EInv'
  BY NextClaims, NextSerial, NextExhausts
<1>3. EInv => FailedMeansExhausted
  BY DEF EInv, RunExhausts, Exhausted, Failures, FailedMeansExhausted
<1> QED
  BY <1>1, <1>2, <1>3, PTL DEF Spec

-----------------------------------------------------------------------------
(***************************************************************************)
(* What a run has done.  A step is enqueued when every step before it that *)
(* cannot be skipped is done; a task with a marker belongs to a run that   *)
(* did every step.  Loops must go backwards, as they do in a manifest that *)
(* loops, and reruns are asked of DONE runs: a rerun of another run ends   *)
(* it DONE after the rerun task alone.                                     *)
(***************************************************************************)
Backwards == \A s \in Steps : Flow[s].goto <= s

DoneStep(r, s) == \E i \in Ids : tasks[i].run = r /\ tasks[i].step = s /\ tasks[i].status = "DONE"
Before(r, s) == \A n \in Steps : n < s => Flow[n].skippable \/ DoneStep(r, n)
AllDone(r) == \A n \in Steps : Flow[n].skippable \/ DoneStep(r, n)
Due(r, s, m) == IF m = "none" THEN Before(r, s) ELSE AllDone(r)

TaskDue(i) == Due(tasks[i].run, tasks[i].step, tasks[i].mark)
ThreadDue(h) == Due(th[h].run, th[h].step, th[h].mark)
Finishes(h) == At(h, "apply") /\ th[h].step = 0 /\ th[h].to = "DONE"
WillAdd(h) == (At(h, "apply") /\ th[h].step # 0) \/ th[h].pc \in {"rerun_reopen", "enqueue"}

DInv ==
  /\ \A i \in Ids : TaskDue(i)
  /\ \A h \in Threads : Finishes(h) => AllDone(th[h].run)
  /\ \A h \in Threads : WillAdd(h) => ThreadDue(h)
  /\ \A r \in Runs : runs[r] = "DONE" => AllDone(r)

LEMMA DoneStays ==
  ASSUME Past, NEW r
  PROVE  /\ AllDone(r) => AllDone(r)'
         /\ \A s : Before(r, s) => Before(r, s)'
         /\ \A s, m : Due(r, s, m) => Due(r, s, m)'
<1>1. \A s : DoneStep(r, s) => DoneStep(r, s)'
  BY DEF DoneStep, Past, Same
<1>2. AllDone(r) => AllDone(r)'
  BY <1>1 DEF AllDone
<1>3. \A s : Before(r, s) => Before(r, s)'
  BY <1>1 DEF Before
<1> QED
  BY <1>2, <1>3 DEF Due

LEMMA DueImpliesBefore == \A r, s, m : Due(r, s, m) => Before(r, s)
BY DEF Due, Before, AllDone

\* Whoever turns, what it is about to do is due.
LEMMA DoneKept ==
  ASSUME CInv, Past, DInv,
         \A i \in Ids' \ Ids : TaskDue(i)',
         \A r \in Runs : runs'[r] = "DONE" => runs[r] = "DONE" \/ AllDone(r)',
         \A g \in Threads : \/ th'[g] = th[g]
                            \/ /\ Finishes(g)' => AllDone(th[g].run)'
                               /\ WillAdd(g)' => ThreadDue(g)'
  PROVE  DInv'
<1>1. \A i \in Ids' : TaskDue(i)'
  <2> SUFFICES ASSUME NEW i \in Ids
               PROVE  TaskDue(i)'
    OBVIOUS
  <2>1. /\ tasks'[i].run = tasks[i].run /\ tasks'[i].step = tasks[i].step /\ tasks'[i].mark = tasks[i].mark
    BY DEF Past, Same
  <2>2. PICK r, s, m : r = tasks[i].run /\ s = tasks[i].step /\ m = tasks[i].mark
    OBVIOUS
  <2>3. Due(r, s, m)
    BY <2>2 DEF DInv, TaskDue
  <2>4. Due(r, s, m)'
    BY <2>3, DoneStays
  <2> QED
    BY <2>1, <2>2, <2>4 DEF TaskDue
<1>2. ASSUME NEW g \in Threads
      PROVE  /\ Finishes(g)' => AllDone(th[g].run)'
             /\ WillAdd(g)' => ThreadDue(g)'
  <2> SUFFICES ASSUME th'[g] = th[g]
               PROVE  /\ Finishes(g)' => AllDone(th[g].run)'
                      /\ WillAdd(g)' => ThreadDue(g)'
    OBVIOUS
  <2>1. PICK r, s, m : r = th[g].run /\ s = th[g].step /\ m = th[g].mark
    OBVIOUS
  <2>2. r = th'[g].run /\ s = th'[g].step /\ m = th'[g].mark
    BY <2>1
  <2>3. Finishes(g)' => AllDone(r)
    BY <2>1 DEF DInv, Finishes, At
  <2>4. WillAdd(g)' => Due(r, s, m)
    BY <2>1 DEF DInv, WillAdd, At, ThreadDue
  <2>5. (AllDone(r) => AllDone(r)') /\ (Due(r, s, m) => Due(r, s, m)')
    BY DoneStays
  <2> QED
    BY <2>2, <2>3, <2>4, <2>5 DEF ThreadDue
<1>3. \A r \in Runs : runs'[r] = "DONE" => AllDone(r)'
  BY DoneStays DEF DInv
<1> QED
  BY <1>1, <1>2, <1>3 DEF DInv

\* A loop goes back to a step whose predecessors are done.
LEMMA LoopIsDue ==
  ASSUME CInv, DInv, Backwards, NEW i \in Ids, Flow[tasks[i].step].goto # 0
  PROVE  Before(tasks[i].run, Flow[tasks[i].step].goto)
<1>1. /\ tasks[i].step \in Steps /\ Flow[tasks[i].step].goto \in Steps
      /\ Flow[tasks[i].step].goto <= tasks[i].step
  BY RowsAreRows, StepFacts DEF CInv, Types, Backwards
<1>2. Before(tasks[i].run, tasks[i].step)
  BY DueImpliesBefore DEF DInv, TaskDue
<1> QED
  BY <1>1, <1>2, StepFacts DEF Before

\* What follows a done task.
LEMMA NextIsDue ==
  ASSUME CInv, NEW i \in Ids, tasks[i].status = "DONE", Before(tasks[i].run, tasks[i].step),
         NEW n \in NextSteps(tasks[i].step)
  PROVE  IF n = 0 THEN AllDone(tasks[i].run) ELSE Before(tasks[i].run, n)
<1> DEFINE r == tasks[i].run
           s == tasks[i].step
<1>1. s \in Steps /\ DoneStep(r, s)
  BY RowsAreRows DEF DoneStep, CInv, Types
<1>2. /\ n \in Steps \cup {0}
      /\ \A k \in (s + 1)..(IF n = 0 THEN Len(Flow) ELSE n - 1) : Flow[k].skippable
  BY DEF NextSteps
<1> HIDE DEF r, s
<1>3. Before(r, s)
  BY DEF r, s
<1>4. CASE n = 0
  <2>1. ASSUME NEW k \in Steps
        PROVE  Flow[k].skippable \/ DoneStep(r, k)
    <3>1. k < s \/ k = s \/ k \in (s + 1)..Len(Flow)
      BY <1>1, StepFacts
    <3> QED
      BY <1>1, <1>2, <1>3, <1>4, <3>1 DEF Before
  <2> QED
    BY <1>4, <2>1 DEF AllDone, r
<1>5. CASE n # 0
  <2>1. ASSUME NEW k \in Steps, k < n
        PROVE  Flow[k].skippable \/ DoneStep(r, k)
    <3>1. k < s \/ k = s \/ k \in (s + 1)..(n - 1)
      BY <1>1, <1>2, <1>5, <2>1, StepFacts
    <3> QED
      BY <1>1, <1>2, <1>3, <1>5, <3>1 DEF Before
  <2> QED
    BY <1>5, <2>1 DEF Before, r
<1> QED
  BY <1>4, <1>5

LEMMA DoneByDecide ==
  ASSUME CInv, Past, DInv, Backwards, NEW h \in Threads, Decide(h)
  PROVE  DInv'
<1>1. /\ runs' = runs /\ tasks' = tasks /\ Ids' = Ids /\ At(h, "decide")
      /\ \A g \in Threads \ {h} : th'[g] = th[g]
      /\ th'[h].pc = "apply" /\ th'[h].run = th[h].run
  BY DecideEffect DEF Calm, Turns, Ids
<1>2. PICK i \in Ids : i = th[h].task /\ tasks[i].run = th[h].run
  BY <1>1 DEF CInv, ThreadOK, At
<1>3. tasks[i].status = (IF th[h].ok THEN "DONE" ELSE "FAILED")
  BY <1>1, <1>2 DEF CInv, ThreadOK, At
<1>4. PICK r : r = th[h].run /\ r = th'[h].run /\ r = tasks[i].run
  BY <1>1, <1>2
<1>5. /\ Before(r, tasks[i].step)
      /\ tasks[i].mark # "none" => AllDone(r)
      /\ Flow[tasks[i].step].goto # 0 => Before(r, Flow[tasks[i].step].goto)
  BY <1>4, DueImpliesBefore, LoopIsDue DEF DInv, TaskDue, Due
<1>6. \A n \in NextSteps(tasks[i].step) :
        th[h].ok => IF n = 0 THEN AllDone(r) ELSE Before(r, n)
  BY <1>3, <1>4, <1>5, NextIsDue
<1>7. \/ /\ th[h].ok /\ th'[h].step = 0 /\ th'[h].to = "DONE"
         /\ tasks[i].mark = "none" => 0 \in NextSteps(tasks[i].step)
      \/ /\ th[h].ok /\ th'[h].step \in NextSteps(tasks[i].step) \ {0}
         /\ \/ tasks[i].mark = "none" /\ th'[h].mark = "none"
            \/ tasks[i].mark = "rerun" /\ th'[h].mark = "rerun_terminal"
      \/ /\ ~th[h].ok /\ th'[h].step = Flow[tasks[i].step].goto /\ th'[h].step # 0
         /\ th'[h].mark = "none"
      \/ /\ ~th[h].ok /\ th'[h].step = 0 /\ th'[h].to = "FAILED"
  BY <1>2, DecideEffect
<1>8. Finishes(h)' => AllDone(r)
  BY <1>1, <1>5, <1>6, <1>7 DEF Finishes, At
<1>9. WillAdd(h)' => Due(r, th'[h].step, th'[h].mark)
  BY <1>1, <1>5, <1>6, <1>7 DEF WillAdd, At, Due
<1>10. PICK s, m : s = th'[h].step /\ m = th'[h].mark
  OBVIOUS
<1>11. (AllDone(r) => AllDone(r)') /\ (Due(r, s, m) => Due(r, s, m)')
  BY DoneStays
<1>12. (Finishes(h)' => AllDone(th[h].run)') /\ (WillAdd(h)' => ThreadDue(h)')
  BY <1>4, <1>8, <1>9, <1>10, <1>11 DEF ThreadDue
<1> QED
  BY <1>1, <1>12, DoneKept

LEMMA NextDone ==
  ASSUME Backwards, RerunFrom \subseteq {"DONE"}
  PROVE  CInv /\ DInv /\ [Next]_vars => DInv'
<1> SUFFICES ASSUME CInv, DInv, [Next]_vars
             PROVE  DInv'
  OBVIOUS
<1>0. Clients \subseteq Threads
  BY DEF Threads
<1>1. CASE Idles
  <2>1. /\ Past /\ Ids' = Ids
        /\ \A r \in Runs : runs'[r] = "DONE" => runs[r] = "DONE"
        /\ \A g \in Threads : th'[g] = th[g] \/ (~Finishes(g)' /\ ~WillAdd(g)')
    BY <1>1 DEF Idles, Finishes, WillAdd, At, Carrying, Reopening
  <2> QED
    BY <2>1, DoneKept
<1>2. ASSUME NEW h \in Threads, NEW i \in Ids, Settles(h, i)
      PROVE  DInv'
  <2>1. /\ Past /\ Ids' = Ids /\ runs' = runs
        /\ \A g \in Threads \ {h} : th'[g] = th[g]
        /\ th'[h].run = tasks[i].run
        /\ \/ th'[h].pc = "decide"
           \/ th'[h].pc = "apply" /\ th'[h].step = 0 /\ th'[h].to = "FAILED"
           \/ /\ th'[h].pc = "apply" /\ th'[h].step # 0 /\ th'[h].step = Flow[tasks[i].step].goto
              /\ th'[h].mark = "none"
    BY <1>2 DEF Settles, Turns, Calm
  <2>2. ~Finishes(h)'
    BY <2>1 DEF Finishes, At
  <2>3. PICK r, s, m : r = th'[h].run /\ s = th'[h].step /\ m = th'[h].mark
    OBVIOUS
  <2>4. WillAdd(h)' => Due(r, s, m)
    BY <2>1, <2>3, LoopIsDue DEF WillAdd, At, Due
  <2>5. WillAdd(h)' => ThreadDue(h)'
    BY <2>1, <2>3, <2>4, DoneStays DEF ThreadDue
  <2> QED
    BY <2>1, <2>2, <2>5, DoneKept
<1>3. ASSUME NEW h \in Threads, NEW s \in Steps, NEW m \in Marks, Enqueues(h, s, m)
      PROVE  DInv'
  <2>1. /\ Past /\ runs' = runs
        /\ \A g \in Threads \ {h} : th'[g] = th[g]
        /\ th'[h].pc \notin Carrying
        /\ Adds(th[h].run, s, m)
        /\ \/ At(h, "apply") /\ s = th[h].step /\ m = th[h].mark
           \/ At(h, "start_enqueue") /\ s = 1 /\ m = "none"
           \/ At(h, "enqueue") /\ s = th[h].step /\ m = th[h].mark
    BY <1>3 DEF Enqueues, Turns, Calm
  <2>2. ~Finishes(h)' /\ ~WillAdd(h)'
    BY <2>1 DEF Finishes, WillAdd, At, Carrying, Reopening
  <2>3. PICK r : r = th[h].run
    OBVIOUS
  <2>4. Due(r, s, m)
    <3>1. CASE s = 1 /\ m = "none"
      BY <3>1, StepFacts DEF Due, Before
    <3>2. CASE s = th[h].step /\ m = th[h].mark /\ (At(h, "apply") \/ At(h, "enqueue"))
      BY <2>3, <3>2, StepFacts DEF DInv, WillAdd, ThreadDue, At
    <3> QED
      BY <2>1, <3>1, <3>2
  <2>5. ASSUME NEW i \in Ids' \ Ids
        PROVE  TaskDue(i)'
    <3>1. tasks'[i].run = r /\ tasks'[i].step = s /\ tasks'[i].mark = m
      BY <2>1, <2>3 DEF Adds, NewRow
    <3> QED
      BY <2>1, <2>4, <3>1, DoneStays DEF TaskDue
  <2> QED
    BY <2>1, <2>2, <2>5, DoneKept
<1>4. ASSUME NEW h \in Threads, Ends(h)
      PROVE  DInv'
  <2>1. /\ Past /\ Ids' = Ids
        /\ \A g \in Threads \ {h} : th'[g] = th[g]
        /\ th'[h].pc = "idle" /\ At(h, "apply") /\ th[h].step = 0
        /\ runs' = runs \/ Sets(th[h].run, th[h].to)
    BY <1>4, RestingType DEF Ends, Quits, Turns, Ids
  <2>2. ~Finishes(h)' /\ ~WillAdd(h)'
    BY <2>1 DEF Finishes, WillAdd, At
  <2>3. ASSUME NEW r \in Runs, runs'[r] = "DONE", runs[r] # "DONE"
        PROVE  AllDone(r)'
    <3>1. r = th[h].run /\ th[h].to = "DONE"
      BY <2>1, <2>3 DEF Sets
    <3>2. AllDone(r)
      BY <2>1, <3>1 DEF DInv, Finishes
    <3> QED
      BY <2>1, <3>2, DoneStays
  <2> QED
    BY <2>1, <2>2, <2>3, DoneKept
<1>5. ASSUME Past, NEW h \in Threads, Decide(h)
      PROVE  DInv'
  BY <1>5, DoneByDecide
<1>6. ASSUME Past, NEW c \in Clients, NEW p \in Runs, StartCreate(c, p) \/ RetryRead(c, p)
      PROVE  DInv'
  <2>1. /\ tasks' = tasks /\ c \in Threads
        /\ \A g \in Threads \ {c} : th'[g] = th[g]
        /\ th'[c].pc \in {"start_enqueue", "retry_reopen", "retry_pick"}
        /\ runs' = runs \/ Sets(p, "QUEUED")
    BY <1>6, StartCreateEffect, RetryReadEffect DEF Calm, Turns
  <2>2. /\ ~Finishes(c)' /\ ~WillAdd(c)' /\ Ids' = Ids
        /\ \A r \in Runs : runs'[r] = "DONE" => runs[r] = "DONE"
    BY <2>1 DEF Finishes, WillAdd, At, Sets, Ids
  <2> QED
    BY <1>6, <2>1, <2>2, DoneKept
<1>7. ASSUME Past, NEW c \in Clients, NEW p \in Runs, NEW s \in Steps, RerunRead(c, p, s)
      PROVE  DInv'
  <2>1. /\ tasks' = tasks /\ Ids' = Ids /\ c \in Threads /\ runs' = runs
        /\ \A g \in Threads \ {c} : th'[g] = th[g]
        /\ th'[c].pc \in {"rerun_reopen", "enqueue"} /\ th'[c].run = p /\ th'[c].mark = "rerun"
        /\ runs[p] = "DONE"
    BY <1>7, RerunReadEffect DEF Calm, Turns, Ids
  <2>2. ~Finishes(c)'
    BY <2>1 DEF Finishes, At
  <2>3. AllDone(p)'
    BY <1>7, <2>1, DoneStays DEF DInv
  <2>4. ThreadDue(c)'
    BY <2>1, <2>3 DEF ThreadDue, Due
  <2> QED
    BY <1>7, <2>1, <2>2, <2>4, DoneKept
<1>8. ASSUME Past, NEW c \in Clients, Reopen(c)
      PROVE  DInv'
  <2>1. /\ tasks' = tasks /\ Ids' = Ids /\ c \in Threads /\ Sets(th[c].run, "RUNNING")
        /\ \A g \in Threads \ {c} : th'[g] = th[g]
        /\ th'[c].run = th[c].run /\ th'[c].mark = th[c].mark /\ th'[c].step = th[c].step
        /\ th[c].pc \in {"retry_reopen", "rerun_reopen"}
        /\ th'[c].pc = (IF At(c, "retry_reopen") THEN "retry_pick" ELSE "enqueue")
    BY <1>8, ReopenEffect DEF Turns, Ids
  <2>2. PICK r, s, m : r = th[c].run /\ s = th[c].step /\ m = th[c].mark
    OBVIOUS
  <2>3. WillAdd(c)' => Due(r, s, m)
    BY <2>1, <2>2 DEF WillAdd, At, DInv, ThreadDue
  <2>4. WillAdd(c)' => ThreadDue(c)'
    BY <1>8, <2>1, <2>2, <2>3, DoneStays DEF ThreadDue
  <2>5. ~Finishes(c)' /\ \A q \in Runs : runs'[q] = "DONE" => runs[q] = "DONE"
    BY <2>1 DEF Finishes, At, Sets
  <2> QED
    BY <1>8, <2>1, <2>4, <2>5, DoneKept
<1>9. ASSUME Past, NEW c \in Clients, RetryPick(c), ~Quits(c)
      PROVE  DInv'
  <2>1. PICK i \in FailedTasks(th[c].run) :
          /\ Turns(c, th'[c]) /\ th'[c].pc = "enqueue" /\ th'[c].run = th[c].run
          /\ th'[c].mark = th[c].mark /\ th'[c].step = tasks[i].step
    BY <1>9, RetryPickEffect
  <2>2. /\ tasks' = tasks /\ Ids' = Ids /\ c \in Threads /\ runs' = runs
        /\ \A g \in Threads \ {c} : th'[g] = th[g]
        /\ th[c].mark = "none" /\ i \in Ids /\ tasks[i].run = th[c].run
    BY <1>0, <1>9, <2>1, RetryPickEffect DEF Calm, Turns, Ids, CInv, ThreadOK, At, FailedTasks
  <2>3. PICK r, s, m : r = th'[c].run /\ s = th'[c].step /\ m = th'[c].mark
    OBVIOUS
  <2>4. Due(r, s, m)
    BY <2>1, <2>2, <2>3, DueImpliesBefore DEF DInv, TaskDue, Due
  <2>5. ThreadDue(c)' /\ ~Finishes(c)'
    BY <1>9, <2>1, <2>3, <2>4, DoneStays DEF ThreadDue, Finishes, At
  <2> QED
    BY <1>9, <2>2, <2>5, DoneKept
<1> QED
  BY <1>1, <1>2, <1>3, <1>4, <1>5, <1>6, <1>7, <1>8, <1>9, StepShapes

LEMMA InitDone == Init => DInv
<1> SUFFICES ASSUME Init
             PROVE  DInv
  OBVIOUS
<1>1. /\ Resting.pc = "idle" /\ runs = [r \in Runs |-> "NONE"] /\ th = [h \in Threads |-> Resting]
      /\ Ids = {}
  BY RestingType DEF Init, Ids
<1>2. \A h \in Threads : th[h].pc = "idle"
  BY <1>1
<1> QED
  BY <1>1, <1>2 DEF DInv, Finishes, WillAdd, At

\* A run is DONE only when every step that cannot be skipped has a done task,
\* however often it looped, was retried, cancelled, requeued or crashed.
THEOREM DoneRunsDidEverything ==
  ASSUME Backwards, RerunFrom \subseteq {"DONE"}
  PROVE  Spec => []DoneMeansAllStepsDone
<1>1. Init => CInv /\ DInv
  BY InitClaims, InitDone
<1>2. CInv /\ DInv /\ [Next]_vars => CInv' /\ DInv'
  BY NextClaims, NextDone
<1>3. DInv => DoneMeansAllStepsDone
  BY DEF DInv, AllDone, DoneStep, DoneMeansAllStepsDone
<1> QED
  BY <1>1, <1>2, <1>3, PTL DEF Spec

-----------------------------------------------------------------------------
(***************************************************************************)
(* Reruns.  The marker travels from the rerun task to the thread that      *)
(* advances it and from there to the gate, the last task it may lead to.   *)
(* A rejected or answered gate drops it, and so does a rerun step with an  *)
(* on_fail of its own: Unlooped leaves these out.                          *)
(***************************************************************************)
Unlooped ==
  /\ Ops \cap {"reject", "answer"} = {}
  /\ \A s \in RerunAt : s \in Steps => Flow[s].goto = 0

NobodyAnswers == \A h \in Threads : ~At(h, "answer")

Marked(s, m) ==
  /\ m = "rerun" => s \in RerunAt
  /\ m = "rerun_terminal" => Flow[s].kind = "human_gate"

RowMarked(i) == Marked(tasks[i].step, tasks[i].mark)

ThreadMarked(h) ==
  /\ At(h, "decide") /\ ~th[h].ok /\ tasks[th[h].task].mark # "none" =>
       Flow[tasks[th[h].task].step].goto = 0
  /\ At(h, "apply") /\ th[h].step # 0 =>
       /\ th[h].mark # "rerun" /\ Marked(th[h].step, th[h].mark)
       /\ tasks[th[h].task].mark # "none" => th[h].mark = "rerun_terminal"
  /\ th[h].pc \in {"rerun_reopen", "enqueue"} => Marked(th[h].step, th[h].mark)

GInv == /\ NobodyAnswers
        /\ \A i \in Ids : RowMarked(i)
        /\ \A h \in Threads : ThreadMarked(h)

LEMMA NextAnswers ==
  ASSUME CInv, NobodyAnswers, "answer" \notin Ops, [Next]_vars
  PROVE  NobodyAnswers'
<1> USE DEF NobodyAnswers, At
<1>0. Types /\ Clients \subseteq Threads /\ Workers \subseteq Threads /\ th \in [Threads -> Local]
  BY DEF CInv, Types, Threads
<1>1. ASSUME NEW h \in Threads, NEW l, Become(h, l), l.pc # "answer"
      PROVE  NobodyAnswers'
  BY <1>0, <1>1 DEF Become
<1>2. CASE UNCHANGED vars
  BY <1>2 DEF vars
<1>3. ASSUME NEW w \in Workers, WorkerStep(w)
      PROVE  NobodyAnswers'
  <2>1. CASE Claim(w)
    <3>1. PICK i \in Ids : Become(w, [Resting EXCEPT !.pc = "running", !.run = tasks[i].run,
                                    !.task = i, !.fence = tasks[i].fence + 1])
      BY <2>1 DEF Claim
    <3> QED
      BY <1>0, <1>1, <3>1 DEF Resting
  <2>2. CASE Heartbeat(w)
    BY <2>2 DEF Heartbeat
  <2>3. CASE Park(w) \/ FailTask(w) \/ \E ok \in BOOLEAN : Report(w, ok)
    <3>1. /\ [th[w] EXCEPT !.pc = "decide", !.ok = TRUE, !.fence = 0].pc = "decide"
          /\ [th[w] EXCEPT !.pc = "decide", !.ok = FALSE, !.fence = 0].pc = "decide"
          /\ [th[w] EXCEPT !.pc = "apply", !.step = 0, !.to = "FAILED", !.fence = 0].pc = "apply"
          /\ Resting.pc = "idle"
      BY <1>0 DEF Local, Resting
    <3>2. Rest(w) \/ \E l : Become(w, l) /\ l.pc # "answer"
      BY <2>3, <3>1 DEF Park, FailTask, Report, RecordResult
    <3> QED
      BY <1>0, <1>1, <3>1, <3>2 DEF Rest
  <2>4. CASE RequeueTransient(w)
    BY <1>0, <1>1, <2>4, RestingType DEF RequeueTransient, Rest
  <2> QED
    BY <1>3, <2>1, <2>2, <2>3, <2>4 DEF WorkerStep
<1>4. ASSUME NEW c \in Clients, CallStep(c)
      PROVE  NobodyAnswers'
  <2>1. ASSUME NEW r \in Runs, StartCreate(c, r)
        PROVE  NobodyAnswers'
    BY <1>0, <2>1, StartCreateEffect DEF Turns
  <2>2. ASSUME NEW r \in Runs, CancelList(c, r)
        PROVE  NobodyAnswers'
    BY <1>0, <2>2, CancelListEffect DEF Turns
  <2>3. ASSUME NEW r \in Runs, RetryRead(c, r)
        PROVE  NobodyAnswers'
    BY <1>0, <2>3, RetryReadEffect DEF Turns
  <2>4. ASSUME NEW r \in Runs, NEW s \in Steps, NEW ok \in BOOLEAN, Resolve(c, r, s, ok)
        PROVE  NobodyAnswers'
    <3>1. PICK i \in Ids : Become(c, [Resting EXCEPT !.pc = "decide", !.run = r, !.task = i, !.ok = ok])
      BY <2>4 DEF Resolve
    <3> QED
      BY <1>0, <1>1, <3>1 DEF Resting
  <2>5. ASSUME NEW r \in Runs, NEW s \in Steps, AnswerCount(c, r, s)
        PROVE  NobodyAnswers'
    BY <2>5 DEF AnswerCount, Call
  <2>6. ASSUME NEW r \in Runs, NEW s \in Steps, RerunRead(c, r, s)
        PROVE  NobodyAnswers'
    BY <1>0, <2>6, RerunReadEffect DEF Turns
  <2> QED
    BY <1>4, <2>1, <2>2, <2>3, <2>4, <2>5, <2>6 DEF CallStep
<1>5. ASSUME NEW c \in Clients, CallRest(c)
      PROVE  NobodyAnswers'
  <2>1. /\ [th[c] EXCEPT !.pc = "start_running"].pc = "start_running" /\ Resting.pc = "idle"
        /\ \A T : [th[c] EXCEPT !.todo = T].pc = th[c].pc
        /\ \A s : [th[c] EXCEPT !.pc = "enqueue", !.step = s].pc = "enqueue"
    BY <1>0 DEF Local, Resting
  <2>2. CASE StartEnqueue(c)
    BY <1>0, <1>1, <2>1, <2>2 DEF StartEnqueue
  <2>3. CASE StartSeedFails(c) \/ StartRunning(c) \/ CancelRun(c) \/ EnqueueAgain(c)
    BY <1>0, <1>1, <2>1, <2>3 DEF StartSeedFails, StartRunning, CancelRun, EnqueueAgain, Rest
  <2>4. CASE AnswerAwaiting(c)
    BY <1>0, <2>4 DEF AnswerAwaiting
  <2>5. CASE CancelTask(c)
    <3>1. Rest(c) \/ \E T : Become(c, [th[c] EXCEPT !.todo = T])
      BY <2>5 DEF CancelTask
    <3> QED
      BY <1>0, <1>1, <2>1, <3>1 DEF Rest
  <2>6. CASE Reopen(c)
    BY <1>0, <2>6, ReopenEffect DEF Turns
  <2>7. CASE RetryPick(c)
    <3>1. Rest(c) \/ \E s : Become(c, [th[c] EXCEPT !.pc = "enqueue", !.step = s])
      BY <2>7 DEF RetryPick
    <3> QED
      BY <1>0, <1>1, <2>1, <3>1 DEF Rest
  <2> QED
    BY <1>5, <2>2, <2>3, <2>4, <2>5, <2>6, <2>7 DEF CallRest
<1>6. ASSUME NEW h \in Threads, Advance(h) \/ Crash(h)
      PROVE  NobodyAnswers'
  <2>1. CASE Decide(h)
    BY <2>1, DecideEffect DEF Turns
  <2>2. CASE Apply(h) \/ Crash(h)
    BY <1>1, <2>2, RestingType DEF Apply, Crash, Rest
  <2> QED
    BY <1>6, <2>1, <2>2 DEF Advance
<1>7. CASE \/ RequeueStale
           \/ \E r \in Runs : PruneEvents(r)
           \/ \E i \in Ids : HeartbeatExpires(i) \/ BackoffElapses(i)
  BY <1>7 DEF RequeueStale, PruneEvents, HeartbeatExpires, BackoffElapses
<1> QED
  BY <1>2, <1>3, <1>4, <1>5, <1>6, <1>7 DEF Next

\* Whoever turns, the marker it carries is the right one.
LEMMA MarkedKept ==
  ASSUME CInv, Past, GInv, NobodyAnswers',
         \A i \in Ids' \ Ids : RowMarked(i)',
         \A g \in Threads : th'[g] = th[g] \/ ThreadMarked(g)'
  PROVE  GInv'
<1>1. \A i \in Ids : /\ i \in Ids' /\ tasks'[i].step = tasks[i].step /\ tasks'[i].mark = tasks[i].mark
  BY DEF Past, Same
<1>2. \A i \in Ids' : RowMarked(i)'
  BY <1>1 DEF GInv, RowMarked, Marked
<1>3. ASSUME NEW g \in Threads, th'[g] = th[g]
      PROVE  ThreadMarked(g)'
  <2>1. At(g, "decide") \/ At(g, "apply") => th[g].task \in Ids
    BY DEF CInv, ThreadOK, At
  <2>2. ThreadMarked(g)
    BY DEF GInv
  <2> QED
    BY <1>1, <1>3, <2>1, <2>2 DEF ThreadMarked, At, Marked
<1> QED
  BY <1>2, <1>3 DEF GInv

LEMMA NextMarked ==
  ASSUME Unlooped
  PROVE  CInv /\ GInv /\ [Next]_vars => GInv'
<1> SUFFICES ASSUME CInv, GInv, [Next]_vars
             PROVE  GInv'
  OBVIOUS
<1>0. NobodyAnswers' /\ Clients \subseteq Threads
  BY NextAnswers DEF Unlooped, GInv, Threads
<1>1. CASE Idles
  <2>1. /\ Past /\ Ids' = Ids
        /\ \A g \in Threads : th'[g] = th[g] \/ th'[g].pc \notin Carrying
    BY <1>1 DEF Idles
  <2>2. \A g \in Threads : th'[g].pc \notin Carrying => ThreadMarked(g)'
    BY DEF ThreadMarked, At, Carrying, Reopening
  <2> QED
    BY <1>0, <2>1, <2>2, MarkedKept
<1>2. ASSUME NEW h \in Threads, NEW i \in Ids, Settles(h, i)
      PROVE  GInv'
  <2>1. /\ Past /\ Ids' = Ids
        /\ \A g \in Threads \ {h} : th'[g] = th[g]
        /\ th'[h].task = i /\ Same(tasks[i], tasks'[i])
        /\ \/ /\ th'[h].pc = "decide"
              /\ \/ Flow[tasks[i].step].kind = "work"
                 \/ (IF th'[h].ok THEN "approve" ELSE "reject") \in Ops
           \/ th'[h].pc = "apply" /\ th'[h].step = 0
           \/ At(h, "answer")
    BY <1>2 DEF Settles, Turns, Past
  <2>2. ~At(h, "answer")
    BY DEF GInv, NobodyAnswers
  <2>3. tasks[i].step \in Steps /\ tasks[i].mark \in Marks /\ RowMarked(i)
    BY RowsAreRows DEF CInv, Types, GInv, Row
  <2>4. /\ th'[h].pc = "decide" /\ ~th'[h].ok /\ tasks[i].mark # "none"
          => Flow[tasks[i].step].goto = 0
    BY <2>1, <2>2, <2>3 DEF Unlooped, RowMarked, Marked, Marks
  <2>5. ThreadMarked(h)'
    BY <2>1, <2>2, <2>4 DEF ThreadMarked, At, Same
  <2> QED
    BY <1>0, <2>1, <2>5, MarkedKept
<1>3. ASSUME NEW h \in Threads, NEW s \in Steps, NEW m \in Marks, Enqueues(h, s, m)
      PROVE  GInv'
  <2>1. /\ Past
        /\ \A g \in Threads \ {h} : th'[g] = th[g]
        /\ th'[h].pc \notin Carrying
        /\ Adds(th[h].run, s, m)
        /\ \/ At(h, "apply") /\ s = th[h].step /\ m = th[h].mark
           \/ At(h, "start_enqueue") /\ m = "none"
           \/ At(h, "enqueue") /\ s = th[h].step /\ m = th[h].mark
    BY <1>3 DEF Enqueues, Turns
  <2>2. ThreadMarked(h)'
    BY <2>1 DEF ThreadMarked, At, Carrying, Reopening
  <2>3. s # 0 /\ ThreadMarked(h)
    BY StepFacts DEF GInv
  <2>4. Marked(s, m)
    BY <2>1, <2>3 DEF ThreadMarked, At, Marked
  <2>5. ASSUME NEW i \in Ids' \ Ids
        PROVE  RowMarked(i)'
    <3>1. tasks'[i].step = s /\ tasks'[i].mark = m
      BY <2>1 DEF Adds, NewRow
    <3> QED
      BY <2>4, <3>1 DEF RowMarked, Marked
  <2> QED
    BY <1>0, <2>1, <2>2, <2>5, MarkedKept
<1>4. ASSUME NEW h \in Threads, Ends(h)
      PROVE  GInv'
  <2>1. /\ Past /\ Ids' = Ids
        /\ \A g \in Threads \ {h} : th'[g] = th[g]
        /\ th'[h].pc = "idle"
    BY <1>4, RestingType DEF Ends, Quits, Turns, Ids
  <2>2. ThreadMarked(h)'
    BY <2>1 DEF ThreadMarked, At
  <2> QED
    BY <1>0, <2>1, <2>2, MarkedKept
<1>5. ASSUME Past, NEW h \in Threads, Decide(h)
      PROVE  GInv'
  <2>1. /\ tasks' = tasks /\ Ids' = Ids /\ At(h, "decide")
        /\ \A g \in Threads \ {h} : th'[g] = th[g]
        /\ th'[h].pc = "apply" /\ th'[h].task = th[h].task
    BY <1>5, DecideEffect DEF Turns, Ids
  <2>2. PICK i \in Ids : i = th[h].task
    BY <2>1 DEF CInv, ThreadOK, At
  <2>3. /\ tasks[i].mark \in Marks /\ ThreadMarked(h)
    BY RowsAreRows DEF CInv, Types, GInv, Row
  <2>4. ~th[h].ok /\ tasks[i].mark # "none" => Flow[tasks[i].step].goto = 0
    BY <2>1, <2>2, <2>3 DEF ThreadMarked
  <2>5. \/ th'[h].step = 0
        \/ /\ th[h].ok
           /\ \/ tasks[i].mark = "none" /\ th'[h].mark = "none"
              \/ th'[h].mark = "rerun_terminal" /\ Flow[th'[h].step].kind = "human_gate"
        \/ /\ ~th[h].ok /\ th'[h].step = Flow[tasks[i].step].goto /\ th'[h].mark = "none"
    BY <1>5, <2>2, DecideEffect
  <2>6. ThreadMarked(h)'
    BY <2>1, <2>2, <2>4, <2>5 DEF ThreadMarked, At, Marked
  <2> QED
    BY <1>0, <1>5, <2>1, <2>6, MarkedKept
<1>6. ASSUME Past, NEW c \in Clients, NEW p \in Runs, StartCreate(c, p) \/ RetryRead(c, p)
      PROVE  GInv'
  <2>1. /\ tasks' = tasks /\ Ids' = Ids /\ c \in Threads
        /\ \A g \in Threads \ {c} : th'[g] = th[g]
        /\ th'[c].pc \in {"start_enqueue", "retry_reopen", "retry_pick"}
    BY <1>6, StartCreateEffect, RetryReadEffect DEF Turns, Ids
  <2>2. ThreadMarked(c)'
    BY <2>1 DEF ThreadMarked, At
  <2> QED
    BY <1>0, <1>6, <2>1, <2>2, MarkedKept
<1>7. ASSUME Past, NEW c \in Clients, NEW p \in Runs, NEW s \in Steps, RerunRead(c, p, s)
      PROVE  GInv'
  <2>1. /\ tasks' = tasks /\ Ids' = Ids /\ c \in Threads
        /\ \A g \in Threads \ {c} : th'[g] = th[g]
        /\ th'[c].pc \in {"rerun_reopen", "enqueue"} /\ th'[c].mark = "rerun" /\ th'[c].step = s
        /\ s \in RerunAt
    BY <1>7, RerunReadEffect DEF Turns, Ids
  <2>2. ThreadMarked(c)'
    BY <2>1 DEF ThreadMarked, At, Marked
  <2> QED
    BY <1>0, <1>7, <2>1, <2>2, MarkedKept
<1>8. ASSUME Past, NEW c \in Clients, Reopen(c)
      PROVE  GInv'
  <2>1. /\ tasks' = tasks /\ Ids' = Ids /\ c \in Threads
        /\ \A g \in Threads \ {c} : th'[g] = th[g]
        /\ th'[c].mark = th[c].mark /\ th'[c].step = th[c].step
        /\ th[c].pc \in {"retry_reopen", "rerun_reopen"}
        /\ th'[c].pc = (IF At(c, "retry_reopen") THEN "retry_pick" ELSE "enqueue")
    BY <1>8, ReopenEffect DEF Turns, Ids
  <2>2. ThreadMarked(c)
    BY <2>1 DEF GInv
  <2>3. ThreadMarked(c)'
    BY <2>1, <2>2 DEF ThreadMarked, At, Marked
  <2> QED
    BY <1>0, <1>8, <2>1, <2>3, MarkedKept
<1>9. ASSUME Past, NEW c \in Clients, RetryPick(c), ~Quits(c)
      PROVE  GInv'
  <2>1. /\ Turns(c, th'[c]) /\ th'[c].pc = "enqueue" /\ th'[c].mark = th[c].mark
        /\ tasks' = tasks /\ Ids' = Ids /\ c \in Threads
        /\ \A g \in Threads \ {c} : th'[g] = th[g]
        /\ th[c].mark = "none"
    BY <1>0, <1>9, RetryPickEffect DEF Turns, Ids, CInv, ThreadOK, At
  <2>2. ThreadMarked(c)'
    BY <2>1 DEF ThreadMarked, At, Marked
  <2> QED
    BY <1>0, <1>9, <2>1, <2>2, MarkedKept
<1> QED
  BY <1>1, <1>2, <1>3, <1>4, <1>5, <1>6, <1>7, <1>8, <1>9, StepShapes

LEMMA InitMarked == Init => GInv
<1> SUFFICES ASSUME Init
             PROVE  GInv
  OBVIOUS
<1>1. Resting.pc = "idle" /\ th = [h \in Threads |-> Resting] /\ Ids = {}
  BY RestingType DEF Init, Ids
<1>2. \A h \in Threads : th[h].pc = "idle"
  BY <1>1
<1> QED
  BY <1>1, <1>2 DEF GInv, NobodyAnswers, ThreadMarked, At

\* A run whose marked task is being advanced gets a task from nobody else.
LEMMA OnlyTheGateFollows ==
  ASSUME CInv, SInv, GInv, [Next]_vars, NEW h \in Threads, At(h, "apply"), th[h].task # 0,
         tasks[th[h].task].mark # "none", NEW i \in Ids' \ Ids, tasks'[i].run = th[h].run
  PROVE  tasks'[i].mark = "rerun_terminal" /\ Flow[tasks'[i].step].kind = "human_gate"
<1>1. PICK g \in Threads, s \in Steps, m \in Marks : Enqueues(g, s, m)
  <2>1. tasks' = tasks => FALSE
    BY DEF Ids
  <2>2. \A p \in Threads : ~Decide(p)
    BY <2>1, DecideEffect
  <2>3. \A c \in Clients, p \in Runs : ~StartCreate(c, p) /\ ~RetryRead(c, p)
    BY <2>1, StartCreateEffect, RetryReadEffect
  <2>4. \A c \in Clients, p \in Runs, s \in Steps : ~RerunRead(c, p, s)
    BY <2>1, RerunReadEffect
  <2>5. \A c \in Clients : ~Reopen(c) /\ ~RetryPick(c)
    BY <2>1, ReopenEffect, RetryPickEffect
  <2>6. ~Idles /\ \A p \in Threads : ~Ends(p) /\ \A j \in Ids : ~Settles(p, j)
    BY <2>1 DEF Idles, Ends, Quits, Settles
  <2> QED
    BY <2>2, <2>3, <2>4, <2>5, <2>6, StepShapes
<1>2. /\ Adds(th[g].run, s, m) /\ th[g].run \in Runs
      /\ \/ At(g, "apply") /\ s = th[g].step /\ m = th[g].mark
         \/ At(g, "start_enqueue")
         \/ At(g, "enqueue")
  BY <1>1 DEF Enqueues
<1>3. tasks'[i].run = th[g].run /\ tasks'[i].step = s /\ tasks'[i].mark = m
  BY <1>2 DEF Adds, NewRow
<1>4. g = h
  <2>1. Carries(g, th[g].run) /\ Carries(h, th[g].run)
    BY <1>2, <1>3 DEF Carries, Carrying, At
  <2> QED
    BY <1>2, <2>1 DEF SInv, RunSerial
<1>5. s # 0 /\ ThreadMarked(h)
  BY StepFacts DEF GInv
<1> QED
  BY <1>2, <1>3, <1>4, <1>5 DEF ThreadMarked, At, Marked

\* A rerun step never cascades: what a rerun task leads to is its own gate,
\* marked as the last task, and a gate so marked leads to nothing, whatever
\* fails, crashes or is requeued meanwhile.
THEOREM RerunsStopAtTheirGate ==
  ASSUME Serial, Unlooped
  PROVE  Spec => RerunStopsAtItsGate
<1>1. Init => CInv /\ SInv /\ GInv
  BY InitClaims, InitSerial, InitMarked
<1>2. CInv /\ SInv /\ GInv /\ [Next]_vars => CInv' /\ SInv' /\ GInv'
  BY NextClaims, NextSerial, NextMarked
<1>3. CInv /\ SInv /\ GInv /\ [Next]_vars =>
        [\A h \in Threads :
           At(h, "apply") /\ th[h].task # 0 /\ tasks[th[h].task].mark # "none"
             => \A i \in DOMAIN tasks' \ Ids :
                  tasks'[i].run = th[h].run => /\ tasks'[i].mark = "rerun_terminal"
                                              /\ Flow[tasks'[i].step].kind = "human_gate"]_vars
  BY OnlyTheGateFollows DEF Ids
<1> QED
  BY <1>1, <1>2, <1>3, PTL DEF Spec, RerunStopsAtItsGate

-----------------------------------------------------------------------------
(***************************************************************************)
(* The engine uses the queue.  Its tables, seen as the queue's, move only  *)
(* by the queue's operations: a row by row map (Item), and a claim for each*)
(* worker that runs a step (Held).  CInv is what makes a refused report a  *)
(* refused report there too.                                               *)
(***************************************************************************)
Item(t) ==
  [slot |-> <<t.run, t.step>>, status |-> t.status, fence |-> t.fence,
   claimedBy |-> t.claimedBy, fresh |-> t.fresh, due |-> t.due]

Held(l) ==
  IF l.pc = "running" THEN [task |-> l.task, fence |-> l.fence] ELSE [task |-> 0, fence |-> 0]

\* The bounds of the queue's environment, which no guard of the code knows.
InBounds == Len(tasks) < QueueBound /\ \A i \in Ids : tasks[i].fence < QueueBound

LEMMA RowsAsQueue ==
  ASSUME tasks \in Seq(Row)
  PROVE  /\ QueueRows \in Seq(Queue!Row) /\ Len(QueueRows) = Len(tasks)
         /\ Queue!Ids = Ids /\ DOMAIN QueueRows = Ids
         /\ \A i \in Ids : QueueRows[i] = Item(tasks[i])
<1>1. Len(tasks) \in Nat /\ Ids = 1..Len(tasks) /\ \A i \in Ids : tasks[i] \in Row
  BY RowsAreRows
<1>2. \A i \in Ids : QueueRows[i] = Item(tasks[i])
  BY DEF QueueRows, Item
<1>3. ASSUME NEW t \in Row PROVE Item(t) \in Queue!Row
  BY DEF Row, Item, Queue!Row, Status, Queue!Status
<1>4. QueueRows = [i \in 1..Len(tasks) |-> QueueRows[i]]
  BY <1>1 DEF QueueRows
<1>5. QueueRows \in [1..Len(tasks) -> Queue!Row]
  BY <1>1, <1>2, <1>3, <1>4
<1>6. QueueRows \in Seq(Queue!Row)
  BY <1>1, <1>5, SeqDef
<1>7. Len(QueueRows) = Len(tasks)
  BY <1>1, <1>5, <1>6, LenProperties
<1>8. DOMAIN QueueRows = Ids /\ Queue!Ids = Ids
  BY DEF QueueRows, Queue!Ids
<1> QED
  BY <1>2, <1>6, <1>7, <1>8

LEMMA PutAsQueue ==
  ASSUME tasks \in Seq(Row), NEW i \in Ids, NEW t \in Row, tasks' = [tasks EXCEPT ![i] = t]
  PROVE  QueueRows' = [QueueRows EXCEPT ![i] = Item(t)]
<1>1. Puts(i, t)
  BY RowPut
<1>2. DOMAIN QueueRows' = Ids /\ \A j \in Ids : QueueRows'[j] = Item(tasks'[j])
  BY <1>1, RowsAsQueue DEF Puts, QueueRows, Item
<1>3. DOMAIN QueueRows = Ids /\ \A j \in Ids : QueueRows[j] = Item(tasks[j])
  BY RowsAsQueue
<1>4. \A j \in Ids : QueueRows'[j] = [QueueRows EXCEPT ![i] = Item(t)][j]
  BY <1>1, <1>2, <1>3 DEF Puts
<1>5. QueueRows' = [j \in Ids |-> QueueRows'[j]]
  BY <1>1 DEF QueueRows, Puts
<1> QED
  BY <1>3, <1>4, <1>5

LEMMA SameItems ==
  ASSUME NEW u \in Queue!Row, NEW v \in Queue!Row,
         u.slot = v.slot, u.status = v.status, u.fence = v.fence,
         u.claimedBy = v.claimedBy, u.fresh = v.fresh, u.due = v.due
  PROVE  u = v
BY DEF Queue!Row

LEMMA ItemOps ==
  ASSUME NEW t \in Row
  PROVE  /\ Item(t) \in Queue!Row
         /\ \A w \in Workers : Item(ClaimedRow(t, w)) = Queue!ClaimedRow(Item(t), w)
         /\ \A to \in Status : Item(MovedRow(t, to)) = Queue!MovedRow(Item(t), to)
         /\ Item(BackedOffRow(t, None)) = Queue!BackedOffRow(Item(t), None)
         /\ Item(ReapedRow(t, None)) = Queue!ReapedRow(Item(t), None)
         /\ Item([t EXCEPT !.fresh = TRUE]) = [Item(t) EXCEPT !.fresh = TRUE]
         /\ Item([t EXCEPT !.fresh = FALSE]) = [Item(t) EXCEPT !.fresh = FALSE]
         /\ Item([t EXCEPT !.due = TRUE]) = [Item(t) EXCEPT !.due = TRUE]
<1>0. ASSUME NEW q \in Row
      PROVE  /\ Item(q) \in Queue!Row /\ Item(q).slot = <<q.run, q.step>> /\ Item(q).status = q.status
             /\ Item(q).fence = q.fence /\ Item(q).claimedBy = q.claimedBy
             /\ Item(q).fresh = q.fresh /\ Item(q).due = q.due
  BY DEF Row, Item, Queue!Row, Status, Queue!Status
<1> DEFINE u == Item(t)
<1>u. /\ u \in Queue!Row /\ u.slot = <<t.run, t.step>> /\ u.fence = t.fence
      /\ u.fresh = t.fresh /\ u.due = t.due
  BY <1>0
<1> DEFINE n == t.fence + 1
<1>n. n \in Nat /\ n = u.fence + 1
  BY <1>u DEF Row
<1> HIDE DEF u
<1>1. ASSUME NEW w \in Workers PROVE Item(ClaimedRow(t, w)) = Queue!ClaimedRow(u, w)
  <2> DEFINE p == [t EXCEPT !.status = "RUNNING", !.fence = n, !.claimedBy = w, !.fresh = TRUE]
             v == [u EXCEPT !.status = "RUNNING", !.fence = n, !.claimedBy = w, !.fresh = TRUE]
  <2>1. ClaimedRow(t, w) = p
    BY DEF ClaimedRow
  <2>2. Queue!ClaimedRow(u, w) = v
    BY <1>n DEF Queue!ClaimedRow
  <2> HIDE DEF n
  <2>3. /\ p \in Row /\ p.run = t.run /\ p.step = t.step
        /\ p.status = "RUNNING" /\ p.fence = n
        /\ p.claimedBy = w /\ p.fresh = TRUE /\ p.due = t.due
    BY <1>n DEF Row, Status
  <2>4. /\ v \in Queue!Row /\ v.slot = u.slot
        /\ v.status = "RUNNING" /\ v.fence = n
        /\ v.claimedBy = w /\ v.fresh = TRUE /\ v.due = u.due
    BY <1>u, <1>n DEF Queue!Row, Queue!Status
  <2> HIDE DEF p, v
  <2>5. Item(p) = v
    <3>1. /\ Item(p) \in Queue!Row /\ Item(p).slot = <<p.run, p.step>>
          /\ Item(p).status = p.status /\ Item(p).fence = p.fence
          /\ Item(p).claimedBy = p.claimedBy /\ Item(p).fresh = p.fresh /\ Item(p).due = p.due
      BY <1>0, <2>3
    <3> QED
      BY <1>u, <2>3, <2>4, <3>1, SameItems
  <2> QED
    BY <2>1, <2>2, <2>5
<1>2. ASSUME NEW to \in Status PROVE Item(MovedRow(t, to)) = Queue!MovedRow(u, to)
  <2>1. /\ MovedRow(t, to) \in Row
        /\ MovedRow(t, to).run = t.run /\ MovedRow(t, to).step = t.step
        /\ MovedRow(t, to).status = to /\ MovedRow(t, to).fence = t.fence
        /\ MovedRow(t, to).claimedBy = t.claimedBy /\ MovedRow(t, to).fresh = t.fresh
        /\ MovedRow(t, to).due = t.due
    BY DEF Row, MovedRow
  <2>2. /\ Queue!MovedRow(u, to) \in Queue!Row
        /\ Queue!MovedRow(u, to).slot = u.slot /\ Queue!MovedRow(u, to).status = to
        /\ Queue!MovedRow(u, to).fence = u.fence /\ Queue!MovedRow(u, to).claimedBy = u.claimedBy
        /\ Queue!MovedRow(u, to).fresh = u.fresh /\ Queue!MovedRow(u, to).due = u.due
    BY <1>u DEF Queue!Row, Queue!MovedRow, Queue!Status, Status
  <2> QED
    BY <1>0, <2>1, <2>2, SameItems DEF u
<1>3. Item(BackedOffRow(t, None)) = Queue!BackedOffRow(u, None)
  <2> DEFINE p == [t EXCEPT !.status = "QUEUED", !.fence = n, !.claimedBy = None,
                            !.fresh = FALSE, !.due = FALSE]
             v == [u EXCEPT !.status = "QUEUED", !.fence = n, !.claimedBy = None,
                            !.fresh = FALSE, !.due = FALSE]
  <2>1. BackedOffRow(t, None) = p
    BY DEF BackedOffRow
  <2>2. Queue!BackedOffRow(u, None) = v
    BY <1>n DEF Queue!BackedOffRow
  <2> HIDE DEF n
  <2>3. /\ p \in Row /\ p.run = t.run /\ p.step = t.step
        /\ p.status = "QUEUED" /\ p.fence = n
        /\ p.claimedBy = None /\ p.fresh = FALSE /\ p.due = FALSE
    BY <1>n DEF Row, Status
  <2>4. /\ v \in Queue!Row /\ v.slot = u.slot
        /\ v.status = "QUEUED" /\ v.fence = n
        /\ v.claimedBy = None /\ v.fresh = FALSE /\ v.due = FALSE
    BY <1>u, <1>n DEF Queue!Row, Queue!Status
  <2> HIDE DEF p, v
  <2>5. Item(p) = v
    <3>1. /\ Item(p) \in Queue!Row /\ Item(p).slot = <<p.run, p.step>>
          /\ Item(p).status = p.status /\ Item(p).fence = p.fence
          /\ Item(p).claimedBy = p.claimedBy /\ Item(p).fresh = p.fresh /\ Item(p).due = p.due
      BY <1>0, <2>3
    <3> QED
      BY <1>u, <2>3, <2>4, <3>1, SameItems
  <2> QED
    BY <2>1, <2>2, <2>5
<1>4. Item(ReapedRow(t, None)) = Queue!ReapedRow(u, None)
  <2> DEFINE p == [t EXCEPT !.status = "QUEUED", !.fence = n, !.claimedBy = None]
             v == [u EXCEPT !.status = "QUEUED", !.fence = n, !.claimedBy = None]
  <2>1. ReapedRow(t, None) = p
    BY DEF ReapedRow
  <2>2. Queue!ReapedRow(u, None) = v
    BY <1>n DEF Queue!ReapedRow
  <2> HIDE DEF n
  <2>3. /\ p \in Row /\ p.run = t.run /\ p.step = t.step
        /\ p.status = "QUEUED" /\ p.fence = n
        /\ p.claimedBy = None /\ p.fresh = t.fresh /\ p.due = t.due
    BY <1>n DEF Row, Status
  <2>4. /\ v \in Queue!Row /\ v.slot = u.slot
        /\ v.status = "QUEUED" /\ v.fence = n
        /\ v.claimedBy = None /\ v.fresh = u.fresh /\ v.due = u.due
    BY <1>u, <1>n DEF Queue!Row, Queue!Status
  <2> HIDE DEF p, v
  <2>5. Item(p) = v
    <3>1. /\ Item(p) \in Queue!Row /\ Item(p).slot = <<p.run, p.step>>
          /\ Item(p).status = p.status /\ Item(p).fence = p.fence
          /\ Item(p).claimedBy = p.claimedBy /\ Item(p).fresh = p.fresh /\ Item(p).due = p.due
      BY <1>0, <2>3
    <3> QED
      BY <1>u, <2>3, <2>4, <3>1, SameItems
  <2> QED
    BY <2>1, <2>2, <2>5
<1>5. ASSUME NEW b \in BOOLEAN
      PROVE  /\ Item([t EXCEPT !.fresh = b]) = [u EXCEPT !.fresh = b]
             /\ Item([t EXCEPT !.due = b]) = [u EXCEPT !.due = b]
  <2>1. ASSUME NEW p, p = [t EXCEPT !.fresh = b]
        PROVE  /\ p \in Row /\ p.run = t.run /\ p.step = t.step /\ p.status = t.status
               /\ p.fence = t.fence /\ p.claimedBy = t.claimedBy /\ p.fresh = b /\ p.due = t.due
    BY <2>1 DEF Row
  <2>2. ASSUME NEW v, v = [u EXCEPT !.fresh = b]
        PROVE  /\ v \in Queue!Row /\ v.slot = u.slot /\ v.status = u.status
               /\ v.fence = u.fence /\ v.claimedBy = u.claimedBy /\ v.fresh = b /\ v.due = u.due
    BY <1>u, <2>2 DEF Queue!Row
  <2>3. ASSUME NEW p, p = [t EXCEPT !.due = b]
        PROVE  /\ p \in Row /\ p.run = t.run /\ p.step = t.step /\ p.status = t.status
               /\ p.fence = t.fence /\ p.claimedBy = t.claimedBy /\ p.fresh = t.fresh /\ p.due = b
    BY <2>3 DEF Row
  <2>4. ASSUME NEW v, v = [u EXCEPT !.due = b]
        PROVE  /\ v \in Queue!Row /\ v.slot = u.slot /\ v.status = u.status
               /\ v.fence = u.fence /\ v.claimedBy = u.claimedBy /\ v.fresh = u.fresh /\ v.due = b
    BY <1>u, <2>4 DEF Queue!Row
  <2>5. ASSUME NEW p, NEW v, p = [t EXCEPT !.fresh = b], v = [u EXCEPT !.fresh = b] PROVE Item(p) = v
    BY <1>0, <2>1, <2>2, <2>5, SameItems DEF u
  <2>6. ASSUME NEW p, NEW v, p = [t EXCEPT !.due = b], v = [u EXCEPT !.due = b] PROVE Item(p) = v
    BY <1>0, <2>3, <2>4, <2>6, SameItems DEF u
  <2> QED
    BY <2>5, <2>6
<1> QED
  BY <1>u, <1>1, <1>2, <1>3, <1>4, <1>5 DEF u

LEMMA ItemGuards ==
  ASSUME NEW t
  PROVE  /\ Queue!Claimable(Item(t)) <=> Claimable(t)
         /\ \A n, to : Queue!MayReport(Item(t), n, to) <=> MayReport(t, n, to)
         /\ \A n : Queue!MayRequeue(Item(t), n) <=> MayRequeue(t, n)
         /\ Queue!MayCancel(Item(t)) <=> MayCancel(t)
         /\ Queue!Stale(Item(t)) <=> Stale(t)
         /\ \A n : Queue!Owns(Item(t), n) <=> Owns(t, n)
         /\ Item(t).slot = <<t.run, t.step>> /\ Item(t).status = t.status
         /\ Item(t).fence = t.fence /\ Item(t).fresh = t.fresh /\ Item(t).due = t.due
BY DEF Item, Claimable, Queue!Claimable, MayReport, Queue!MayReport, MayRequeue, Queue!MayRequeue,
       MayCancel, Queue!MayCancel, Stale, Queue!Stale, Owns, Queue!Owns,
       transitionAllowed, Queue!transitionAllowed, legalTransitions, Queue!legalTransitions

LEMMA ClaimsAsQueue ==
  /\ DOMAIN QueueClaims = Workers
  /\ \A w \in Workers : QueueClaims[w] = Held(th[w])
BY DEF QueueClaims, Held, At

LEMMA TurnAsQueue ==
  ASSUME NEW w \in Workers, NEW l, Turns(w, l)
  PROVE  QueueClaims' = [QueueClaims EXCEPT ![w] = Held(l)]
<1>1. DOMAIN QueueClaims' = Workers /\ \A v \in Workers : QueueClaims'[v] = Held(th'[v])
  BY DEF QueueClaims, Held, At
<1>2. \A v \in Workers : QueueClaims'[v] = [QueueClaims EXCEPT ![w] = Held(l)][v]
  BY <1>1, ClaimsAsQueue DEF Turns, Threads
<1>3. QueueClaims' = [v \in Workers |-> QueueClaims'[v]]
  BY DEF QueueClaims
<1> QED
  BY <1>2, <1>3, ClaimsAsQueue

LEMMA ClaimsStay ==
  ASSUME NEW h \in Threads, NEW l, Turns(h, l), l.pc # "running", ~At(h, "running")
  PROVE  QueueClaims' = QueueClaims
<1>1. \A v \in Workers : Held(th'[v]) = Held(th[v])
  BY DEF Turns, Held, At, Threads
<1>2. QueueClaims = [v \in Workers |-> Held(th[v])] /\ QueueClaims' = [v \in Workers |-> Held(th'[v])]
  BY DEF QueueClaims, Held, At
<1> QED
  BY <1>1, <1>2

QueueStep == [Queue!Next]_Queue!vars

\* What an action that leaves the table and the claims alone is to the queue.
LEMMA QueueStays ==
  ASSUME tasks' = tasks, QueueClaims' = QueueClaims
  PROVE  QueueStep
<1>1. QueueRows' = QueueRows
  BY DEF QueueRows, Ids
<1> QED
  BY <1>1 DEF QueueStep, Queue!vars

LEMMA TurnStays ==
  ASSUME tasks' = tasks, NEW h \in Threads, NEW l, Turns(h, l), l.pc # "running", ~At(h, "running")
  PROVE  QueueStep
BY ClaimsStay, QueueStays

\* What the queue knows of a worker that runs a step.
LEMMA RunningAsQueue ==
  ASSUME CInv, NEW w \in Workers, At(w, "running")
  PROVE  /\ Queue!Busy(w) /\ QueueClaims[w].task = th[w].task /\ QueueClaims[w].fence = th[w].fence
         /\ th[w].task \in Ids /\ tasks[th[w].task] \in Row
         /\ QueueRows[th[w].task] = Item(tasks[th[w].task])
<1>1. th[w].task \in Ids /\ w \in Threads /\ tasks \in Seq(Row)
  BY DEF CInv, ThreadOK, At, Threads, Types
<1>2. th[w].task # 0 /\ tasks[th[w].task] \in Row
  BY <1>1, RowsAreRows
<1>3. QueueClaims[w] = [task |-> th[w].task, fence |-> th[w].fence]
  BY ClaimsAsQueue DEF Held, At
<1>4. QueueRows[th[w].task] = Item(tasks[th[w].task])
  BY <1>1, RowsAsQueue
<1> QED
  BY <1>1, <1>2, <1>3, <1>4 DEF Queue!Busy

LEMMA NotRunning ==
  ASSUME NEW l, l.pc # "running"
  PROVE  Held(l) = Queue!Idle
BY DEF Held, Queue!Idle

LEMMA ClaimAsQueue ==
  ASSUME CInv, NEW w \in Workers, Claim(w)
  PROVE  QueueStep
<1>1. /\ tasks \in Seq(Row) /\ th \in [Threads -> Local] /\ w \in Threads /\ At(w, "idle")
  BY DEF CInv, Types, Claim, Threads
<1>2. PICK i \in Ids :
        /\ Claimable(tasks[i])
        /\ \A j \in 1..(i - 1) : ~Claimable(tasks[j])
        /\ tasks' = [tasks EXCEPT ![i] = ClaimedRow(tasks[i], w)]
        /\ Become(w, [Resting EXCEPT !.pc = "running", !.run = tasks[i].run,
                                     !.task = i, !.fence = tasks[i].fence + 1])
  BY DEF Claim
<1>3. /\ Len(tasks) \in Nat /\ Ids = 1..Len(tasks) /\ tasks[i] \in Row /\ i \in Nat
      /\ tasks[i].fence \in Nat /\ tasks[i].run \in Runs
  BY <1>1, <1>2, RowsAreRows
<1> DEFINE n == tasks[i].fence + 1
           r == tasks[i].run
           l == [Resting EXCEPT !.pc = "running", !.run = r, !.task = i, !.fence = n]
<1>4. n \in Nat /\ r \in Runs
  BY <1>3
<1>5. Become(w, l)
  BY <1>2
<1>6. n = QueueRows[i].fence + 1 /\ QueueRows[i] = Item(tasks[i])
  BY <1>1, <1>2, RowsAsQueue, ItemGuards
<1> HIDE DEF n, r
<1>7. l \in Local /\ l.pc = "running" /\ l.task = i /\ l.fence = n
  BY <1>3, <1>4, RestingType DEF Local, PCs
<1> HIDE DEF l
<1>8. QueueClaims' = [QueueClaims EXCEPT ![w] = [task |-> i, fence |-> n]]
  <2>1. Turns(w, l)
    BY <1>1, <1>5, <1>7, ThreadTurns
  <2>2. Held(l) = [task |-> i, fence |-> n]
    BY <1>7 DEF Held
  <2> QED
    BY <2>1, <2>2, TurnAsQueue
<1>9. QueueRows' = [QueueRows EXCEPT ![i] = Queue!ClaimedRow(QueueRows[i], w)]
  <2>1. ClaimedRow(tasks[i], w) \in Row
    BY <1>3, RowOps
  <2>2. Item(ClaimedRow(tasks[i], w)) = Queue!ClaimedRow(Item(tasks[i]), w)
    BY <1>3, ItemOps
  <2> QED
    BY <1>1, <1>2, <1>6, <2>1, <2>2, PutAsQueue
<1>10. Queue!Claimable(QueueRows[i]) /\ \A j \in 1..(i - 1) : ~Queue!Claimable(QueueRows[j])
  <2>1. \A j \in 1..(i - 1) : j \in Ids
    BY <1>2, <1>3
  <2>2. \A j \in Ids : QueueRows[j] = Item(tasks[j])
    BY <1>1, RowsAsQueue
  <2> QED
    BY <1>2, <2>1, <2>2, ItemGuards
<1>11. ~Queue!Busy(w)
  BY <1>1, ClaimsAsQueue DEF Queue!Busy, Held, At
<1>12. Queue!Ids = Ids
  BY <1>1, RowsAsQueue
<1>13. Queue!Claim(w)
  BY <1>2, <1>6, <1>8, <1>9, <1>10, <1>11, <1>12 DEF Queue!Claim
<1> QED
  BY <1>13 DEF QueueStep, Queue!Next, Queue!WorkerStep

LEMMA HeartbeatAsQueue ==
  ASSUME CInv, NEW w \in Workers, Heartbeat(w)
  PROVE  QueueStep
<1>0. PICK i \in Ids : i = th[w].task
  BY DEF CInv, ThreadOK, At, Threads, Heartbeat
<1>1. /\ tasks \in Seq(Row) /\ At(w, "running") /\ Owns(tasks[i], th[w].fence) /\ th' = th
      /\ tasks' = [tasks EXCEPT ![i] = [tasks[i] EXCEPT !.fresh = TRUE]]
  BY <1>0 DEF CInv, Types, Heartbeat
<1>2. /\ Queue!Busy(w) /\ QueueClaims[w].task = i /\ QueueClaims[w].fence = th[w].fence
      /\ i \in Ids /\ tasks[i] \in Row /\ QueueRows[i] = Item(tasks[i])
  BY <1>0, <1>1, RunningAsQueue
<1>3. QueueClaims' = QueueClaims
  BY <1>1 DEF QueueClaims, At
<1>4. QueueRows' = [QueueRows EXCEPT ![i] = [QueueRows[i] EXCEPT !.fresh = TRUE]]
  <2>1. [tasks[i] EXCEPT !.fresh = TRUE] \in Row
    BY <1>2, RowOps
  <2>2. Item([tasks[i] EXCEPT !.fresh = TRUE]) = [Item(tasks[i]) EXCEPT !.fresh = TRUE]
    BY <1>2, ItemOps
  <2>3. QueueRows' = [QueueRows EXCEPT ![i] = Item([tasks[i] EXCEPT !.fresh = TRUE])]
    BY <1>1, <2>1, PutAsQueue
  <2> QED
    BY <1>2, <2>2, <2>3
<1>5. Queue!Owns(QueueRows[i], QueueClaims[w].fence)
  BY <1>1, <1>2, ItemGuards
<1>6. Queue!Heartbeat(w)
  BY <1>2, <1>3, <1>4, <1>5 DEF Queue!Heartbeat
<1> QED
  BY <1>6 DEF QueueStep, Queue!Next, Queue!WorkerStep

\* A report or a parking, accepted or refused.
LEMMA RecordAsQueue ==
  ASSUME CInv, NEW w \in Workers, NEW to \in {"DONE", "FAILED", "AWAITING"}, NEW next \in Local,
         next.pc # "running", RecordResult(w, to, next)
  PROVE  QueueStep
<1>0. PICK i \in Ids : i = th[w].task
  BY DEF CInv, ThreadOK, At, Threads, RecordResult
<1>1. tasks \in Seq(Row) /\ th \in [Threads -> Local] /\ w \in Threads /\ At(w, "running")
  BY DEF CInv, Types, RecordResult, Threads
<1>2. /\ Queue!Busy(w) /\ QueueClaims[w].task = i /\ QueueClaims[w].fence = th[w].fence
      /\ i \in Ids /\ tasks[i] \in Row /\ QueueRows[i] = Item(tasks[i])
  BY <1>0, <1>1, RunningAsQueue
<1>3. Queue!MayReport(QueueRows[i], QueueClaims[w].fence, to) <=> MayReport(tasks[i], th[w].fence, to)
  BY <1>2, ItemGuards
<1>4. ASSUME MayReport(tasks[i], th[w].fence, to) PROVE Queue!Report(w, to)
  <2>1. tasks' = [tasks EXCEPT ![i] = MovedRow(tasks[i], to)] /\ Become(w, next)
    BY <1>0, <1>4 DEF RecordResult
  <2>2. QueueClaims' = [QueueClaims EXCEPT ![w] = Queue!Idle]
    BY <1>1, <2>1, ThreadTurns, TurnAsQueue, NotRunning
  <2>3. QueueRows' = [QueueRows EXCEPT ![i] = Queue!MovedRow(QueueRows[i], to)]
    <3>1. to \in Status
      BY DEF Status
    <3>2. MovedRow(tasks[i], to) \in Row
      BY <1>2, <3>1, RowOps
    <3>3. Item(MovedRow(tasks[i], to)) = Queue!MovedRow(Item(tasks[i]), to)
      BY <1>2, <3>1, ItemOps
    <3>4. QueueRows' = [QueueRows EXCEPT ![i] = Item(MovedRow(tasks[i], to))]
      BY <1>1, <2>1, <3>2, PutAsQueue
    <3> QED
      BY <1>2, <3>3, <3>4
  <2> QED
    BY <1>2, <1>3, <1>4, <2>2, <2>3 DEF Queue!Report
<1>5. ASSUME ~MayReport(tasks[i], th[w].fence, to) PROVE Queue!Report(w, to)
  <2>1. tasks' = tasks /\ Rest(w)
    BY <1>0, <1>5 DEF RecordResult
  <2>2. QueueClaims' = [QueueClaims EXCEPT ![w] = Queue!Idle]
    BY <1>1, <2>1, ThreadRests, RestingType, TurnAsQueue, NotRunning
  <2>3. QueueRows' = QueueRows
    BY <2>1 DEF QueueRows, Ids
  <2> QED
    BY <1>2, <1>3, <1>5, <2>2, <2>3 DEF Queue!Report
<1>6. Queue!Report(w, to)
  BY <1>4, <1>5
<1> QED
  BY <1>6 DEF QueueStep, Queue!Next, Queue!WorkerStep

\* The engine does not fall back to a failure report: the fence that refused the
\* request would refuse that too.
LEMMA RequeueAsQueue ==
  ASSUME CInv, InBounds, NEW w \in Workers, RequeueTransient(w)
  PROVE  QueueStep
<1>0. PICK i \in Ids : i = th[w].task
  BY DEF CInv, ThreadOK, At, Threads, RequeueTransient
<1>1. /\ tasks \in Seq(Row) /\ th \in [Threads -> Local] /\ w \in Threads /\ At(w, "running") /\ Rest(w)
      /\ tasks' = IF MayRequeue(tasks[i], th[w].fence)
                    THEN [tasks EXCEPT ![i] = BackedOffRow(tasks[i], None)] ELSE tasks
  BY <1>0 DEF CInv, Types, RequeueTransient, Threads
<1>2. /\ Queue!Busy(w) /\ QueueClaims[w].task = i /\ QueueClaims[w].fence = th[w].fence
      /\ tasks[i] \in Row /\ QueueRows[i] = Item(tasks[i])
  BY <1>0, <1>1, RunningAsQueue
<1>3. /\ Queue!MayRequeue(QueueRows[i], QueueClaims[w].fence) <=> MayRequeue(tasks[i], th[w].fence)
      /\ Queue!MayReport(QueueRows[i], QueueClaims[w].fence, "FAILED") => MayRequeue(tasks[i], th[w].fence)
      /\ QueueRows[i].fence < QueueBound
  <2>1. /\ Queue!MayRequeue(Item(tasks[i]), th[w].fence) <=> MayRequeue(tasks[i], th[w].fence)
        /\ Queue!MayReport(Item(tasks[i]), th[w].fence, "FAILED") <=> MayReport(tasks[i], th[w].fence, "FAILED")
        /\ Item(tasks[i]).fence = tasks[i].fence
    BY ItemGuards
  <2>2. MayReport(tasks[i], th[w].fence, "FAILED") => MayRequeue(tasks[i], th[w].fence)
    BY DEF MayReport, MayRequeue
  <2> QED
    BY <1>2, <2>1, <2>2 DEF InBounds
<1>4. QueueClaims' = [QueueClaims EXCEPT ![w] = Queue!Idle]
  BY <1>1, ThreadRests, RestingType, TurnAsQueue, NotRunning
<1>5. ASSUME MayRequeue(tasks[i], th[w].fence) PROVE Queue!RequeueTransient(w)
  <2>1. tasks' = [tasks EXCEPT ![i] = BackedOffRow(tasks[i], None)]
    BY <1>1, <1>5
  <2>2. BackedOffRow(tasks[i], None) \in Row
    BY <1>2, RowOps
  <2>3. QueueRows' = [QueueRows EXCEPT ![i] = Item(BackedOffRow(tasks[i], None))]
    BY <1>1, <2>1, <2>2, PutAsQueue
  <2>4. Item(BackedOffRow(tasks[i], None)) = Queue!BackedOffRow(Item(tasks[i]), None)
    BY <1>2, ItemOps
  <2>5. QueueRows' = [QueueRows EXCEPT ![i] = Queue!BackedOffRow(QueueRows[i], None)]
    BY <1>2, <2>3, <2>4
  <2> QED
    BY <1>2, <1>3, <1>4, <1>5, <2>5 DEF Queue!RequeueTransient
<1>6. ASSUME ~MayRequeue(tasks[i], th[w].fence) PROVE Queue!RequeueTransient(w)
  <2>1. tasks' = tasks
    BY <1>1, <1>6
  <2>2. QueueRows' = QueueRows
    BY <2>1 DEF QueueRows, Ids
  <2> QED
    BY <1>2, <1>3, <1>4, <1>6, <2>2 DEF Queue!RequeueTransient
<1> QED
  BY <1>5, <1>6 DEF QueueStep, Queue!Next, Queue!WorkerStep

LEMMA WorkerAsQueue ==
  ASSUME CInv, InBounds, NEW w \in Workers, WorkerStep(w)
  PROVE  QueueStep
<1>0. w \in Threads /\ th[w] \in Local
  BY DEF CInv, Types, Threads
<1>1. CASE Claim(w) \/ Heartbeat(w) \/ RequeueTransient(w)
  BY <1>1, ClaimAsQueue, HeartbeatAsQueue, RequeueAsQueue
<1>2. CASE Park(w)
  BY <1>2, RestingType, RecordAsQueue DEF Park
<1>3. CASE FailTask(w)
  <2> DEFINE l == [th[w] EXCEPT !.pc = "apply", !.step = 0, !.to = "FAILED", !.fence = 0]
  <2>1. l \in Local /\ l.pc # "running"
    BY <1>0 DEF Local, PCs, Status
  <2> QED
    BY <1>3, <2>1, RecordAsQueue DEF FailTask
<1>4. ASSUME NEW ok \in BOOLEAN, Report(w, ok) PROVE QueueStep
  <2> DEFINE l == [th[w] EXCEPT !.pc = "decide", !.ok = ok, !.fence = 0]
             to == IF ok THEN "DONE" ELSE "FAILED"
  <2>1. l \in Local /\ l.pc # "running"
    BY <1>0 DEF Local, PCs
  <2>2. to \in {"DONE", "FAILED", "AWAITING"}
    OBVIOUS
  <2>3. RecordResult(w, to, l)
    BY <1>4 DEF Report
  <2> HIDE DEF l, to
  <2> QED
    BY <2>1, <2>2, <2>3, RecordAsQueue
<1> QED
  BY <1>1, <1>2, <1>3, <1>4 DEF WorkerStep

\* A task submitted by whoever advances or starts a run.
LEMMA EnqueueAsQueue ==
  ASSUME CInv, InBounds, NEW r \in Runs, NEW s \in Steps, NEW m \in Marks, Enqueue(r, s, m),
         QueueClaims' = QueueClaims
  PROVE  QueueStep
<1>1. tasks \in Seq(Row)
  BY DEF CInv, Types
<1>2. Adds(r, s, m)
  BY <1>1, RowAdded
<1>3. /\ QueueRows \in Seq(Queue!Row) /\ Len(QueueRows) = Len(tasks) /\ DOMAIN QueueRows = Ids
      /\ \A i \in Ids : QueueRows[i] = Item(tasks[i])
  BY <1>1, RowsAsQueue
<1>4. DOMAIN QueueRows' = Ids' /\ \A i \in Ids' : QueueRows'[i] = Item(tasks'[i])
  BY DEF QueueRows, Item
<1>5. Len(tasks) \in Nat /\ Ids = 1..Len(tasks) /\ Ids' = 1..(Len(tasks) + 1)
  BY <1>1, <1>2, RowsAreRows DEF Adds
<1> DEFINE e == Queue!NewRow(<<r, s>>)
<1>6. e \in Queue!Row /\ Item(NewRow(r, s, m)) = e
  BY DEF Item, NewRow, Queue!NewRow, Queue!Row, Queue!Status
<1> HIDE DEF e
<1>7. QueueRows' = Append(QueueRows, e)
  <2>1. /\ Append(QueueRows, e) \in Seq(Queue!Row)
        /\ Len(Append(QueueRows, e)) = Len(tasks) + 1
        /\ Append(QueueRows, e)[Len(tasks) + 1] = e
        /\ \A i \in 1..Len(tasks) : Append(QueueRows, e)[i] = QueueRows[i]
    BY <1>3, <1>6, AppendProperties
  <2>2. Append(QueueRows, e) = [i \in 1..(Len(tasks) + 1) |-> Append(QueueRows, e)[i]]
    BY <2>1, LenProperties
  <2>3. \A i \in Ids' : QueueRows'[i] = Append(QueueRows, e)[i]
    BY <1>2, <1>3, <1>4, <1>5, <1>6, <2>1 DEF Adds
  <2>4. QueueRows' = [i \in Ids' |-> QueueRows'[i]]
    BY DEF QueueRows
  <2> QED
    BY <1>5, <2>2, <2>3, <2>4
<1>8. Len(QueueRows) < QueueBound /\ <<r, s>> \in Runs \X Steps
  BY <1>3 DEF InBounds
<1>9. Queue!EnqueueTask(<<r, s>>)
  BY <1>7, <1>8 DEF Queue!EnqueueTask, e
<1> QED
  BY <1>8, <1>9 DEF QueueStep, Queue!Next

LEMMA ResolveAsQueue ==
  ASSUME CInv, NEW r \in Runs, NEW s \in Steps, NEW to \in {"DONE", "FAILED"}, NEW i \in Ids,
         NewestAwaiting(r, s, i), tasks' = [tasks EXCEPT ![i] = MovedRow(tasks[i], to)],
         QueueClaims' = QueueClaims
  PROVE  QueueStep
<1>1. tasks \in Seq(Row)
  BY DEF CInv, Types
<1>2. /\ Len(QueueRows) = Len(tasks) /\ Queue!Ids = Ids /\ Ids = 1..Len(tasks) /\ Len(tasks) \in Nat
      /\ \A j \in Ids : QueueRows[j] = Item(tasks[j]) /\ tasks[j] \in Row
  BY <1>1, RowsAsQueue, RowsAreRows
<1>3. QueueRows' = [QueueRows EXCEPT ![i] = Queue!MovedRow(QueueRows[i], to)]
  <2>1. to \in Status
    BY DEF Status
  <2>2. MovedRow(tasks[i], to) \in Row
    BY <1>2, <2>1, RowOps
  <2>3. QueueRows' = [QueueRows EXCEPT ![i] = Item(MovedRow(tasks[i], to))]
    BY <1>1, <2>2, PutAsQueue
  <2>4. Item(MovedRow(tasks[i], to)) = Queue!MovedRow(Item(tasks[i]), to)
    BY <1>2, <2>1, ItemOps
  <2> QED
    BY <1>2, <2>3, <2>4
<1>4. \A j \in Ids : /\ QueueRows[j].slot = <<tasks[j].run, tasks[j].step>>
                     /\ QueueRows[j].status = tasks[j].status
  BY <1>2, ItemGuards
<1>5. QueueRows[i].slot = <<r, s>> /\ QueueRows[i].status = "AWAITING"
  BY <1>4 DEF NewestAwaiting
<1>6. \A j \in (i + 1)..Len(QueueRows) : ~(QueueRows[j].slot = <<r, s>> /\ QueueRows[j].status = "AWAITING")
  <2>1. \A j \in (i + 1)..Len(QueueRows) : j \in Ids
    BY <1>2
  <2> QED
    BY <1>2, <1>4, <2>1 DEF NewestAwaiting
<1>7. Queue!ResolveAwaiting(<<r, s>>, to)
  BY <1>2, <1>3, <1>5, <1>6 DEF Queue!ResolveAwaiting
<1> QED
  BY <1>7 DEF QueueStep, Queue!Next

\* A call is no worker, whatever it does.
LEMMA CallTurns ==
  ASSUME NEW c \in Clients, NEW l, Turns(c, l)
  PROVE  QueueClaims' = QueueClaims
<1>1. c \notin Workers
  BY ThreadAssumption
<1>2. \A w \in Workers : th'[w] = th[w]
  BY <1>1 DEF Turns, Threads
<1> QED
  BY <1>2 DEF QueueClaims, At

\* A cancelled task: one of those that were live when the call listed them.
LEMMA CancelAsQueue ==
  ASSUME CInv, NEW i \in Ids, MayCancel(tasks[i]),
         tasks' = [tasks EXCEPT ![i] = MovedRow(tasks[i], "CANCELLED")], QueueClaims' = QueueClaims
  PROVE  QueueStep
<1>1. tasks \in Seq(Row)
  BY DEF CInv, Types
<1>2. tasks[i] \in Row /\ QueueRows[i] = Item(tasks[i]) /\ i \in Queue!Ids
  BY <1>1, RowsAsQueue, RowsAreRows
<1>3. QueueRows' = [QueueRows EXCEPT ![i] = Queue!MovedRow(QueueRows[i], "CANCELLED")]
  <2>1. "CANCELLED" \in Status
    BY DEF Status
  <2>2. MovedRow(tasks[i], "CANCELLED") \in Row
    BY <1>2, <2>1, RowOps
  <2>3. QueueRows' = [QueueRows EXCEPT ![i] = Item(MovedRow(tasks[i], "CANCELLED"))]
    BY <1>1, <2>2, PutAsQueue
  <2>4. Item(MovedRow(tasks[i], "CANCELLED")) = Queue!MovedRow(Item(tasks[i]), "CANCELLED")
    BY <1>2, <2>1, ItemOps
  <2> QED
    BY <1>2, <2>3, <2>4
<1>4. Queue!MayCancel(QueueRows[i])
  BY <1>2, ItemGuards
<1>5. Queue!Cancel(i)
  BY <1>2, <1>3, <1>4 DEF Queue!Cancel
<1> QED
  BY <1>2, <1>5 DEF QueueStep, Queue!Next

LEMMA CallAsQueue ==
  ASSUME CInv, NEW c \in Clients, CallStep(c)
  PROVE  QueueStep
<1>1. ASSUME NEW r \in Runs, StartCreate(c, r) \/ CancelList(c, r) \/ RetryRead(c, r) PROVE QueueStep
  BY <1>1, StartCreateEffect, CancelListEffect, RetryReadEffect, CallTurns, QueueStays
<1>2. ASSUME NEW r \in Runs, NEW s \in Steps, AnswerCount(c, r, s) \/ RerunRead(c, r, s) PROVE QueueStep
  BY <1>2, AnswerCountEffect, RerunReadEffect, CallTurns, QueueStays
<1>3. ASSUME NEW r \in Runs, NEW s \in Steps, NEW ok \in BOOLEAN, Resolve(c, r, s, ok) PROVE QueueStep
  <2> DEFINE to == IF ok THEN "DONE" ELSE "FAILED"
  <2>1. QueueClaims' = QueueClaims
    BY <1>3, ResolveEffect, CallTurns
  <2>2. to \in {"DONE", "FAILED"}
    OBVIOUS
  <2>3. PICK i \in Ids : NewestAwaiting(r, s, i) /\ tasks' = [tasks EXCEPT ![i] = MovedRow(tasks[i], to)]
    BY <1>3 DEF Resolve
  <2> HIDE DEF to
  <2> QED
    BY <2>1, <2>2, <2>3, ResolveAsQueue
<1> QED
  BY <1>1, <1>2, <1>3 DEF CallStep

LEMMA CallRestAsQueue ==
  ASSUME CInv, InBounds, NEW c \in Clients, CallRest(c)
  PROVE  QueueStep
<1>0. c \in Threads /\ ThreadOK(c)
  BY DEF CInv, Threads
<1>1. CASE StartSeedFails(c)
  BY <1>1, StartSeedFailsEffect, CallTurns, QueueStays DEF Quits
<1>2. CASE StartRunning(c)
  BY <1>2, StartRunningEffect, CallTurns, QueueStays DEF Quits
<1>3. CASE CancelRun(c)
  BY <1>3, CancelRunEffect, CallTurns, QueueStays DEF Quits
<1>4. CASE Reopen(c)
  BY <1>4, ReopenEffect, CallTurns, QueueStays
<1>5. CASE RetryPick(c)
  BY <1>5, RetryPickEffect, CallTurns, QueueStays DEF Quits
<1>6. CASE StartEnqueue(c)
  <2>1. QueueClaims' = QueueClaims
    BY <1>6, StartEnqueueEffect, CallTurns
  <2>2. th[c].run \in Runs /\ Enqueue(th[c].run, 1, "none")
    BY <1>0, <1>6 DEF StartEnqueue, ThreadOK, At
  <2>3. "none" \in Marks
    BY DEF Marks
  <2> QED
    BY <2>1, <2>2, <2>3, StepFacts, EnqueueAsQueue
<1>7. CASE EnqueueAgain(c)
  <2>1. QueueClaims' = QueueClaims
    BY <1>7, EnqueueAgainEffect, CallTurns
  <2>2. /\ th[c].run \in Runs /\ th[c].step \in Steps
        /\ Enqueue(th[c].run, th[c].step, th[c].mark)
    BY <1>0, <1>7 DEF EnqueueAgain, ThreadOK, At
  <2>3. th[c].mark \in Marks
    BY <1>0 DEF CInv, Types, Local
  <2> QED
    BY <2>1, <2>2, <2>3, EnqueueAsQueue
<1>8. CASE AnswerAwaiting(c)
  <2>1. QueueClaims' = QueueClaims
    BY <1>8, AnswerAwaitingEffect, CallTurns DEF Quits
  <2>2. th[c].run \in Runs /\ th[c].step \in Steps
    BY <1>0, <1>8 DEF AnswerAwaiting, ThreadOK, At
  <2>3. CASE \E i \in Ids : NewestAwaiting(th[c].run, th[c].step, i)
    <3>1. PICK i \in Ids : /\ NewestAwaiting(th[c].run, th[c].step, i)
                           /\ tasks' = [tasks EXCEPT ![i] = MovedRow(tasks[i], "DONE")]
      BY <1>8, <2>3 DEF AnswerAwaiting
    <3> QED
      BY <2>1, <2>2, <3>1, ResolveAsQueue
  <2>4. CASE ~(\E i \in Ids : NewestAwaiting(th[c].run, th[c].step, i))
    <3>1. tasks' = tasks
      BY <1>8, <2>4 DEF AnswerAwaiting
    <3> QED
      BY <2>1, <3>1, QueueStays
  <2> QED
    BY <2>3, <2>4
<1>9. CASE CancelTask(c)
  <2>1. QueueClaims' = QueueClaims
    BY <1>9, CancelTaskEffect, CallTurns DEF Quits
  <2>2. tasks \in Seq(Row) /\ th[c].todo \in SUBSET Ids /\ th[c].todo # {}
    BY <1>0, <1>9 DEF CancelTask, ThreadOK, CInv, Types
  <2>3. PICK i \in Ids : i = Min(th[c].todo)
    BY <2>2, TaskEnds
  <2>4. CASE MayCancel(tasks[i])
    <3>1. tasks' = [tasks EXCEPT ![i] = MovedRow(tasks[i], "CANCELLED")]
      BY <1>9, <2>3, <2>4 DEF CancelTask
    <3> QED
      BY <2>1, <2>4, <3>1, CancelAsQueue
  <2>5. CASE ~MayCancel(tasks[i])
    <3>1. tasks' = tasks
      BY <1>9, <2>3, <2>5 DEF CancelTask
    <3> QED
      BY <2>1, <3>1, QueueStays
  <2> QED
    BY <2>4, <2>5
<1> QED
  BY <1>1, <1>2, <1>3, <1>4, <1>5, <1>6, <1>7, <1>8, <1>9 DEF CallRest

LEMMA AdvanceAsQueue ==
  ASSUME CInv, InBounds, NEW h \in Threads, Advance(h)
  PROVE  QueueStep
<1>1. CASE Decide(h)
  <2>1. tasks' = tasks /\ Turns(h, th'[h]) /\ th'[h].pc # "running" /\ ~At(h, "running")
    BY <1>1, DecideEffect DEF At
  <2>2. QueueClaims' = QueueClaims
    BY <2>1, ClaimsStay
  <2> QED
    BY <2>1, <2>2, QueueStays
<1>2. CASE Apply(h)
  <2>1. /\ Turns(h, Resting) /\ Resting.pc # "running" /\ ~At(h, "running")
        /\ \/ th[h].step \in Steps
           \/ th[h].step = 0 /\ tasks' = tasks
    BY <1>2, ApplyEffect, RestingType DEF At, Quits
  <2>2. QueueClaims' = QueueClaims
    BY <2>1, ClaimsStay
  <2>3. CASE tasks' = tasks
    BY <2>2, <2>3, QueueStays
  <2>4. CASE th[h].step \in Steps
    <3>1. th[h].run \in Runs /\ th[h].mark \in Marks
      BY <1>2 DEF Apply, CInv, ThreadOK, At, Types, Local
    <3>2. Enqueue(th[h].run, th[h].step, th[h].mark)
      BY <1>2, <2>4, StepFacts DEF Apply
    <3> QED
      BY <2>2, <2>4, <3>1, <3>2, EnqueueAsQueue
  <2> QED
    BY <2>1, <2>3, <2>4
<1> QED
  BY <1>1, <1>2 DEF Advance

LEMMA CrashAsQueue ==
  ASSUME CInv, InBounds, NEW h \in Threads, Crash(h)
  PROVE  QueueStep
<1>1. tasks' = tasks /\ Turns(h, Resting) /\ Resting.pc # "running"
  BY CrashEffect, RestingType DEF Quits
<1>2. CASE ~At(h, "running")
  BY <1>1, <1>2, ClaimsStay, QueueStays
<1>3. CASE At(h, "running")
  <2>1. h \in Workers
    BY <1>3 DEF CInv, ThreadOK
  <2>2. /\ Queue!Busy(h) /\ QueueClaims[h].task = th[h].task
        /\ th[h].task \in Ids /\ QueueRows[th[h].task] = Item(tasks[th[h].task])
    BY <1>3, <2>1, RunningAsQueue
  <2>3. QueueRows[QueueClaims[h].task].fence < QueueBound
    BY <2>2, ItemGuards DEF InBounds
  <2>4. QueueClaims' = [QueueClaims EXCEPT ![h] = Queue!Idle]
    BY <1>1, <2>1, TurnAsQueue, NotRunning
  <2>5. QueueRows' = QueueRows
    BY <1>1 DEF QueueRows, Ids
  <2>6. Queue!Crash(h)
    BY <2>2, <2>3, <2>4, <2>5 DEF Queue!Crash
  <2> QED
    BY <2>1, <2>6 DEF QueueStep, Queue!Next
<1> QED
  BY <1>2, <1>3

LEMMA ReaperAsQueue ==
  ASSUME CInv, RequeueStale
  PROVE  QueueStep
<1>1. tasks \in Seq(Row) /\ th' = th /\ tasks' = Reaped(tasks, None)
  BY DEF CInv, Types, RequeueStale
<1>2. PICK i \in Ids : Stale(tasks[i])
  BY DEF RequeueStale
<1>3. /\ Queue!Ids = Ids /\ DOMAIN QueueRows = Ids
      /\ \A j \in Ids : QueueRows[j] = Item(tasks[j]) /\ tasks[j] \in Row
  BY <1>1, RowsAsQueue, RowsAreRows
<1>4. DOMAIN QueueRows' = Ids' /\ \A j \in Ids' : QueueRows'[j] = Item(tasks'[j])
  BY DEF QueueRows, Item
<1>5. Ids' = Ids
  BY <1>1, RowsReaped DEF Reaps
<1>6. ASSUME NEW j \in Ids
      PROVE  QueueRows'[j] = IF Queue!Stale(QueueRows[j]) THEN Queue!ReapedRow(QueueRows[j], None) ELSE QueueRows[j]
  <2>1. tasks'[j] = IF Stale(tasks[j]) THEN ReapedRow(tasks[j], None) ELSE tasks[j]
    BY <1>1 DEF Reaped, Ids
  <2>2. Queue!Stale(QueueRows[j]) <=> Stale(tasks[j])
    BY <1>3, ItemGuards
  <2>3. Item(ReapedRow(tasks[j], None)) = Queue!ReapedRow(QueueRows[j], None)
    BY <1>3, ItemOps
  <2> QED
    BY <1>3, <1>4, <1>5, <2>1, <2>2, <2>3
<1>7. QueueRows' = Queue!Reaped(QueueRows, None)
  <2>1. QueueRows' = [j \in Ids |-> QueueRows'[j]]
    BY <1>5 DEF QueueRows
  <2> QED
    BY <1>3, <1>6, <2>1 DEF Queue!Reaped
<1>8. Queue!Stale(QueueRows[i])
  BY <1>2, <1>3, ItemGuards
<1>9. QueueClaims' = QueueClaims
  BY <1>1 DEF QueueClaims, At
<1>10. Queue!RequeueStale
  BY <1>3, <1>7, <1>8, <1>9 DEF Queue!RequeueStale
<1> QED
  BY <1>10 DEF QueueStep, Queue!Next

LEMMA ClockAsQueue ==
  ASSUME CInv, InBounds, NEW i \in Ids, HeartbeatExpires(i) \/ BackoffElapses(i)
  PROVE  QueueStep
<1>1. tasks \in Seq(Row) /\ th' = th
  BY DEF CInv, Types, HeartbeatExpires, BackoffElapses
<1>2. i \in Queue!Ids /\ QueueRows[i] = Item(tasks[i]) /\ tasks[i] \in Row
  BY <1>1, RowsAsQueue, RowsAreRows
<1>3. QueueClaims' = QueueClaims
  BY <1>1 DEF QueueClaims, At
<1>4. ASSUME HeartbeatExpires(i) PROVE Queue!HeartbeatExpires(i)
  <2>1. /\ tasks' = [tasks EXCEPT ![i] = [tasks[i] EXCEPT !.fresh = FALSE]]
        /\ tasks[i].status = "RUNNING" /\ tasks[i].fresh
    BY <1>4 DEF HeartbeatExpires
  <2>2. [tasks[i] EXCEPT !.fresh = FALSE] \in Row
    BY <1>2, RowOps
  <2>3. QueueRows' = [QueueRows EXCEPT ![i] = Item([tasks[i] EXCEPT !.fresh = FALSE])]
    BY <1>1, <2>1, <2>2, PutAsQueue
  <2>4. Item([tasks[i] EXCEPT !.fresh = FALSE]) = [Item(tasks[i]) EXCEPT !.fresh = FALSE]
    BY <1>2, ItemOps
  <2>5. QueueRows' = [QueueRows EXCEPT ![i] = [QueueRows[i] EXCEPT !.fresh = FALSE]]
    BY <1>2, <2>3, <2>4
  <2>6. /\ Queue!Owns(QueueRows[i], QueueRows[i].fence) /\ QueueRows[i].fresh
        /\ QueueRows[i].fence < QueueBound
    <3>1. Owns(tasks[i], tasks[i].fence) /\ tasks[i].fence < QueueBound
      BY <2>1 DEF Owns, InBounds
    <3>2. /\ Queue!Owns(Item(tasks[i]), tasks[i].fence)
          /\ Item(tasks[i]).fence = tasks[i].fence /\ Item(tasks[i]).fresh
      BY <2>1, <3>1, ItemGuards
    <3> QED
      BY <1>2, <3>1, <3>2
  <2> QED
    BY <1>2, <1>3, <2>5, <2>6 DEF Queue!HeartbeatExpires
<1>5. ASSUME BackoffElapses(i) PROVE Queue!BackoffElapses(i)
  <2>1. tasks' = [tasks EXCEPT ![i] = [tasks[i] EXCEPT !.due = TRUE]] /\ ~tasks[i].due
    BY <1>5 DEF BackoffElapses
  <2>2. [tasks[i] EXCEPT !.due = TRUE] \in Row
    BY <1>2, RowOps
  <2>3. QueueRows' = [QueueRows EXCEPT ![i] = Item([tasks[i] EXCEPT !.due = TRUE])]
    BY <1>1, <2>1, <2>2, PutAsQueue
  <2>4. Item([tasks[i] EXCEPT !.due = TRUE]) = [Item(tasks[i]) EXCEPT !.due = TRUE]
    BY <1>2, ItemOps
  <2>5. QueueRows' = [QueueRows EXCEPT ![i] = [QueueRows[i] EXCEPT !.due = TRUE]]
    BY <1>2, <2>3, <2>4
  <2>6. ~QueueRows[i].due
    BY <1>2, <2>1, ItemGuards
  <2> QED
    BY <1>2, <1>3, <2>5, <2>6 DEF Queue!BackoffElapses
<1> QED
  BY <1>2, <1>4, <1>5 DEF QueueStep, Queue!Next

LEMMA NextAsQueue == CInv /\ InBounds /\ [Next]_vars => QueueStep
<1> SUFFICES ASSUME CInv, InBounds, [Next]_vars
             PROVE  QueueStep
  OBVIOUS
<1>1. CASE UNCHANGED vars
  <2>1. tasks' = tasks /\ th' = th
    BY <1>1 DEF vars
  <2>2. QueueClaims' = QueueClaims
    BY <2>1 DEF QueueClaims, At
  <2> QED
    BY <2>1, <2>2, QueueStays
<1>2. CASE \E w \in Workers : WorkerStep(w)
  BY <1>2, WorkerAsQueue
<1>3. CASE \E c \in Clients : CallStep(c) \/ CallRest(c)
  BY <1>3, CallAsQueue, CallRestAsQueue
<1>4. CASE \E h \in Threads : Advance(h) \/ Crash(h)
  BY <1>4, AdvanceAsQueue, CrashAsQueue
<1>5. CASE RequeueStale
  BY <1>5, ReaperAsQueue
<1>6. CASE \E r \in Runs : PruneEvents(r)
  <2>1. tasks' = tasks /\ th' = th
    BY <1>6, PruneEventsEffect
  <2>2. QueueClaims' = QueueClaims
    BY <2>1 DEF QueueClaims, At
  <2> QED
    BY <2>1, <2>2, QueueStays
<1>7. CASE \E i \in Ids : HeartbeatExpires(i) \/ BackoffElapses(i)
  BY <1>7, ClockAsQueue
<1> QED
  BY <1>1, <1>2, <1>3, <1>4, <1>5, <1>6, <1>7 DEF Next

LEMMA InitAsQueue == Init => Queue!Init
<1> SUFFICES ASSUME Init PROVE Queue!Init
  OBVIOUS
<1>1. tasks = <<>> /\ tasks \in Seq(Row) /\ \A w \in Workers : th[w].pc = "idle"
  BY DEF Init, Resting, Threads
<1>2. QueueRows \in Seq(Queue!Row) /\ Len(QueueRows) = 0
  BY <1>1, RowsAsQueue
<1>3. QueueRows = <<>>
  BY <1>2, EmptySeq
<1>4. QueueClaims = [w \in Workers |-> Queue!Idle]
  BY <1>1 DEF QueueClaims, At, Queue!Idle
<1> QED
  BY <1>3, <1>4 DEF Queue!Init

\* Whatever the manifest, the calls and the faults, each transaction of the
\* engine is one operation of the queue or does not touch it: claims, reports,
\* parked gates, decisions, cancels and the reaper's passes.
THEOREM EngineUsesTheQueue == Spec /\ []InBounds => UsesTheQueue
<1>1. CInv /\ InBounds /\ [Next]_vars => [Queue!Next]_Queue!vars
  BY NextAsQueue DEF QueueStep
<1> QED
  BY <1>1, InitAsQueue, ClaimsInvariant, PTL DEF Spec, UsesTheQueue, Queue!Spec

=============================================================================
