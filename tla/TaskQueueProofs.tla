-------------------------- MODULE TaskQueueProofs --------------------------
(***************************************************************************)
(* Proofs about TaskQueue, for any number of workers, tasks and faults,    *)
(* and about the agent steps that run on it (AgentStep).                   *)
(***************************************************************************)
EXTENDS AgentStep, SequenceTheorems, TLAPS

(***************************************************************************)
(* The inductive invariant.  Fences only grow, so a claim is never ahead   *)
(* of its row; claims are pairwise different because a grant uses a fence  *)
(* nobody holds; and while a claim is current its row is still RUNNING for *)
(* that worker, unless it was cancelled under the worker's feet.           *)
(***************************************************************************)
ClaimsBehindRows ==
  \A w \in Workers : Busy(w) => claim[w].fence <= tasks[claim[w].task].fence

ClaimsDiffer ==
  \A v, w \in Workers : v # w /\ Busy(v) => claim[v] # claim[w]

CurrentClaimsHold ==
  \A w \in Workers :
    Current(w) => /\ tasks[claim[w].task].status \in {"RUNNING", "CANCELLED"}
                  /\ tasks[claim[w].task].claimedBy = w

IInv == TypeOK /\ ClaimsBehindRows /\ ClaimsDiffer /\ CurrentClaimsHold

-----------------------------------------------------------------------------
(* Sequences of rows                                                       *)

LEMMA RowUpdate ==
  ASSUME NEW S, NEW s \in Seq(S), NEW i \in DOMAIN s, NEW e \in S
  PROVE  /\ [s EXCEPT ![i] = e] \in Seq(S)
         /\ DOMAIN [s EXCEPT ![i] = e] = DOMAIN s
         /\ [s EXCEPT ![i] = e][i] = e
         /\ \A j \in DOMAIN s \ {i} : [s EXCEPT ![i] = e][j] = s[j]
<1>1. i \in 1..Len(s) /\ DOMAIN s = 1..Len(s)
  BY LenProperties
<1>2. /\ [s EXCEPT ![i] = e] \in Seq(S)
      /\ \A j \in 1..Len(s) : [s EXCEPT ![i] = e][j] = IF j = i THEN e ELSE s[j]
  BY <1>1, ExceptSeq
<1>3. DOMAIN [s EXCEPT ![i] = e] = DOMAIN s
  OBVIOUS
<1> QED
  BY <1>1, <1>2, <1>3

\* What each store operation makes of a row is a row.
LEMMA RowTypes ==
  ASSUME NEW t \in Row
  PROVE  /\ \A w \in Workers : ClaimedRow(t, w) \in Row
         /\ \A to \in Status : MovedRow(t, to) \in Row
         /\ BackedOffRow(t, None) \in Row
         /\ ReapedRow(t, None) \in Row
         /\ [t EXCEPT !.fresh = TRUE] \in Row
         /\ [t EXCEPT !.fresh = FALSE] \in Row
         /\ [t EXCEPT !.due = TRUE] \in Row
<1> DEFINE n == t.fence + 1
<1>1. n \in Nat
  BY DEF Row
<1>2. "RUNNING" \in Status /\ "QUEUED" \in Status
  BY DEF Status
<1>3. ASSUME NEW w \in Workers
      PROVE  ClaimedRow(t, w) \in Row
  <2>1. ClaimedRow(t, w) = [t EXCEPT !.status = "RUNNING", !.fence = n,
                                     !.claimedBy = w, !.fresh = TRUE]
    BY DEF ClaimedRow
  <2> HIDE DEF n
  <2>2. [t EXCEPT !.status = "RUNNING", !.fence = n, !.claimedBy = w, !.fresh = TRUE] \in Row
    BY <1>1, <1>2 DEF Row
  <2> QED
    BY <2>1, <2>2
<1>4. BackedOffRow(t, None) \in Row
  <2>1. BackedOffRow(t, None) = [t EXCEPT !.status = "QUEUED", !.fence = n, !.claimedBy = None,
                                          !.fresh = FALSE, !.due = FALSE]
    BY DEF BackedOffRow
  <2> HIDE DEF n
  <2>2. [t EXCEPT !.status = "QUEUED", !.fence = n, !.claimedBy = None,
                  !.fresh = FALSE, !.due = FALSE] \in Row
    BY <1>1, <1>2 DEF Row
  <2> QED
    BY <2>1, <2>2
<1>5. ReapedRow(t, None) \in Row
  <2>1. ReapedRow(t, None) = [t EXCEPT !.status = "QUEUED", !.fence = n, !.claimedBy = None]
    BY DEF ReapedRow
  <2> HIDE DEF n
  <2>2. [t EXCEPT !.status = "QUEUED", !.fence = n, !.claimedBy = None] \in Row
    BY <1>1, <1>2 DEF Row
  <2> QED
    BY <2>1, <2>2
<1>6. ASSUME NEW to \in Status
      PROVE  MovedRow(t, to) \in Row
  BY DEF Row, MovedRow
<1>7. /\ [t EXCEPT !.fresh = TRUE] \in Row
      /\ [t EXCEPT !.fresh = FALSE] \in Row
      /\ [t EXCEPT !.due = TRUE] \in Row
  BY DEF Row
<1> QED
  BY <1>3, <1>4, <1>5, <1>6, <1>7

LEMMA ReapedRows ==
  ASSUME NEW s \in Seq(Row)
  PROVE  /\ Reaped(s, None) \in Seq(Row)
         /\ DOMAIN Reaped(s, None) = DOMAIN s
         /\ \A i \in DOMAIN s :
              Reaped(s, None)[i] = IF Stale(s[i]) THEN ReapedRow(s[i], None) ELSE s[i]
<1>1. DOMAIN s = 1..Len(s) /\ Len(s) \in Nat /\ s \in [1..Len(s) -> Row]
  BY LenProperties
<1>2. \A i \in 1..Len(s) : ReapedRow(s[i], None) \in Row
  BY <1>1, RowTypes
<1>3. Reaped(s, None) \in [1..Len(s) -> Row]
  BY <1>1, <1>2 DEF Reaped
<1>4. Reaped(s, None) \in Seq(Row)
  BY <1>1, <1>3, SeqDef
<1> QED
  BY <1>1, <1>4 DEF Reaped

LEMMA NewRowType == \A s \in Slots : NewRow(s) \in Row
  BY DEF NewRow, Row, Status

LEMMA AppendRow ==
  ASSUME NEW S, NEW s \in Seq(S), NEW e \in S
  PROVE  /\ Append(s, e) \in Seq(S)
         /\ DOMAIN s \subseteq DOMAIN Append(s, e)
         /\ \A i \in DOMAIN s : Append(s, e)[i] = s[i]
         /\ Len(s) + 1 \notin DOMAIN s
BY AppendProperties, LenProperties

-----------------------------------------------------------------------------
(* The invariant is inductive.                                             *)

LEMMA RowsAndClaims ==
  ASSUME TypeOK
  PROVE  /\ \A i \in Ids : tasks[i] \in Row /\ tasks[i].fence \in Nat
         /\ \A w \in Workers : claim[w].fence \in Nat /\ claim[w].task \in Nat
         /\ \A v, w \in Workers : claim[v].task = claim[w].task /\ claim[v].fence = claim[w].fence
                                    => claim[v] = claim[w]
<1>1. \A i \in Ids : tasks[i] \in Row
  BY LenProperties DEF TypeOK, Ids
<1>2. \A w \in Workers : claim[w] \in [task: Nat, fence: Nat]
  BY DEF TypeOK
<1> QED
  BY <1>1, <1>2 DEF Row

\* Every step but a grant: fences do not go back, claims are kept or dropped,
\* and a current claim that is kept and not fenced off still has its row.
LEMMA NoGrant ==
  ASSUME IInv,
         tasks' \in Seq(Row), Ids \subseteq Ids',
         \A i \in Ids : tasks'[i].fence >= tasks[i].fence,
         claim' \in [Workers -> [task: Nat, fence: Nat]],
         \A w \in Workers : claim'[w] \in {claim[w], Idle},
         \A w \in Workers :
           /\ Current(w) /\ claim'[w] = claim[w]
           /\ tasks'[claim[w].task].fence = tasks[claim[w].task].fence
           => /\ tasks'[claim[w].task].status \in {"RUNNING", "CANCELLED"}
              /\ tasks'[claim[w].task].claimedBy = w
  PROVE  IInv'
<1>1. \A w \in Workers : Busy(w)' => /\ Busy(w) /\ claim'[w] = claim[w]
                                     /\ claim[w].task \in Ids
  BY DEF IInv, TypeOK, Busy, Idle
<1>2. \A i \in Ids : tasks[i].fence \in Nat /\ tasks'[i].fence \in Nat
  <2>1. \A i \in Ids' : tasks'[i] \in Row
    BY LenProperties DEF Ids
  <2> QED
    BY <2>1, RowsAndClaims DEF IInv, Row
<1>3. TypeOK'
  BY <1>1 DEF TypeOK, Ids
<1>4. ClaimsBehindRows'
  BY <1>1, <1>2, RowsAndClaims DEF IInv, ClaimsBehindRows
<1>5. ClaimsDiffer'
  <2> SUFFICES ASSUME NEW v \in Workers, NEW w \in Workers, v # w, Busy(v)'
               PROVE  claim'[v] # claim'[w]
    BY DEF ClaimsDiffer
  <2>1. claim'[v] = claim[v] /\ claim[v] # claim[w] /\ claim[v] # Idle
    BY <1>1 DEF IInv, ClaimsDiffer, Busy, Idle
  <2> QED
    BY <2>1
<1>6. CurrentClaimsHold'
  <2> SUFFICES ASSUME NEW w \in Workers, Current(w)'
               PROVE  /\ tasks'[claim'[w].task].status \in {"RUNNING", "CANCELLED"}
                      /\ tasks'[claim'[w].task].claimedBy = w
    BY DEF CurrentClaimsHold
  <2>1. /\ Busy(w) /\ claim'[w] = claim[w] /\ claim[w].task \in Ids
        /\ claim[w].fence = tasks'[claim[w].task].fence
    BY <1>1 DEF Current
  <2>2. tasks'[claim[w].task].fence = tasks[claim[w].task].fence
    BY <1>2, <2>1, RowsAndClaims DEF IInv, ClaimsBehindRows
  <2> QED
    BY <2>1, <2>2 DEF Current
<1> QED
  BY <1>3, <1>4, <1>5, <1>6 DEF IInv

\* No other worker's claim is as recent as a current one.
LEMMA CurrentIsUnique ==
  ASSUME IInv, NEW v \in Workers, NEW w \in Workers, Current(v), Current(w),
         claim[v].task = claim[w].task
  PROVE  v = w
BY RowsAndClaims DEF IInv, ClaimsDiffer, Current

LEMMA OneRow ==
  ASSUME IInv, NEW i \in Ids, NEW r \in Row, r.fence >= tasks[i].fence,
         tasks' = [tasks EXCEPT ![i] = r],
         claim' \in [Workers -> [task: Nat, fence: Nat]],
         \A w \in Workers : claim'[w] \in {claim[w], Idle},
         \A w \in Workers :
           /\ Current(w) /\ claim'[w] = claim[w]
           /\ claim[w].task = i /\ r.fence = tasks[i].fence
           => r.status \in {"RUNNING", "CANCELLED"} /\ r.claimedBy = w
  PROVE  IInv'
<1>1. /\ tasks' \in Seq(Row) /\ Ids' = Ids /\ tasks'[i] = r
      /\ \A j \in Ids \ {i} : tasks'[j] = tasks[j]
  BY RowUpdate DEF IInv, TypeOK, Ids
<1>2. \A j \in Ids : tasks'[j].fence >= tasks[j].fence
  BY <1>1, RowsAndClaims DEF IInv
<1>3. ASSUME NEW w \in Workers, Current(w), claim'[w] = claim[w],
             tasks'[claim[w].task].fence = tasks[claim[w].task].fence
      PROVE  /\ tasks'[claim[w].task].status \in {"RUNNING", "CANCELLED"}
             /\ tasks'[claim[w].task].claimedBy = w
  <2>1. claim[w].task \in Ids
    BY <1>3 DEF IInv, TypeOK, Current
  <2>2. CASE claim[w].task = i
    BY <1>1, <1>3, <2>2
  <2>3. CASE claim[w].task # i
    BY <1>1, <1>3, <2>1, <2>3 DEF IInv, CurrentClaimsHold
  <2> QED
    BY <2>2, <2>3
<1> QED
  BY <1>1, <1>2, <1>3, NoGrant

\* A worker that drops its claim, whatever it did or did not write into its row.
LEMMA DropClaim ==
  ASSUME IInv, NEW w \in Workers, Busy(w),
         claim' = [claim EXCEPT ![w] = Idle],
         \/ tasks' = tasks
         \/ /\ claim[w].fence = tasks[claim[w].task].fence
            /\ \E r \in Row : /\ r.fence >= tasks[claim[w].task].fence
                              /\ tasks' = [tasks EXCEPT ![claim[w].task] = r]
  PROVE  IInv'
<1>1. /\ claim' \in [Workers -> [task: Nat, fence: Nat]]
      /\ \A v \in Workers : claim'[v] \in {claim[v], Idle}
      /\ claim'[w] # claim[w] /\ claim[w].task \in Ids
  BY DEF IInv, TypeOK, Idle, Busy
<1>2. CASE tasks' = tasks
  <2>1. tasks \in Seq(Row) /\ \A i \in Ids : tasks[i].fence >= tasks[i].fence
    BY RowsAndClaims DEF IInv, TypeOK
  <2>2. \A v \in Workers :
          Current(v) => /\ tasks[claim[v].task].status \in {"RUNNING", "CANCELLED"}
                        /\ tasks[claim[v].task].claimedBy = v
    BY DEF IInv, CurrentClaimsHold
  <2>3. Ids' = Ids
    BY <1>2 DEF Ids
  <2> QED
    BY <1>1, <1>2, <2>1, <2>2, <2>3, NoGrant
<1>3. CASE /\ claim[w].fence = tasks[claim[w].task].fence
           /\ \E r \in Row : /\ r.fence >= tasks[claim[w].task].fence
                             /\ tasks' = [tasks EXCEPT ![claim[w].task] = r]
  <2>1. PICK r \in Row : /\ r.fence >= tasks[claim[w].task].fence
                         /\ tasks' = [tasks EXCEPT ![claim[w].task] = r]
    BY <1>3
  <2>2. Current(w)
    BY <1>3 DEF Current
  <2>3. \A v \in Workers :
          Current(v) /\ claim'[v] = claim[v] => claim[v].task # claim[w].task
    BY <1>1, <2>2, CurrentIsUnique
  <2> QED
    BY <1>1, <2>1, <2>3, OneRow
<1> QED
  BY <1>2, <1>3

\* A step of the reaper, the control plane or the clock on one row: no worker
\* notices, and the row keeps its claim columns.
LEMMA OthersChangeRow ==
  ASSUME IInv, NEW i \in Ids, NEW r \in Row, UNCHANGED claim,
         r.fence = tasks[i].fence, r.claimedBy = tasks[i].claimedBy,
         r.status \in {tasks[i].status, "CANCELLED"} \/ tasks[i].status = "AWAITING",
         tasks' = [tasks EXCEPT ![i] = r]
  PROVE  IInv'
<1>1. /\ claim' \in [Workers -> [task: Nat, fence: Nat]]
      /\ \A v \in Workers : claim'[v] \in {claim[v], Idle}
  BY DEF IInv, TypeOK
<1>2. r.fence >= tasks[i].fence
  BY RowsAndClaims DEF IInv
<1>3. \A w \in Workers :
        /\ Current(w) /\ claim'[w] = claim[w]
        /\ claim[w].task = i /\ r.fence = tasks[i].fence
        => r.status \in {"RUNNING", "CANCELLED"} /\ r.claimedBy = w
  BY DEF IInv, CurrentClaimsHold
<1> QED
  BY <1>1, <1>2, <1>3, OneRow

LEMMA GrantKeeps ==
  ASSUME IInv, NEW w \in Workers, Claim(w)
  PROVE  IInv'
<1>1. PICK i \in Ids :
        /\ Claimable(tasks[i])
        /\ tasks' = [tasks EXCEPT ![i] = ClaimedRow(tasks[i], w)]
        /\ claim' = [claim EXCEPT ![w] = [task |-> i, fence |-> tasks[i].fence + 1]]
  BY DEF Claim
<1> DEFINE r == ClaimedRow(tasks[i], w)
           n == tasks[i].fence + 1
<1>2. tasks[i] \in Row /\ tasks[i].fence \in Nat /\ r \in Row /\ n \in Nat /\ i \in Nat /\ i # 0
  <2>1. tasks[i] \in Row /\ tasks[i].fence \in Nat
    BY RowsAndClaims DEF IInv
  <2>2. r \in Row
    BY <2>1, RowTypes
  <2>3. i \in Nat /\ i # 0
    BY LenProperties DEF IInv, TypeOK, Ids
  <2> QED
    BY <2>1, <2>2, <2>3
<1>3. r.fence = n /\ r.status = "RUNNING" /\ r.claimedBy = w /\ n > tasks[i].fence
  BY <1>2 DEF ClaimedRow, Row
<1>4. claim' = [claim EXCEPT ![w] = [task |-> i, fence |-> n]]
  BY <1>1
<1>5. /\ tasks' \in Seq(Row) /\ Ids' = Ids /\ tasks'[i] = r
      /\ \A j \in Ids \ {i} : tasks'[j] = tasks[j]
  BY <1>1, <1>2, RowUpdate DEF IInv, TypeOK, Ids
<1> HIDE DEF r, n
<1>6. /\ claim' \in [Workers -> [task: Nat, fence: Nat]]
      /\ claim'[w] = [task |-> i, fence |-> n]
      /\ \A v \in Workers \ {w} : claim'[v] = claim[v]
  BY <1>2, <1>4 DEF IInv, TypeOK
<1>7. TypeOK'
  BY <1>2, <1>5, <1>6 DEF IInv, TypeOK, Busy, Ids
<1>8. \A v \in Workers \ {w} : Busy(v) /\ claim[v].task = i => claim[v].fence < n
  BY <1>2, <1>3, RowsAndClaims DEF IInv, ClaimsBehindRows
<1>9. ClaimsBehindRows'
  <2> SUFFICES ASSUME NEW v \in Workers, Busy(v)'
               PROVE  claim'[v].fence <= tasks'[claim'[v].task].fence
    BY DEF ClaimsBehindRows
  <2>1. CASE v = w
    BY <1>2, <1>3, <1>5, <1>6, <2>1
  <2>2. CASE v # w
    <3>1. claim'[v] = claim[v] /\ Busy(v) /\ claim[v].task \in Ids
      BY <1>6, <2>2 DEF Busy, IInv, TypeOK
    <3>2. CASE claim[v].task = i
      BY <1>2, <1>3, <1>5, <1>8, <2>2, <3>1, <3>2, RowsAndClaims DEF IInv
    <3>3. CASE claim[v].task # i
      BY <1>5, <3>1, <3>3 DEF IInv, ClaimsBehindRows
    <3> QED
      BY <3>2, <3>3
  <2> QED
    BY <2>1, <2>2
<1>10. ClaimsDiffer'
  <2> SUFFICES ASSUME NEW u \in Workers, NEW v \in Workers, u # v, Busy(u)'
               PROVE  claim'[u] # claim'[v]
    BY DEF ClaimsDiffer
  <2>1. \A x \in Workers \ {w} : claim'[x] # [task |-> i, fence |-> n]
    BY <1>2, <1>6, <1>8, RowsAndClaims DEF Busy, IInv
  <2>2. CASE u = w \/ v = w
    BY <1>6, <2>1, <2>2
  <2>3. CASE u # w /\ v # w
    BY <1>6, <2>3 DEF IInv, ClaimsDiffer, Busy
  <2> QED
    BY <2>2, <2>3
<1>11. CurrentClaimsHold'
  <2> SUFFICES ASSUME NEW v \in Workers, Current(v)'
               PROVE  /\ tasks'[claim'[v].task].status \in {"RUNNING", "CANCELLED"}
                      /\ tasks'[claim'[v].task].claimedBy = v
    BY DEF CurrentClaimsHold
  <2>1. CASE v = w
    BY <1>3, <1>5, <1>6, <2>1
  <2>2. CASE v # w
    <3>1. /\ claim'[v] = claim[v] /\ Busy(v) /\ claim[v].task \in Ids
          /\ claim[v].fence = tasks'[claim[v].task].fence
      BY <1>6, <2>2 DEF Busy, Current, IInv, TypeOK
    <3>2. claim[v].task # i
      BY <1>2, <1>3, <1>5, <1>8, <2>2, <3>1, RowsAndClaims DEF IInv
    <3> QED
      BY <1>5, <3>1, <3>2 DEF IInv, CurrentClaimsHold, Current
  <2> QED
    BY <2>1, <2>2
<1> QED
  BY <1>7, <1>9, <1>10, <1>11 DEF IInv

LEMMA InitInvariant == Init => IInv
<1> SUFFICES ASSUME Init
             PROVE  IInv
  OBVIOUS
<1>1. tasks \in Seq(Row) /\ claim \in [Workers -> [task: Nat, fence: Nat]]
  BY DEF Init, Idle
<1>2. \A w \in Workers : ~Busy(w)
  BY DEF Init, Idle, Busy
<1> QED
  BY <1>1, <1>2 DEF IInv, TypeOK, ClaimsBehindRows, ClaimsDiffer, CurrentClaimsHold, Current

LEMMA NextInvariant == IInv /\ [Next]_vars => IInv'
<1> SUFFICES ASSUME IInv, [Next]_vars
             PROVE  IInv'
  OBVIOUS
<1> USE DEF IInv
<1>1. CASE UNCHANGED vars
  <2>1. tasks' = tasks /\ claim' = claim
    BY <1>1 DEF vars
  <2> QED
    BY <2>1 DEF TypeOK, ClaimsBehindRows, ClaimsDiffer, CurrentClaimsHold, Current, Busy, Ids
<1>2. ASSUME NEW s \in Slots, EnqueueTask(s)
      PROVE  IInv'
  <2>1. tasks' = Append(tasks, NewRow(s)) /\ claim' = claim
    BY <1>2 DEF EnqueueTask
  <2>2. NewRow(s) \in Row /\ tasks \in Seq(Row)
    BY NewRowType DEF TypeOK
  <2>3. /\ tasks' \in Seq(Row) /\ Ids \subseteq Ids'
        /\ \A i \in Ids : tasks'[i] = tasks[i]
    BY <2>1, <2>2, AppendRow DEF Ids
  <2>4. \A i \in Ids : tasks'[i].fence >= tasks[i].fence
    BY <2>3, RowsAndClaims
  <2>5. /\ claim' \in [Workers -> [task: Nat, fence: Nat]]
        /\ \A w \in Workers : claim'[w] \in {claim[w], Idle}
    BY <2>1 DEF TypeOK
  <2>6. ASSUME NEW w \in Workers, Current(w)
        PROVE  /\ tasks'[claim[w].task].status \in {"RUNNING", "CANCELLED"}
               /\ tasks'[claim[w].task].claimedBy = w
    BY <2>3, <2>6 DEF CurrentClaimsHold, Current, TypeOK
  <2> HIDE DEF IInv
  <2> QED
    BY <2>3, <2>4, <2>5, <2>6, NoGrant
<1>3. ASSUME NEW w \in Workers, Claim(w)
      PROVE  IInv'
  BY <1>3, GrantKeeps
<1>4. ASSUME NEW w \in Workers, Heartbeat(w)
      PROVE  IInv'
  <2> DEFINE i == claim[w].task
             r == [tasks[i] EXCEPT !.fresh = TRUE]
  <2>1. /\ i \in Ids /\ claim' = claim
        /\ tasks' = [tasks EXCEPT ![i] = r]
    BY <1>4 DEF Heartbeat, TypeOK
  <2>2. tasks[i] \in Row /\ r \in Row
    BY <2>1, RowsAndClaims, RowTypes
  <2>3. /\ r.fence = tasks[i].fence /\ r.claimedBy = tasks[i].claimedBy
        /\ r.status = tasks[i].status
    BY <2>2 DEF Row
  <2> HIDE DEF IInv, r
  <2> QED
    BY <2>1, <2>2, <2>3, OthersChangeRow
<1>5. ASSUME NEW w \in Workers, NEW to \in {"DONE", "FAILED", "AWAITING"}, Report(w, to)
      PROVE  IInv'
  <2> DEFINE i == claim[w].task
             r == MovedRow(tasks[i], to)
  <2>1. Busy(w) /\ i \in Ids /\ claim' = [claim EXCEPT ![w] = Idle]
    BY <1>5 DEF Report, TypeOK
  <2>2. \/ tasks' = tasks
        \/ claim[w].fence = tasks[i].fence /\ tasks' = [tasks EXCEPT ![i] = r]
    BY <1>5 DEF Report, MayReport
  <2>3. tasks[i] \in Row /\ r \in Row
    BY <2>1, RowsAndClaims, RowTypes DEF Status
  <2>4. r.fence >= tasks[i].fence
    BY <2>3 DEF MovedRow, Row
  <2> HIDE DEF IInv, r
  <2> QED
    BY <2>1, <2>2, <2>3, <2>4, DropClaim
<1>6. ASSUME NEW w \in Workers, RequeueTransient(w)
      PROVE  IInv'
  <2> DEFINE i == claim[w].task
             b == BackedOffRow(tasks[i], None)
             r == MovedRow(tasks[i], "FAILED")
  <2>1. Busy(w) /\ i \in Ids /\ claim' = [claim EXCEPT ![w] = Idle]
    BY <1>6 DEF RequeueTransient, TypeOK
  <2>2. \/ tasks' = tasks
        \/ claim[w].fence = tasks[i].fence /\ tasks' = [tasks EXCEPT ![i] = b]
        \/ claim[w].fence = tasks[i].fence /\ tasks' = [tasks EXCEPT ![i] = r]
    BY <1>6 DEF RequeueTransient, MayReport, MayRequeue
  <2>3. tasks[i] \in Row /\ b \in Row /\ r \in Row
    BY <2>1, RowsAndClaims, RowTypes DEF Status
  <2>4. b.fence >= tasks[i].fence /\ r.fence >= tasks[i].fence
    BY <2>3 DEF MovedRow, BackedOffRow, Row
  <2> HIDE DEF IInv, b, r
  <2>5. CASE tasks' = tasks
    BY <2>1, <2>5, DropClaim
  <2>6. CASE claim[w].fence = tasks[i].fence /\ tasks' = [tasks EXCEPT ![i] = b]
    BY <2>1, <2>3, <2>4, <2>6, DropClaim
  <2>7. CASE claim[w].fence = tasks[i].fence /\ tasks' = [tasks EXCEPT ![i] = r]
    BY <2>1, <2>3, <2>4, <2>7, DropClaim
  <2> QED
    BY <2>2, <2>5, <2>6, <2>7
<1>7. ASSUME NEW w \in Workers, Crash(w)
      PROVE  IInv'
  <2>1. Busy(w) /\ claim' = [claim EXCEPT ![w] = Idle] /\ tasks' = tasks
    BY <1>7 DEF Crash
  <2> HIDE DEF IInv
  <2> QED
    BY <2>1, DropClaim
<1>8. CASE RequeueStale
  <2>1. tasks' = Reaped(tasks, None) /\ claim' = claim
    BY <1>8 DEF RequeueStale
  <2>2. /\ tasks' \in Seq(Row) /\ Ids' = Ids
        /\ \A i \in Ids : tasks'[i] = IF Stale(tasks[i]) THEN ReapedRow(tasks[i], None)
                                                         ELSE tasks[i]
    BY <2>1, ReapedRows DEF TypeOK, Ids
  <2>3. \A i \in Ids : tasks[i] \in Row /\ tasks[i].fence \in Nat
    BY RowsAndClaims
  <2>4. \A i \in Ids : ReapedRow(tasks[i], None).fence = tasks[i].fence + 1
    BY <2>3 DEF ReapedRow, Row
  <2>5. \A i \in Ids : /\ tasks'[i].fence >= tasks[i].fence
                       /\ tasks'[i].fence = tasks[i].fence => tasks'[i] = tasks[i]
    BY <2>2, <2>3, <2>4
  <2>6. /\ claim' \in [Workers -> [task: Nat, fence: Nat]]
        /\ \A w \in Workers : claim'[w] \in {claim[w], Idle}
    BY <2>1 DEF TypeOK
  <2>7. ASSUME NEW w \in Workers, Current(w),
               tasks'[claim[w].task].fence = tasks[claim[w].task].fence
        PROVE  /\ tasks'[claim[w].task].status \in {"RUNNING", "CANCELLED"}
               /\ tasks'[claim[w].task].claimedBy = w
    BY <2>5, <2>7 DEF CurrentClaimsHold, Current, TypeOK
  <2> HIDE DEF IInv
  <2> QED
    BY <2>2, <2>5, <2>6, <2>7, NoGrant
<1>9. ASSUME NEW s \in Slots, NEW to \in {"DONE", "FAILED"}, ResolveAwaiting(s, to)
      PROVE  IInv'
  <2>1. PICK i \in Ids : /\ tasks[i].status = "AWAITING"
                         /\ tasks' = [tasks EXCEPT ![i] = MovedRow(tasks[i], to)]
    BY <1>9 DEF ResolveAwaiting
  <2> DEFINE r == MovedRow(tasks[i], to)
  <2>2. tasks[i] \in Row /\ r \in Row
    BY RowsAndClaims, RowTypes DEF Status
  <2>3. r.fence = tasks[i].fence /\ r.claimedBy = tasks[i].claimedBy
    BY <2>2 DEF MovedRow, Row
  <2>4. claim' = claim /\ tasks' = [tasks EXCEPT ![i] = r]
    BY <1>9, <2>1 DEF ResolveAwaiting
  <2> HIDE DEF IInv, r
  <2> QED
    BY <2>1, <2>2, <2>3, <2>4, OthersChangeRow
<1>10. ASSUME NEW i \in Ids, Cancel(i)
       PROVE  IInv'
  <2> DEFINE r == MovedRow(tasks[i], "CANCELLED")
  <2>1. claim' = claim /\ tasks' = [tasks EXCEPT ![i] = r]
    BY <1>10 DEF Cancel
  <2>2. tasks[i] \in Row /\ r \in Row
    BY RowsAndClaims, RowTypes DEF Status
  <2>3. r.fence = tasks[i].fence /\ r.claimedBy = tasks[i].claimedBy /\ r.status = "CANCELLED"
    BY <2>2 DEF MovedRow, Row
  <2> HIDE DEF IInv, r
  <2> QED
    BY <2>1, <2>2, <2>3, OthersChangeRow
<1>11. ASSUME NEW i \in Ids, HeartbeatExpires(i) \/ BackoffElapses(i)
       PROVE  IInv'
  <2>1. PICK r \in {[tasks[i] EXCEPT !.fresh = FALSE], [tasks[i] EXCEPT !.due = TRUE]} :
          claim' = claim /\ tasks' = [tasks EXCEPT ![i] = r]
    BY <1>11 DEF HeartbeatExpires, BackoffElapses
  <2>2. tasks[i] \in Row /\ r \in Row
    BY RowsAndClaims, RowTypes
  <2>3. /\ r.fence = tasks[i].fence /\ r.claimedBy = tasks[i].claimedBy
        /\ r.status = tasks[i].status
    BY <2>2 DEF Row
  <2> HIDE DEF IInv
  <2> QED
    BY <2>1, <2>2, <2>3, OthersChangeRow
<1> QED
  BY <1>1, <1>2, <1>3, <1>4, <1>5, <1>6, <1>7, <1>8, <1>9, <1>10, <1>11
     DEF Next, WorkerStep

-----------------------------------------------------------------------------
(* The theorems                                                            *)

\* The invariant, for any number of workers, tasks and lost claims.
THEOREM Invariant == Spec => []IInv
BY InitInvariant, NextInvariant, PTL DEF Spec

\* The rows and claims keep their types: type correctness of claim.go's state.
THEOREM TypeCorrect == Spec => []TypeOK
<1>1. IInv => TypeOK
  BY DEF IInv
<1> QED
  BY <1>1, Invariant, PTL

\* No two workers ever hold the same claim, and the row a worker owns under its
\* fence is claimed by that worker.
THEOREM Exclusive == Spec => []ExclusiveClaim
<1>1. IInv => ExclusiveClaim
  BY DEF IInv, ClaimsDiffer, CurrentClaimsHold, ExclusiveClaim, Current, Owns
<1> QED
  BY <1>1, Invariant, PTL

\* Which rows a step of Next may change: the fence decides it for a worker.
LEMMA OnlyTheHolderWrites ==
  ASSUME IInv, NEW w \in Workers, Busy(w), ~Current(w), claim'[w] # claim[w], Next
  PROVE  tasks' = tasks
<1>1. CASE \E v \in Workers : WorkerStep(v) \/ Crash(v)
  <2>1. PICK v \in Workers : WorkerStep(v) \/ Crash(v)
    BY <1>1
  <2>2. claim \in [Workers -> [task: Nat, fence: Nat]]
    BY DEF IInv, TypeOK
  <2>3. v = w
    BY <2>1, <2>2 DEF WorkerStep, Crash, Claim, Heartbeat, Report, RequeueTransient
  <2>4. claim[w].fence # tasks[claim[w].task].fence
    BY DEF Current
  <2> QED
    BY <2>1, <2>3, <2>4 DEF WorkerStep, Crash, Claim, Heartbeat, Report, RequeueTransient,
                            MayReport, MayRequeue
<1>2. CASE UNCHANGED claim
  BY <1>2
<1> QED
  BY <1>1, <1>2 DEF Next, EnqueueTask, RequeueStale, ResolveAwaiting, Cancel,
                    HeartbeatExpires, BackoffElapses

\* The late report of a worker that lost its claim is refused, whatever became
\* of the task meanwhile (claim.go, Transition and RequeueTransient).
THEOREM StaleIsHarmless == Spec => StaleWorkerIsHarmless
<1>1. IInv /\ [Next]_vars =>
        [\A w \in Workers :
           Busy(w) /\ ~Current(w) /\ claim'[w] # claim[w] => tasks' = tasks]_vars
  BY OnlyTheHolderWrites DEF vars
<1> QED
  BY <1>1, Invariant, PTL DEF Spec, StaleWorkerIsHarmless

\* A row that a step writes keeps its status if it was DONE or FAILED.
LEMMA OneRowResult ==
  ASSUME IInv, NEW k \in Ids, NEW r, tasks' = [tasks EXCEPT ![k] = r],
         tasks[k].status \in {"DONE", "FAILED"} => r.status = tasks[k].status
  PROVE  \A i \in Ids : tasks[i].status \in {"DONE", "FAILED"}
                          => tasks'[i].status = tasks[i].status
BY LenProperties DEF IInv, TypeOK, Ids

LEMMA ResultStays ==
  ASSUME IInv, [Next]_vars
  PROVE  \A i \in Ids : tasks[i].status \in {"DONE", "FAILED"}
                          => tasks'[i].status = tasks[i].status
<1> DEFINE Kept == \A i \in Ids : tasks[i].status \in {"DONE", "FAILED"}
                                    => tasks'[i].status = tasks[i].status
<1>0. \A i \in Ids : tasks[i] \in Row
  BY RowsAndClaims DEF IInv
<1>1. CASE tasks' = tasks
  BY <1>1
<1>2. ASSUME NEW s \in Slots, EnqueueTask(s)
      PROVE  Kept
  <2>1. \A i \in Ids : tasks'[i] = tasks[i]
    BY <1>2, NewRowType, AppendRow DEF EnqueueTask, IInv, TypeOK, Ids
  <2> QED
    BY <2>1
<1>3. ASSUME NEW w \in Workers, Claim(w)
      PROVE  Kept
  BY <1>3, OneRowResult DEF Claim, Claimable
<1>4. ASSUME NEW w \in Workers, Heartbeat(w)
      PROVE  Kept
  <2>1. claim[w].task \in Ids /\ tasks[claim[w].task].status = "RUNNING"
    BY <1>4 DEF Heartbeat, Owns, IInv, TypeOK
  <2> QED
    BY <1>4, <2>1, OneRowResult DEF Heartbeat
<1>5. ASSUME NEW w \in Workers, NEW to \in {"DONE", "FAILED", "AWAITING"}, Report(w, to)
      PROVE  Kept
  <2> DEFINE i == claim[w].task
  <2>1. i \in Ids
    BY <1>5 DEF Report, IInv, TypeOK
  <2>2. MayReport(tasks[i], claim[w].fence, to) => tasks[i].status \notin {"DONE", "FAILED"}
    BY DEF MayReport, transitionAllowed, legalTransitions
  <2> QED
    BY <1>1, <1>5, <2>1, <2>2, OneRowResult DEF Report
<1>6. ASSUME NEW w \in Workers, RequeueTransient(w)
      PROVE  Kept
  <2> DEFINE i == claim[w].task
  <2>1. i \in Ids
    BY <1>6 DEF RequeueTransient, IInv, TypeOK
  <2>2. MayRequeue(tasks[i], claim[w].fence) => tasks[i].status \notin {"DONE", "FAILED"}
    BY <1>6 DEF RequeueTransient, MayRequeue, IInv, CurrentClaimsHold, Current
  <2>3. MayReport(tasks[i], claim[w].fence, "FAILED") => tasks[i].status \notin {"DONE", "FAILED"}
    BY DEF MayReport, transitionAllowed, legalTransitions
  <2> QED
    BY <1>1, <1>6, <2>1, <2>2, <2>3, OneRowResult DEF RequeueTransient
<1>7. CASE RequeueStale
  <2>1. \A i \in Ids : tasks'[i] = IF Stale(tasks[i]) THEN ReapedRow(tasks[i], None)
                                                      ELSE tasks[i]
    BY <1>7, ReapedRows DEF RequeueStale, IInv, TypeOK, Ids
  <2> QED
    BY <2>1 DEF Stale
<1>8. ASSUME NEW s \in Slots, NEW to \in {"DONE", "FAILED"}, ResolveAwaiting(s, to)
      PROVE  Kept
  BY <1>8, OneRowResult DEF ResolveAwaiting
<1>9. ASSUME NEW i \in Ids, Cancel(i)
      PROVE  Kept
  <2>1. tasks[i].status \notin {"DONE", "FAILED"}
    BY <1>9 DEF Cancel, MayCancel, transitionAllowed, legalTransitions
  <2> QED
    BY <1>9, <2>1, OneRowResult DEF Cancel
<1>10. ASSUME NEW i \in Ids, HeartbeatExpires(i) \/ BackoffElapses(i)
       PROVE  Kept
  <2>1. PICK r \in {[tasks[i] EXCEPT !.fresh = FALSE], [tasks[i] EXCEPT !.due = TRUE]} :
          tasks' = [tasks EXCEPT ![i] = r]
    BY <1>10 DEF HeartbeatExpires, BackoffElapses
  <2>2. r.status = tasks[i].status
    BY <1>0 DEF Row
  <2> QED
    BY <2>1, <2>2, OneRowResult
<1> QED
  BY <1>1, <1>2, <1>3, <1>4, <1>5, <1>6, <1>7, <1>8, <1>9, <1>10
     DEF Next, WorkerStep, Crash, vars

\* A step's recorded result never changes: needs the invariant, because the
\* provider-limit requeue compares nothing but the fence.
THEOREM ResultFinal == Spec => ResultIsFinal
<1>1. IInv /\ [Next]_vars =>
        [\A i \in Ids : tasks[i].status \in {"DONE", "FAILED"}
                          => tasks'[i].status = tasks[i].status]_vars
  BY ResultStays
<1> QED
  BY <1>1, Invariant, PTL DEF Spec, ResultIsFinal

-----------------------------------------------------------------------------
(* The task queue implements the lease, for any number of workers, tasks   *)
(* and lost claims: each store operation maps to one step of Lease, or to  *)
(* no step at all.  The inductive invariant above is what tells that a     *)
(* fenced write comes from the lease's holder.                             *)

AbsPhase  == [i \in Ids |-> PhaseOf(tasks[i].status)]
AbsHolder == [i \in Ids |-> HolderOf(tasks[i])]
AbsJob    == [w \in Workers |-> claim[w].task]

-----------------------------------------------------------------------------
(* What a change of one row or of one claim is, seen through the mapping.  *)

LEMMA AbsRow ==
  ASSUME TypeOK, NEW i \in Ids, NEW r, tasks' = [tasks EXCEPT ![i] = r]
  PROVE  /\ Ids' = Ids
         /\ AbsPhase' = [AbsPhase EXCEPT ![i] = PhaseOf(r.status)]
         /\ AbsHolder' = [AbsHolder EXCEPT ![i] = HolderOf(r)]
<1>1. /\ Ids' = Ids /\ tasks'[i] = r
      /\ \A j \in Ids \ {i} : tasks'[j] = tasks[j]
  BY LenProperties DEF TypeOK, Ids
<1>2. /\ AbsPhase' = [j \in Ids |-> PhaseOf(tasks'[j].status)]
      /\ AbsHolder' = [j \in Ids |-> HolderOf(tasks'[j])]
  BY <1>1 DEF AbsPhase, AbsHolder
<1>3. /\ [AbsPhase EXCEPT ![i] = PhaseOf(r.status)]
           = [j \in Ids |-> IF j = i THEN PhaseOf(r.status) ELSE PhaseOf(tasks[j].status)]
      /\ [AbsHolder EXCEPT ![i] = HolderOf(r)]
           = [j \in Ids |-> IF j = i THEN HolderOf(r) ELSE HolderOf(tasks[j])]
  BY DEF AbsPhase, AbsHolder
<1>4. \A j \in Ids : tasks'[j] = IF j = i THEN r ELSE tasks[j]
  BY <1>1
<1> QED
  BY <1>1, <1>2, <1>3, <1>4

LEMMA AbsQuietRow ==
  ASSUME TypeOK, NEW i \in Ids, NEW r, tasks' = [tasks EXCEPT ![i] = r],
         r.status = tasks[i].status, r.claimedBy = tasks[i].claimedBy
  PROVE  AbsPhase' = AbsPhase /\ AbsHolder' = AbsHolder
<1>1. HolderOf(r) = HolderOf(tasks[i])
  BY DEF HolderOf
<1>2. /\ [AbsPhase EXCEPT ![i] = PhaseOf(tasks[i].status)] = AbsPhase
      /\ [AbsHolder EXCEPT ![i] = HolderOf(tasks[i])] = AbsHolder
  BY DEF AbsPhase, AbsHolder
<1>3. /\ AbsPhase' = [AbsPhase EXCEPT ![i] = PhaseOf(r.status)]
      /\ AbsHolder' = [AbsHolder EXCEPT ![i] = HolderOf(r)]
  BY AbsRow
<1> QED
  BY <1>1, <1>2, <1>3

LEMMA AbsDrop ==
  ASSUME TypeOK, NEW w \in Workers, claim' = [claim EXCEPT ![w] = Idle]
  PROVE  AbsJob' = [AbsJob EXCEPT ![w] = 0]
BY DEF TypeOK, AbsJob, Idle

LEMMA AbsValues ==
  ASSUME TypeOK
  PROVE  /\ DOMAIN AbsPhase = Ids
         /\ \A i \in Ids : /\ AbsPhase[i] = PhaseOf(tasks[i].status)
                           /\ AbsHolder[i] = HolderOf(tasks[i])
         /\ \A w \in Workers : AbsJob[w] = claim[w].task
BY DEF AbsPhase, AbsHolder, AbsJob

-----------------------------------------------------------------------------
LEMMA InitRefines == Init => TheLease!Init
<1> SUFFICES ASSUME Init
             PROVE  TheLease!Init
  OBVIOUS
<1>1. tasks = <<>> /\ Ids = {}
  BY DEF Init, Ids
<1>2. [i \in Ids |-> PhaseOf(tasks[i].status)] = <<>>
  BY <1>1
<1>3. [i \in Ids |-> HolderOf(tasks[i])] = <<>>
  BY <1>1
<1>4. [w \in Workers |-> claim[w].task] = [w \in Workers |-> 0]
  BY DEF Init, Idle
<1> QED
  BY <1>2, <1>3, <1>4 DEF TheLease!Init

-----------------------------------------------------------------------------
(* One lemma for each step of the lease that the queue takes, stated over  *)
(* the mapped variables.                                                   *)

LEMMA MappedGrant ==
  ASSUME NEW w \in Workers, NEW i \in Ids, AbsPhase[i] = "open", AbsJob[w] = 0,
         DOMAIN AbsPhase = Ids,
         AbsPhase' = [AbsPhase EXCEPT ![i] = "held"],
         AbsHolder' = [AbsHolder EXCEPT ![i] = w],
         AbsJob' = [AbsJob EXCEPT ![w] = i]
  PROVE  TheLease!Next
<1>1. TheLease!Grant(w, i)
  BY DEF TheLease!Grant, AbsPhase, AbsHolder, AbsJob
<1> QED
  BY <1>1 DEF TheLease!Next, TheLease!Tasks, AbsPhase

LEMMA MappedReturn ==
  ASSUME NEW w \in Workers, NEW i \in Ids, NEW p \in {"open", "parked", "closed"},
         AbsJob[w] = i, AbsPhase[i] = "held", AbsHolder[i] = w,
         AbsPhase' = [AbsPhase EXCEPT ![i] = p],
         AbsHolder' = [AbsHolder EXCEPT ![i] = None],
         AbsJob' = [AbsJob EXCEPT ![w] = 0]
  PROVE  TheLease!Next
<1>1. TheLease!Return(w, i, p)
  BY DEF TheLease!Return, AbsPhase, AbsHolder, AbsJob
<1> QED
  BY <1>1 DEF TheLease!Next, TheLease!Tasks, AbsPhase

LEMMA MappedReinstate ==
  ASSUME NEW w \in Workers, NEW i \in Ids, AbsJob[w] = i, AbsPhase[i] = "withdrawn",
         AbsPhase' = [AbsPhase EXCEPT ![i] = "open"], AbsHolder' = AbsHolder,
         AbsJob' = [AbsJob EXCEPT ![w] = 0]
  PROVE  TheLease!Next
<1>1. TheLease!Reinstate(w, i)
  BY DEF TheLease!Reinstate, AbsPhase, AbsHolder, AbsJob
<1> QED
  BY <1>1 DEF TheLease!Next, TheLease!Tasks, AbsPhase

LEMMA MappedGiveUp ==
  ASSUME NEW w \in Workers, AbsJob[w] # 0,
         AbsPhase' = AbsPhase, AbsHolder' = AbsHolder,
         AbsJob' = [AbsJob EXCEPT ![w] = 0]
  PROVE  TheLease!Next
<1>1. TheLease!GiveUp(w)
  BY DEF TheLease!GiveUp, AbsPhase, AbsHolder, AbsJob
<1> QED
  BY <1>1 DEF TheLease!Next

LEMMA MappedDecide ==
  ASSUME NEW i \in Ids, AbsPhase[i] = "parked",
         AbsPhase' = [AbsPhase EXCEPT ![i] = "closed"],
         AbsHolder' = AbsHolder, AbsJob' = AbsJob
  PROVE  TheLease!Next
<1>1. TheLease!Decide(i)
  BY DEF TheLease!Decide, AbsPhase, AbsHolder, AbsJob
<1> QED
  BY <1>1 DEF TheLease!Next, TheLease!Tasks, AbsPhase

LEMMA MappedWithdraw ==
  ASSUME NEW i \in Ids, AbsPhase[i] \in {"open", "held", "parked"},
         AbsPhase' = [AbsPhase EXCEPT ![i] = "withdrawn"],
         AbsHolder' = [AbsHolder EXCEPT ![i] = None], AbsJob' = AbsJob
  PROVE  TheLease!Next
<1>1. TheLease!Withdraw(i)
  BY DEF TheLease!Withdraw, AbsPhase, AbsHolder, AbsJob
<1> QED
  BY <1>1 DEF TheLease!Next, TheLease!Tasks, AbsPhase

LEMMA MappedStutter ==
  ASSUME AbsPhase' = AbsPhase, AbsHolder' = AbsHolder, AbsJob' = AbsJob
  PROVE  UNCHANGED TheLease!lvars
BY DEF TheLease!lvars, AbsPhase, AbsHolder, AbsJob

-----------------------------------------------------------------------------
LEMMA AppendIsExtension ==
  ASSUME NEW n \in Nat, NEW s, NEW e, s = [i \in 1..n |-> s[i]]
  PROVE  Append(s, e) = [i \in 1..(n + 1) |-> IF i = n + 1 THEN e ELSE s[i]]
<1> DEFINE S == {s[i] : i \in 1..n} \cup {e}
<1>1. s \in [1..n -> S] /\ e \in S
  OBVIOUS
<1> HIDE DEF S
<1>2. s \in Seq(S)
  BY <1>1, SeqDef
<1>3. Len(s) = n
  BY <1>1, <1>2, LenProperties
<1>4. /\ Append(s, e) \in Seq(S) /\ Len(Append(s, e)) = n + 1
      /\ \A i \in 1..n : Append(s, e)[i] = s[i]
      /\ Append(s, e)[n + 1] = e
  BY <1>1, <1>2, <1>3, AppendProperties
<1>5. Append(s, e) \in [1..(n + 1) -> S]
  BY <1>4, LenProperties
<1>6. \A i \in 1..(n + 1) : Append(s, e)[i] = IF i = n + 1 THEN e ELSE s[i]
  BY <1>4
<1> QED
  BY <1>5, <1>6

LEMMA EnqueueRefines ==
  ASSUME TypeOK, NEW s \in Slots, EnqueueTask(s)
  PROVE  TheLease!Submit
<1>1. tasks' = Append(tasks, NewRow(s)) /\ claim' = claim /\ tasks \in Seq(Row)
  BY DEF EnqueueTask, TypeOK
<1> DEFINE n == Len(tasks)
<1>2. n \in Nat /\ Ids = 1..n
  BY <1>1, LenProperties DEF Ids
<1>3. /\ Ids' = 1..(n + 1) /\ tasks'[n + 1] = NewRow(s)
      /\ \A i \in 1..n : tasks'[i] = tasks[i]
  BY <1>1, <1>2, NewRowType, AppendProperties, LenProperties DEF Ids
<1> HIDE DEF n
<1>4. /\ AbsPhase = [i \in 1..n |-> PhaseOf(tasks[i].status)]
      /\ AbsHolder = [i \in 1..n |-> HolderOf(tasks[i])]
      /\ AbsPhase' = [i \in 1..(n + 1) |-> PhaseOf(tasks'[i].status)]
      /\ AbsHolder' = [i \in 1..(n + 1) |-> HolderOf(tasks'[i])]
  BY <1>2, <1>3 DEF AbsPhase, AbsHolder
<1>5. PhaseOf(NewRow(s).status) = "open" /\ HolderOf(NewRow(s)) = None
  BY DEF NewRow, PhaseOf, HolderOf
<1>6. /\ AbsPhase' = [i \in 1..(n + 1) |-> IF i = n + 1 THEN "open" ELSE AbsPhase[i]]
      /\ AbsHolder' = [i \in 1..(n + 1) |-> IF i = n + 1 THEN None ELSE AbsHolder[i]]
  BY <1>2, <1>3, <1>4, <1>5
<1>7. AbsPhase = [i \in 1..n |-> AbsPhase[i]] /\ AbsHolder = [i \in 1..n |-> AbsHolder[i]]
  BY <1>4
<1>8. AbsPhase' = Append(AbsPhase, "open") /\ AbsHolder' = Append(AbsHolder, None)
  BY <1>2, <1>6, <1>7, AppendIsExtension
<1> QED
  BY <1>1, <1>8 DEF TheLease!Submit, AbsPhase, AbsHolder

LEMMA ReapRefines ==
  ASSUME TypeOK, RequeueStale
  PROVE  TheLease!Next
<1> DEFINE S == {i \in Ids : Stale(tasks[i])}
<1>1. /\ Ids' = Ids /\ claim' = claim
      /\ \A i \in Ids : tasks'[i] = IF Stale(tasks[i]) THEN ReapedRow(tasks[i], None)
                                                       ELSE tasks[i]
  BY ReapedRows DEF TypeOK, Ids, RequeueStale
<1>2. \A i \in Ids : tasks[i] \in Row
  BY RowsAndClaims
<1>3. \A i \in Ids : ReapedRow(tasks[i], None).status = "QUEUED"
  BY <1>2 DEF ReapedRow, Row
<1>4. \A i \in Ids : /\ PhaseOf(tasks'[i].status)
                          = IF i \in S THEN "open" ELSE PhaseOf(tasks[i].status)
                     /\ HolderOf(tasks'[i]) = IF i \in S THEN None ELSE HolderOf(tasks[i])
  BY <1>1, <1>3 DEF PhaseOf, HolderOf
<1>5. \A i \in S : AbsPhase[i] = "held"
  BY DEF AbsPhase, PhaseOf, Stale
<1>6. /\ AbsPhase' = [i \in Ids |-> IF i \in S THEN "open" ELSE AbsPhase[i]]
      /\ AbsHolder' = [i \in Ids |-> IF i \in S THEN None ELSE AbsHolder[i]]
  BY <1>1, <1>4 DEF AbsPhase, AbsHolder
<1>7. DOMAIN AbsPhase = Ids /\ S \subseteq Ids
  BY DEF AbsPhase
<1> HIDE DEF S
<1>8. TheLease!Expire(S)
  BY <1>1, <1>5, <1>6, <1>7 DEF TheLease!Expire, TheLease!Tasks, AbsPhase, AbsHolder
<1> QED
  BY <1>7, <1>8 DEF TheLease!Next, TheLease!Tasks, AbsPhase

LEMMA ClaimRefines ==
  ASSUME TypeOK, NEW w \in Workers, Claim(w)
  PROVE  TheLease!Next
<1>1. PICK i \in Ids :
        /\ tasks[i].status = "QUEUED"
        /\ tasks' = [tasks EXCEPT ![i] = ClaimedRow(tasks[i], w)]
        /\ claim' = [claim EXCEPT ![w] = [task |-> i, fence |-> tasks[i].fence + 1]]
  BY DEF Claim, Claimable
<1> DEFINE r == ClaimedRow(tasks[i], w)
<1>2. r.status = "RUNNING" /\ r.claimedBy = w
  BY RowsAndClaims DEF ClaimedRow, Row
<1>3. PhaseOf(r.status) = "held" /\ PhaseOf("QUEUED") = "open" /\ HolderOf(r) = w
  BY <1>2 DEF PhaseOf, HolderOf
<1> HIDE DEF r
<1>4. /\ AbsPhase' = [AbsPhase EXCEPT ![i] = "held"]
      /\ AbsHolder' = [AbsHolder EXCEPT ![i] = w]
  <2>1. tasks' = [tasks EXCEPT ![i] = r]
    BY <1>1 DEF r
  <2>2. /\ AbsPhase' = [AbsPhase EXCEPT ![i] = PhaseOf(r.status)]
        /\ AbsHolder' = [AbsHolder EXCEPT ![i] = HolderOf(r)]
    BY <2>1, AbsRow
  <2> QED
    BY <1>3, <2>2
<1>5. AbsJob' = [AbsJob EXCEPT ![w] = i]
  BY <1>1 DEF TypeOK, AbsJob
<1>6. AbsJob[w] = 0
  BY DEF Claim, Busy, AbsJob
<1> QED
  BY <1>1, <1>3, <1>4, <1>5, <1>6, AbsValues, MappedGrant

\* A worker's accepted write into its row while it is RUNNING is a Return.
LEMMA ReturnRefines ==
  ASSUME IInv, NEW w \in Workers, Current(w), NEW r,
         NEW p \in {"open", "parked", "closed"},
         tasks[claim[w].task].status = "RUNNING",
         tasks' = [tasks EXCEPT ![claim[w].task] = r],
         claim' = [claim EXCEPT ![w] = Idle],
         PhaseOf(r.status) = p, HolderOf(r) = None
  PROVE  TheLease!Next
<1> DEFINE i == claim[w].task
<1>1. i \in Ids /\ TypeOK /\ tasks[i].claimedBy = w
  BY DEF IInv, TypeOK, Current, CurrentClaimsHold
<1>2. AbsJob[w] = i /\ AbsPhase[i] = "held" /\ AbsHolder[i] = w
  BY <1>1 DEF AbsJob, AbsPhase, AbsHolder, PhaseOf, HolderOf
<1>3. /\ AbsPhase' = [AbsPhase EXCEPT ![i] = p]
      /\ AbsHolder' = [AbsHolder EXCEPT ![i] = None]
  BY <1>1, AbsRow
<1>4. AbsJob' = [AbsJob EXCEPT ![w] = 0]
  BY <1>1, AbsDrop
<1> QED
  BY <1>1, <1>2, <1>3, <1>4, MappedReturn

LEMMA DropRefines ==
  ASSUME TypeOK, NEW w \in Workers, Busy(w), tasks' = tasks,
         claim' = [claim EXCEPT ![w] = Idle]
  PROVE  TheLease!Next
<1>1. AbsPhase' = AbsPhase /\ AbsHolder' = AbsHolder
  BY DEF AbsPhase, AbsHolder, Ids
<1>2. AbsJob[w] # 0 /\ AbsJob' = [AbsJob EXCEPT ![w] = 0]
  BY AbsDrop, AbsValues DEF Busy
<1> QED
  BY <1>1, <1>2, MappedGiveUp

LEMMA ReportRefines ==
  ASSUME IInv, NEW w \in Workers, NEW to \in {"DONE", "FAILED", "AWAITING"}, Report(w, to)
  PROVE  TheLease!Next
<1> DEFINE i == claim[w].task
           r == MovedRow(tasks[i], to)
<1>1. Busy(w) /\ i \in Ids /\ claim' = [claim EXCEPT ![w] = Idle]
  BY DEF Report, IInv, TypeOK
<1>2. CASE MayReport(tasks[i], claim[w].fence, to)
  <2>1. Current(w) /\ tasks[i].status \in {"RUNNING", "CANCELLED"}
    BY <1>1, <1>2 DEF MayReport, Current, IInv, CurrentClaimsHold
  <2>2. tasks[i].status = "RUNNING"
    BY <1>2, <2>1 DEF MayReport, transitionAllowed, legalTransitions
  <2>3. r.status = to
    BY <1>1, RowsAndClaims DEF MovedRow, Row, IInv
  <2>4. PhaseOf(r.status) \in {"open", "parked", "closed"} /\ HolderOf(r) = None
    BY <2>3 DEF PhaseOf, HolderOf
  <2>5. tasks' = [tasks EXCEPT ![i] = r]
    BY <1>2 DEF Report
  <2> HIDE DEF r
  <2> QED
    BY <1>1, <2>1, <2>2, <2>4, <2>5, ReturnRefines
<1>3. CASE ~MayReport(tasks[i], claim[w].fence, to)
  BY <1>1, <1>3, DropRefines DEF Report, IInv
<1> QED
  BY <1>2, <1>3

LEMMA RequeueRefines ==
  ASSUME IInv, NEW w \in Workers, RequeueTransient(w)
  PROVE  TheLease!Next
<1> DEFINE i == claim[w].task
           r == BackedOffRow(tasks[i], None)
<1>1. Busy(w) /\ i \in Ids /\ claim' = [claim EXCEPT ![w] = Idle] /\ TypeOK
  BY DEF RequeueTransient, IInv, TypeOK
<1>2. CASE MayRequeue(tasks[i], claim[w].fence)
  <2>1. Current(w) /\ tasks[i].status \in {"RUNNING", "CANCELLED"}
    BY <1>1, <1>2 DEF MayRequeue, Current, IInv, CurrentClaimsHold
  <2>2. tasks' = [tasks EXCEPT ![i] = r]
    BY <1>2 DEF RequeueTransient
  <2>3. r.status = "QUEUED"
    BY <1>1, RowsAndClaims DEF BackedOffRow, Row
  <2>4. PhaseOf(r.status) = "open" /\ HolderOf(r) = None
    BY <2>3 DEF PhaseOf, HolderOf
  <2> HIDE DEF r
  <2>5. CASE tasks[i].status = "RUNNING"
    BY <1>1, <2>1, <2>2, <2>4, <2>5, ReturnRefines
  <2>6. CASE tasks[i].status = "CANCELLED"
    <3>1. PhaseOf(tasks[i].status) = "withdrawn" /\ HolderOf(tasks[i]) = None
      BY <2>6 DEF PhaseOf, HolderOf
    <3>2. AbsJob[w] = i /\ AbsPhase[i] = "withdrawn" /\ AbsHolder[i] = None
      BY <1>1, <3>1, AbsValues
    <3>3. AbsPhase' = [AbsPhase EXCEPT ![i] = "open"] /\ AbsHolder' = [AbsHolder EXCEPT ![i] = None]
      BY <1>1, <2>2, <2>4, AbsRow
    <3>4. AbsHolder' = AbsHolder
      BY <3>2, <3>3 DEF AbsHolder
    <3>5. AbsJob' = [AbsJob EXCEPT ![w] = 0]
      BY <1>1, AbsDrop
    <3> QED
      BY <1>1, <3>2, <3>3, <3>4, <3>5, MappedReinstate
  <2> QED
    BY <2>1, <2>5, <2>6
<1>3. CASE ~MayRequeue(tasks[i], claim[w].fence)
  <2>1. tasks' = tasks
    BY <1>3 DEF RequeueTransient, MayRequeue, MayReport
  <2> QED
    BY <1>1, <2>1, DropRefines
<1> QED
  BY <1>2, <1>3

LEMMA DecideRefines ==
  ASSUME TypeOK, NEW s \in Slots, NEW to \in {"DONE", "FAILED"}, ResolveAwaiting(s, to)
  PROVE  TheLease!Next
<1>1. PICK i \in Ids : /\ tasks[i].status = "AWAITING"
                       /\ tasks' = [tasks EXCEPT ![i] = MovedRow(tasks[i], to)]
  BY DEF ResolveAwaiting
<1> DEFINE r == MovedRow(tasks[i], to)
<1>2. r.status = to
  BY RowsAndClaims DEF MovedRow, Row
<1>3. /\ PhaseOf(r.status) = "closed" /\ HolderOf(r) = None
      /\ PhaseOf(tasks[i].status) = "parked" /\ HolderOf(tasks[i]) = None
  BY <1>1, <1>2 DEF PhaseOf, HolderOf
<1> HIDE DEF r
<1>4. /\ AbsPhase[i] = "parked" /\ AbsHolder[i] = None
      /\ AbsPhase' = [AbsPhase EXCEPT ![i] = "closed"]
      /\ AbsHolder' = [AbsHolder EXCEPT ![i] = None]
  <2>1. tasks' = [tasks EXCEPT ![i] = r]
    BY <1>1 DEF r
  <2>2. /\ AbsPhase' = [AbsPhase EXCEPT ![i] = PhaseOf(r.status)]
        /\ AbsHolder' = [AbsHolder EXCEPT ![i] = HolderOf(r)]
    BY <2>1, AbsRow
  <2> QED
    BY <1>3, <2>2, AbsValues
<1>5. AbsHolder' = AbsHolder
  BY <1>4 DEF AbsHolder
<1>6. AbsJob' = AbsJob
  BY DEF ResolveAwaiting, AbsJob
<1> QED
  BY <1>4, <1>5, <1>6, MappedDecide

LEMMA CancelRefines ==
  ASSUME TypeOK, NEW i \in Ids, Cancel(i)
  PROVE  TheLease!Next
<1> DEFINE r == MovedRow(tasks[i], "CANCELLED")
<1>1. tasks[i].status \in {"QUEUED", "RUNNING", "AWAITING"}
  <2>1. tasks[i].status \in Status
    BY RowsAndClaims DEF Row
  <2> QED
    BY <2>1 DEF Status, Cancel, MayCancel, transitionAllowed, legalTransitions
<1>2. r.status = "CANCELLED"
  BY RowsAndClaims DEF MovedRow, Row
<1>3. /\ PhaseOf(r.status) = "withdrawn" /\ HolderOf(r) = None
      /\ PhaseOf(tasks[i].status) \in {"open", "held", "parked"}
  BY <1>1, <1>2 DEF PhaseOf, HolderOf
<1>4. tasks' = [tasks EXCEPT ![i] = r]
  BY DEF Cancel
<1> HIDE DEF r
<1>5. /\ AbsPhase[i] \in {"open", "held", "parked"}
      /\ AbsPhase' = [AbsPhase EXCEPT ![i] = "withdrawn"]
      /\ AbsHolder' = [AbsHolder EXCEPT ![i] = None]
  <2>1. /\ AbsPhase' = [AbsPhase EXCEPT ![i] = PhaseOf(r.status)]
        /\ AbsHolder' = [AbsHolder EXCEPT ![i] = HolderOf(r)]
    BY <1>4, AbsRow
  <2> QED
    BY <1>3, <2>1, AbsValues
<1>6. AbsJob' = AbsJob
  BY DEF Cancel, AbsJob
<1> QED
  BY <1>5, <1>6, MappedWithdraw

\* Heartbeats and the clock are invisible to the lease.
LEMMA QuietRefines ==
  ASSUME TypeOK, NEW i \in Ids, UNCHANGED claim,
         NEW r \in {[tasks[i] EXCEPT !.fresh = TRUE], [tasks[i] EXCEPT !.fresh = FALSE],
                    [tasks[i] EXCEPT !.due = TRUE]},
         tasks' = [tasks EXCEPT ![i] = r]
  PROVE  UNCHANGED TheLease!lvars
<1>1. r.status = tasks[i].status /\ r.claimedBy = tasks[i].claimedBy
  BY RowsAndClaims DEF Row
<1>2. AbsPhase' = AbsPhase /\ AbsHolder' = AbsHolder
  BY <1>1, AbsQuietRow
<1>3. AbsJob' = AbsJob
  BY DEF AbsJob
<1> QED
  BY <1>2, <1>3, MappedStutter

LEMMA NextRefines == IInv /\ [Next]_vars => [TheLease!Next]_(TheLease!lvars)
<1> SUFFICES ASSUME IInv, [Next]_vars
             PROVE  TheLease!Next \/ UNCHANGED TheLease!lvars
  OBVIOUS
<1>0. TypeOK
  BY DEF IInv
<1>1. CASE UNCHANGED vars
  <2>1. AbsPhase' = AbsPhase /\ AbsHolder' = AbsHolder /\ AbsJob' = AbsJob
    BY <1>1 DEF vars, AbsPhase, AbsHolder, AbsJob, Ids
  <2> QED
    BY <2>1, MappedStutter
<1>2. ASSUME NEW s \in Slots, EnqueueTask(s)
      PROVE  TheLease!Next
  BY <1>0, <1>2, EnqueueRefines DEF TheLease!Next
<1>3. ASSUME NEW w \in Workers, Claim(w)
      PROVE  TheLease!Next
  BY <1>0, <1>3, ClaimRefines
<1>4. ASSUME NEW w \in Workers, Heartbeat(w)
      PROVE  UNCHANGED TheLease!lvars
  <2> DEFINE i == claim[w].task
             r == [tasks[i] EXCEPT !.fresh = TRUE]
  <2>1. i \in Ids /\ claim' = claim /\ tasks' = [tasks EXCEPT ![i] = r]
    BY <1>0, <1>4 DEF Heartbeat, TypeOK
  <2> QED
    BY <1>0, <2>1, QuietRefines
<1>5. ASSUME NEW w \in Workers, NEW to \in {"DONE", "FAILED", "AWAITING"}, Report(w, to)
      PROVE  TheLease!Next
  BY <1>5, ReportRefines
<1>6. ASSUME NEW w \in Workers, RequeueTransient(w)
      PROVE  TheLease!Next
  BY <1>6, RequeueRefines
<1>7. ASSUME NEW w \in Workers, Crash(w)
      PROVE  TheLease!Next
  BY <1>0, <1>7, DropRefines DEF Crash
<1>8. CASE RequeueStale
  BY <1>0, <1>8, ReapRefines
<1>9. ASSUME NEW s \in Slots, NEW to \in {"DONE", "FAILED"}, ResolveAwaiting(s, to)
      PROVE  TheLease!Next
  BY <1>0, <1>9, DecideRefines
<1>10. ASSUME NEW i \in Ids, Cancel(i)
       PROVE  TheLease!Next
  BY <1>0, <1>10, CancelRefines
<1>11. ASSUME NEW i \in Ids, HeartbeatExpires(i) \/ BackoffElapses(i)
       PROVE  UNCHANGED TheLease!lvars
  BY <1>0, <1>11, QuietRefines DEF HeartbeatExpires, BackoffElapses
<1> QED
  BY <1>1, <1>2, <1>3, <1>4, <1>5, <1>6, <1>7, <1>8, <1>9, <1>10, <1>11
     DEF Next, WorkerStep

\* Every behaviour of the store operations is a behaviour of the lease: the
\* fenced claim is a lock that only expiry or cancellation takes away.
THEOREM QueueImplementsLease == Spec => ImplementsLease
BY InitRefines, NextRefines, Invariant, PTL DEF Spec, ImplementsLease, TheLease!Spec

-----------------------------------------------------------------------------
(***************************************************************************)
(* The agent step.  Two workers of one run meet in its directories only if *)
(* the run has two rows, or one row two workers.  A run has one row as long*)
(* as nobody relaunches it (OneRowPerRun), and a worker whose heartbeats   *)
(* arrive keeps its claim until it returns (KeptClaims), so it is alone    *)
(* with what it staged and what it synced (TreesFollow).                   *)
(***************************************************************************)
AgentTypes ==
  /\ DOMAIN stage = Slots /\ DOMAIN worktree = Slots
  /\ phase \in [Workers -> Phases]
  /\ \A w \in Workers : phase[w] = "idle" <=> ~Busy(w)

OneRowPerRun == \A i, j \in Ids : tasks[i].slot = tasks[j].slot => i = j

Undisturbed(w) ==
  \/ LoseAt[Dir(w)] = {}
  \/ phase[w] = "owner" /\ "owner" \notin LoseAt[Dir(w)]

KeptClaims == \A w \in Workers : Busy(w) /\ Undisturbed(w) => Current(w)

TreesFollow ==
  \A w \in Workers : Busy(w) /\ LoseAt[Dir(w)] = {} =>
    /\ phase[w] \in {"working", "owner"} => stage[Dir(w)] = claim[w]
    /\ phase[w] \in {"leaving", "returned"} /\ Holds(w) => worktree[Dir(w)] = claim[w]

AInv == AgentTypes /\ OneRowPerRun /\ KeptClaims /\ TreesFollow

\* What a busy worker's claim points to.
LEMMA BusyRows ==
  ASSUME IInv, NEW w \in Workers, Busy(w)
  PROVE  /\ claim[w].task \in Ids /\ tasks[claim[w].task] \in Row
         /\ Dir(w) = tasks[claim[w].task].slot /\ Dir(w) \in Slots
         /\ Holds(w) => Current(w)
<1>1. claim[w].task \in Ids
  BY DEF IInv, TypeOK
<1>2. tasks[claim[w].task] \in Row
  BY <1>1, RowsAndClaims DEF IInv
<1> QED
  BY <1>1, <1>2 DEF Dir, Row, Holds, Owns, Current

\* Two workers that may not be disturbed are never in one directory.
LEMMA Alone ==
  ASSUME IInv, AInv, NEW v \in Workers, NEW w \in Workers, v # w,
         Busy(v), Busy(w), Current(v), Current(w)
  PROVE  Dir(v) # Dir(w)
<1> SUFFICES ASSUME Dir(v) = Dir(w) PROVE FALSE
  OBVIOUS
<1>1. claim[v].task = claim[w].task
  BY BusyRows DEF AInv, OneRowPerRun
<1> QED
  BY <1>1, CurrentIsUnique

\* A row is rewritten: the run keeps its one row.
LEMMA RowMoves ==
  ASSUME IInv, AInv, NEW i \in Ids, NEW r, r.slot = tasks[i].slot,
         tasks' = [tasks EXCEPT ![i] = r]
  PROVE  /\ Ids' = Ids /\ tasks'[i] = r /\ \A j \in Ids \ {i} : tasks'[j] = tasks[j]
         /\ \A j \in Ids : tasks'[j].slot = tasks[j].slot
         /\ OneRowPerRun'
<1>1. /\ Ids' = Ids /\ tasks'[i] = r
      /\ \A j \in Ids \ {i} : tasks'[j] = tasks[j]
  BY DEF Ids
<1>2. \A j \in Ids : tasks'[j].slot = tasks[j].slot
  BY <1>1
<1> QED
  BY <1>1, <1>2 DEF AInv, OneRowPerRun

\* A step of somebody else: who stays busy stays where it is, and loses its
\* claim only in a phase in which it may.
LEMMA OthersMove ==
  ASSUME IInv, AInv, AgentTypes', OneRowPerRun',
         Ids \subseteq Ids', \A i \in Ids : tasks'[i].slot = tasks[i].slot,
         UNCHANGED dirVars,
         \A w \in Workers : Busy(w)' => claim'[w] = claim[w] /\ phase'[w] = phase[w],
         \A w \in Workers :
           Busy(w)' /\ Current(w) /\ phase[w] \notin LoseAt[Dir(w)] =>
             /\ tasks'[claim[w].task].fence = tasks[claim[w].task].fence
             /\ tasks'[claim[w].task].status = "RUNNING" => tasks[claim[w].task].status = "RUNNING"
  PROVE  AInv'
<1>1. ASSUME NEW w \in Workers, Busy(w)'
      PROVE  /\ Busy(w) /\ claim'[w] = claim[w] /\ phase'[w] = phase[w]
             /\ Dir(w)' = Dir(w) /\ Undisturbed(w)' = Undisturbed(w)
  <2>1. Busy(w) /\ claim'[w] = claim[w] /\ phase'[w] = phase[w]
    BY <1>1 DEF Busy
  <2>2. Dir(w)' = Dir(w)
    BY <2>1, BusyRows DEF Dir
  <2> QED
    BY <2>1, <2>2 DEF Undisturbed
<1>2. ASSUME NEW w \in Workers, Busy(w)', Undisturbed(w)
      PROVE  Current(w) /\ Current(w)' /\ (Holds(w)' => Holds(w))
  <2>1. Current(w)
    BY <1>1, <1>2 DEF AInv, KeptClaims
  <2>2. phase[w] \notin LoseAt[Dir(w)]
    BY <1>2 DEF Undisturbed
  <2> QED
    BY <1>1, <1>2, <2>1, <2>2 DEF Current, Holds, Owns, Busy
<1>3. KeptClaims'
  <2> SUFFICES ASSUME NEW w \in Workers, Busy(w)', Undisturbed(w)' PROVE Current(w)'
    BY DEF KeptClaims
  <2>1. Undisturbed(w)
    BY <1>1
  <2> QED
    BY <1>2, <2>1
<1>4. TreesFollow'
  <2> SUFFICES ASSUME NEW w \in Workers, Busy(w)', LoseAt[Dir(w)'] = {}
               PROVE  /\ phase'[w] \in {"working", "owner"} => stage'[Dir(w)'] = claim'[w]
                      /\ phase'[w] \in {"leaving", "returned"} /\ Holds(w)'
                           => worktree'[Dir(w)'] = claim'[w]
    BY DEF TreesFollow
  <2>1. /\ Busy(w) /\ claim'[w] = claim[w] /\ phase'[w] = phase[w]
        /\ Dir(w)' = Dir(w) /\ LoseAt[Dir(w)] = {} /\ Undisturbed(w)
    BY <1>1 DEF Undisturbed
  <2>2. stage' = stage /\ worktree' = worktree
    BY DEF dirVars
  <2>3. Holds(w)' => Holds(w)
    BY <1>2, <2>1
  <2>4. /\ phase[w] \in {"working", "owner"} => stage[Dir(w)] = claim[w]
        /\ phase[w] \in {"leaving", "returned"} /\ Holds(w) => worktree[Dir(w)] = claim[w]
    BY <2>1 DEF AInv, TreesFollow
  <2> QED
    BY <2>1, <2>2, <2>3, <2>4
<1> QED
  BY <1>3, <1>4 DEF AInv

\* A step of the runner of w, between its claim and its report.
LEMMA RunnerMoves ==
  ASSUME IInv, AInv, NEW w \in Workers, Busy(w), UNCHANGED vars,
         NEW p \in Phases \ {"idle"}, phase' = [phase EXCEPT ![w] = p],
         DOMAIN stage' = Slots, DOMAIN worktree' = Slots,
         \A s \in Slots \ {Dir(w)} : stage'[s] = stage[s] /\ worktree'[s] = worktree[s],
         p = "owner" => Current(w),
         LoseAt[Dir(w)] = {} =>
           /\ p \in {"working", "owner"} => stage'[Dir(w)] = claim[w]
           /\ p \in {"leaving", "returned"} /\ Holds(w) => worktree'[Dir(w)] = claim[w]
  PROVE  AInv'
<1>1. /\ tasks' = tasks /\ claim' = claim /\ Ids' = Ids
      /\ phase'[w] = p /\ \A v \in Workers \ {w} : phase'[v] = phase[v]
      /\ phase' \in [Workers -> Phases]
  BY DEF vars, Ids, AInv, AgentTypes
<1>2. \A v \in Workers :
        /\ Busy(v)' = Busy(v) /\ Dir(v)' = Dir(v)
        /\ Holds(v)' = Holds(v) /\ Current(v)' = Current(v)
  BY <1>1 DEF Busy, Dir, Holds, Current
<1>3. AgentTypes'
  <2>1. \A v \in Workers : phase'[v] = "idle" <=> ~Busy(v)
    BY <1>1 DEF AInv, AgentTypes
  <2> QED
    BY <1>1, <1>2, <2>1 DEF AgentTypes
<1>4. OneRowPerRun'
  BY <1>1 DEF AInv, OneRowPerRun
<1>5. KeptClaims'
  <2> SUFFICES ASSUME NEW v \in Workers, Busy(v), Undisturbed(v)' PROVE Current(v)
    BY <1>2 DEF KeptClaims
  <2>1. CASE v # w
    <3>1. Undisturbed(v)
      BY <1>1, <1>2, <2>1 DEF Undisturbed
    <3> QED
      BY <3>1 DEF AInv, KeptClaims
  <2>2. CASE v = w /\ LoseAt[Dir(w)] = {}
    BY <2>2 DEF AInv, KeptClaims, Undisturbed
  <2>3. CASE v = w /\ LoseAt[Dir(w)] # {}
    <3>1. p = "owner"
      BY <1>1, <1>2, <2>3 DEF Undisturbed
    <3> QED
      BY <2>3, <3>1
  <2> QED
    BY <2>1, <2>2, <2>3
<1>6. TreesFollow'
  <2> SUFFICES ASSUME NEW v \in Workers, Busy(v), LoseAt[Dir(v)] = {}
               PROVE  /\ phase'[v] \in {"working", "owner"} => stage'[Dir(v)] = claim[v]
                      /\ phase'[v] \in {"leaving", "returned"} /\ Holds(v)
                           => worktree'[Dir(v)] = claim[v]
    BY <1>1, <1>2 DEF TreesFollow
  <2>1. CASE v = w
    BY <1>1, <2>1
  <2>2. CASE v # w
    <3>1. Current(v) /\ (Dir(v) = Dir(w) => Current(w))
      BY DEF AInv, KeptClaims, Undisturbed
    <3>2. Dir(v) # Dir(w) /\ Dir(v) \in Slots
      BY <2>2, <3>1, Alone, BusyRows
    <3>3. stage'[Dir(v)] = stage[Dir(v)] /\ worktree'[Dir(v)] = worktree[Dir(v)]
      BY <3>2
    <3> QED
      BY <1>1, <2>2, <3>3 DEF AInv, TreesFollow
  <2> QED
    BY <2>1, <2>2
<1> QED
  BY <1>3, <1>4, <1>5, <1>6 DEF AInv

LEMMA BusyPhase ==
  ASSUME AInv, NEW w \in Workers, phase[w] # "idle"
  PROVE  Busy(w)
BY DEF AInv, AgentTypes

LEMMA RunnerKeeps ==
  ASSUME IInv, AInv, NEW w \in Workers,
         Stage(w) \/ CheckOwner(w) \/ SyncBack(w) \/ RemoveStage(w)
  PROVE  AInv'
<1> DEFINE s == Dir(w)
<1>1. phase[w] # "idle" /\ UNCHANGED vars
  BY DEF Stage, CheckOwner, SyncBack, RemoveStage, Goes, vars, dirVars
<1>2. Busy(w) /\ Dir(w) \in Slots /\ DOMAIN stage = Slots /\ DOMAIN worktree = Slots
  BY <1>1, BusyPhase, BusyRows DEF AInv, AgentTypes
<1>3. LoseAt[Dir(w)] = {} =>
        /\ phase[w] \in {"working", "owner"} => stage[Dir(w)] = claim[w]
        /\ phase[w] \in {"leaving", "returned"} /\ Holds(w) => worktree[Dir(w)] = claim[w]
  BY <1>2 DEF AInv, TreesFollow
<1>4. CASE Stage(w)
  <2>1. /\ phase' = [phase EXCEPT ![w] = "working"] /\ worktree' = worktree
        /\ stage' = [stage EXCEPT ![Dir(w)] = claim[w]]
    BY <1>4 DEF Stage, Goes
  <2> QED
    BY <1>1, <1>2, <2>1, RunnerMoves DEF Phases
<1>5. CASE CheckOwner(w)
  <2> DEFINE p == IF Holds(w) THEN "owner" ELSE "leaving"
  <2>1. /\ phase' = [phase EXCEPT ![w] = p] /\ worktree' = worktree /\ stage' = stage
        /\ phase[w] = "working"
    BY <1>5 DEF CheckOwner, dirVars
  <2>2. p \in Phases \ {"idle"} /\ (p = "owner" => Current(w))
        /\ (p = "leaving" => ~Holds(w)) /\ p \in {"owner", "leaving"}
    BY <1>2, BusyRows DEF Phases
  <2> HIDE DEF p
  <2> QED
    BY <1>1, <1>2, <1>3, <2>1, <2>2, RunnerMoves
<1>6. CASE SyncBack(w)
  <2> DEFINE x == IF stage[Dir(w)] = NoTree THEN Wiped ELSE stage[Dir(w)]
  <2>1. /\ phase' = [phase EXCEPT ![w] = "leaving"] /\ phase[w] = "owner" /\ stage' = stage
        /\ worktree' = [worktree EXCEPT ![Dir(w)] = x]
    BY <1>6 DEF SyncBack, Goes
  <2>2. claim[w] \in [task: Nat, fence: Nat]
    BY DEF IInv, TypeOK
  <2>4. LoseAt[Dir(w)] = {} => x = claim[w]
    BY <1>3, <2>1, <2>2, TreeAssumption
  <2> HIDE DEF x
  <2> QED
    BY <1>1, <1>2, <2>1, <2>4, RunnerMoves DEF Phases
<1>7. CASE RemoveStage(w)
  <2>1. /\ phase' = [phase EXCEPT ![w] = "returned"] /\ phase[w] = "leaving"
        /\ worktree' = worktree /\ stage' = [stage EXCEPT ![Dir(w)] = NoTree]
    BY <1>7 DEF RemoveStage, Goes
  <2> QED
    BY <1>1, <1>2, <1>3, <2>1, RunnerMoves DEF Phases
<1> QED
  BY <1>4, <1>5, <1>6, <1>7

-----------------------------------------------------------------------------
\* What the reaper, the clock and the control plane do to a row that is there.
LEMMA QuietRow ==
  ASSUME IInv, AInv, NEW i \in Ids, NEW r, claim' = claim,
         tasks' = [tasks EXCEPT ![i] = r],
         r.slot = tasks[i].slot, r.fence = tasks[i].fence,
         r.status \in {tasks[i].status, "CANCELLED"}
  PROVE  /\ Ids \subseteq Ids' /\ OneRowPerRun'
         /\ \A j \in Ids : /\ tasks'[j].slot = tasks[j].slot
                           /\ tasks'[j].fence = tasks[j].fence
                           /\ tasks'[j].status \in {tasks[j].status, "CANCELLED", "QUEUED"}
<1>1. /\ Ids' = Ids /\ tasks'[i] = r /\ \A j \in Ids \ {i} : tasks'[j] = tasks[j]
      /\ \A j \in Ids : tasks'[j].slot = tasks[j].slot
      /\ OneRowPerRun'
  BY RowMoves
<1>2. \A j \in Ids : /\ tasks'[j].fence = tasks[j].fence
                     /\ tasks'[j].status \in {tasks[j].status, "CANCELLED", "QUEUED"}
  BY <1>1
<1> QED
  BY <1>1, <1>2

\* The queue's own steps move no claim; a row gives up its fence to the reaper
\* only, which spares the workers whose heartbeats arrive.
LEMMA QueueEffect ==
  ASSUME IInv, AInv, ~Relaunch, QueueStep
  PROVE  /\ claim' = claim /\ phase' = phase /\ UNCHANGED dirVars
         /\ Ids \subseteq Ids' /\ OneRowPerRun'
         /\ \A i \in Ids : /\ tasks'[i].slot = tasks[i].slot
                           /\ tasks'[i].status \in {tasks[i].status, "CANCELLED", "QUEUED"}
         /\ \A w \in Workers :
              Busy(w) /\ Current(w) /\ phase[w] \notin LoseAt[Dir(w)]
                => tasks'[claim[w].task].fence = tasks[claim[w].task].fence
<1> DEFINE Rows == /\ Ids \subseteq Ids' /\ OneRowPerRun'
                   /\ \A i \in Ids : /\ tasks'[i].slot = tasks[i].slot
                                     /\ tasks'[i].status \in {tasks[i].status, "CANCELLED", "QUEUED"}
           Spared == \A w \in Workers :
                       Busy(w) /\ Current(w) /\ phase[w] \notin LoseAt[Dir(w)]
                         => tasks'[claim[w].task].fence = tasks[claim[w].task].fence
<1>1. claim' = claim /\ phase' = phase /\ UNCHANGED dirVars
  BY DEF QueueStep, EnqueueStep, EnqueueTask, ReapStep, RequeueStale, Heartbeat, Cancel,
         BackoffElapses, HeartbeatExpires
<1>2. ASSUME NEW i \in Ids, NEW r, tasks' = [tasks EXCEPT ![i] = r],
             r.slot = tasks[i].slot, r.fence = tasks[i].fence,
             r.status \in {tasks[i].status, "CANCELLED"}
      PROVE  Rows /\ Spared
  <2>1. Rows /\ \A j \in Ids : tasks'[j].fence = tasks[j].fence
    BY <1>1, <1>2, QuietRow
  <2> QED
    BY <2>1, BusyRows
<1>3. \A i \in Ids : tasks[i] \in Row
  BY RowsAndClaims DEF IInv
<1>4. CASE \E s \in Slots : EnqueueStep(s)
  <2>1. PICK s \in Slots : EnqueueStep(s)
    BY <1>4
  <2>2. /\ tasks' = Append(tasks, NewRow(s)) /\ tasks \in Seq(Row) /\ NewRow(s) \in Row
        /\ \A i \in Ids : tasks[i].slot # s
    BY <2>1, NewRowType DEF EnqueueStep, EnqueueTask, IInv, TypeOK
  <2>3. /\ Ids \subseteq Ids' /\ \A i \in Ids : tasks'[i] = tasks[i]
        /\ Ids' = Ids \cup {Len(tasks) + 1} /\ tasks'[Len(tasks) + 1] = NewRow(s)
    BY <2>2, AppendProperties, LenProperties DEF Ids
  <2>4. NewRow(s).slot = s
    BY DEF NewRow
  <2>5. OneRowPerRun'
    <3> DEFINE n == Len(tasks) + 1
    <3>1. Ids' = Ids \cup {n} /\ tasks'[n].slot = s
      BY <2>3, <2>4
    <3> HIDE DEF n
    <3>2. \A i \in Ids : tasks'[i].slot = tasks[i].slot /\ tasks'[i].slot # s
      BY <2>2, <2>3
    <3> SUFFICES ASSUME NEW i \in Ids', NEW j \in Ids', tasks'[i].slot = tasks'[j].slot
                 PROVE  i = j
      BY DEF OneRowPerRun
    <3>3. CASE i \in Ids /\ j \in Ids
      BY <3>2, <3>3 DEF AInv, OneRowPerRun
    <3>4. CASE i = n \/ j = n
      BY <3>1, <3>2, <3>4
    <3> QED
      BY <3>1, <3>3, <3>4
  <2>6. Rows
    BY <2>3, <2>5
  <2>7. Spared
    BY <2>3, BusyRows
  <2> QED
    BY <1>1, <2>6, <2>7
<1>5. CASE ReapStep
  <2>1. /\ Ids' = Ids
        /\ \A i \in Ids : tasks'[i] = IF Stale(tasks[i]) THEN ReapedRow(tasks[i], None)
                                                         ELSE tasks[i]
    BY <1>5, ReapedRows DEF ReapStep, RequeueStale, IInv, TypeOK, Ids
  <2>2. \A i \in Ids : /\ ReapedRow(tasks[i], None).slot = tasks[i].slot
                       /\ ReapedRow(tasks[i], None).status = "QUEUED"
    BY <1>3 DEF ReapedRow, Row
  <2>3. \A i \in Ids : /\ tasks'[i].slot = tasks[i].slot
                       /\ tasks'[i].status \in {tasks[i].status, "CANCELLED", "QUEUED"}
    BY <2>1, <2>2
  <2>4. OneRowPerRun'
    BY <2>1, <2>3 DEF AInv, OneRowPerRun
  <2>5. ASSUME NEW w \in Workers, Busy(w), Current(w), phase[w] \notin LoseAt[Dir(w)]
        PROVE  tasks'[claim[w].task] = tasks[claim[w].task]
    <3>1. ~(Holds(w) /\ Stale(tasks[claim[w].task]))
      BY <1>5, <2>5 DEF ReapStep
    <3>2. ~Stale(tasks[claim[w].task])
      BY <2>5, <3>1 DEF Holds, Owns, Current, Stale
    <3> QED
      BY <2>1, <2>5, <3>2, BusyRows
  <2> QED
    BY <1>1, <2>1, <2>3, <2>4, <2>5
<1>6. CASE \E w \in Workers : Heartbeat(w)
  <2>1. PICK w \in Workers : Heartbeat(w)
    BY <1>6
  <2> DEFINE i == claim[w].task
             r == [tasks[i] EXCEPT !.fresh = TRUE]
  <2>2. i \in Ids /\ tasks' = [tasks EXCEPT ![i] = r]
    BY <2>1 DEF Heartbeat, IInv, TypeOK
  <2>3. r.slot = tasks[i].slot /\ r.fence = tasks[i].fence /\ r.status = tasks[i].status
    BY <1>3, <2>2 DEF Row
  <2> HIDE DEF i, r
  <2> QED
    BY <1>1, <1>2, <2>2, <2>3
<1>7. CASE \E i \in Ids : Cancel(i) \/ BackoffElapses(i) \/ HeartbeatExpires(i)
  <2>1. PICK i \in Ids : Cancel(i) \/ BackoffElapses(i) \/ HeartbeatExpires(i)
    BY <1>7
  <2>2. \E r \in {MovedRow(tasks[i], "CANCELLED"), [tasks[i] EXCEPT !.due = TRUE],
                  [tasks[i] EXCEPT !.fresh = FALSE]} : tasks' = [tasks EXCEPT ![i] = r]
    BY <2>1 DEF Cancel, BackoffElapses, HeartbeatExpires
  <2>3. PICK r \in {MovedRow(tasks[i], "CANCELLED"), [tasks[i] EXCEPT !.due = TRUE],
                    [tasks[i] EXCEPT !.fresh = FALSE]} : tasks' = [tasks EXCEPT ![i] = r]
    BY <2>2
  <2>4. /\ r.slot = tasks[i].slot /\ r.fence = tasks[i].fence
        /\ r.status \in {tasks[i].status, "CANCELLED"}
    BY <1>3, <2>3 DEF Row, MovedRow
  <2> QED
    BY <1>1, <1>2, <2>3, <2>4
<1> QED
  BY <1>4, <1>5, <1>6, <1>7 DEF QueueStep

\* A worker leaves: it writes, if at all, into the row it still holds.
Leaves(w) ==
  /\ claim' = [claim EXCEPT ![w] = Idle]
  /\ phase' = [phase EXCEPT ![w] = "idle"]
  /\ UNCHANGED dirVars
  /\ \/ tasks' = tasks
     \/ /\ Current(w) /\ phase[w] = "returned"
        /\ \E r \in Row : /\ r.slot = Dir(w)
                          /\ tasks' = [tasks EXCEPT ![claim[w].task] = r]

LEMMA WorkersLeave ==
  ASSUME IInv, AInv, NEW w \in Workers, ReturnStep(w) \/ CrashStep(w)
  PROVE  Leaves(w) /\ Busy(w)
<1>1. Busy(w) /\ claim' = [claim EXCEPT ![w] = Idle]
  BY DEF ReturnStep, CrashStep, Crash, Report, RequeueTransient
<1>2. phase' = [phase EXCEPT ![w] = "idle"] /\ UNCHANGED dirVars
  BY DEF ReturnStep, CrashStep, Goes
<1> DEFINE i == claim[w].task
<1>3. i \in Ids /\ tasks[i] \in Row /\ Dir(w) = tasks[i].slot
  BY <1>1, BusyRows
<1>4. \A to \in Status : /\ MovedRow(tasks[i], to) \in Row
                         /\ MovedRow(tasks[i], to).slot = tasks[i].slot
  BY <1>3, RowTypes DEF MovedRow, Row
<1>5. /\ BackedOffRow(tasks[i], None) \in Row
      /\ BackedOffRow(tasks[i], None).slot = tasks[i].slot
  BY <1>3, RowTypes DEF BackedOffRow, Row
<1>6. CASE CrashStep(w)
  BY <1>1, <1>2, <1>6 DEF CrashStep, Crash, Leaves
<1>7. CASE ReturnStep(w)
  <2>1. phase[w] = "returned"
    BY <1>7 DEF ReturnStep, Goes
  <2>2. \/ tasks' = tasks
        \/ /\ claim[w].fence = tasks[i].fence
           /\ \E r \in {MovedRow(tasks[i], to) : to \in Status} \cup {BackedOffRow(tasks[i], None)} :
                tasks' = [tasks EXCEPT ![i] = r]
    BY <1>7 DEF ReturnStep, Report, RequeueTransient, MayReport, MayRequeue, Status
  <2>3. CASE tasks' = tasks
    BY <1>1, <1>2, <2>3 DEF Leaves
  <2>4. ASSUME claim[w].fence = tasks[i].fence,
               NEW r \in {MovedRow(tasks[i], to) : to \in Status} \cup {BackedOffRow(tasks[i], None)},
               tasks' = [tasks EXCEPT ![i] = r]
        PROVE  Leaves(w)
    <3>1. r \in Row /\ r.slot = Dir(w)
      BY <1>3, <1>4, <1>5
    <3>2. Current(w)
      BY <1>1, <2>4 DEF Current
    <3> QED
      BY <1>1, <1>2, <2>1, <2>4, <3>1, <3>2 DEF Leaves
  <2> QED
    BY <1>1, <2>2, <2>3, <2>4
<1> QED
  BY <1>6, <1>7

LEMMA LeavesKeepsRows ==
  ASSUME IInv, AInv, NEW w \in Workers, Busy(w), Leaves(w)
  PROVE  /\ Ids' = Ids /\ OneRowPerRun' /\ \A i \in Ids : tasks'[i].slot = tasks[i].slot
         /\ \A v \in Workers \ {w} :
              Busy(v) /\ Current(v) => tasks'[claim[v].task] = tasks[claim[v].task]
<1>1. CASE tasks' = tasks
  BY <1>1 DEF AInv, OneRowPerRun, Ids
<1>2. ASSUME Current(w), NEW r \in Row, r.slot = Dir(w),
             tasks' = [tasks EXCEPT ![claim[w].task] = r]
      PROVE  /\ Ids' = Ids /\ OneRowPerRun' /\ \A i \in Ids : tasks'[i].slot = tasks[i].slot
             /\ \A v \in Workers \ {w} :
                  Busy(v) /\ Current(v) => tasks'[claim[v].task] = tasks[claim[v].task]
  <2>1. claim[w].task \in Ids /\ r.slot = tasks[claim[w].task].slot
    BY <1>2, BusyRows
  <2>2. /\ Ids' = Ids /\ OneRowPerRun' /\ \A i \in Ids : tasks'[i].slot = tasks[i].slot
        /\ \A j \in Ids \ {claim[w].task} : tasks'[j] = tasks[j]
    BY <1>2, <2>1, RowMoves
  <2>3. ASSUME NEW v \in Workers \ {w}, Busy(v), Current(v)
        PROVE  claim[v].task \in Ids \ {claim[w].task}
    BY <1>2, <2>3, BusyRows, CurrentIsUnique
  <2> QED
    BY <2>2, <2>3
<1> QED
  BY <1>1, <1>2 DEF Leaves

\* A grant goes to a row that nobody undisturbed works on.
LEMMA GrantEffect ==
  ASSUME IInv, AInv, NEW w \in Workers, ClaimStep(w)
  PROVE  /\ ~Busy(w) /\ Busy(w)' /\ Current(w)' /\ OneRowPerRun' /\ Ids' = Ids
         /\ \A v \in Workers \ {w} : claim'[v] = claim[v]
         /\ phase' = [phase EXCEPT ![w] = "claimed"] /\ UNCHANGED dirVars
         /\ \A i \in Ids : tasks'[i].slot = tasks[i].slot
         /\ \A i \in Ids : tasks[i].status # "QUEUED" => tasks'[i] = tasks[i]
<1>1. ~Busy(w) /\ phase' = [phase EXCEPT ![w] = "claimed"] /\ UNCHANGED dirVars
  BY DEF ClaimStep, Claim, Goes
<1>2. PICK i \in Ids :
        /\ tasks[i].status = "QUEUED"
        /\ tasks' = [tasks EXCEPT ![i] = ClaimedRow(tasks[i], w)]
        /\ claim' = [claim EXCEPT ![w] = [task |-> i, fence |-> tasks[i].fence + 1]]
  BY DEF ClaimStep, Claim, Claimable
<1> DEFINE n == tasks[i].fence + 1
           r == ClaimedRow(tasks[i], w)
<1>3. tasks[i] \in Row /\ i # 0
  BY RowsAndClaims, LenProperties DEF IInv, TypeOK, Ids
<1>4. r.slot = tasks[i].slot /\ r.fence = n
  BY <1>3 DEF ClaimedRow, Row
<1>5. tasks' = [tasks EXCEPT ![i] = r] /\ claim' = [claim EXCEPT ![w] = [task |-> i, fence |-> n]]
  BY <1>2
<1> HIDE DEF n, r
<1>6. /\ Ids' = Ids /\ tasks'[i] = r /\ \A j \in Ids \ {i} : tasks'[j] = tasks[j]
      /\ \A j \in Ids : tasks'[j].slot = tasks[j].slot
      /\ OneRowPerRun'
  BY <1>4, <1>5, RowMoves
<1>7. claim'[w] = [task |-> i, fence |-> n] /\ \A v \in Workers \ {w} : claim'[v] = claim[v]
  BY <1>5 DEF IInv, TypeOK
<1>8. Busy(w)' /\ Current(w)'
  BY <1>3, <1>4, <1>6, <1>7 DEF Busy, Current
<1> QED
  BY <1>1, <1>2, <1>6, <1>7, <1>8

LEMMA GrantKeepsTrees ==
  ASSUME IInv, AInv, NEW w \in Workers, ClaimStep(w)
  PROVE  AInv'
<1>1. /\ ~Busy(w) /\ Busy(w)' /\ Current(w)' /\ OneRowPerRun' /\ Ids' = Ids
      /\ \A v \in Workers \ {w} : claim'[v] = claim[v]
      /\ phase' = [phase EXCEPT ![w] = "claimed"] /\ UNCHANGED dirVars
      /\ \A i \in Ids : tasks'[i].slot = tasks[i].slot
      /\ \A i \in Ids : tasks[i].status # "QUEUED" => tasks'[i] = tasks[i]
  BY GrantEffect
<1>2. stage' = stage /\ worktree' = worktree
  BY <1>1 DEF dirVars
<1>3. /\ phase'[w] = "claimed" /\ \A v \in Workers \ {w} : phase'[v] = phase[v]
      /\ phase' \in [Workers -> Phases]
  BY <1>1 DEF AInv, AgentTypes, Phases
<1>4. AgentTypes'
  BY <1>1, <1>2, <1>3 DEF AInv, AgentTypes, Busy
<1>5. ASSUME NEW v \in Workers \ {w}, Busy(v)'
      PROVE  Busy(v) /\ claim'[v] = claim[v] /\ phase'[v] = phase[v] /\ Dir(v)' = Dir(v)
  <2>1. Busy(v) /\ claim'[v] = claim[v] /\ phase'[v] = phase[v]
    BY <1>1, <1>3, <1>5 DEF Busy
  <2> QED
    BY <1>1, <2>1, BusyRows DEF Dir
<1>6. ASSUME NEW v \in Workers \ {w}, Busy(v)', Undisturbed(v)
      PROVE  /\ Current(v) /\ tasks'[claim[v].task] = tasks[claim[v].task]
  <2>1. Busy(v) /\ Current(v) /\ claim[v].task \in Ids
    BY <1>5, <1>6, BusyRows DEF AInv, KeptClaims
  <2>2. tasks[claim[v].task].status # "QUEUED"
    BY <2>1 DEF IInv, CurrentClaimsHold
  <2> QED
    BY <1>1, <2>1, <2>2
<1>7. KeptClaims'
  <2> SUFFICES ASSUME NEW v \in Workers, v # w, Busy(v)', Undisturbed(v)' PROVE Current(v)'
    BY <1>1 DEF KeptClaims
  <2>1. claim'[v] = claim[v] /\ Busy(v) /\ Undisturbed(v)
    BY <1>5 DEF Undisturbed
  <2>2. Current(v) /\ tasks'[claim[v].task] = tasks[claim[v].task]
    BY <1>6, <2>1
  <2> QED
    BY <2>1, <2>2 DEF Current, Busy
<1>8. TreesFollow'
  <2> SUFFICES ASSUME NEW v \in Workers, Busy(v)', LoseAt[Dir(v)'] = {}
               PROVE  /\ phase'[v] \in {"working", "owner"} => stage'[Dir(v)'] = claim'[v]
                      /\ phase'[v] \in {"leaving", "returned"} /\ Holds(v)'
                           => worktree'[Dir(v)'] = claim'[v]
    BY DEF TreesFollow
  <2>1. CASE v = w
    BY <1>3, <2>1
  <2>2. CASE v # w
    <3>1. /\ Busy(v) /\ claim'[v] = claim[v] /\ phase'[v] = phase[v] /\ Dir(v)' = Dir(v)
          /\ LoseAt[Dir(v)] = {}
      BY <1>5, <2>2
    <3>2. tasks'[claim[v].task] = tasks[claim[v].task]
      BY <1>6, <2>2, <3>1 DEF Undisturbed
    <3>3. Holds(v)' => Holds(v)
      BY <3>1, <3>2 DEF Holds
    <3> QED
      BY <1>2, <3>1, <3>3 DEF AInv, TreesFollow
  <2> QED
    BY <2>1, <2>2
<1> QED
  BY <1>1, <1>4, <1>7, <1>8 DEF AInv

-----------------------------------------------------------------------------
LEMMA AgentInitInvariant == AgentInit => IInv /\ AInv
<1> SUFFICES ASSUME AgentInit PROVE IInv /\ AInv
  OBVIOUS
<1>1. IInv
  BY InitInvariant DEF AgentInit
<1>2. Ids = {} /\ \A w \in Workers : ~Busy(w)
  BY DEF AgentInit, Init, Ids, Busy, Idle
<1> QED
  BY <1>1, <1>2 DEF AgentInit, AInv, AgentTypes, OneRowPerRun, KeptClaims, TreesFollow, Phases

LEMMA AgentUsesTheQueue == AgentNext => [Next]_vars
<1> SUFFICES ASSUME AgentNext PROVE [Next]_vars
  OBVIOUS
<1>1. CASE QueueStep
  BY <1>1 DEF QueueStep, EnqueueStep, ReapStep, Next, WorkerStep
<1>2. ASSUME NEW w \in Workers, AgentWorker(w) PROVE [Next]_vars
  <2>1. CASE ClaimStep(w) \/ ReturnStep(w) \/ CrashStep(w)
    BY <2>1 DEF ClaimStep, ReturnStep, CrashStep, Next, WorkerStep
  <2>2. CASE Stage(w) \/ CheckOwner(w) \/ SyncBack(w) \/ RemoveStage(w)
    BY <2>2 DEF Stage, CheckOwner, SyncBack, RemoveStage, vars
  <2> QED
    BY <1>2, <2>1, <2>2 DEF AgentWorker
<1> QED
  BY <1>1, <1>2 DEF AgentNext

LEMMA QueueKeepsTrees ==
  ASSUME IInv, AInv, ~Relaunch, QueueStep
  PROVE  AInv'
<1>1. /\ claim' = claim /\ phase' = phase /\ UNCHANGED dirVars
      /\ Ids \subseteq Ids' /\ OneRowPerRun'
      /\ \A i \in Ids : /\ tasks'[i].slot = tasks[i].slot
                        /\ tasks'[i].status \in {tasks[i].status, "CANCELLED", "QUEUED"}
      /\ \A w \in Workers :
           Busy(w) /\ Current(w) /\ phase[w] \notin LoseAt[Dir(w)]
             => tasks'[claim[w].task].fence = tasks[claim[w].task].fence
  BY QueueEffect
<1>2. AgentTypes'
  BY <1>1 DEF AInv, AgentTypes, dirVars, Busy
<1>3. ASSUME NEW w \in Workers, Busy(w)'
      PROVE  Busy(w) /\ claim[w].task \in Ids
  BY <1>1, <1>3, BusyRows DEF Busy
<1>4. \A w \in Workers : Busy(w)' => claim'[w] = claim[w] /\ phase'[w] = phase[w]
  BY <1>1
<1>5. \A w \in Workers :
        Busy(w)' /\ Current(w) /\ phase[w] \notin LoseAt[Dir(w)] =>
          /\ tasks'[claim[w].task].fence = tasks[claim[w].task].fence
          /\ tasks'[claim[w].task].status = "RUNNING" => tasks[claim[w].task].status = "RUNNING"
  BY <1>1, <1>3
<1> QED
  BY <1>1, <1>2, <1>4, <1>5, OthersMove

LEMMA LeavingKeepsTrees ==
  ASSUME IInv, AInv, NEW w \in Workers, Busy(w), Leaves(w)
  PROVE  AInv'
<1>1. /\ Ids' = Ids /\ OneRowPerRun' /\ \A i \in Ids : tasks'[i].slot = tasks[i].slot
      /\ \A v \in Workers \ {w} :
           Busy(v) /\ Current(v) => tasks'[claim[v].task] = tasks[claim[v].task]
  BY LeavesKeepsRows
<1>2. /\ claim' = [claim EXCEPT ![w] = Idle] /\ phase' = [phase EXCEPT ![w] = "idle"]
      /\ UNCHANGED dirVars
  BY DEF Leaves
<1>3. /\ claim'[w] = Idle /\ phase'[w] = "idle" /\ phase' \in [Workers -> Phases]
      /\ \A v \in Workers \ {w} : claim'[v] = claim[v] /\ phase'[v] = phase[v]
  BY <1>2 DEF IInv, TypeOK, AInv, AgentTypes, Phases
<1>4. ~Busy(w)' /\ \A v \in Workers \ {w} : Busy(v)' = Busy(v)
  BY <1>3 DEF Busy, Idle
<1>5. AgentTypes'
  <2>1. \A v \in Workers : phase'[v] = "idle" <=> ~Busy(v)'
    BY <1>3, <1>4 DEF AInv, AgentTypes
  <2> QED
    BY <1>2, <1>3, <2>1 DEF AInv, AgentTypes, dirVars
<1>6. \A v \in Workers : Busy(v)' => claim'[v] = claim[v] /\ phase'[v] = phase[v]
  BY <1>3, <1>4
<1>7. \A v \in Workers :
        Busy(v)' /\ Current(v) /\ phase[v] \notin LoseAt[Dir(v)] =>
          /\ tasks'[claim[v].task].fence = tasks[claim[v].task].fence
          /\ tasks'[claim[v].task].status = "RUNNING" => tasks[claim[v].task].status = "RUNNING"
  BY <1>1, <1>4
<1> QED
  BY <1>1, <1>2, <1>5, <1>6, <1>7, OthersMove

LEMMA AgentNextInvariant ==
  ~Relaunch /\ IInv /\ AInv /\ [AgentNext]_agentVars => (IInv /\ AInv)'
<1> SUFFICES ASSUME ~Relaunch, IInv, AInv, [AgentNext]_agentVars PROVE IInv' /\ AInv'
  OBVIOUS
<1>1. CASE UNCHANGED agentVars
  <2>1. /\ UNCHANGED vars
        /\ tasks' = tasks /\ claim' = claim /\ stage' = stage /\ worktree' = worktree
        /\ phase' = phase
    BY <1>1 DEF agentVars, vars
  <2>2. IInv'
    BY <2>1, NextInvariant
  <2>3. AInv'
    BY <2>1 DEF AInv, AgentTypes, OneRowPerRun, KeptClaims, TreesFollow, Undisturbed, Current,
                Holds, Busy, Dir, Ids
  <2> QED
    BY <2>2, <2>3
<1>2. CASE AgentNext
  <2>1. IInv'
    BY <1>2, AgentUsesTheQueue, NextInvariant
  <2>2. CASE QueueStep
    BY <2>1, <2>2, QueueKeepsTrees
  <2>3. ASSUME NEW w \in Workers, AgentWorker(w) PROVE AInv'
    <3>1. CASE ClaimStep(w)
      BY <3>1, GrantKeepsTrees
    <3>2. CASE ReturnStep(w) \/ CrashStep(w)
      BY <3>2, WorkersLeave, LeavingKeepsTrees
    <3>3. CASE Stage(w) \/ CheckOwner(w) \/ SyncBack(w) \/ RemoveStage(w)
      BY <3>3, RunnerKeeps
    <3> QED
      BY <2>3, <3>1, <3>2, <3>3 DEF AgentWorker
  <2> QED
    BY <1>2, <2>1, <2>2, <2>3 DEF AgentNext
<1> QED
  BY <1>1, <1>2

LEMMA AgentInvariant ==
  ASSUME ~Relaunch
  PROVE  AgentSpec => [](IInv /\ AInv)
<1>1. IInv /\ AInv /\ [AgentNext]_agentVars => (IInv /\ AInv)'
  BY AgentNextInvariant
<1> QED
  BY <1>1, AgentInitInvariant, PTL DEF AgentSpec

\* A row goes DONE under the worker that holds it by nobody but that worker.
LEMMA OnlyReportsSettle ==
  ASSUME ~Relaunch, IInv, AInv, [AgentNext]_agentVars, NEW w \in Workers, Accepts(w)
  PROVE  phase[w] = "returned"
<1> DEFINE i == claim[w].task
<1>1. /\ Busy(w) /\ i \in Ids /\ tasks[i].status = "RUNNING" /\ tasks'[i].status = "DONE"
      /\ Current(w)
  BY BusyRows DEF Accepts, Holds, Owns
<1>2. tasks' # tasks
  BY <1>1
<1>3. ~QueueStep
  BY <1>1, QueueEffect
<1>4. PICK v \in Workers : AgentWorker(v)
  BY <1>2, <1>3 DEF AgentNext, agentVars
<1>5. ~(Stage(v) \/ CheckOwner(v) \/ SyncBack(v) \/ RemoveStage(v))
  BY <1>2 DEF Stage, CheckOwner, SyncBack, RemoveStage
<1>6. ~ClaimStep(v)
  <2> SUFFICES ASSUME ClaimStep(v) PROVE FALSE
    OBVIOUS
  <2> QED
    BY <1>1, GrantEffect
<1>7. Leaves(v) /\ Busy(v)
  BY <1>4, <1>5, <1>6, WorkersLeave DEF AgentWorker
<1>8. v = w
  BY <1>1, <1>7, LeavesKeepsRows
<1> QED
  BY <1>2, <1>7, <1>8 DEF Leaves

\* In a run whose live workers' heartbeats arrive, and which nobody relaunches,
\* an accepted step left its own edits in the worktree.
THEOREM AcceptedWorkStands ==
  ASSUME ~Relaunch
  PROVE  AgentSpec => UndisturbedWorkIsInTheTree
<1>1. IInv /\ AInv /\ [AgentNext]_agentVars =>
        [\A w \in Workers :
           Accepts(w) /\ LoseAt[Dir(w)] = {} => worktree[Dir(w)] = claim[w]]_agentVars
  <2> SUFFICES ASSUME IInv, AInv, [AgentNext]_agentVars,
                      NEW w \in Workers, Accepts(w), LoseAt[Dir(w)] = {}
               PROVE  worktree[Dir(w)] = claim[w]
    OBVIOUS
  <2>1. phase[w] = "returned" /\ Holds(w) /\ Busy(w)
    BY OnlyReportsSettle DEF Accepts, Holds
  <2> QED
    BY <2>1 DEF AInv, TreesFollow
<1> QED
  BY <1>1, AgentInvariant, PTL DEF AgentSpec, UndisturbedWorkIsInTheTree

\* The reaper does not come between the check of the claim and the sync.
CheckHolds == \A s \in Slots : "owner" \notin LoseAt[s]

\* No worker syncs into a worktree that a live worker owns, unless the reaper
\* comes between its check and its sync.
THEOREM OwnersSyncAlone ==
  ASSUME ~Relaunch, CheckHolds
  PROVE  AgentSpec => OnlyTheOwnerSyncs
<1>1. IInv /\ AInv /\ [AgentNext]_agentVars =>
        [\A w \in Workers :
           phase[w] = "owner" /\ phase'[w] = "leaving"
             => \A v \in Workers \ {w} : Holds(v) => Dir(v) # Dir(w)]_agentVars
  <2> SUFFICES ASSUME IInv, AInv, NEW w \in Workers, phase[w] = "owner",
                      NEW v \in Workers \ {w}, Holds(v)
               PROVE  Dir(v) # Dir(w)
    OBVIOUS
  <2>1. Busy(w) /\ Busy(v) /\ Current(v) /\ Dir(w) \in Slots
    BY BusyPhase, BusyRows DEF Holds
  <2>2. Current(w)
    BY <2>1 DEF CheckHolds, AInv, KeptClaims, Undisturbed
  <2> QED
    BY <2>1, <2>2, Alone
<1> QED
  BY <1>1, AgentInvariant, PTL DEF AgentSpec, OnlyTheOwnerSyncs
=============================================================================
