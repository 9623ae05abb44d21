------------------------------- MODULE Lease -------------------------------
(***************************************************************************)
(* What the task queue promises its clients: every submitted task is a     *)
(* lease held by at most one worker at a time, and only the holder may     *)
(* close, park or release it.  There are no fences, heartbeats or columns  *)
(* here: phase says how far a task is, holder who the lease belongs to,    *)
(* and job what each worker is busy with, which may be a lost lease.       *)
(***************************************************************************)
EXTENDS Naturals, Sequences

CONSTANTS Workers, Nobody

VARIABLES
  phase,   \* a sequence: the phase of each task, in order of submission
  holder,  \* a sequence of the same length: the worker the task is leased to
  job      \* job[w]: the task worker w is busy with, 0 for none

lvars == <<phase, holder, job>>

Tasks == DOMAIN phase

Init ==
  /\ phase = <<>>
  /\ holder = <<>>
  /\ job = [w \in Workers |-> 0]

Submit ==
  /\ phase' = Append(phase, "open")
  /\ holder' = Append(holder, Nobody)
  /\ UNCHANGED job

\* An open task is granted to a free worker.
Grant(w, i) ==
  /\ phase[i] = "open" /\ job[w] = 0
  /\ phase' = [phase EXCEPT ![i] = "held"]
  /\ holder' = [holder EXCEPT ![i] = w]
  /\ job' = [job EXCEPT ![w] = i]

\* The holder ends its lease: closed, parked for a human, or open again.
Return(w, i, p) ==
  /\ job[w] = i /\ phase[i] = "held" /\ holder[i] = w
  /\ phase' = [phase EXCEPT ![i] = p]
  /\ holder' = [holder EXCEPT ![i] = Nobody]
  /\ job' = [job EXCEPT ![w] = 0]

\* A worker that died, or whose lease is gone, drops its job; no task changes.
GiveUp(w) ==
  /\ job[w] # 0
  /\ job' = [job EXCEPT ![w] = 0]
  /\ UNCHANGED <<phase, holder>>

\* Leases that ran out are taken back together.
Expire(S) ==
  /\ \A i \in S : phase[i] = "held"
  /\ phase' = [i \in Tasks |-> IF i \in S THEN "open" ELSE phase[i]]
  /\ holder' = [i \in Tasks |-> IF i \in S THEN Nobody ELSE holder[i]]
  /\ UNCHANGED job

\* A human decides a parked task.
Decide(i) ==
  /\ phase[i] = "parked"
  /\ phase' = [phase EXCEPT ![i] = "closed"]
  /\ UNCHANGED <<holder, job>>

\* Cancellation does not wait for the holder, which loses the lease.
Withdraw(i) ==
  /\ phase[i] \in {"open", "held", "parked"}
  /\ phase' = [phase EXCEPT ![i] = "withdrawn"]
  /\ holder' = [holder EXCEPT ![i] = Nobody]
  /\ UNCHANGED job

\* The code's one departure from a clean lease: a worker still busy with a
\* withdrawn task may put it back to open.
Reinstate(w, i) ==
  /\ job[w] = i /\ phase[i] = "withdrawn"
  /\ phase' = [phase EXCEPT ![i] = "open"]
  /\ job' = [job EXCEPT ![w] = 0]
  /\ UNCHANGED holder

Next ==
  \/ Submit
  \/ \E w \in Workers :
       \/ GiveUp(w)
       \/ \E i \in Tasks :
            \/ Grant(w, i) \/ Reinstate(w, i)
            \/ \E p \in {"open", "parked", "closed"} : Return(w, i, p)
  \/ \E i \in Tasks : Decide(i) \/ Withdraw(i)
  \/ \E S \in SUBSET Tasks : Expire(S)

Spec == Init /\ [][Next]_lvars
=============================================================================
