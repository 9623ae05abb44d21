-------------------------- MODULE IssueOrchestrator --------------------------
(****************************************************************************)
(* The orchestrator's GitHub mode (cmd/orchestrator -source=github,         *)
(* orchestrator/orchestrator.go, state.go): a loop that lists the issues of *)
(* a repository, settles those whose run ended, and fires a run for each    *)
(* open issue whose dependencies are done.  What it has fired it keeps in   *)
(* memory and, at every change, in a JSON file it reads when it starts.     *)
(*                                                                          *)
(* Runs, issues and the people who close and reopen them are the            *)
(* environment; a request to the control plane may fail or lose its answer, *)
(* a write of the file may fail, and the process may die at any point, in   *)
(* the middle of a write too.                                               *)
(****************************************************************************)
EXTENDS Integers

CONSTANTS
    Issues,       \* issue numbers of the repository
    Deps,         \* Deps[n]: what parseDeps reads in issue n; may name no issue
    MaxRuns,      \* bound: runs fired in a behaviour
    MaxFaults     \* bound: lost answers, failed writes, deaths, reopenings

NoRun == 0
NoIssue == 0
Runs == 1 .. MaxRuns

VARIABLES
    open,       \* issues open on GitHub
    status,     \* [Runs -> {"unborn", "RUNNING", "DONE", "FAILED"}]
    for,        \* [Runs -> Issues \cup {NoIssue}]: the issue in a run's payload
    fired,      \* [Issues -> Runs \cup {NoRun}]: data.Fired in memory
    completed,  \* data.Completed
    failed,     \* data.Failed
    file,       \* the state file: [fired, completed, failed], and torn
    pc,         \* where the loop is
    listed,     \* the open issues of this cycle's list
    todo,       \* issues the pass has yet to visit
    fresh,      \* the run just fired and not yet marked
    faults,
    closedOnce, \* history: issues ever listed as closed
    forgotten   \* history: runs the orchestrator does not know it fired

memory == <<fired, completed, failed>>
github == <<open, status, for>>
loop == <<pc, listed, todo, fresh>>
history == <<closedOnce, forgotten>>
vars == <<open, status, for, fired, completed, failed, file, pc, listed, todo, fresh, faults,
          closedOnce, forgotten>>

Empty == [n \in Issues |-> NoRun]
NoFile == [fired |-> Empty, completed |-> {}, failed |-> {}, torn |-> FALSE]

Init ==
    /\ open \in SUBSET Issues
    /\ status = [r \in Runs |-> "unborn"]
    /\ for = [r \in Runs |-> NoIssue]
    /\ fired = Empty /\ completed = {} /\ failed = {}
    /\ file = NoFile
    /\ pc = "list" /\ listed = {} /\ todo = {} /\ fresh = NoRun
    /\ faults = 0
    /\ closedOnce = {} /\ forgotten = {}

Fault == faults < MaxFaults /\ faults' = faults + 1

-----------------------------------------------------------------------------
(* The state file. *)

\* State.flush: the file holds the new memory, or the write fails and the memory
\* alone has it -- the callers log the error and go on.
Flush(f, c, x) ==
    \/ /\ file' = [fired |-> f, completed |-> c, failed |-> x, torn |-> FALSE]
       /\ UNCHANGED faults
    \/ Fault /\ UNCHANGED file

\* LoadState: no file is an empty state; a torn one is an error, and the
\* process does not start.
Start ==
    /\ pc = "dead" /\ ~file.torn
    /\ fired' = file.fired /\ completed' = file.completed /\ failed' = file.failed
    /\ pc' = "list"
    /\ forgotten' = forgotten \cup {r \in Runs : for[r] \in Issues /\ file.fired[for[r]] # r}
    /\ UNCHANGED <<github, file, listed, todo, fresh, faults, closedOnce>>

\* The process dies; WriteFile truncates the file before it writes, so a death
\* in a flush leaves a file that cannot be parsed.
Die(tears) ==
    /\ pc # "dead" /\ Fault
    /\ tears => pc \in {"reconcile", "mark"}
    /\ file' = [file EXCEPT !.torn = tears]
    /\ pc' = "dead" /\ listed' = {} /\ todo' = {} /\ fresh' = NoRun
    /\ UNCHANGED <<memory, github, history>>

\* Somebody removes the file that cannot be parsed.
RemoveFile ==
    /\ pc = "dead" /\ file.torn
    /\ file' = NoFile
    /\ UNCHANGED <<memory, github, loop, faults, history>>

-----------------------------------------------------------------------------
(* A cycle: Run calls RunOnce again and again; how long it sleeps in between *)
(* depends on FiredCount and changes nothing else.                           *)

\* ListIssues answers, open and closed alike.
List ==
    /\ pc = "list"
    /\ listed' = open /\ todo' = Issues /\ pc' = "reconcile"
    /\ closedOnce' = closedOnce \cup (Issues \ open)
    /\ UNCHANGED <<memory, github, file, fresh, faults, forgotten>>

Unsettled(n) == fired[n] # NoRun /\ n \notin completed \cup failed

\* reconcileCompletions at issue n: nothing to settle, or its run is not over,
\* or its status cannot be read.
LeaveUnsettled(n) ==
    /\ pc = "reconcile" /\ n \in todo
    /\ todo' = todo \ {n}
    /\ UNCHANGED <<memory, github, file, pc, listed, fresh, faults, history>>

\* MarkCompleted, MarkFailed.
MarkCompleted(n) ==
    /\ pc = "reconcile" /\ n \in todo /\ Unsettled(n)
    /\ status[fired[n]] = "DONE"
    /\ completed' = completed \cup {n} /\ todo' = todo \ {n}
    /\ Flush(fired, completed', failed)
    /\ UNCHANGED <<fired, failed, github, pc, listed, fresh, history>>

MarkFailed(n) ==
    /\ pc = "reconcile" /\ n \in todo /\ Unsettled(n)
    /\ status[fired[n]] = "FAILED"
    /\ failed' = failed \cup {n} /\ todo' = todo \ {n}
    /\ Flush(fired, completed, failed')
    /\ UNCHANGED <<fired, completed, github, pc, listed, fresh, history>>

Reconciled ==
    /\ pc = "reconcile" /\ todo = {}
    /\ pc' = "fire" /\ todo' = Issues
    /\ UNCHANGED <<memory, github, file, listed, fresh, faults, history>>

\* A dependency that names no issue is not done.
depsAllDone(n) == \A d \in Deps[n] : d \in Issues /\ (d \notin listed \/ d \in completed)

Fires(n) == n \in listed /\ fired[n] = NoRun /\ depsAllDone(n)

\* processIssue at an issue it does not fire, or whose request fails unserved.
Pass(n) ==
    /\ pc = "fire" /\ n \in todo
    /\ todo' = todo \ {n}
    /\ (~Fires(n) /\ UNCHANGED faults) \/ (Fires(n) /\ Fault)
    /\ UNCHANGED <<memory, github, file, pc, listed, fresh, history>>

Born(r, n) ==
    /\ status[r] = "unborn" /\ \A q \in Runs : status[q] = "unborn" => r <= q
    /\ status' = [status EXCEPT ![r] = "RUNNING"]
    /\ for' = [for EXCEPT ![r] = n]

\* FireRun answers with the run ...
FireRun(n, r) ==
    /\ pc = "fire" /\ n \in todo /\ Fires(n)
    /\ Born(r, n)
    /\ fresh' = r /\ pc' = "mark"
    /\ UNCHANGED <<memory, file, open, listed, todo, faults, history>>

\* ... or makes it and its answer is lost: the issue looks unfired.
FireRunUnheard(n, r) ==
    /\ pc = "fire" /\ n \in todo /\ Fires(n)
    /\ Born(r, n) /\ Fault
    /\ forgotten' = forgotten \cup {r} /\ todo' = todo \ {n}
    /\ UNCHANGED <<memory, file, open, pc, listed, fresh, closedOnce>>

\* MarkFired.
MarkFired(n) ==
    /\ pc = "mark" /\ n = for[fresh]
    /\ fired' = [fired EXCEPT ![n] = fresh]
    /\ Flush(fired', completed, failed)
    /\ pc' = "fire" /\ todo' = todo \ {n} /\ fresh' = NoRun
    /\ UNCHANGED <<completed, failed, github, listed, history>>

CycleEnds ==
    /\ pc = "fire" /\ todo = {}
    /\ pc' = "list" /\ listed' = {}
    /\ UNCHANGED <<memory, github, file, todo, fresh, faults, history>>

-----------------------------------------------------------------------------
(* The environment. *)

RunEnds(r, s) ==
    /\ status[r] = "RUNNING"
    /\ status' = [status EXCEPT ![r] = s]
    /\ UNCHANGED <<open, for, memory, file, loop, faults, history>>

Close(n) ==
    /\ n \in open /\ open' = open \ {n}
    /\ UNCHANGED <<status, for, memory, file, loop, faults, history>>

Reopen(n) ==
    /\ n \in Issues \ open /\ Fault /\ open' = open \cup {n}
    /\ UNCHANGED <<status, for, memory, file, loop, history>>

Next ==
    \/ List \/ Reconciled \/ CycleEnds \/ Start \/ RemoveFile
    \/ \E n \in Issues :
        \/ LeaveUnsettled(n) \/ MarkCompleted(n) \/ MarkFailed(n) \/ Pass(n) \/ MarkFired(n)
        \/ Close(n) \/ Reopen(n)
        \/ \E r \in Runs : FireRun(n, r) \/ FireRunUnheard(n, r)
    \/ \E r \in Runs, s \in {"DONE", "FAILED"} : RunEnds(r, s)
    \/ \E tears \in BOOLEAN : Die(tears)

Spec == Init /\ [][Next]_vars

-----------------------------------------------------------------------------
RunsOf(n) == {r \in Runs : status[r] # "unborn" /\ for[r] = n}

\* orchestrator.go 287-294: "fired" alone is not sufficient.  A run exists only
\* for an issue whose every dependency was seen closed or has a run that is DONE,
\* whatever crashes, torn files and stale lists come between.
DependentsWait ==
    \A r \in Runs : status[r] # "unborn" =>
        \A d \in Deps[for[r]] : d \in closedOnce \/ \E q \in RunsOf(d) : status[q] = "DONE"

\* state.go 22-23: "so a restart does not double-fire".  An issue is fired once,
\* but for the runs whose answer, mark or state file was lost.
FiredOnce == \A n \in Issues : \A q, r \in RunsOf(n) \ forgotten : q = r

=============================================================================
