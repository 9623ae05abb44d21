------------------------------- MODULE Releases -------------------------------
(***************************************************************************)
(* The release step of one project (release/release.go): a worker clones   *)
(* the branch next to the run's working directory, builds it in a sandbox, *)
(* replaces the run's preview by a copy of what was built, and collects old*)
(* previews so that the disk stays bounded.  Nothing locks the previews:   *)
(* several runs release at the same time, a step that was requeued may run *)
(* twice at once, and each collection works from the listing it read.      *)
(*                                                                         *)
(* A preview's age is the modification time of its directory, which moves  *)
(* with every entry a copy makes in it; two writes never share a time.     *)
(* The listing is read in one step.                                        *)
(***************************************************************************)
EXTENDS Naturals, FiniteSets

CONSTANTS
  Workers,  \* goroutines running a release step
  Runs,     \* the project's runs; a run has one preview
  Keep,     \* KeepPreviews
  Calm      \* TRUE: no run is released twice, and no copy is still writing
            \* to a directory that a collection has chosen to remove

VARIABLES
  pc,       \* pc[w]: where w is in the step
  job,      \* job[w]: the run w releases
  src,      \* the runs whose .release-src directory holds a tree
  dirs,     \* the runs whose preview directory exists
  mod,      \* mod[r]: its modification time
  clock,    \* the time of the last write
  victims,  \* victims[w]: the directories w's collection still has to remove
  at,       \* at[w]: the time of w's listing
  failed    \* failed[w]: those w could not remove

vars == <<pc, job, src, dirs, mod, clock, victims, at, failed>>

Phases == {"idle", "fetch", "build", "place", "copy", "publish", "gc"}

Init ==
  /\ pc = [w \in Workers |-> "idle"] /\ job \in [Workers -> Runs]
  /\ src = {} /\ dirs = {}
  /\ mod = [r \in Runs |-> 0] /\ clock = 0
  /\ victims = [w \in Workers |-> {}] /\ failed = [w \in Workers |-> {}]
  /\ at = [w \in Workers |-> 0]

Goto(w, p) == pc' = [pc EXCEPT ![w] = p]
gc == <<victims, at, failed>>

(* Run: the inputs and the project's settings give a repository; a tree an *)
(* earlier attempt left is removed.                                        *)
Run(w, r) ==
  /\ pc[w] = "idle"
  /\ Calm => mod[r] = 0 /\ \A o \in Workers : pc[o] # "idle" => job[o] # r
  /\ Goto(w, "fetch") /\ job' = [job EXCEPT ![w] = r]
  /\ src' = src \ {r}
  /\ UNCHANGED <<dirs, mod, clock, gc>>

gitClone(w) ==
  /\ pc[w] = "fetch" /\ Goto(w, "build")
  /\ src' = src \union {job[w]}
  /\ UNCHANGED <<job, dirs, mod, clock, gc>>

(* Every return of Run, whatever it answers, removes the tree: the one of  *)
(* another attempt at the same run too.                                    *)
Return(w) ==
  /\ Goto(w, "idle")
  /\ src' = src \ {job[w]}
  /\ UNCHANGED <<job, dirs, mod, clock>>

(* No repository, no clone, nothing to build, a build that fails, times out*)
(* or may not run outside docker, no output, an artifact over the limit, a *)
(* copy that fails: the step fails, and nothing is collected.              *)
Fail(w) ==
  /\ pc[w] \in {"fetch", "build", "place", "copy"} /\ Return(w)
  /\ UNCHANGED gc

(* The firebase target leaves no preview here: it deploys from the sandbox,*)
(* and fails without a token, a firebase.json or a URL in the output.      *)
releaseFirebase(w) ==
  /\ pc[w] = "build" /\ job[w] \in src /\ Return(w)
  /\ UNCHANGED gc

(* releaseStatic up to the artifact that will be published.                *)
Build(w) ==
  /\ pc[w] = "build" /\ job[w] \in src
  /\ Goto(w, "place")
  /\ UNCHANGED <<job, src, dirs, mod, clock, gc>>

RemoveOld(w) ==
  /\ pc[w] = "place" /\ Goto(w, "copy")
  /\ dirs' = dirs \ {job[w]}
  /\ UNCHANGED <<job, src, mod, clock, gc>>

(* CopyTreeNoGit makes an entry, and the directories it lacks.             *)
Condemned(r) == \E o \in Workers : pc[o] = "gc" /\ r \in victims[o]
Copy(w) ==
  /\ pc[w] \in {"copy", "publish"} /\ job[w] \in src
  /\ Calm => ~Condemned(job[w])
  /\ Goto(w, "publish")
  /\ dirs' = dirs \union {job[w]}
  /\ clock' = clock + 1 /\ mod' = [mod EXCEPT ![job[w]] = clock + 1]
  /\ UNCHANGED <<job, src, gc>>

CopyFails(w) ==
  /\ pc[w] = "publish" /\ Return(w)
  /\ UNCHANGED gc

(* gc: with more than Keep directories, all but the newest are to go.      *)
Oldest(V) ==
  /\ V \subseteq dirs
  /\ IF Cardinality(dirs) <= Keep THEN V = {}
     ELSE /\ Cardinality(dirs \ V) = Keep
          /\ \A v \in V, d \in dirs \ V : mod[v] <= mod[d]
ListPreviews(w, V) ==
  /\ pc[w] = "publish" /\ Oldest(V)
  /\ Goto(w, "gc")
  /\ victims' = [victims EXCEPT ![w] = V]
  /\ failed' = [failed EXCEPT ![w] = {}]
  /\ at' = [at EXCEPT ![w] = clock]
  /\ UNCHANGED <<job, src, dirs, mod, clock>>

(* The directory cannot be listed: nothing is collected this time.         *)
ListFails(w) ==
  /\ pc[w] = "publish" /\ Return(w)
  /\ UNCHANGED gc

RemoveVictim(w, v) ==
  /\ pc[w] = "gc" /\ v \in victims[w]
  /\ victims' = [victims EXCEPT ![w] = @ \ {v}]
  /\ dirs' = dirs \ {v}
  /\ UNCHANGED <<pc, job, src, mod, clock, at, failed>>

(* RemoveAll's error is dropped.                                           *)
RemoveFails(w, v) ==
  /\ pc[w] = "gc" /\ v \in victims[w]
  /\ victims' = [victims EXCEPT ![w] = @ \ {v}]
  /\ failed' = [failed EXCEPT ![w] = @ \union {v}]
  /\ UNCHANGED <<pc, job, src, dirs, mod, clock, at>>

Published(w) ==
  /\ pc[w] = "gc" /\ victims[w] = {} /\ Return(w)
  /\ UNCHANGED gc

(* The process ends: trees, half-copied previews and the directories still *)
(* to be removed stay where they are.                                      *)
Crash ==
  /\ pc' = [w \in Workers |-> "idle"]
  /\ victims' = [w \in Workers |-> {}] /\ failed' = [w \in Workers |-> {}]
  /\ UNCHANGED <<job, src, dirs, mod, clock, at>>

WorkerStep(w) ==
  \/ \E r \in Runs : Run(w, r)
  \/ gitClone(w) \/ Fail(w) \/ releaseFirebase(w) \/ Build(w)
  \/ RemoveOld(w) \/ Copy(w) \/ CopyFails(w)
  \/ \E V \in SUBSET dirs : ListPreviews(w, V)
  \/ ListFails(w)
  \/ \E v \in victims[w] : RemoveVictim(w, v) \/ RemoveFails(w, v)
  \/ Published(w)

Next == (\E w \in Workers : WorkerStep(w)) \/ Crash

Spec == Init /\ [][Next]_vars

-----------------------------------------------------------------------------
TypeOK ==
  /\ pc \in [Workers -> Phases] /\ job \in [Workers -> Runs]
  /\ src \in SUBSET Runs /\ dirs \in SUBSET Runs
  /\ mod \in [Runs -> Nat] /\ clock \in Nat
  /\ victims \in [Workers -> SUBSET Runs] /\ at \in [Workers -> Nat]
  /\ failed \in [Workers -> SUBSET Runs]

(* However many releases list, copy, fail and collect at the same time, a  *)
(* collection leaves at most Keep of the previews that were there when it  *)
(* listed, but for the ones it is still to remove or could not remove: what*)
(* a release leaves on the disk is bounded, whatever the others do.        *)
DiskBound ==
  \A w \in Workers : pc[w] = "gc" =>
    Cardinality({d \in dirs \ (victims[w] \union failed[w]) : mod[d] <= at[w]}) <= Keep

(* Collections that work from stale listings never take one of the Keep    *)
(* newest previews between them: a directory still to be removed always has*)
(* Keep newer ones that are still there.                                   *)
GcKeepsNewest ==
  \A w \in Workers : pc[w] = "gc" =>
    \A v \in victims[w] : Cardinality({d \in dirs : mod[d] > mod[v]}) >= Keep
=============================================================================
