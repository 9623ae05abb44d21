-------------------------------- MODULE Mirror --------------------------------
(****************************************************************************)
(* The GitHub mirror of one project's backlog: internal/export publishes    *)
(* the stories as issues with native dependencies, internal/imports brings  *)
(* issues in as stories, and both meet in stories.external_ref.             *)
(*                                                                          *)
(* An export lists the stories, makes their labels, makes an issue for      *)
(* every story without a ref and records the ref at once, then wires the    *)
(* dependencies.  Four requests start one: the hook of a story created by   *)
(* hand, its export button, the publication of a design, and the export of  *)
(* the whole backlog, which alone does not take the project's exportLock.   *)
(* Every call to GitHub may fail, or succeed and lose its answer.           *)
(****************************************************************************)
EXTENDS Integers, FiniteSets

CONSTANTS
    Planned,      \* ids of the stories made here: numbers, in the order of the ids
    Offset,       \* an imported issue n is story Offset + n ("gh-owner-repo-n")
    Exporters,    \* goroutines that run an export, numbered
    Importers,    \* requests that run an import
    Callers,      \* who starts an export besides the hook: see Kinds
    Nobody,       \* exportLock is free
    MaxIssues,    \* bound: issues in the repository
    MaxExports,   \* bound: exports and imports started
    MaxEvents     \* bound: failed calls, lost answers, restarts, deletions, edits, issues others open

Kinds == {"button", "published", "bulk"}

ASSUME MirrorAssumption ==
    /\ Planned \subseteq Nat \ {0} /\ IsFiniteSet(Planned)
    /\ Offset \in Nat /\ \A s \in Planned : s <= Offset
    /\ Callers \subseteq Kinds
    /\ Exporters \subseteq Nat \ {Nobody}
    /\ {MaxIssues, MaxExports, MaxEvents} \subseteq Nat

Numbers == 1 .. MaxIssues
Stories == Planned \cup {Offset + n : n \in Numbers}
NoIssue == 0
NoStory == 0

VARIABLES
    live,       \* the rows of stories
    born,       \* ids ever used: a deleted story's id is not used again
    deps,       \* [Stories -> SUBSET Stories]: story_deps
    ref,        \* [Stories -> Nat]: the number in external_ref, or NoIssue
    issues,     \* issues in the repository: 1 .. issues
    edges,      \* {<<m, n>>}: issue m is blocked by issue n
    holder,     \* who holds exportLock
    ex,         \* [Exporters -> [pc, locked]]
    listed,     \* [Exporters -> SUBSET Stories]: the stories the export read
    read,       \* [Exporters -> SUBSET (Stories \X Stories)]: and their dependencies
    known,      \* [Exporters -> [Stories -> Nat]]: byStory, the numbers it knows
    todo,       \* [Exporters -> SUBSET Stories]: stories pass 1 has yet to visit
    made,       \* [Exporters -> Nat]: the issue made and not yet recorded
    wires,      \* [Exporters -> SUBSET (Stories \X Stories)]: edges pass 2 has yet to add
    im,         \* [Importers -> [pc, todo]]: the issues the import has yet to visit
    started, events,
    madeFor,    \* history: [Stories -> SUBSET Nat]: the issues made for a story
    orphans     \* history: issues whose number was lost before it was recorded,
                \* or that an import took

store == <<live, born, deps, ref>>
github == <<issues, edges>>
exporter == <<holder, ex, listed, read, known, todo, made, wires>>
budgets == <<started, events>>
history == <<madeFor, orphans>>
vars == <<store, github, exporter, im, budgets, history>>

Idle == [pc |-> "idle", locked |-> FALSE]
Inside(e) == ex[e].pc \notin {"idle", "lock"}

Init ==
    /\ live = {} /\ born = {}
    /\ deps = [s \in Stories |-> {}]
    /\ ref = [s \in Stories |-> NoIssue]
    /\ issues = 0 /\ edges = {}
    /\ holder = Nobody
    /\ ex = [e \in Exporters |-> Idle]
    /\ listed = [e \in Exporters |-> {}]
    /\ read = [e \in Exporters |-> {}]
    /\ known = [e \in Exporters |-> [s \in Stories |-> NoIssue]]
    /\ todo = [e \in Exporters |-> {}]
    /\ made = [e \in Exporters |-> NoIssue]
    /\ wires = [e \in Exporters |-> {}]
    /\ im = [i \in Importers |-> [pc |-> "idle", todo |-> {}]]
    /\ started = 0 /\ events = 0
    /\ madeFor = [s \in Stories |-> {}]
    /\ orphans = {}

-----------------------------------------------------------------------------
(* Stories. *)

\* exportLock guards the exports of the hook, the button and a publication.
TakesLock_Never(k) == FALSE
TakesLock(k) == k # "bulk"

\* Goroutines are alike: a new export takes the first free name.
Starts(e, k) ==
    /\ ex[e].pc = "idle"
    /\ \A f \in Exporters : f < e => ex[f].pc # "idle"
    /\ started < MaxExports
    /\ started' = started + 1
    /\ ex' = [ex EXCEPT ![e] = [pc |-> IF TakesLock(k) THEN "lock" ELSE "list",
                                locked |-> FALSE]]

\* createStory: the row and its edges, then the hook in a goroutine of its own.
CreateStory(s, D, e) ==
    /\ s \in Planned \ born
    /\ D \subseteq live
    /\ live' = live \cup {s} /\ born' = born \cup {s}
    /\ deps' = [deps EXCEPT ![s] = D]
    /\ Starts(e, "hook")
    /\ UNCHANGED <<ref, github, holder, listed, read, known, todo, made, wires, im, events, history>>

\* PublishRunner writes the stories of a design: no hook, the publication ends
\* with OnBacklogPublished.
PublishStory(s, D) ==
    /\ "published" \in Callers
    /\ s \in Planned \ born
    /\ D \subseteq live
    /\ live' = live \cup {s} /\ born' = born \cup {s}
    /\ deps' = [deps EXCEPT ![s] = D]
    /\ UNCHANGED <<ref, github, exporter, im, budgets, history>>

\* deleteStory: refused while another story depends on it; its issue stays.
DeleteStory(s) ==
    /\ s \in live /\ events < MaxEvents /\ events' = events + 1
    /\ \A d \in live : s \notin deps[d]
    /\ live' = live \ {s}
    /\ ref' = [ref EXCEPT ![s] = NoIssue]
    /\ UNCHANGED <<born, deps, github, exporter, im, started, history>>

\* checkNoCycle: no chain of dependencies leads from D back to s.
NoCycle(s, D) ==
    \E C \in SUBSET (live \ {s}) : D \subseteq C /\ \A c \in C : deps[c] \subseteq C

\* EditStory and AddDep, on stories an export may be working from (Backlog has
\* their reads and writes apart).  No hook: the next export tells GitHub, and
\* only of what was added.
EditDeps(s, D) ==
    /\ s \in live /\ D # deps[s] /\ NoCycle(s, D)
    /\ events < MaxEvents /\ events' = events + 1
    /\ deps' = [deps EXCEPT ![s] = D]
    /\ UNCHANGED <<live, born, ref, github, exporter, im, started, history>>

-----------------------------------------------------------------------------
(* An export. *)

\* exportStory, OnBacklogPublished, exportGitHub.
Start(e, k) ==
    /\ k \in Callers
    /\ k = "button" => live # {}
    /\ Starts(e, k)
    /\ UNCHANGED <<store, github, holder, listed, read, known, todo, made, wires, im, events, history>>

Acquire(e) ==
    /\ ex[e].pc = "lock"
    /\ holder = Nobody
    /\ holder' = e
    /\ ex' = [ex EXCEPT ![e].pc = "list", ![e].locked = TRUE]
    /\ UNCHANGED <<store, github, listed, read, known, todo, made, wires, im, budgets, history>>

\* The export returns: its snapshot is gone and the lock, if it took it, free.
Return_KeepsLock(e) ==
    /\ ex' = [ex EXCEPT ![e] = Idle]
    /\ holder' = IF ex[e].locked /\ ex[e].pc # "list" THEN Nobody ELSE holder
    /\ listed' = [listed EXCEPT ![e] = {}]
    /\ read' = [read EXCEPT ![e] = {}]
    /\ known' = [known EXCEPT ![e] = [s \in Stories |-> NoIssue]]
    /\ todo' = [todo EXCEPT ![e] = {}]
    /\ made' = [made EXCEPT ![e] = NoIssue]
    /\ wires' = [wires EXCEPT ![e] = {}]
Return(e) ==
    /\ ex' = [ex EXCEPT ![e] = Idle]
    /\ holder' = IF ex[e].locked THEN Nobody ELSE holder
    /\ listed' = [listed EXCEPT ![e] = {}]
    /\ read' = [read EXCEPT ![e] = {}]
    /\ known' = [known EXCEPT ![e] = [s \in Stories |-> NoIssue]]
    /\ todo' = [todo EXCEPT ![e] = {}]
    /\ made' = [made EXCEPT ![e] = NoIssue]
    /\ wires' = [wires EXCEPT ![e] = {}]

\* numberFromRef: the number of a story exported before.
numberFromRef_New(s) == NoIssue
numberFromRef(s) == IF s \in live THEN ref[s] ELSE NoIssue

\* ListStoriesByProject; an empty backlog is an error.  Pass 0 (EnsureLabel for
\* each sprint, lane and epic) changes nothing the exports read: it may only Fail.
ListStories(e) ==
    /\ ex[e].pc = "list"
    /\ \/ /\ live = {}
          /\ Return(e)
       \/ /\ live # {}
          /\ listed' = [listed EXCEPT ![e] = live]
          /\ read' = [read EXCEPT ![e] = {w \in live \X live : w[2] \in deps[w[1]]}]
          /\ known' = [known EXCEPT ![e] = [s \in Stories |-> numberFromRef(s)]]
          /\ todo' = [todo EXCEPT ![e] = {s \in live : ref[s] = NoIssue}]
          /\ ex' = [ex EXCEPT ![e].pc = "issues"]
          /\ UNCHANGED <<holder, made, wires>>
    /\ UNCHANGED <<store, github, im, budgets, history>>

\* Pass 1 visits the stories in the order of their ids: s is next.
Visits(e, s) == s \in todo[e] /\ \A t \in todo[e] : s <= t

NewIssueFor(s) ==
    /\ issues < MaxIssues
    /\ issues' = issues + 1
    /\ madeFor' = [madeFor EXCEPT ![s] = @ \cup {issues + 1}]

\* Pass 1, a story without a ref: the issue is made ...
CreateIssue(e, s) ==
    /\ ex[e].pc = "issues" /\ Visits(e, s)
    /\ NewIssueFor(s)
    /\ made' = [made EXCEPT ![e] = issues + 1]
    /\ ex' = [ex EXCEPT ![e].pc = "record"]
    /\ UNCHANGED <<store, edges, holder, listed, read, known, todo, wires, im, budgets, orphans>>

\* ... or refused: the repository is full (the bound).
CreateIssueRefused(e) ==
    /\ ex[e].pc = "issues" /\ todo[e] # {}
    /\ issues = MaxIssues
    /\ Return(e)
    /\ UNCHANGED <<store, github, im, budgets, history>>

\* ... or made, and the answer lost: the export stops.
CreateIssueUnheard(e, s) ==
    /\ ex[e].pc = "issues" /\ Visits(e, s)
    /\ events < MaxEvents /\ events' = events + 1
    /\ NewIssueFor(s)
    /\ orphans' = orphans \cup {issues + 1}
    /\ Return(e)
    /\ UNCHANGED <<store, edges, im, started>>

\* SetStoryExternalRef's UPDATE: the row is there, has no other ref, and no
\* other story has this one (the UNIQUE index).
Taken(n) == \E s \in live : ref[s] = n
CanRecord(s, n) == s \in live /\ ref[s] \in {NoIssue, n} /\ (Taken(n) => ref[s] = n)

RecordRef(e, s) ==
    /\ ex[e].pc = "record" /\ Visits(e, s)
    /\ CanRecord(s, made[e])
    /\ ref' = [ref EXCEPT ![s] = made[e]]
    /\ known' = [known EXCEPT ![e][s] = made[e]]
    /\ todo' = [todo EXCEPT ![e] = @ \ {s}]
    /\ made' = [made EXCEPT ![e] = NoIssue]
    /\ ex' = [ex EXCEPT ![e].pc = "issues"]
    /\ UNCHANGED <<live, born, deps, github, holder, listed, read, wires, im, budgets, history>>

\* The UPDATE matched no row or met the index: the export stops, so that it
\* does not make the next issues.
RecordRefused(e, s) ==
    /\ ex[e].pc = "record" /\ Visits(e, s)
    /\ ~CanRecord(s, made[e])
    /\ orphans' = IF Taken(made[e]) THEN orphans \cup {made[e]} ELSE orphans
    /\ Return(e)
    /\ UNCHANGED <<store, github, im, budgets, madeFor>>

\* Pass 2 adds the edges whose two ends the export knows an issue of.
Wirable(e) == {w \in read[e] : known[e][w[1]] # NoIssue /\ known[e][w[2]] # NoIssue}

IssuesDone(e) ==
    /\ ex[e].pc = "issues" /\ todo[e] = {}
    /\ wires' = [wires EXCEPT ![e] = Wirable(e)]
    /\ ex' = [ex EXCEPT ![e].pc = "deps"]
    /\ UNCHANGED <<store, github, holder, listed, read, known, todo, made, im, budgets, history>>

\* IssueID for the blocker if its issue is an earlier export's, then
\* AddIssueBlockedBy: an edge that exists is no error.
AddIssueBlockedBy(e) ==
    /\ ex[e].pc = "deps" /\ wires[e] # {}
    /\ \E w \in wires[e] :
        /\ edges' = edges \cup {<<known[e][w[1]], known[e][w[2]]>>}
        /\ wires' = [wires EXCEPT ![e] = @ \ {w}]
    /\ UNCHANGED <<store, issues, holder, ex, listed, read, known, todo, made, im, budgets, history>>

Succeed(e) ==
    /\ ex[e].pc = "deps" /\ wires[e] = {}
    /\ Return(e)
    /\ UNCHANGED <<store, github, im, budgets, history>>

\* A read, write or call fails with nothing done, or the 10 minutes of the
\* export, which run while it waits for the lock too, are over: the export stops.
Fail(e) ==
    /\ Inside(e) /\ events < MaxEvents /\ events' = events + 1
    /\ orphans' = IF ex[e].pc = "record" THEN orphans \cup {made[e]} ELSE orphans
    /\ Return(e)
    /\ UNCHANGED <<store, github, im, started, madeFor>>

-----------------------------------------------------------------------------
(* An import. *)

\* importGitHub: ListIssues.
ImportList(i) ==
    /\ im[i].pc = "idle"
    /\ started < MaxExports /\ started' = started + 1
    /\ im' = [im EXCEPT ![i] = [pc |-> "check", todo |-> 1 .. issues]]
    /\ UNCHANGED <<store, github, exporter, events, history>>

\* The import visits the issues one after the other: n is next.
Reads(i, n) == n \in im[i].todo /\ \A m \in im[i].todo : n <= m

\* StoryIDByExternalRef: an issue some story mirrors is skipped.
ImportCheck(i, n) ==
    /\ im[i].pc = "check" /\ Reads(i, n)
    /\ im' = IF Taken(n) THEN [im EXCEPT ![i].todo = @ \ {n}]
                         ELSE [im EXCEPT ![i].pc = "insert"]
    /\ UNCHANGED <<store, github, exporter, budgets, history>>

\* CreateStory; a UNIQUE violation, of the ref or of the id, is a skip too.
ImportInsert(i, n) ==
    /\ im[i].pc = "insert" /\ Reads(i, n)
    /\ im' = [im EXCEPT ![i] = [pc |-> "check", todo |-> im[i].todo \ {n}]]
    /\ IF ~Taken(n) /\ Offset + n \notin live
       THEN /\ live' = live \cup {Offset + n} /\ born' = born \cup {Offset + n}
            /\ ref' = [ref EXCEPT ![Offset + n] = n]
       ELSE UNCHANGED <<live, born, ref>>
    /\ UNCHANGED <<deps, github, exporter, budgets, history>>

ImportEnds(i) ==
    /\ im[i].pc = "check" /\ im[i].todo = {}
    /\ im' = [im EXCEPT ![i].pc = "idle"]
    /\ UNCHANGED <<store, github, exporter, budgets, history>>

\* A person opens an issue on GitHub: it mirrors no story.
OpenIssue ==
    /\ issues < MaxIssues /\ events < MaxEvents
    /\ issues' = issues + 1 /\ events' = events + 1
    /\ UNCHANGED <<store, edges, exporter, im, started, history>>

\* The control plane restarts: goroutines, requests and locks are gone.
Restart ==
    /\ events < MaxEvents /\ events' = events + 1
    /\ orphans' = orphans \cup {made[e] : e \in {f \in Exporters : ex[f].pc = "record"}}
    /\ ex' = [e \in Exporters |-> Idle]
    /\ holder' = Nobody
    /\ listed' = [e \in Exporters |-> {}]
    /\ read' = [e \in Exporters |-> {}]
    /\ known' = [e \in Exporters |-> [s \in Stories |-> NoIssue]]
    /\ todo' = [e \in Exporters |-> {}]
    /\ made' = [e \in Exporters |-> NoIssue]
    /\ wires' = [e \in Exporters |-> {}]
    /\ im' = [i \in Importers |-> [pc |-> "idle", todo |-> {}]]
    /\ UNCHANGED <<store, github, started, madeFor>>

-----------------------------------------------------------------------------
Export(e) ==
    \/ ListStories(e)
    \/ \E s \in todo[e] :
        CreateIssue(e, s) \/ CreateIssueUnheard(e, s) \/ RecordRef(e, s) \/ RecordRefused(e, s)
    \/ CreateIssueRefused(e)
    \/ IssuesDone(e) \/ AddIssueBlockedBy(e) \/ Succeed(e) \/ Fail(e)

Next ==
    \/ \E s \in Planned, D \in SUBSET live : PublishStory(s, D) \/ \E e \in Exporters : CreateStory(s, D, e)
    \/ \E s \in Stories : DeleteStory(s) \/ \E D \in SUBSET live : EditDeps(s, D)
    \/ \E e \in Exporters : Acquire(e) \/ Export(e) \/ \E k \in Kinds : Start(e, k)
    \/ \E i \in Importers : 
        \/ ImportList(i) \/ ImportEnds(i)
        \/ \E n \in im[i].todo : ImportCheck(i, n) \/ ImportInsert(i, n)
    \/ OpenIssue
    \/ Restart

Spec == Init /\ [][Next]_vars

\* A goroutine goes on: its calls return or time out.  sync.Mutex hands the lock
\* to a goroutine that has waited long enough, so a waiter that finds it free
\* again and again gets it.
Fairness == \A e \in Exporters : WF_vars(Export(e)) /\ SF_vars(Acquire(e))

LiveSpec == Spec /\ Fairness

-----------------------------------------------------------------------------
TypeOK ==
    /\ live \subseteq Stories
    /\ ref \in [Stories -> 0 .. MaxIssues]
    /\ holder \in Exporters \cup {Nobody}
    /\ \A e \in Exporters : made[e] \in 0 .. issues /\ todo[e] \subseteq listed[e]

\* costura.go 23-28: "el segundo re-lee el store, ve el external_ref ya estampado
\* y la salta".  A story has one issue, however many exports, hooks, imports and
\* restarts cross -- but for the issues whose number the program lost (an answer
\* or a process died between the making and the record) or an import took.
OneIssuePerStory == \A s \in live : Cardinality(madeFor[s] \ orphans) <= 1

\* An export that reports success left every story it read, if it was not deleted
\* meanwhile, with a ref, and every dependency it read between two of them on
\* GitHub, whoever edited, deleted or imported beside it.
SuccessMeansMirrored ==
    [][\A e \in Exporters :
        Succeed(e) =>
            LET kept == listed[e] \cap live'
            IN  /\ \A s \in kept : ref'[s] # NoIssue
                /\ \A w \in read[e] \cap (kept \X kept) : <<ref'[w[1]], ref'[w[2]]>> \in edges']_vars

\* Every export ends, those that wait behind another one too: no failure keeps
\* the project's lock.
EveryExportEnds == \A e \in Exporters : ex[e].pc = "lock" ~> ex[e].pc = "idle"

=============================================================================
