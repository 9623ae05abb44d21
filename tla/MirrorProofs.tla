----------------------------- MODULE MirrorProofs -----------------------------
(****************************************************************************)
(* Without the export of the whole backlog, which takes no lock, at most    *)
(* one export works at a time, and so a story has one issue; and, with it   *)
(* too, success means mirrored -- for every set of stories and exporters    *)
(* and every bound.                                                         *)
(****************************************************************************)
EXTENDS Mirror, FiniteSetTheorems, TLAPS

Pcs == {"idle", "lock", "list", "issues", "record", "deps"}

Types ==
    /\ live \subseteq born /\ born \subseteq Stories
    /\ ref \in [Stories -> Nat]
    /\ issues \in 0 .. MaxIssues
    /\ ex \in [Exporters -> [pc : Pcs, locked : BOOLEAN]]
    /\ todo \in [Exporters -> SUBSET Stories]
    /\ made \in [Exporters -> Nat]
    /\ im \in [Importers -> [pc : {"idle", "check", "insert"}, todo : SUBSET (1 .. issues)]]
    /\ madeFor \in [Stories -> SUBSET (1 .. issues)]
    /\ orphans \subseteq Nat

\* Whoever works has the lock, and nobody else thinks it has.
LockIsHeld ==
    \A e \in Exporters : (Inside(e) => ex[e].locked) /\ (ex[e].locked => holder = e)

\* What an export still has to visit has no ref, and is no imported story.
TodoUnref ==
    \A e \in Exporters :
        /\ ~Inside(e) => todo[e] = {}
        /\ todo[e] \subseteq Planned \cap born
        /\ \A s \in todo[e] \cap live : ref[s] = NoIssue

RefsOfRows ==
    \A s \in Stories :
        /\ s \notin live => ref[s] = NoIssue
        /\ s \in live \ Planned => ref[s] # NoIssue
        /\ s \notin Planned \cap born => madeFor[s] = {}

InHand(s, n) == \E e \in Exporters : ex[e].pc = "record" /\ Visits(e, s) /\ made[e] = n

\* An issue made for a story and not lost is its ref, or about to be.
MadeIsKnown ==
    \A s \in live : \A n \in madeFor[s] \ orphans :
        IF ref[s] = NoIssue THEN InHand(s, n) ELSE n = ref[s]

MadeIsAnIssue == \A e \in Exporters : ex[e].pc = "record" => made[e] \in 1 .. issues

IInv == Types /\ LockIsHeld /\ TodoUnref /\ RefsOfRows /\ MadeIsKnown /\ MadeIsAnIssue

MutualExclusion == \A e, f \in Exporters : Inside(e) /\ Inside(f) => e = f

-----------------------------------------------------------------------------
LEMMA StoriesAreNumbers ==
  Stories \subseteq Nat /\ \A n \in Numbers : Offset + n \in Stories \ Planned
<1>1. MaxIssues \in Nat /\ Offset \in Nat /\ Planned \subseteq Nat
  BY MirrorAssumption
<1>2. \A n \in Numbers : Offset + n \in Nat /\ Offset + n > Offset
  BY <1>1 DEF Numbers
<1>3. \A n \in Numbers : Offset + n \notin Planned
  BY <1>1, <1>2, MirrorAssumption
<1> QED
  BY <1>1, <1>2, <1>3 DEF Stories

\* Only one story is next, and only one export works.
LEMMA OneInHand ==
  ASSUME IInv, NEW e \in Exporters, NEW s \in Stories, Visits(e, s),
         NEW f \in Exporters, NEW t \in Stories, Visits(f, t), Inside(e), Inside(f)
  PROVE  e = f /\ s = t
<1>1. e = f
  BY DEF IInv, LockIsHeld
<1>2. s \in Nat /\ t \in Nat /\ s <= t /\ t <= s
  BY <1>1, StoriesAreNumbers DEF Visits
<1> QED
  BY <1>1, <1>2

LEMMA InitIInv == "bulk" \notin Callers /\ Init => IInv
  BY MirrorAssumption DEF Init, IInv, Types, LockIsHeld, TodoUnref, RefsOfRows, MadeIsKnown,
     MadeIsAnIssue, Inside, Idle, Pcs, Numbers, NoIssue

-----------------------------------------------------------------------------
(* A new story, a deleted one, an import. *)

LEMMA NewStoryIInv ==
  ASSUME IInv, NEW s \in Planned, NEW D \in SUBSET live,
         PublishStory(s, D) \/ (\E e \in Exporters : CreateStory(s, D, e))
  PROVE  IInv'
<1>1. /\ s \notin born /\ s \in Stories
      /\ live' = live \cup {s} /\ born' = born \cup {s}
      /\ UNCHANGED <<ref, github, holder, todo, made, im, history>>
  BY DEF PublishStory, CreateStory, exporter, store, history, github, Stories
<1>2. /\ ex' \in [Exporters -> [pc : Pcs, locked : BOOLEAN]]
      /\ \A e \in Exporters :
           ex'[e] = ex[e] \/ (ex[e].pc = "idle" /\ ex'[e] = [pc |-> "lock", locked |-> FALSE])
  <2>1. CASE PublishStory(s, D)
    BY <2>1 DEF PublishStory, exporter, IInv, Types
  <2>2. ASSUME NEW e \in Exporters, CreateStory(s, D, e)  PROVE <1>2!:
    <3>1. ex[e].pc = "idle" /\ ex' = [ex EXCEPT ![e] = [pc |-> "lock", locked |-> FALSE]]
      BY <2>2 DEF CreateStory, Starts, TakesLock
    <3>2. [pc |-> "lock", locked |-> FALSE] \in [pc : Pcs, locked : BOOLEAN]
      BY DEF Pcs
    <3> QED
      BY <3>1, <3>2 DEF IInv, Types
  <2> QED
    BY <2>1, <2>2
<1>3. Types'
  BY <1>1, <1>2 DEF IInv, Types, github, history
<1>4. LockIsHeld' /\ TodoUnref'
  BY <1>1, <1>2 DEF IInv, Types, LockIsHeld, TodoUnref, Inside, RefsOfRows
<1>5. RefsOfRows'
  BY <1>1 DEF IInv, RefsOfRows, Types, history
<1>6. MadeIsKnown' /\ MadeIsAnIssue'
  BY <1>1, <1>2 DEF IInv, Types, MadeIsKnown, MadeIsAnIssue, InHand, Visits, RefsOfRows, history, github
<1> QED
  BY <1>3, <1>4, <1>5, <1>6 DEF IInv

LEMMA DeleteIInv ==
  ASSUME IInv, NEW s \in Stories, DeleteStory(s)
  PROVE  IInv'
<1>1. /\ s \in live /\ live' = live \ {s} /\ ref' = [ref EXCEPT ![s] = NoIssue]
      /\ UNCHANGED <<born, github, exporter, im, history>>
  BY DEF DeleteStory
<1>2. Types'
  BY <1>1 DEF IInv, Types, github, exporter, history, NoIssue
<1>3. LockIsHeld' /\ TodoUnref'
  BY <1>1 DEF IInv, Types, LockIsHeld, TodoUnref, Inside, exporter
<1>4. RefsOfRows'
  BY <1>1 DEF IInv, Types, RefsOfRows, history
<1>5. MadeIsKnown' /\ MadeIsAnIssue'
  BY <1>1 DEF IInv, Types, MadeIsKnown, MadeIsAnIssue, InHand, Visits, exporter, history, github
<1> QED
  BY <1>2, <1>3, <1>4, <1>5 DEF IInv

LEMMA EditIInv ==
  ASSUME IInv, NEW s \in Stories, NEW D \in SUBSET live, EditDeps(s, D)
  PROVE  IInv'
<1>1. UNCHANGED <<live, born, ref, github, exporter, im, history>>
  BY DEF EditDeps
<1> QED
  BY <1>1
  DEF IInv, Types, LockIsHeld, TodoUnref, RefsOfRows, MadeIsKnown, MadeIsAnIssue, InHand, Visits,
      Inside, github, exporter, history

Import(i) ==
  ImportList(i) \/ ImportEnds(i) \/ \E n \in im[i].todo : ImportCheck(i, n) \/ ImportInsert(i, n)

\* What an import's own state stays.
LEMMA ImportState ==
  ASSUME IInv, NEW i \in Importers, Import(i)
  PROVE  im' \in [Importers -> [pc : {"idle", "check", "insert"}, todo : SUBSET (1 .. issues)]]
<1> DEFINE R == [pc : {"idle", "check", "insert"}, todo : SUBSET (1 .. issues)]
<1>1. im \in [Importers -> R] /\ im[i] \in R
  BY DEF IInv, Types
<1>2. CASE ImportList(i)
  BY <1>1, <1>2 DEF ImportList
<1>3. ASSUME NEW n \in im[i].todo, ImportCheck(i, n)  PROVE im' \in [Importers -> R]
  BY <1>1, <1>3 DEF ImportCheck
<1>4. ASSUME NEW n \in im[i].todo, ImportInsert(i, n)  PROVE im' \in [Importers -> R]
  BY <1>1, <1>4 DEF ImportInsert
<1>5. CASE ImportEnds(i)
  BY <1>1, <1>5 DEF ImportEnds
<1> QED
  BY <1>2, <1>3, <1>4, <1>5 DEF Import

LEMMA ImportIInv ==
  ASSUME IInv, NEW i \in Importers, Import(i)
  PROVE  IInv'
<1>1. UNCHANGED <<deps, github, exporter, events, history>>
  BY DEF Import, ImportList, ImportCheck, ImportInsert, ImportEnds, store, budgets
<1>2. CASE UNCHANGED store
  BY <1>1, <1>2, ImportState
  DEF IInv, Types, LockIsHeld, TodoUnref, RefsOfRows, MadeIsKnown, MadeIsAnIssue, InHand, Visits,
      Inside, store, github, exporter, history
<1>3. CASE ~UNCHANGED store
  <2>1. PICK n \in im[i].todo : /\ live' = live \cup {Offset + n} /\ born' = born \cup {Offset + n}
                                /\ ref' = [ref EXCEPT ![Offset + n] = n]
    BY <1>1, <1>3 DEF Import, ImportList, ImportCheck, ImportInsert, ImportEnds, store
  <2>2. n \in 1 .. issues /\ n \in Numbers
    <3>1. MaxIssues \in Nat /\ issues \in 0 .. MaxIssues /\ im[i].todo \subseteq 1 .. issues
      BY MirrorAssumption DEF IInv, Types
    <3> QED
      BY <3>1 DEF Numbers
  <2>3. Offset + n \in Stories \ Planned /\ n # NoIssue /\ n \in Nat
    BY <2>2, StoriesAreNumbers DEF NoIssue
  <2>4. Types'
    BY <1>1, <2>1, <2>3, ImportState DEF IInv, Types, github, exporter, history
  <2>5. LockIsHeld' /\ TodoUnref'
    BY <1>1, <2>1, <2>3 DEF IInv, Types, LockIsHeld, TodoUnref, Inside, exporter
  <2>6. RefsOfRows'
    BY <1>1, <2>1, <2>3 DEF IInv, Types, RefsOfRows, history
  <2>7. MadeIsKnown' /\ MadeIsAnIssue'
    BY <1>1, <2>1, <2>3
    DEF IInv, Types, MadeIsKnown, MadeIsAnIssue, InHand, Visits, RefsOfRows, exporter, history, github
  <2> QED
    BY <2>4, <2>5, <2>6, <2>7 DEF IInv
<1> QED
  BY <1>2, <1>3

-----------------------------------------------------------------------------
(* An export. *)

LEMMA AcquireIInv ==
  ASSUME IInv, NEW e \in Exporters, Acquire(e)
  PROVE  IInv'
<1>1. /\ ex[e].pc = "lock" /\ holder = Nobody /\ holder' = e /\ Nobody \notin Exporters
      /\ UNCHANGED <<store, github, todo, made, im, history>>
  BY MirrorAssumption DEF Acquire
<1>2. /\ ex' \in [Exporters -> [pc : Pcs, locked : BOOLEAN]]
      /\ ex'[e] = [pc |-> "list", locked |-> TRUE]
      /\ \A f \in Exporters \ {e} : ex'[f] = ex[f]
  BY DEF Acquire, IInv, Types, Pcs
<1>3. Types' /\ RefsOfRows'
  BY <1>1, <1>2 DEF IInv, Types, RefsOfRows, store, github, history
<1>4. LockIsHeld' /\ TodoUnref'
  BY <1>1, <1>2 DEF IInv, LockIsHeld, TodoUnref, Inside, store
<1>5. MadeIsKnown' /\ MadeIsAnIssue'
  BY <1>1, <1>2 DEF IInv, MadeIsKnown, MadeIsAnIssue, InHand, Visits, store, history, github
<1> QED
  BY <1>3, <1>4, <1>5 DEF IInv

LEMMA StartIInv ==
  ASSUME IInv, "bulk" \notin Callers, NEW e \in Exporters, NEW k \in Kinds, Start(e, k)
  PROVE  IInv'
<1>1. /\ ex[e].pc = "idle" /\ ex' = [ex EXCEPT ![e] = [pc |-> "lock", locked |-> FALSE]]
      /\ UNCHANGED <<store, github, holder, todo, made, im, history>>
  BY DEF Start, Starts, TakesLock
<1>2. /\ ex' \in [Exporters -> [pc : Pcs, locked : BOOLEAN]]
      /\ ex'[e] = [pc |-> "lock", locked |-> FALSE]
      /\ \A f \in Exporters \ {e} : ex'[f] = ex[f]
  BY <1>1 DEF IInv, Types, Pcs
<1>3. Types' /\ RefsOfRows'
  BY <1>1, <1>2 DEF IInv, Types, RefsOfRows, store, github, history
<1>4. LockIsHeld' /\ TodoUnref'
  BY <1>1, <1>2 DEF IInv, LockIsHeld, TodoUnref, Inside, store
<1>5. MadeIsKnown' /\ MadeIsAnIssue'
  BY <1>1, <1>2 DEF IInv, MadeIsKnown, MadeIsAnIssue, InHand, Visits, store, history, github
<1> QED
  BY <1>3, <1>4, <1>5 DEF IInv

\* An export that returns leaves the invariant, if the issue it had in hand is
\* a lost one or its story is gone.
LEMMA ReturnIInv ==
  ASSUME IInv, NEW e \in Exporters, Inside(e), Return(e), UNCHANGED <<store, im>>,
         issues' \in issues .. MaxIssues,
         orphans' \in SUBSET Nat,
         madeFor' \in [Stories -> SUBSET (1 .. issues')],
         \A s \in Stories : madeFor'[s] \ orphans' \subseteq madeFor[s] \ orphans,
         \A s \in Stories \ (Planned \cap born) : madeFor'[s] = {},
         \A s \in live : ex[e].pc = "record" /\ Visits(e, s) => made[e] \notin madeFor'[s] \ orphans'
  PROVE  IInv'
<1>1. /\ ex' \in [Exporters -> [pc : Pcs, locked : BOOLEAN]]
      /\ ex'[e] = Idle
      /\ \A f \in Exporters \ {e} : ex'[f] = ex[f]
      /\ made' \in [Exporters -> Nat] /\ \A f \in Exporters \ {e} : made'[f] = made[f]
      /\ todo' \in [Exporters -> SUBSET Stories] /\ \A f \in Exporters \ {e} : todo'[f] = todo[f]
      /\ todo'[e] = {}
      /\ holder' = Nobody /\ holder = e
  BY DEF Return, IInv, Types, Pcs, Idle, LockIsHeld, NoIssue
<1>2. 0 .. issues \subseteq 0 .. issues' /\ issues' \in 0 .. MaxIssues
  BY MirrorAssumption DEF IInv, Types
<1>3. im' \in [Importers -> [pc : {"idle", "check", "insert"}, todo : SUBSET (1 .. issues')]]
  <2>1. \A i \in Importers : im[i] \in [pc : {"idle", "check", "insert"}, todo : SUBSET (1 .. issues')]
    BY <1>2 DEF IInv, Types
  <2> QED
    BY <2>1 DEF IInv, Types
<1>4. Types'
  BY <1>1, <1>2, <1>3 DEF IInv, Types, store
<1>5. LockIsHeld' /\ TodoUnref' /\ RefsOfRows'
  <2>1. LockIsHeld'
    BY <1>1 DEF IInv, LockIsHeld, Inside, Idle
  <2>2. TodoUnref'
    BY <1>1 DEF IInv, TodoUnref, Inside, store
  <2>3. RefsOfRows'
    BY DEF IInv, RefsOfRows, store
  <2> QED
    BY <2>1, <2>2, <2>3
<1>6. \A f \in Exporters : ~Inside(f)'
  BY <1>1 DEF IInv, LockIsHeld, Inside, Idle
<1>7. MadeIsKnown'
  <2> SUFFICES ASSUME NEW s \in live, NEW n \in madeFor'[s] \ orphans'  PROVE ref[s] # NoIssue /\ n = ref[s]
    BY DEF MadeIsKnown, store
  <2>1. s \in Stories /\ n \in madeFor[s] \ orphans
    BY DEF IInv, Types
  <2>2. ~InHand(s, n)
    BY DEF InHand, IInv, LockIsHeld, Inside
  <2> QED
    BY <2>1, <2>2 DEF IInv, MadeIsKnown
<1>8. MadeIsAnIssue'
  BY <1>6 DEF MadeIsAnIssue, Inside
<1> QED
  BY <1>4, <1>5, <1>7, <1>8 DEF IInv

LEMMA ListIInv ==
  ASSUME IInv, NEW e \in Exporters, ListStories(e), live # {}
  PROVE  IInv'
<1>1. /\ ex[e].pc = "list" /\ ex' = [ex EXCEPT ![e].pc = "issues"]
      /\ todo' = [todo EXCEPT ![e] = {s \in live : ref[s] = NoIssue}]
      /\ UNCHANGED <<store, github, holder, made, im, history>>
  BY DEF ListStories
<1>2. /\ ex' \in [Exporters -> [pc : Pcs, locked : BOOLEAN]]
      /\ ex'[e].pc = "issues" /\ ex'[e].locked = ex[e].locked
      /\ \A f \in Exporters \ {e} : ex'[f] = ex[f]
      /\ todo' \in [Exporters -> SUBSET Stories] /\ \A f \in Exporters \ {e} : todo'[f] = todo[f]
      /\ todo'[e] = {s \in live : ref[s] = NoIssue}
  BY <1>1 DEF IInv, Types, Pcs
<1>3. Types' /\ RefsOfRows'
  BY <1>1, <1>2 DEF IInv, Types, RefsOfRows, store, github, history
<1>4. LockIsHeld'
  BY <1>1, <1>2 DEF IInv, LockIsHeld, Inside
<1>5. TodoUnref'
  BY <1>1, <1>2 DEF IInv, Types, TodoUnref, RefsOfRows, Inside, store
<1>6. MadeIsKnown' /\ MadeIsAnIssue'
  BY <1>1, <1>2 DEF IInv, MadeIsKnown, MadeIsAnIssue, InHand, Visits, store, history, github
<1> QED
  BY <1>3, <1>4, <1>5, <1>6 DEF IInv

LEMMA CreateIInv ==
  ASSUME IInv, NEW e \in Exporters, NEW s \in todo[e], CreateIssue(e, s)
  PROVE  IInv'
<1>1. /\ ex[e].pc = "issues" /\ Visits(e, s) /\ s \in Stories /\ issues < MaxIssues
      /\ issues' = issues + 1 /\ issues' \in 1 .. MaxIssues /\ issues \in 0 .. MaxIssues
      /\ UNCHANGED <<store, holder, todo, im, orphans>>
  BY MirrorAssumption DEF CreateIssue, NewIssueFor, IInv, Types
<1>2. /\ ex' \in [Exporters -> [pc : Pcs, locked : BOOLEAN]]
      /\ ex'[e].pc = "record" /\ ex'[e].locked = ex[e].locked
      /\ \A f \in Exporters \ {e} : ex'[f] = ex[f]
      /\ made' \in [Exporters -> Nat] /\ made'[e] = issues'
      /\ \A f \in Exporters \ {e} : made'[f] = made[f]
  BY <1>1 DEF CreateIssue, IInv, Types, Pcs
<1>3. /\ madeFor' \in [Stories -> SUBSET (1 .. issues')]
      /\ madeFor'[s] = madeFor[s] \cup {issues'}
      /\ \A t \in Stories \ {s} : madeFor'[t] = madeFor[t]
  <2>1. 1 .. issues \subseteq 1 .. issues' /\ issues' \in 1 .. issues'
    BY <1>1, MirrorAssumption
  <2>2. madeFor' = [madeFor EXCEPT ![s] = madeFor[s] \cup {issues'}]
    BY <1>1 DEF CreateIssue, NewIssueFor
  <2> QED
    BY <1>1, <2>1, <2>2 DEF IInv, Types
<1>4. im' \in [Importers -> [pc : {"idle", "check", "insert"}, todo : SUBSET (1 .. issues')]]
  <2>1. 1 .. issues \subseteq 1 .. issues'
    BY <1>1, MirrorAssumption
  <2>2. \A i \in Importers : im[i] \in [pc : {"idle", "check", "insert"}, todo : SUBSET (1 .. issues')]
    BY <2>1 DEF IInv, Types
  <2> QED
    BY <1>1, <2>2 DEF IInv, Types
<1>5. Types'
  BY <1>1, <1>2, <1>3, <1>4 DEF IInv, Types, store
<1>6. LockIsHeld'
  BY <1>1, <1>2 DEF IInv, LockIsHeld, Inside
<1>7. TodoUnref'
  BY <1>1, <1>2 DEF IInv, Types, TodoUnref, Inside, store
<1>8. RefsOfRows'
  BY <1>1, <1>3 DEF IInv, RefsOfRows, TodoUnref, store
<1>9. MadeIsKnown'
  <2> SUFFICES ASSUME NEW t \in live, NEW n \in madeFor'[t] \ orphans
               PROVE  IF ref[t] = NoIssue THEN InHand(t, n)' ELSE n = ref[t]
    BY <1>1 DEF MadeIsKnown, store
  <2>1. t \in Stories
    BY DEF IInv, Types
  <2>2. ~InHand(t, n)
    BY <1>1 DEF InHand, IInv, LockIsHeld, Inside
  <2>3. CASE n \in madeFor[t]
    BY <2>1, <2>2, <2>3 DEF IInv, MadeIsKnown
  <2>4. CASE n \notin madeFor[t]
    <3>1. t = s /\ n = issues'
      BY <1>3, <2>1, <2>4
    <3>2. ref[s] = NoIssue
      BY <3>1 DEF IInv, TodoUnref
    <3> QED
      BY <1>1, <1>2, <3>1, <3>2 DEF InHand, Visits
  <2> QED
    BY <2>3, <2>4
<1>10. MadeIsAnIssue'
  <2>1. \A f \in Exporters \ {e} : ex[f].pc # "record"
    BY <1>1 DEF IInv, LockIsHeld, Inside
  <2> QED
    BY <1>1, <1>2, <2>1, MirrorAssumption DEF MadeIsAnIssue
<1> QED
  BY <1>5, <1>6, <1>7, <1>8, <1>9, <1>10 DEF IInv

LEMMA RecordIInv ==
  ASSUME IInv, NEW e \in Exporters, NEW s \in todo[e], RecordRef(e, s)
  PROVE  IInv'
<1>1. /\ ex[e].pc = "record" /\ Visits(e, s) /\ s \in live /\ s \in Stories
      /\ ref' = [ref EXCEPT ![s] = made[e]] /\ made[e] \in 1 .. issues
      /\ UNCHANGED <<live, born, github, holder, im, history>>
  BY DEF RecordRef, CanRecord, IInv, Types, MadeIsAnIssue
<1>2. made[e] # NoIssue /\ made[e] \in Nat /\ ref[s] = NoIssue
  BY <1>1, MirrorAssumption DEF IInv, Types, TodoUnref, NoIssue
<1>3. /\ ex' \in [Exporters -> [pc : Pcs, locked : BOOLEAN]]
      /\ ex'[e].pc = "issues" /\ ex'[e].locked = ex[e].locked
      /\ \A f \in Exporters \ {e} : ex'[f] = ex[f]
      /\ made' \in [Exporters -> Nat] /\ \A f \in Exporters \ {e} : made'[f] = made[f]
      /\ todo' \in [Exporters -> SUBSET Stories] /\ \A f \in Exporters \ {e} : todo'[f] = todo[f]
      /\ todo'[e] = todo[e] \ {s}
  BY <1>1 DEF RecordRef, IInv, Types, Pcs, NoIssue
<1>4. Types' /\ RefsOfRows'
  BY <1>1, <1>2, <1>3 DEF IInv, Types, RefsOfRows, github, history
<1>5. LockIsHeld'
  BY <1>1, <1>3 DEF IInv, LockIsHeld, Inside
<1>6. \A f \in Exporters \ {e} : ~Inside(f) /\ todo[f] = {}
  BY <1>1 DEF IInv, LockIsHeld, TodoUnref, Inside
<1>7. TodoUnref'
  BY <1>1, <1>3, <1>6 DEF IInv, Types, TodoUnref, Inside
<1>8. MadeIsKnown'
  <2> SUFFICES ASSUME NEW t \in live, NEW n \in madeFor[t] \ orphans
               PROVE  ref'[t] # NoIssue /\ n = ref'[t]
    BY <1>1 DEF MadeIsKnown, history
  <2>1. t \in Stories /\ InHand(t, n) => t = s /\ n = made[e]
    BY <1>1, <1>6, OneInHand DEF InHand, Inside
  <2> QED
    BY <1>1, <1>2, <2>1 DEF IInv, Types, MadeIsKnown
<1>9. MadeIsAnIssue'
  BY <1>3, <1>6, <1>1 DEF MadeIsAnIssue, Inside, github
<1> QED
  BY <1>4, <1>5, <1>7, <1>8, <1>9 DEF IInv

\* The exports that return without an issue of theirs: an empty backlog, a
\* refused call, success.
LEMMA EndIInv ==
  ASSUME IInv, NEW e \in Exporters,
         (ListStories(e) /\ live = {}) \/ CreateIssueRefused(e) \/ Succeed(e)
  PROVE  IInv'
<1>1. Inside(e) /\ ex[e].pc # "record" /\ Return(e) /\ UNCHANGED <<store, github, im, history>>
  BY DEF ListStories, CreateIssueRefused, Succeed, Inside
<1>2. issues' \in issues .. MaxIssues /\ orphans' \in SUBSET Nat /\ madeFor' \in [Stories -> SUBSET (1 .. issues')]
  BY <1>1, MirrorAssumption DEF IInv, Types, github, history
<1> QED
  BY <1>1, <1>2, ReturnIInv DEF IInv, RefsOfRows, history

\* The exports that return with one: its number is lost, or its story is gone.
LEMMA FailIInv ==
  ASSUME IInv, NEW e \in Exporters, Fail(e) \/ \E s \in todo[e] : RecordRefused(e, s)
  PROVE  IInv'
<1>1. /\ Inside(e) /\ Return(e) /\ UNCHANGED <<store, github, im, madeFor>>
      /\ orphans \subseteq orphans' /\ orphans' \subseteq orphans \cup {made[e]}
  BY DEF Fail, RecordRefused, Inside
<1>2. issues' \in issues .. MaxIssues /\ orphans' \in SUBSET Nat /\ madeFor' \in [Stories -> SUBSET (1 .. issues')]
  BY <1>1, MirrorAssumption DEF IInv, Types, github
<1>3. ASSUME NEW s \in live, ex[e].pc = "record", Visits(e, s)  PROVE made[e] \in orphans'
  <2>1. CASE Fail(e)
    BY <1>3, <2>1 DEF Fail
  <2>2. ASSUME NEW t \in todo[e], RecordRefused(e, t)  PROVE made[e] \in orphans'
    <3>1. s = t
      BY <1>1, <1>3, <2>2, OneInHand DEF RecordRefused, IInv, Types
    <3>2. ref[s] = NoIssue
      BY <1>3 DEF IInv, TodoUnref, Visits
    <3>3. Taken(made[e])
      BY <2>2, <3>1, <3>2 DEF RecordRefused, CanRecord
    <3> QED
      BY <2>2, <3>3 DEF RecordRefused
  <2> QED
    BY <2>1, <2>2
<1> QED
  BY <1>1, <1>2, <1>3, ReturnIInv DEF IInv, RefsOfRows

LEMMA UnheardIInv ==
  ASSUME IInv, NEW e \in Exporters, NEW s \in todo[e], CreateIssueUnheard(e, s)
  PROVE  IInv'
<1>1. /\ Inside(e) /\ ex[e].pc # "record" /\ Return(e) /\ UNCHANGED <<store, im>>
      /\ s \in Planned \cap born /\ s \in Stories /\ issues \in 0 .. MaxIssues /\ issues < MaxIssues
      /\ issues' = issues + 1 /\ orphans' = orphans \cup {issues'}
      /\ madeFor' = [madeFor EXCEPT ![s] = madeFor[s] \cup {issues'}]
  BY DEF CreateIssueUnheard, NewIssueFor, Inside, IInv, Types, TodoUnref
<1>2. issues' \in issues .. MaxIssues /\ 1 .. issues \subseteq 1 .. issues' /\ issues' \in 1 .. issues'
  BY <1>1, MirrorAssumption
<1>3. orphans' \in SUBSET Nat
  BY <1>1, <1>2 DEF IInv, Types
<1>4. madeFor' \in [Stories -> SUBSET (1 .. issues')]
  BY <1>1, <1>2 DEF IInv, Types
<1>5. \A t \in Stories : madeFor'[t] \ orphans' \subseteq madeFor[t] \ orphans
  BY <1>1 DEF IInv, Types
<1>6. \A t \in Stories \ (Planned \cap born) : madeFor'[t] = {}
  BY <1>1 DEF IInv, Types, RefsOfRows
<1> QED
  BY <1>1, <1>2, <1>3, <1>4, <1>5, <1>6, ReturnIInv

LEMMA DepsIInv ==
  ASSUME IInv, NEW e \in Exporters, IssuesDone(e) \/ AddIssueBlockedBy(e)
  PROVE  IInv'
<1>1. UNCHANGED <<store, issues, holder, todo, made, im, history>>
  BY DEF IssuesDone, AddIssueBlockedBy, github
<1>2. /\ ex' \in [Exporters -> [pc : Pcs, locked : BOOLEAN]]
      /\ ex'[e].locked = ex[e].locked /\ Inside(e) /\ Inside(e)'
      /\ ex[e].pc # "record" /\ ex'[e].pc # "record"
      /\ \A f \in Exporters \ {e} : ex'[f] = ex[f]
  <2>1. ex \in [Exporters -> [pc : Pcs, locked : BOOLEAN]] /\ "deps" \in Pcs
    BY DEF IInv, Types, Pcs
  <2>2. CASE IssuesDone(e)
    <3>1. ex[e].pc = "issues" /\ ex' = [ex EXCEPT ![e].pc = "deps"]
      BY <2>2 DEF IssuesDone
    <3> HIDE <2>2
    <3> QED
      BY <2>1, <3>1 DEF Inside
  <2>3. CASE AddIssueBlockedBy(e)
    BY <2>1, <2>3 DEF AddIssueBlockedBy, Inside
  <2> QED
    BY <2>2, <2>3
<1>3. Types' /\ RefsOfRows'
  BY <1>1, <1>2 DEF IInv, Types, RefsOfRows, store, history
<1>4. LockIsHeld' /\ TodoUnref'
  BY <1>1, <1>2 DEF IInv, LockIsHeld, TodoUnref, Inside, store
<1>5. MadeIsKnown' /\ MadeIsAnIssue'
  BY <1>1, <1>2 DEF IInv, MadeIsKnown, MadeIsAnIssue, InHand, Visits, store, history
<1> QED
  BY <1>3, <1>4, <1>5 DEF IInv

LEMMA OpenIInv ==
  ASSUME IInv, OpenIssue
  PROVE  IInv'
<1>1. issues' \in 0 .. MaxIssues /\ 1 .. issues \subseteq 1 .. issues' /\ UNCHANGED <<store, exporter, im, history>>
  BY MirrorAssumption DEF OpenIssue, IInv, Types
<1>2. im' \in [Importers -> [pc : {"idle", "check", "insert"}, todo : SUBSET (1 .. issues')]]
  <2>1. \A i \in Importers : im[i] \in [pc : {"idle", "check", "insert"}, todo : SUBSET (1 .. issues')]
    BY <1>1 DEF IInv, Types
  <2> QED
    BY <1>1, <2>1 DEF IInv, Types
<1>3. madeFor' \in [Stories -> SUBSET (1 .. issues')]
  BY <1>1 DEF IInv, Types, history
<1>4. Types'
  BY <1>1, <1>2, <1>3 DEF IInv, Types, store, exporter, history
<1> QED
  BY <1>1, <1>4
  DEF IInv, LockIsHeld, TodoUnref, RefsOfRows, MadeIsKnown, MadeIsAnIssue, InHand, Visits, Inside,
      store, exporter, history

LEMMA RestartIInv ==
  ASSUME IInv, Restart
  PROVE  IInv'
<1>1. /\ \A e \in Exporters : ex'[e] = Idle /\ todo'[e] = {} /\ made'[e] = NoIssue
      /\ UNCHANGED <<store, github, madeFor>>
      /\ orphans' = orphans \cup {made[e] : e \in {f \in Exporters : ex[f].pc = "record"}}
  BY DEF Restart
<1>2. Types'
  <2>1. ex' \in [Exporters -> [pc : Pcs, locked : BOOLEAN]]
    BY DEF Restart, Idle, Pcs
  <2>2. todo' \in [Exporters -> SUBSET Stories] /\ made' \in [Exporters -> Nat]
    BY DEF Restart, NoIssue
  <2>3. im' \in [Importers -> [pc : {"idle", "check", "insert"}, todo : SUBSET (1 .. issues)]]
    <3>1. [pc |-> "idle", todo |-> {}] \in [pc : {"idle", "check", "insert"}, todo : SUBSET (1 .. issues)]
      OBVIOUS
    <3> QED
      BY <3>1 DEF Restart
  <2>4. orphans' \subseteq Nat
    BY <1>1 DEF IInv, Types
  <2> QED
    BY <1>1, <2>1, <2>2, <2>3, <2>4 DEF IInv, Types, store, github
<1>3. LockIsHeld' /\ TodoUnref' /\ RefsOfRows' /\ MadeIsAnIssue'
  BY <1>1 DEF IInv, LockIsHeld, TodoUnref, RefsOfRows, MadeIsAnIssue, Inside, Idle, store
<1>4. MadeIsKnown'
  <2> SUFFICES ASSUME NEW s \in live, NEW n \in madeFor[s] \ orphans'  PROVE ref[s] # NoIssue /\ n = ref[s]
    BY <1>1 DEF MadeIsKnown, store
  <2>1. ~InHand(s, n) /\ n \in madeFor[s] \ orphans
    BY <1>1 DEF InHand
  <2> QED
    BY <2>1 DEF IInv, MadeIsKnown
<1> QED
  BY <1>2, <1>3, <1>4 DEF IInv

-----------------------------------------------------------------------------
LEMMA StepIInv == "bulk" \notin Callers /\ IInv /\ [Next]_vars => IInv'
<1> SUFFICES ASSUME "bulk" \notin Callers, IInv, [Next]_vars  PROVE IInv'
  OBVIOUS
<1>1. ASSUME NEW s \in Planned, NEW D \in SUBSET live,
             PublishStory(s, D) \/ \E e \in Exporters : CreateStory(s, D, e)
      PROVE  IInv'
  BY <1>1, NewStoryIInv
<1>2. ASSUME NEW s \in Stories, DeleteStory(s) \/ \E D \in SUBSET live : EditDeps(s, D)
      PROVE  IInv'
  BY <1>2, DeleteIInv, EditIInv
<1>3. ASSUME NEW e \in Exporters, Acquire(e) \/ Export(e) \/ \E k \in Kinds : Start(e, k)  PROVE IInv'
  BY <1>3, AcquireIInv, StartIInv, ListIInv, EndIInv, CreateIInv, UnheardIInv, RecordIInv, FailIInv, DepsIInv
  DEF Export
<1>4. ASSUME NEW i \in Importers, Import(i)  PROVE IInv'
  BY <1>4, ImportIInv
<1>5. CASE OpenIssue
  BY <1>5, OpenIInv
<1>6. CASE Restart
  BY <1>6, RestartIInv
<1>7. CASE UNCHANGED vars
  BY <1>7
  DEF vars, IInv, Types, LockIsHeld, TodoUnref, RefsOfRows, MadeIsKnown, MadeIsAnIssue, InHand,
      Visits, Inside, store, github, exporter, history
<1> QED
  BY <1>1, <1>2, <1>3, <1>4, <1>5, <1>6, <1>7 DEF Next, Import

LEMMA Invariant == ASSUME "bulk" \notin Callers  PROVE Spec => []IInv
  BY InitIInv, StepIInv, PTL DEF Spec

\* The project's lock keeps exports apart: at most one works at a time, if the
\* export of the whole backlog, which does not take it, is not used.
THEOREM ExportsTakeTurns == ASSUME "bulk" \notin Callers  PROVE Spec => []MutualExclusion
<1>1. IInv => MutualExclusion
  BY DEF IInv, LockIsHeld, MutualExclusion
<1> QED
  BY <1>1, Invariant, PTL

\* And so a story never gets a second issue, whatever exports, imports,
\* deletions, failures and restarts cross.
THEOREM StoriesHaveOneIssue == ASSUME "bulk" \notin Callers  PROVE Spec => []OneIssuePerStory
<1>1. IInv => OneIssuePerStory
  <2> SUFFICES ASSUME IInv, NEW s \in live  PROVE Cardinality(madeFor[s] \ orphans) <= 1
    BY DEF OneIssuePerStory
  <2>1. \A m, n \in madeFor[s] \ orphans : m = n
    <3> SUFFICES ASSUME NEW m \in madeFor[s] \ orphans, NEW n \in madeFor[s] \ orphans  PROVE m = n
      OBVIOUS
    <3>1. CASE ref[s] # NoIssue
      BY <3>1 DEF IInv, MadeIsKnown
    <3>2. CASE ref[s] = NoIssue
      BY <3>2 DEF IInv, MadeIsKnown, InHand, LockIsHeld, Inside
    <3> QED
      BY <3>1, <3>2
  <2>2. madeFor[s] \ orphans = {} \/ \E n : madeFor[s] \ orphans = {n}
    BY <2>1
  <2>3. CASE madeFor[s] \ orphans = {}
    BY <2>3, FS_EmptySet
  <2>4. ASSUME NEW n, madeFor[s] \ orphans = {n}  PROVE Cardinality(madeFor[s] \ orphans) <= 1
    <3>1. Cardinality({n}) = 1
      BY FS_Singleton
    <3> QED
      BY <2>4, <3>1
  <2> QED
    BY <2>2, <2>3, <2>4
<1> QED
  BY <1>1, Invariant, PTL

-----------------------------------------------------------------------------
(***************************************************************************)
(* A successful export left what it read on GitHub.  Nothing here needs    *)
(* the lock: what an export knows of a story that still exists is its ref, *)
(* whoever else exports, imports, deletes or creates (KnownIsRef).         *)
(***************************************************************************)
MirrorTypes ==
    /\ live \subseteq born /\ born \subseteq Stories
    /\ deps \in [Stories -> SUBSET Stories]
    /\ ref \in [Stories -> Nat]
    /\ issues \in 0 .. MaxIssues
    /\ listed \in [Exporters -> SUBSET born]
    /\ read \in [Exporters -> SUBSET (Stories \X Stories)]
    /\ known \in [Exporters -> [Stories -> Nat]]
    /\ todo \in [Exporters -> SUBSET Stories]
    /\ made \in [Exporters -> Nat]
    /\ wires \in [Exporters -> SUBSET (Stories \X Stories)]
    /\ ex \in [Exporters -> [pc : Pcs, locked : BOOLEAN]]
    /\ im \in [Importers -> [pc : {"idle", "check", "insert"}, todo : SUBSET Numbers]]

\* The number of an imported story is in its id, so that it comes back as it was.
ImportsNameTheirIssue ==
    /\ \A s \in live \ Planned : Offset + ref[s] = s
    /\ \A e \in Exporters : \A s \in listed[e] \ Planned : Offset + known[e][s] = s

KnownIsRef ==
    \A e \in Exporters : \A s \in listed[e] \cap live : known[e][s] \in {NoIssue, ref[s]}

\* What an export read is still to be visited or has a number.
Visited ==
    \A e \in Exporters :
        /\ read[e] \subseteq listed[e] \X listed[e]
        /\ todo[e] \subseteq listed[e] \cap Planned
        /\ \A s \in listed[e] \ todo[e] : known[e][s] # NoIssue
        /\ ex[e].pc = "record" => made[e] # NoIssue
        /\ ex[e].pc = "deps" => todo[e] = {}

Wired ==
    \A e \in Exporters : ex[e].pc = "deps" =>
        \A w \in read[e] : w \in wires[e] \/ <<known[e][w[1]], known[e][w[2]]>> \in edges

MirrorInv == MirrorTypes /\ ImportsNameTheirIssue /\ KnownIsRef /\ Visited /\ Wired

LEMMA ImportsAreNumbered ==
  \A n \in Numbers : n \in Nat /\ n # NoIssue /\ Offset + n \in Stories \ Planned
<1>1. MaxIssues \in Nat /\ Offset \in Nat /\ Planned \subseteq Nat
  BY MirrorAssumption
<1>2. \A n \in Numbers : n \in Nat /\ n # NoIssue /\ Offset + n \in Nat /\ Offset + n > Offset
  BY <1>1 DEF Numbers, NoIssue
<1>3. \A n \in Numbers : Offset + n \notin Planned
  BY <1>1, <1>2, MirrorAssumption
<1> QED
  BY <1>1, <1>2, <1>3 DEF Stories

LEMMA MirrorInit == Init => MirrorInv
BY MirrorAssumption
DEF Init, MirrorInv, MirrorTypes, ImportsNameTheirIssue, KnownIsRef, Visited, Wired, Idle, NoIssue, Pcs

-----------------------------------------------------------------------------
\* An export that has not listed yet has read nothing.
LEMMA WaitingExport ==
  ASSUME MirrorInv, NEW e \in Exporters, NEW r \in [pc : {"lock", "list"}, locked : BOOLEAN],
         ex' = [ex EXCEPT ![e] = r]
  PROVE  /\ ex' \in [Exporters -> [pc : Pcs, locked : BOOLEAN]]
         /\ \A f \in Exporters : ex'[f].pc \in {"record", "deps"} => ex'[f].pc = ex[f].pc
<1>1. r \in [pc : Pcs, locked : BOOLEAN] /\ r.pc \notin {"record", "deps"}
  BY DEF Pcs
<1> QED
  BY <1>1 DEF MirrorInv, MirrorTypes

\* The rows change beside the exports: a new story is one no export has read, a
\* deleted one counts no more, and a ref that is known stays what it is.
LEMMA RowsChange ==
  ASSUME MirrorInv, MirrorTypes', UNCHANGED <<listed, read, known, todo, made, wires>>,
         \A e \in Exporters : ex'[e].pc \in {"record", "deps"} => ex'[e].pc = ex[e].pc,
         edges \subseteq edges',
         \A s \in live' \ Planned : Offset + ref'[s] = s,
         \A e \in Exporters : \A s \in listed[e] \cap live' : known[e][s] \in {NoIssue, ref'[s]}
  PROVE  MirrorInv'
<1>1. ImportsNameTheirIssue'
  BY DEF MirrorInv, ImportsNameTheirIssue
<1>2. KnownIsRef'
  BY DEF KnownIsRef
<1>3. Visited'
  BY DEF MirrorInv, Visited
<1>4. Wired'
  <2> SUFFICES ASSUME NEW e \in Exporters, ex'[e].pc = "deps", NEW w \in read[e]
               PROVE  w \in wires[e] \/ <<known[e][w[1]], known[e][w[2]]>> \in edges'
    BY DEF Wired
  <2>1. ex[e].pc = "deps"
    OBVIOUS
  <2> QED
    BY <2>1 DEF MirrorInv, Wired
<1> QED
  BY <1>1, <1>2, <1>3, <1>4 DEF MirrorInv

LEMMA NewStoryMirrors ==
  ASSUME MirrorInv, NEW s \in Planned, NEW D \in SUBSET live,
         PublishStory(s, D) \/ \E e \in Exporters : CreateStory(s, D, e)
  PROVE  MirrorInv'
<1>1. /\ s \notin born /\ s \in Stories
      /\ live' = live \cup {s} /\ born' = born \cup {s}
      /\ deps' = [deps EXCEPT ![s] = D]
      /\ UNCHANGED <<ref, issues, edges, listed, read, known, todo, made, wires, im>>
  BY DEF PublishStory, CreateStory, exporter, github, Stories
<1>2. /\ ex' \in [Exporters -> [pc : Pcs, locked : BOOLEAN]]
      /\ \A e \in Exporters : ex'[e].pc \in {"record", "deps"} => ex'[e].pc = ex[e].pc
  <2>1. CASE PublishStory(s, D)
    BY <2>1 DEF PublishStory, exporter, MirrorInv, MirrorTypes
  <2>2. ASSUME NEW e \in Exporters, CreateStory(s, D, e)  PROVE <1>2!:
    <3>1. ex' = [ex EXCEPT ![e] = [pc |-> "lock", locked |-> FALSE]]
      BY <2>2 DEF CreateStory, Starts, TakesLock
    <3> QED
      BY <3>1, WaitingExport
  <2> QED
    BY <2>1, <2>2
<1>3. MirrorTypes'
  <2>1. D \subseteq Stories
    BY DEF MirrorInv, MirrorTypes
  <2> QED
    BY <1>1, <1>2, <2>1 DEF MirrorInv, MirrorTypes
<1>4. /\ \A t \in live' \ Planned : Offset + ref'[t] = t
      /\ \A e \in Exporters : \A t \in listed[e] \cap live' : known[e][t] \in {NoIssue, ref'[t]}
  BY <1>1 DEF MirrorInv, MirrorTypes, ImportsNameTheirIssue, KnownIsRef
<1> QED
  BY <1>1, <1>2, <1>3, <1>4, RowsChange

LEMMA DeletionMirrors ==
  ASSUME MirrorInv, NEW s \in Stories, DeleteStory(s)
  PROVE  MirrorInv'
<1>1. /\ live' = live \ {s} /\ ref' = [ref EXCEPT ![s] = NoIssue]
      /\ UNCHANGED <<born, deps, issues, edges, ex, listed, read, known, todo, made, wires, im>>
  BY DEF DeleteStory, github, exporter
<1>2. MirrorTypes'
  BY <1>1 DEF MirrorInv, MirrorTypes, NoIssue
<1>3. /\ \A t \in live' \ Planned : Offset + ref'[t] = t
      /\ \A e \in Exporters : \A t \in listed[e] \cap live' : known[e][t] \in {NoIssue, ref'[t]}
  BY <1>1 DEF MirrorInv, MirrorTypes, ImportsNameTheirIssue, KnownIsRef
<1> QED
  BY <1>1, <1>2, <1>3, RowsChange

LEMMA EditMirrors ==
  ASSUME MirrorInv, NEW s \in Stories, NEW D \in SUBSET live, EditDeps(s, D)
  PROVE  MirrorInv'
<1>1. /\ deps' = [deps EXCEPT ![s] = D]
      /\ UNCHANGED <<live, born, ref, issues, edges, ex, listed, read, known, todo, made, wires, im>>
  BY DEF EditDeps, github, exporter
<1>2. D \subseteq Stories
  BY DEF MirrorInv, MirrorTypes
<1>3. MirrorTypes'
  BY <1>1, <1>2 DEF MirrorInv, MirrorTypes
<1> QED
  BY <1>1, <1>3, RowsChange DEF MirrorInv, ImportsNameTheirIssue, KnownIsRef

LEMMA ImportMirrors ==
  ASSUME MirrorInv, NEW i \in Importers,
         \/ ImportList(i) \/ ImportEnds(i)
         \/ \E n \in im[i].todo : ImportCheck(i, n) \/ ImportInsert(i, n)
  PROVE  MirrorInv'
<1>1. UNCHANGED <<deps, issues, edges, ex, listed, read, known, todo, made, wires>>
  BY DEF ImportList, ImportEnds, ImportCheck, ImportInsert, store, github, exporter
<1>2. im' \in [Importers -> [pc : {"idle", "check", "insert"}, todo : SUBSET Numbers]]
  <2>1. 1 .. issues \subseteq Numbers
    BY MirrorAssumption DEF MirrorInv, MirrorTypes, Numbers
  <2>2. ASSUME ImportList(i)  PROVE <1>2!:
    BY <2>1, <2>2 DEF ImportList, MirrorInv, MirrorTypes
  <2>3. ASSUME ImportEnds(i)  PROVE <1>2!:
    BY <2>3 DEF ImportEnds, MirrorInv, MirrorTypes
  <2>4. ASSUME NEW n \in im[i].todo, ImportCheck(i, n)  PROVE <1>2!:
    BY <2>4 DEF ImportCheck, MirrorInv, MirrorTypes
  <2>5. ASSUME NEW n \in im[i].todo, ImportInsert(i, n)  PROVE <1>2!:
    BY <2>5 DEF ImportInsert, MirrorInv, MirrorTypes
  <2> QED
    BY <2>2, <2>3, <2>4, <2>5
<1>3. CASE UNCHANGED store
  <2>1. MirrorTypes'
    BY <1>1, <1>2, <1>3 DEF MirrorInv, MirrorTypes, store
  <2> QED
    BY <1>1, <1>3, <2>1, RowsChange DEF MirrorInv, ImportsNameTheirIssue, KnownIsRef, store
<1>4. ASSUME NEW n \in im[i].todo,
             live' = live \cup {Offset + n}, born' = born \cup {Offset + n},
             Offset + n \notin live, ref' = [ref EXCEPT ![Offset + n] = n]
      PROVE  MirrorInv'
  <2>1. n \in Nat /\ Offset + n \in Stories \ Planned
    BY ImportsAreNumbered DEF MirrorInv, MirrorTypes
  <2>2. MirrorTypes'
    BY <1>1, <1>2, <1>4, <2>1 DEF MirrorInv, MirrorTypes
  <2>3. \A t \in live' \ Planned : Offset + ref'[t] = t
    BY <1>4, <2>1 DEF MirrorInv, MirrorTypes, ImportsNameTheirIssue
  <2>4. ASSUME NEW e \in Exporters, NEW t \in listed[e] \cap live'
        PROVE  known[e][t] \in {NoIssue, ref'[t]}
    <3>1. CASE t = Offset + n
      <4>1. Offset + known[e][t] = t /\ known[e][t] \in Nat /\ ref'[t] = n
        BY <1>4, <2>1, <3>1 DEF MirrorInv, MirrorTypes, ImportsNameTheirIssue
      <4> QED
        BY <2>1, <3>1, <4>1, MirrorAssumption
    <3>2. CASE t # Offset + n
      BY <1>4, <2>1, <3>2 DEF MirrorInv, MirrorTypes, KnownIsRef
    <3> QED
      BY <3>1, <3>2
  <2> QED
    BY <1>1, <1>4, <2>2, <2>3, <2>4, RowsChange
<1>5. \/ UNCHANGED store
      \/ \E n \in im[i].todo :
           /\ live' = live \cup {Offset + n} /\ born' = born \cup {Offset + n}
           /\ Offset + n \notin live /\ ref' = [ref EXCEPT ![Offset + n] = n]
  BY DEF ImportList, ImportEnds, ImportCheck, ImportInsert, store
<1> QED
  BY <1>3, <1>4, <1>5

LEMMA StartMirrors ==
  ASSUME MirrorInv,
         OpenIssue \/ \E e \in Exporters : Acquire(e) \/ \E k \in Kinds : Start(e, k)
  PROVE  MirrorInv'
<1>1. UNCHANGED <<store, edges, listed, read, known, todo, made, wires, im>>
  BY DEF OpenIssue, Acquire, Start, github, exporter
<1>2. issues' \in 0 .. MaxIssues
  <2>1. issues' = issues \/ (issues < MaxIssues /\ issues' = issues + 1)
    BY DEF OpenIssue, Acquire, Start, github
  <2> QED
    BY <2>1, MirrorAssumption DEF MirrorInv, MirrorTypes
<1>3. /\ ex' \in [Exporters -> [pc : Pcs, locked : BOOLEAN]]
      /\ \A f \in Exporters : ex'[f].pc \in {"record", "deps"} => ex'[f].pc = ex[f].pc
  <2>1. CASE OpenIssue
    BY <2>1 DEF OpenIssue, exporter, MirrorInv, MirrorTypes
  <2>2. ASSUME NEW e \in Exporters, Acquire(e)  PROVE <1>3!:
    BY <2>2 DEF Acquire, MirrorInv, MirrorTypes, Pcs
  <2>3. ASSUME NEW e \in Exporters, NEW k \in Kinds, Start(e, k)  PROVE <1>3!:
    <3>1. \/ ex' = [ex EXCEPT ![e] = [pc |-> "lock", locked |-> FALSE]]
          \/ ex' = [ex EXCEPT ![e] = [pc |-> "list", locked |-> FALSE]]
      BY <2>3 DEF Start, Starts
    <3> QED
      BY <3>1, WaitingExport
  <2> QED
    BY <2>1, <2>2, <2>3
<1>4. MirrorTypes'
  BY <1>1, <1>2, <1>3 DEF MirrorInv, MirrorTypes, store
<1> QED
  BY <1>1, <1>3, <1>4, RowsChange DEF MirrorInv, ImportsNameTheirIssue, KnownIsRef, store

-----------------------------------------------------------------------------
\* A step of an export: the other exports stand where they stood.
Others(e) ==
  /\ listed' = [listed EXCEPT ![e] = listed'[e]]
  /\ read' = [read EXCEPT ![e] = read'[e]]
  /\ known' = [known EXCEPT ![e] = known'[e]]
  /\ todo' = [todo EXCEPT ![e] = todo'[e]]
  /\ made' = [made EXCEPT ![e] = made'[e]]
  /\ wires' = [wires EXCEPT ![e] = wires'[e]]
  /\ ex' = [ex EXCEPT ![e] = ex'[e]]

\* What is asked of one export.
Sound(e) ==
  /\ \A s \in listed[e] \ Planned : Offset + known[e][s] = s
  /\ \A s \in listed[e] \cap live : known[e][s] \in {NoIssue, ref[s]}
  /\ read[e] \subseteq listed[e] \X listed[e]
  /\ todo[e] \subseteq listed[e] \cap Planned
  /\ \A s \in listed[e] \ todo[e] : known[e][s] # NoIssue
  /\ ex[e].pc = "record" => made[e] # NoIssue
  /\ ex[e].pc = "deps" => todo[e] = {}
  /\ ex[e].pc = "deps" => \A w \in read[e] :
       w \in wires[e] \/ <<known[e][w[1]], known[e][w[2]]>> \in edges

LEMMA MirrorParts ==
  MirrorInv <=> /\ MirrorTypes
                /\ \A s \in live \ Planned : Offset + ref[s] = s
                /\ \A e \in Exporters : Sound(e)
BY DEF MirrorInv, ImportsNameTheirIssue, KnownIsRef, Visited, Wired, Sound

\* A step that changes no row leaves the others as sound as they were.
LEMMA ExportStep ==
  ASSUME MirrorInv, NEW e \in Exporters, UNCHANGED <<live, born, deps, ref, im>>,
         edges \subseteq edges', issues' \in 0 .. MaxIssues, Others(e),
         listed'[e] \subseteq born, read'[e] \subseteq Stories \X Stories, known'[e] \in [Stories -> Nat], todo'[e] \subseteq Stories,
         made'[e] \in Nat, wires'[e] \subseteq Stories \X Stories,
         ex'[e] \in [pc : Pcs, locked : BOOLEAN], Sound(e)'
  PROVE  MirrorInv'
<1>1. MirrorTypes'
  BY DEF MirrorInv, MirrorTypes, Others
<1>2. ASSUME NEW f \in Exporters  PROVE Sound(f)'
  <2>1. CASE f # e
    <3>1. /\ listed'[f] = listed[f] /\ read'[f] = read[f] /\ known'[f] = known[f] /\ todo'[f] = todo[f]
          /\ made'[f] = made[f] /\ wires'[f] = wires[f] /\ ex'[f] = ex[f]
      BY <2>1 DEF Others, MirrorInv, MirrorTypes
    <3>2. Sound(f)
      BY MirrorParts
    <3> QED
      BY <3>1, <3>2 DEF Sound
  <2> QED
    BY <2>1
<1>3. \A s \in live' \ Planned : Offset + ref'[s] = s
  BY MirrorParts
<1>4. MirrorInv' <=> /\ MirrorTypes'
                     /\ \A s \in live' \ Planned : Offset + ref'[s] = s
                     /\ \A f \in Exporters : Sound(f)'
  BY DEF MirrorInv, ImportsNameTheirIssue, KnownIsRef, Visited, Wired, Sound
<1> QED
  BY <1>1, <1>2, <1>3, <1>4

LEMMA ReturnMirrors ==
  ASSUME MirrorInv, NEW e \in Exporters, Return(e), UNCHANGED <<store, edges, im>>,
         issues' \in 0 .. MaxIssues
  PROVE  MirrorInv'
<1>1. /\ listed'[e] = {} /\ read'[e] = {} /\ known'[e] = [s \in Stories |-> NoIssue] /\ todo'[e] = {}
      /\ made'[e] = NoIssue /\ wires'[e] = {} /\ ex'[e] = Idle /\ Others(e)
  BY DEF Return, Others, MirrorInv, MirrorTypes
<1>2. NoIssue \in Nat /\ Idle \in [pc : Pcs, locked : BOOLEAN] /\ Idle.pc = "idle"
  BY DEF NoIssue, Idle, Pcs
<1>3. Sound(e)'
  BY <1>1, <1>2 DEF Sound
<1> QED
  BY <1>1, <1>2, <1>3, ExportStep DEF store

LEMMA ReturningMirrors ==
  ASSUME MirrorInv, NEW e \in Exporters,
         \/ CreateIssueRefused(e) \/ Succeed(e) \/ Fail(e)
         \/ \E s \in todo[e] : CreateIssueUnheard(e, s) \/ RecordRefused(e, s)
  PROVE  MirrorInv'
<1>1. Return(e) /\ UNCHANGED <<store, edges, im>>
  BY DEF CreateIssueRefused, Succeed, Fail, CreateIssueUnheard, RecordRefused, github
<1>2. issues' = issues \/ (issues < MaxIssues /\ issues' = issues + 1)
  BY DEF CreateIssueRefused, Succeed, Fail, CreateIssueUnheard, RecordRefused, github, NewIssueFor
<1>3. issues' \in 0 .. MaxIssues
  BY <1>2, MirrorAssumption DEF MirrorInv, MirrorTypes
<1> QED
  BY <1>1, <1>3, ReturnMirrors

LEMMA ListMirrors ==
  ASSUME MirrorInv, NEW e \in Exporters, ListStories(e)
  PROVE  MirrorInv'
<1>0. UNCHANGED <<store, edges, im>> /\ issues' = issues /\ issues' \in 0 .. MaxIssues
  BY DEF ListStories, github, MirrorInv, MirrorTypes
<1>1. CASE live = {}
  BY <1>0, <1>1, ReturnMirrors DEF ListStories
<1>2. CASE live # {}
  <2>1. /\ listed'[e] = live /\ read'[e] = {w \in live \X live : w[2] \in deps[w[1]]}
        /\ known'[e] = [s \in Stories |-> numberFromRef(s)]
        /\ todo'[e] = {s \in live : ref[s] = NoIssue}
        /\ made'[e] = made[e] /\ wires'[e] = wires[e]
        /\ ex'[e] = [ex[e] EXCEPT !.pc = "issues"] /\ Others(e)
    BY <1>2 DEF ListStories, Others, MirrorInv, MirrorTypes
  <2>2. \A s \in live : s \in Stories /\ numberFromRef(s) = ref[s]
    BY DEF numberFromRef, MirrorInv, MirrorTypes
  <2>3. known'[e] \in [Stories -> Nat]
    BY <2>1 DEF numberFromRef, NoIssue, MirrorInv, MirrorTypes
  <2>4. ex'[e] \in [pc : Pcs, locked : BOOLEAN] /\ ex'[e].pc = "issues"
    <3>1. ex[e] \in [pc : Pcs, locked : BOOLEAN] /\ "issues" \in Pcs
      BY DEF MirrorInv, MirrorTypes, Pcs
    <3> QED
      BY <2>1, <3>1
  <2>5. todo'[e] \subseteq Planned
    <3>1. \A s \in live \ Planned : Offset + ref[s] = s /\ ref[s] # NoIssue
      <4>1. ASSUME NEW s \in live \ Planned  PROVE Offset + ref[s] = s /\ ref[s] # NoIssue
        <5>1. Offset + ref[s] = s
          BY DEF MirrorInv, ImportsNameTheirIssue
        <5>2. PICK n \in Numbers : s = Offset + n
          BY DEF MirrorInv, MirrorTypes, Stories
        <5>3. n \in Nat /\ n # NoIssue /\ Offset \in Nat /\ ref[s] \in Nat
          BY ImportsAreNumbered, MirrorAssumption DEF MirrorInv, MirrorTypes
        <5> QED
          BY <5>1, <5>2, <5>3 DEF NoIssue
      <4> QED
        BY <4>1
    <3> QED
      BY <2>1, <3>1
  <2>6. Sound(e)'
    BY <1>0, <2>1, <2>2, <2>4, <2>5 DEF Sound, store, MirrorInv, MirrorTypes, ImportsNameTheirIssue
  <2> QED
    BY <1>0, <2>1, <2>3, <2>4, <2>6, ExportStep DEF store, MirrorInv, MirrorTypes
<1> QED
  BY <1>1, <1>2

LEMMA CreateMirrors ==
  ASSUME MirrorInv, NEW e \in Exporters, NEW s \in todo[e], CreateIssue(e, s)
  PROVE  MirrorInv'
<1>1. /\ UNCHANGED <<store, edges, im, listed, read, known, todo, wires>>
      /\ issues < MaxIssues /\ issues' = issues + 1
      /\ made'[e] = issues + 1 /\ ex'[e] = [ex[e] EXCEPT !.pc = "record"] /\ Others(e)
  BY DEF CreateIssue, NewIssueFor, Others, MirrorInv, MirrorTypes
<1>2. issues' \in 0 .. MaxIssues /\ made'[e] \in Nat /\ made'[e] # NoIssue
  BY <1>1, MirrorAssumption DEF MirrorInv, MirrorTypes, NoIssue
<1>3. ex'[e] \in [pc : Pcs, locked : BOOLEAN] /\ ex'[e].pc = "record"
  BY <1>1 DEF MirrorInv, MirrorTypes, Pcs
<1>4. Sound(e)
  BY MirrorParts
<1>5. Sound(e)'
  BY <1>1, <1>2, <1>3, <1>4 DEF Sound, store
<1> QED
  BY <1>1, <1>2, <1>3, <1>5, ExportStep DEF store, MirrorInv, MirrorTypes

\* A ref that is recorded is new, or what everybody knew.
LEMMA RecordMirrors ==
  ASSUME MirrorInv, NEW e \in Exporters, NEW s \in todo[e], RecordRef(e, s)
  PROVE  MirrorInv'
<1>1. /\ UNCHANGED <<live, born, deps, github, listed, read, wires, im>>
      /\ ref' = [ref EXCEPT ![s] = made[e]]
      /\ known' = [known EXCEPT ![e][s] = made[e]]
      /\ todo' = [todo EXCEPT ![e] = @ \ {s}]
      /\ made' = [made EXCEPT ![e] = NoIssue]
      /\ ex' = [ex EXCEPT ![e].pc = "issues"]
      /\ ex[e].pc = "record"
  BY DEF RecordRef
<1>2. s \in live /\ ref[s] \in {NoIssue, made[e]} /\ made[e] # NoIssue /\ made[e] \in Nat
      /\ s \in Planned \cap Stories
  BY <1>1 DEF RecordRef, CanRecord, MirrorInv, MirrorTypes, Visited
<1>3. ex' \in [Exporters -> [pc : Pcs, locked : BOOLEAN]]
      /\ ex'[e].pc = "issues" /\ \A f \in Exporters \ {e} : ex'[f] = ex[f]
  BY <1>1 DEF MirrorInv, MirrorTypes, Pcs
<1>4. MirrorTypes'
  BY <1>1, <1>2, <1>3 DEF MirrorInv, MirrorTypes, github, NoIssue
<1>5. \A t \in live' \ Planned : Offset + ref'[t] = t
  BY <1>1, <1>2 DEF MirrorInv, MirrorTypes, ImportsNameTheirIssue
<1>6. ASSUME NEW f \in Exporters  PROVE Sound(f)'
  <2>1. Sound(f)
    BY MirrorParts
  <2>2. CASE f # e
    <3>1. /\ known'[f] = known[f] /\ todo'[f] = todo[f] /\ made'[f] = made[f] /\ ex'[f] = ex[f]
      BY <1>1, <1>3, <2>2 DEF MirrorInv, MirrorTypes
    <3>2. \A t \in listed[f] \cap live : known[f][t] \in {NoIssue, ref'[t]}
      BY <1>1, <1>2, <2>1 DEF Sound, MirrorInv, MirrorTypes
    <3> QED
      BY <1>1, <2>1, <3>1, <3>2 DEF Sound, github
  <2>3. CASE f = e
    <3>1. /\ known'[e] = [known[e] EXCEPT ![s] = made[e]] /\ todo'[e] = todo[e] \ {s}
          /\ known[e] \in [Stories -> Nat] /\ listed[e] \subseteq Stories /\ live \subseteq Stories
      BY <1>1 DEF MirrorInv, MirrorTypes
    <3>2. /\ \A t \in listed[e] \ Planned : Offset + known'[e][t] = t
          /\ \A t \in listed[e] \cap live : known'[e][t] \in {NoIssue, ref'[t]}
          /\ \A t \in listed[e] \ todo'[e] : known'[e][t] # NoIssue
      BY <1>1, <1>2, <2>1, <2>3, <3>1 DEF Sound, MirrorInv, MirrorTypes
    <3> QED
      BY <1>1, <1>3, <2>1, <2>3, <3>1, <3>2 DEF Sound
  <2> QED
    BY <2>2, <2>3
<1>7. MirrorInv' <=> /\ MirrorTypes'
                     /\ \A t \in live' \ Planned : Offset + ref'[t] = t
                     /\ \A f \in Exporters : Sound(f)'
  BY DEF MirrorInv, ImportsNameTheirIssue, KnownIsRef, Visited, Wired, Sound
<1> QED
  BY <1>4, <1>5, <1>6, <1>7

LEMMA IssuesDoneMirrors ==
  ASSUME MirrorInv, NEW e \in Exporters, IssuesDone(e)
  PROVE  MirrorInv'
<1>1. /\ UNCHANGED <<store, github, im, listed, read, known, todo, made>>
      /\ todo[e] = {} /\ wires'[e] = Wirable(e)
      /\ ex'[e] = [ex[e] EXCEPT !.pc = "deps"] /\ Others(e)
  BY DEF IssuesDone, Others, MirrorInv, MirrorTypes
<1>2. ex'[e] \in [pc : Pcs, locked : BOOLEAN] /\ ex'[e].pc = "deps"
  BY <1>1 DEF MirrorInv, MirrorTypes, Pcs
<1>3. Sound(e)
  BY MirrorParts
<1>4. \A w \in read[e] : w \in wires'[e]
  BY <1>1, <1>3 DEF Sound, Wirable
<1>5. Wirable(e) \subseteq Stories \X Stories
  BY DEF Wirable, MirrorInv, MirrorTypes
<1>6. Sound(e)'
  BY <1>1, <1>2, <1>3, <1>4 DEF Sound, store
<1> QED
  BY <1>1, <1>2, <1>5, <1>6, ExportStep DEF store, github, MirrorInv, MirrorTypes

LEMMA WireMirrors ==
  ASSUME MirrorInv, NEW e \in Exporters, AddIssueBlockedBy(e)
  PROVE  MirrorInv'
<1>1. PICK w \in wires[e] :
        /\ edges' = edges \cup {<<known[e][w[1]], known[e][w[2]]>>}
        /\ wires' = [wires EXCEPT ![e] = @ \ {w}]
  BY DEF AddIssueBlockedBy
<1>2. /\ UNCHANGED <<store, issues, ex, im, listed, read, known, todo, made>>
      /\ wires'[e] = wires[e] \ {w} /\ Others(e)
  BY <1>1 DEF AddIssueBlockedBy, Others, MirrorInv, MirrorTypes
<1>3. Sound(e)
  BY MirrorParts
<1>4. \A v \in read[e] :
        ex[e].pc = "deps" => v \in wires'[e] \/ <<known[e][v[1]], known[e][v[2]]>> \in edges'
  BY <1>1, <1>2, <1>3 DEF Sound
<1>5. Sound(e)'
  BY <1>2, <1>3, <1>4 DEF Sound, store
<1> QED
  BY <1>1, <1>2, <1>5, ExportStep DEF store, MirrorInv, MirrorTypes

LEMMA RestartMirrors ==
  ASSUME MirrorInv, Restart
  PROVE  MirrorInv'
<1>1. MirrorTypes'
  BY DEF Restart, store, github, MirrorInv, MirrorTypes, NoIssue, Idle, Pcs
<1> QED
  BY <1>1 DEF Restart, store, github, MirrorInv, MirrorTypes, ImportsNameTheirIssue, KnownIsRef,
              Visited, Wired, NoIssue, Idle

LEMMA MirrorNext == MirrorInv /\ [Next]_vars => MirrorInv'
<1> SUFFICES ASSUME MirrorInv, [Next]_vars  PROVE MirrorInv'
  OBVIOUS
<1>1. ASSUME NEW s \in Planned, NEW D \in SUBSET live,
             PublishStory(s, D) \/ \E e \in Exporters : CreateStory(s, D, e)
      PROVE  MirrorInv'
  BY <1>1, NewStoryMirrors
<1>2. ASSUME NEW s \in Stories, DeleteStory(s) \/ \E D \in SUBSET live : EditDeps(s, D)
      PROVE  MirrorInv'
  BY <1>2, DeletionMirrors, EditMirrors
<1>3. ASSUME NEW e \in Exporters, Acquire(e) \/ \E k \in Kinds : Start(e, k)  PROVE MirrorInv'
  BY <1>3, StartMirrors
<1>4. ASSUME NEW e \in Exporters, Export(e)  PROVE MirrorInv'
  BY <1>4, ListMirrors, CreateMirrors, RecordMirrors, ReturningMirrors, IssuesDoneMirrors, WireMirrors
  DEF Export
<1>5. ASSUME NEW i \in Importers,
             \/ ImportList(i) \/ ImportEnds(i)
             \/ \E n \in im[i].todo : ImportCheck(i, n) \/ ImportInsert(i, n)
      PROVE  MirrorInv'
  BY <1>5, ImportMirrors
<1>6. CASE OpenIssue
  BY <1>6, StartMirrors
<1>7. CASE Restart
  BY <1>7, RestartMirrors
<1>8. CASE UNCHANGED vars
  BY <1>8 DEF vars, MirrorInv, MirrorTypes, ImportsNameTheirIssue, KnownIsRef, Visited, Wired, store,
              github, exporter
<1> QED
  BY <1>1, <1>2, <1>3, <1>4, <1>5, <1>6, <1>7, <1>8 DEF Next

\* An export that reports success left every story it read, and that is still
\* there, with a ref and the dependencies it read on GitHub: whatever crosses it,
\* edits of dependencies and the export of the whole backlog included.
THEOREM SuccessIsMirrored == Spec => SuccessMeansMirrored
<1>1. ASSUME MirrorInv, NEW e \in Exporters, Succeed(e)
      PROVE  LET kept == listed[e] \cap live'
             IN  /\ \A s \in kept : ref'[s] # NoIssue
                 /\ \A w \in read[e] \cap (kept \X kept) : <<ref'[w[1]], ref'[w[2]]>> \in edges'
  <2>1. /\ ex[e].pc = "deps" /\ wires[e] = {}
        /\ UNCHANGED <<live, ref, edges>>
    BY <1>1 DEF Succeed, store, github
  <2>2. Sound(e)
    BY <1>1, MirrorParts
  <2>3. \A t \in listed[e] \cap live : known[e][t] = ref[t] /\ ref[t] # NoIssue
    BY <2>1, <2>2 DEF Sound
  <2>4. \A w \in read[e] : <<known[e][w[1]], known[e][w[2]]>> \in edges
    BY <2>1, <2>2 DEF Sound
  <2> QED
    BY <2>1, <2>3, <2>4
<1>2. MirrorInv /\ [Next]_vars =>
        [\A e \in Exporters :
           Succeed(e) =>
             LET kept == listed[e] \cap live'
             IN  /\ \A s \in kept : ref'[s] # NoIssue
                 /\ \A w \in read[e] \cap (kept \X kept) : <<ref'[w[1]], ref'[w[2]]>> \in edges']_vars
  BY <1>1
<1> QED
  BY <1>2, MirrorInit, MirrorNext, PTL DEF Spec, SuccessMeansMirrored
===============================================================================
