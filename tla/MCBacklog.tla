----------------------------- MODULE MCBacklog -----------------------------
(* Story 2, of sprint 9, depends on story 1, of sprint 8; stories 3 and 4   *)
(* are new.  Sprint 10 is the one after the last, and sorts before both.    *)
EXTENDS Backlog, StoryOrder, Graphs

OneEditor == {1}
TwoEditors == {1, 2}

Start == [s \in Ids |-> IF s \in {1, 2} THEN [status |-> "backlog", sprint |-> 7 + s]
                        ELSE Absent]
StartDeps == {<<2, 1>>}
StartSprints == {8, 9}

Create(s, n, D) == [op |-> "create", id |-> s, sprint |-> n, deps |-> D]
Link(s, D) == [op |-> "add_dep", id |-> s, deps |-> D]
Relink(s, D, f) == [op |-> "edit", id |-> s, deps |-> D, fields |-> f]
Move(s, n) == [op |-> "move", id |-> s, sprint |-> n]
Defer(s) == [op |-> "defer", id |-> s]
Split(s, P) == [op |-> "split", id |-> s, parts |-> P]
Cancel(s) == [op |-> "cancel", id |-> s]
Delete(s) == [op |-> "delete", id |-> s]
Sprint(n) == [op |-> "sprint", sprint |-> n]

AllRequests ==
  {Create(3, n, D) : n \in {0, 9}, D \in {{}, {1}, {2}, {4}}}
  \cup {Link(s, {d}) : s \in {1, 2, 3}, d \in {1, 2, 3}}
  \cup {Relink(s, D, f) : s \in {1, 2}, D \in {{}, {3}}, f \in BOOLEAN}
  \cup {Move(s, n) : s \in {1, 2, 3}, n \in {0, 8, 9, 10}}
  \cup {Split(1, {3, 4}), Split(2, {3, 4}), Sprint(10)}
  \cup {Cancel(s) : s \in {1, 2}} \cup {Delete(s) : s \in {1, 2, 3}}

AllPlans ==
  {[sprint |-> 9, actions |-> A] :
     A \in {<<>>, <<Defer(2)>>, <<Defer(1), Move(2, 8)>>, <<Split(2, {3, 4}), Cancel(2)>>,
            <<Move(1, 9), Move(2, 9)>>, <<Cancel(1), Relink(2, {}, TRUE)>>}}

AllPublications ==
  {<<Sprint(8), Sprint(10), Create(3, 10, {4}), Create(4, 10, {1}), Create(2, 10, {})>>,
   <<Create(3, 9, {4}), Create(4, 9, {3})>>,
   <<Create(3, 9, {4})>>}

\* A story may name a dependency that is no story yet: here a part of 1.
NamedEarly == {Create(3, 9, {4}), Link(1, {3}), Split(1, {4, 5})}
None == {}

\* The order of a sprint's stories is right for every sprint of up to three
\* stories and all dependencies among them and on a fourth.
ASSUME OrderIsRight ==
  \A sprint \in [1 .. 3 -> {0, 8}], E \in SUBSET ((1 .. 3) \X (1 .. 4)) : RightOrder(sprint, E, 8)

\* The search of closesCycle finds exactly the paths, in every graph of
\* dependencies of three stories on each other and on a fourth.
ASSUME ReachesIsAPath ==
  \A E \in SUBSET ((1 .. 3) \X (1 .. 4)) : \A s, d \in Ids :
    reaches(E, s, d) = ConnectionsIn([node |-> Ids, edge |-> E])[s, d]
=============================================================================
