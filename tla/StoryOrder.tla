------------------------------ MODULE StoryOrder ------------------------------
(***************************************************************************)
(* The order in which a goal-mode run is told to build the stories of its  *)
(* sprint (tickets.go, StoriesBySprintScoped): a story after those of its  *)
(* dependencies that are in the sprint, otherwise by id.  A cycle among    *)
(* them is an error, and the sprint is not built.                          *)
(*                                                                         *)
(* Ids are numbers in the order the store sorts them; sprint[s] is the     *)
(* story's sprint; S is a sprint's stories; E the dependencies <<s, d>>: s *)
(* depends on d, in the sprint or out of it.                               *)
(***************************************************************************)
EXTENDS Naturals, Sequences, FiniteSets, SequencesExt, FiniteSetsExt, Functions

ErrDepCycle == <<0>>   \* ids are positive

\* The dependencies of s that are in the sprint.
pending(S, E, s) == {d \in S : <<s, d>> \in E}
depsPlaced(need, placed) == need \subseteq placed

\* The first story, by id, that can follow those already placed; stuck when
\* there is none.
PlaceNext(S, E, out) ==
  LET placed == Range(out)
      free   == {s \in S \ placed : depsPlaced(pending(S, E, s), placed)}
  IN  IF free = {} THEN out ELSE Append(out, Min(free))

topoSortStories(S, E) ==
  LET out == FoldLeft(LAMBDA o, i : PlaceNext(S, E, o), <<>>, [i \in 1 .. Cardinality(S) |-> i])
  IN  IF Len(out) = Cardinality(S) THEN out ELSE ErrDepCycle

storiesBySprint(sprint, E, n) == topoSortStories({s \in DOMAIN sprint : sprint[s] = n}, E)

-----------------------------------------------------------------------------
(* The reference.                                                          *)

\* The orders of the sprint in which no story comes before what it waits for.
Orders(S, E) ==
  {p \in SetToSeqs(S) :
     \A i, j \in DOMAIN p : <<p[i], p[j]>> \in E => j < i}

Before(p, q) ==
  \E i \in DOMAIN p : p[i] < q[i] /\ \A j \in 1 .. i - 1 : p[j] = q[j]

\* "a story comes after any of its deps that live in the SAME sprint ... Ties
\* ... are broken stably by id" (tickets.go:2147-2149): the first of the
\* possible orders, and an error exactly when there is none.
RightOrder(sprint, E, n) ==
  LET p == storiesBySprint(sprint, E, n)
      P == Orders({s \in DOMAIN sprint : sprint[s] = n}, E)
  IN  IF P = {} THEN p = ErrDepCycle
      ELSE p \in P /\ \A q \in P \ {p} : Before(p, q)
=============================================================================
