------------------------------ MODULE MCUpgrade ------------------------------
(* Upgrade from four databases: none at all, the first version's tables,   *)
(* one with the project column but the old keys, and one that was rebuilt  *)
(* before the ceremonies' columns existed.                                 *)
EXTENDS Upgrade

OldRows(p) == {<<"i1", p>>}
Version ==
  {[c |-> [t \in Tables |-> {}], k |-> {}, p |-> Blank],
   [c |-> [t \in Tables |-> {"id"}], k |-> {}, p |-> Blank],
   [c |-> [t \in Tables |-> IF t \in Stamped THEN {"id", "project_id"} ELSE {"id"}],
    k |-> {}, p |-> "q"],
   [c |-> [t \in Tables |-> IF t \in Rebuilt THEN Copied(t)
                            ELSE {"id", "project_id"} \intersect Wanted(t)],
    k |-> Rebuilt \union {"story_deps"}, p |-> "q"]}

MCInit ==
  /\ ran = {}
  /\ \E v \in Version :
       /\ cols = v.c /\ keyed = v.k
       /\ rows \in [Stamped -> {{}, OldRows(v.p)}]
       /\ \A t, u \in Stamped : rows[t] = rows[u]
       /\ cols["stories"] = {} => rows["stories"] = {}
       /\ deps = IF rows["stories"] = {} THEN {}
                 ELSE {[story |-> "i1", dep |-> "i2", project |-> v.p]}
  /\ Types /\ Left

MCSpec == MCInit /\ [][Next]_vars

(* Bound: a serving process inserts one row, into a database it found with *)
(* no row at all or with a row in every table.                             *)
MCRows ==
  LET Size == [t \in Stamped |-> Cardinality(rows[t])]
  IN  Size["runs"] + Size["tasks"] + Size["events"] + Size["stories"] + Size["sprints"]
        <= IF \A t \in Stamped : Size[t] > 0 THEN 6 ELSE 1
=============================================================================
