---------------------------- MODULE MCConductor ----------------------------
(* Instances of the conductor: one story, or one story after another. *)
EXTENDS Conductor

One        == {1}
Two        == {1, 2}
NoDeps     == [s \in Two |-> {}]
Chain      == [s \in Two |-> IF s = 2 THEN {1} ELSE {}]
OneNoDeps  == [s \in One |-> {}]
Singletons == {{1}, {2}}
OneUnit    == {{1}}
Sprint     == {{1, 2}}
=============================================================================
