------------------------------ MODULE MCReleases ------------------------------
(* Two workers, three runs and one preview to keep.  With Calm = FALSE only *)
(* DiskBound holds.                                                        *)
EXTENDS Releases

CONSTANT MaxClock   \* bound on the writes of the copies

Bounded == clock <= MaxClock
=============================================================================
