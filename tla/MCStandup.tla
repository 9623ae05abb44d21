------------------------------ MODULE MCStandup ------------------------------
(* One story, one run, and two times of the schedule.                      *)
EXTENDS Standup

CONSTANT MaxClock   \* bound on time

Bounded == clock <= MaxClock
=============================================================================
