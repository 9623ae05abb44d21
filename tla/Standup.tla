-------------------------------- MODULE Standup --------------------------------
(***************************************************************************)
(* The daily standup of one project: app.digestLoop waits for the next time*)
(* of its schedule (cron/cron.go), the digest gathers what happened since  *)
(* the last one from two stores that change meanwhile (digest/digest.go),  *)
(* the text is sent to the project's channel, and only then the watermark  *)
(* last_digest_at is moved to the time it then is (projects.go).           *)
(*                                                                         *)
(* A story is news when the run it names changed since the watermark: the  *)
(* story itself carries no time.  Sending takes time: the clock moves.     *)
(***************************************************************************)
EXTENDS Naturals

CONSTANTS
  Stories, Runs,
  NoRun,     \* the run_id of a story that has none
  Due        \* the times that match the schedule

VARIABLES
  clock,
  status,    \* status[s]: the story's status
  runOf,     \* runOf[s]: the run the story names
  updated,   \* updated[r]: the run's updated_at, 0 before it exists
  channel,   \* the project has a digest channel
  mark,      \* last_digest_at, 0 = never
  pc,        \* where the loop is
  next,      \* when it will wake
  since,     \* the watermark it read
  seen,      \* the stories it listed: [status, run] of each
  asOf,      \* the runs' times it read
  news,      \* the digest: <<story, run>> of each story it tells as done or failed
  told       \* the pairs told in a digest that was marked as sent, or is about
             \* to be, and whose run has not changed since
vars == <<clock, status, runOf, updated, channel, mark, pc, next, since, seen,
          asOf, news, told>>

work    == <<status, runOf, updated>>
project == <<channel, mark>>
digest  == <<since, seen, asOf, news>>

Status == {"backlog", "running", "in_review", "done", "failed"}
Refs   == Runs \union {NoRun}

Init ==
  /\ clock = 0 /\ channel \in BOOLEAN /\ mark = 0
  /\ status = [s \in Stories |-> "backlog"] /\ runOf = [s \in Stories |-> NoRun]
  /\ updated = [r \in Refs |-> 0]
  /\ pc = "idle" /\ next = 0 /\ since = 0
  /\ seen = [s \in Stories |-> [status |-> "backlog", run |-> NoRun]]
  /\ asOf = [r \in Refs |-> 0] /\ news = {} /\ told = {}

-----------------------------------------------------------------------------
(* What goes on meanwhile: time, the runs, the stories, the settings.      *)

Tick == /\ clock' = clock + 1
        /\ UNCHANGED <<work, project, pc, next, digest, told>>

SetRunStatus(r) ==
  /\ updated' = [updated EXCEPT ![r] = clock]
  /\ told' = {p \in told : p[2] # r}
  /\ UNCHANGED <<clock, status, runOf, project, pc, next, digest>>

SetStatus(s, st, r) ==
  /\ status' = [status EXCEPT ![s] = st] /\ runOf' = [runOf EXCEPT ![s] = r]
  /\ UNCHANGED <<clock, updated, project, pc, next, digest, told>>

SetDigestChannel(on) ==
  /\ channel' = on
  /\ UNCHANGED <<clock, work, mark, pc, next, digest, told>>

-----------------------------------------------------------------------------
(* digestLoop.                                                             *)

(* Schedule.Next: the first matching time strictly after now; times that   *)
(* went by while the last digest was delivered are skipped.  A schedule    *)
(* that matches no more stops the loop.                                    *)
IsNext(t) == t \in Due /\ t > clock /\ \A u \in Due : u > clock => t <= u
Sleep ==
  /\ pc = "idle"
  /\ \/ \E t \in Due : IsNext(t) /\ next' = t /\ pc' = "asleep"
     \/ (\A t \in Due : t <= clock) /\ pc' = "stopped" /\ next' = next
  /\ UNCHANGED <<clock, work, project, digest, told>>

(* sendDigests lists the projects; one without a channel is passed over.   *)
sendDigests ==
  /\ pc = "asleep" /\ clock >= next
  /\ since' = mark
  /\ pc' = IF channel THEN "stories" ELSE "idle"
  /\ UNCHANGED <<clock, work, project, next, seen, asOf, news, told>>

(* Gather: the stories first, then the runs, each read at its own time.    *)
ListStories ==
  /\ pc = "stories" /\ pc' = "runs"
  /\ seen' = [s \in Stories |-> [status |-> status[s], run |-> runOf[s]]]
  /\ UNCHANGED <<clock, work, project, next, since, asOf, news, told>>

InWindow(r) == since = 0 \/ asOf'[r] >= since
Gather ==
  /\ pc = "runs" /\ pc' = "send"
  /\ asOf' = updated
  /\ news' = {<<s, seen[s].run>> : s \in {t \in Stories :
                 seen[t].status \in {"done", "in_review", "failed"} /\ InWindow(seen[t].run)}}
  /\ UNCHANGED <<clock, work, project, next, since, seen, told>>

(* The synthesis falls back on the facts, the troubled runs and the spend  *)
(* on nothing: after Gather a digest always has a text.                    *)
Deliver ==
  /\ pc = "send" /\ pc' = "mark"
  /\ clock' = clock + 1
  /\ told' = told \union {p \in news : updated[p[2]] = asOf[p[2]]}
  /\ UNCHANGED <<work, project, next, digest>>

MarkDigestSent ==
  /\ pc = "mark" /\ pc' = "idle"
  /\ mark' = clock
  /\ UNCHANGED <<clock, work, channel, next, digest, told>>

(* A read or a send that fails, or a send whose answer is lost: the        *)
(* watermark stays.                                                        *)
GiveUp ==
  /\ pc \in {"stories", "runs", "send"} /\ pc' = "idle"
  /\ UNCHANGED <<clock, work, project, next, digest, told>>

(* The digest was sent and the watermark was not moved: the process ended, *)
(* or the update failed.  What it told will be told again.                 *)
Unmarked == told' = IF pc = "mark" THEN told \ news ELSE told
MarkFails ==
  /\ pc = "mark" /\ pc' = "idle" /\ Unmarked
  /\ UNCHANGED <<clock, work, project, next, digest>>
Restart ==
  /\ pc' = "idle" /\ Unmarked
  /\ UNCHANGED <<clock, work, project, next, digest>>

Next ==
  \/ Tick \/ \E r \in Runs : SetRunStatus(r)
  \/ \E s \in Stories, st \in Status, r \in Refs : SetStatus(s, st, r)
  \/ \E on \in BOOLEAN : SetDigestChannel(on)
  \/ Sleep \/ sendDigests \/ ListStories \/ Gather \/ Deliver
  \/ MarkDigestSent \/ GiveUp \/ MarkFails \/ Restart

Spec == Init /\ [][Next]_vars

-----------------------------------------------------------------------------
Phases == {"idle", "asleep", "stopped", "stories", "runs", "send", "mark"}
TypeOK ==
  /\ clock \in Nat /\ mark \in Nat /\ since \in Nat /\ pc \in Phases
  /\ status \in [Stories -> Status] /\ runOf \in [Stories -> Refs]
  /\ updated \in [Refs -> Nat] /\ asOf \in [Refs -> Nat]
  /\ seen \in [Stories -> [status : Status, run : Refs]]
  /\ news \in SUBSET (Stories \X Refs) /\ told \in SUBSET (Stories \X Refs)

(* A story told as done or failed is not told again while its run does not  *)
(* change, however the stores move between the reads of a digest, however long the *)
(* loop sleeps and wherever the process restarts, but for a digest whose   *)
(* sending was not recorded.                                               *)
ToldOnce == pc = "send" => news \intersect told = {}
=============================================================================
