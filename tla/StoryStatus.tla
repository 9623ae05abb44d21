---------------------------- MODULE StoryStatus ----------------------------
(* The statuses of a story and the moves between them that the ticket store  *)
(* accepts (tickets/tickets.go).                                             *)

Statuses == {"backlog", "running", "in_review", "done", "failed", "cancelled"}

\* Faulty variant: a failure may strike a cancelled story.
LegalSources_Reopen ==
  [running   |-> {"backlog"},
   in_review |-> {"running"},
   done      |-> {"in_review"},
   failed    |-> {"backlog", "running", "in_review", "cancelled"},
   cancelled |-> {"backlog", "failed", "in_review"}]

\* The statuses a story may leave for each target.
LegalSources ==
  [running   |-> {"backlog"},
   in_review |-> {"running"},
   done      |-> {"in_review"},
   failed    |-> {"backlog", "running", "in_review"},
   cancelled |-> {"backlog", "failed", "in_review"}]

NotEnded == {"backlog", "running", "in_review"}
=============================================================================
