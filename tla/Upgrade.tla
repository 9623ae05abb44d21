------------------------------- MODULE Upgrade -------------------------------
(***************************************************************************)
(* How a process that starts brings the databases it finds up to its own   *)
(* schema: the kernel store's Open (store/store.go), the ticket store's    *)
(* (tickets/tickets.go) and the projects store's (projects/projects.go), in*)
(* the order app.Build calls them.  There is no version number: every      *)
(* start runs every statement again, each one committed on its own, and a  *)
(* statement whose work is already done must change nothing.  A process    *)
(* may die, or a statement fail, between any two of them, and whatever the *)
(* databases hold then is what the next start finds.                       *)
(*                                                                         *)
(* Two tables are moved to a primary key that holds the project, by copying*)
(* an explicit list of columns into a new table and dropping the old one.  *)
(* Statements whose order cannot matter (columns of one batch) run in one  *)
(* fixed order.  Columns every version had are the single column "id".     *)
(***************************************************************************)
EXTENDS Naturals, FiniteSets

CONSTANTS
  Ids,        \* row ids
  Projects,   \* project ids, DefaultProjectID among them
  Default,    \* store.DefaultProjectID
  Blank       \* the empty project_id of a row older than the column

VARIABLES
  ran,        \* the statements this start has run; {} right after a start
  cols,       \* cols[t]: the columns of table t, {} while there is no table
  keyed,      \* the tables whose primary key holds the project
  rows,       \* rows[t]: the pairs <<id, project_id>> of table t
  deps        \* the rows of story_deps: [story, dep, project]

vars == <<ran, cols, keyed, rows, deps>>

Kernel  == {"runs", "tasks", "events"}
Stamped == Kernel \union {"stories", "sprints"}
Tables  == Stamped \union {"story_deps", "projects"}

(* Columns added before, and after, the two tables are rebuilt.            *)
EarlyStory == {"repo", "pr_url", "project_id"}
LateStory  == {"external_ref", "kind", "screen_key"}
Ceremony   == {"planned_at", "planning_run_id", "reviewed_at",
               "review_run_id", "retro_at", "retro_run_id"}
ProjectColumns ==
  {"owner_id", "execution_unit", "merge_mode", "dispatch_mode", "executor",
   "model_by_lane", "executor_by_lane", "workflow_approval",
   "max_concurrency", "digest_channel", "last_digest_at", "release_target",
   "firebase_token", "planning_mode", "review_mode", "retro_mode"}

(* Every column the running code reads or writes.                          *)
Wanted(t) ==
  CASE t = "runs"       -> {"id", "project_id", "deleted_at"}
    [] t = "tasks"      -> {"id", "project_id", "available_at"}
    [] t = "events"     -> {"id", "project_id"}
    [] t = "stories"    -> {"id", "agent_lost"} \union EarlyStory \union LateStory
    [] t = "sprints"    -> {"id", "project_id"} \union Ceremony
    [] t = "story_deps" -> {"id", "project_id"}
    [] OTHER            -> {"id"} \union ProjectColumns

(* What CREATE TABLE IF NOT EXISTS gives a database that has no table yet, *)
(* and whether that table's key already holds the project.                 *)
SchemaColumns(t) ==
  CASE t = "stories"    -> Wanted(t) \ {"agent_lost"}
    [] t = "story_deps" -> {"id"}
    [] OTHER            -> Wanted(t)
SchemaKeyed == {"sprints"}

(* The list of columns a rebuild names, on both sides of its copy.         *)
Copied(t) ==
  CASE t = "stories"    -> {"id"} \union EarlyStory \union LateStory
    [] t = "sprints"    -> {"id", "project_id"}
    [] t = "story_deps" -> {"id", "project_id"}
    [] OTHER            -> {}
Rebuilt == {"stories", "sprints"}

-----------------------------------------------------------------------------
(* The statements of the three Opens.                                      *)

Statement == [op : {"create", "add", "stamp", "rebuild"}, t : Tables,
              c : UNION {Wanted(t) : t \in Tables}]

Create(t)  == [op |-> "create", t |-> t, c |-> "id"]
Add(t, c)  == [op |-> "add", t |-> t, c |-> c]
Stamp(t)   == [op |-> "stamp", t |-> t, c |-> "project_id"]
Rebuild(t) == [op |-> "rebuild", t |-> t, c |-> "id"]

Statements ==
  {s \in Statement : \/ s = Create(s.t)
                     \/ s.op = "add" /\ s.c \in Wanted(s.t) \ {"id"}
                     \/ s.t \in Stamped /\ s = Stamp(s.t)
                     \/ s.t \in Rebuilt /\ s = Rebuild(s.t)}

(* The place of a statement in the three functions, batch by batch.        *)
Rank(s) ==
  CASE s.t \in Kernel      -> [create |-> 1, add |-> 2, stamp |-> 3][s.op]
    [] s.t = "stories"     -> IF s.op = "add"
                              THEN IF s.c \in EarlyStory THEN 5
                                   ELSE IF s.c \in LateStory THEN 7 ELSE 11
                              ELSE [create |-> 4, stamp |-> 6, rebuild |-> 9][s.op]
    [] s.t = "sprints"     -> IF s.op = "add"
                              THEN IF s.c = "project_id" THEN 5 ELSE 11
                              ELSE [create |-> 4, stamp |-> 6, rebuild |-> 10][s.op]
    [] s.t = "story_deps"  -> [create |-> 4, add |-> 8][s.op]
    [] s.t = "projects"    -> [create |-> 12, add |-> 13][s.op]

Ready == {s \in Statements \ ran :
            \A r \in Statements \ ran : Rank(s) <= Rank(r)}

Serving == ran = Statements

-----------------------------------------------------------------------------
(* What each statement does.                                               *)

Ran(s) == ran' = ran \union {s}

(* CREATE TABLE IF NOT EXISTS.                                             *)
DoCreate(t) ==
  /\ Create(t) \in Ready /\ Ran(Create(t))
  /\ IF cols[t] # {}
     THEN UNCHANGED <<cols, keyed>>
     ELSE /\ cols' = [cols EXCEPT ![t] = SchemaColumns(t)]
          /\ keyed' = keyed \union ({t} \intersect SchemaKeyed)
  /\ UNCHANGED <<rows, deps>>

(* ALTER TABLE ... ADD COLUMN; "duplicate column name" is not an error.     *)
(* story_deps gets its column only while the stories are not keyed yet.    *)
DoAdd(t, c) ==
  /\ Add(t, c) \in Ready /\ Ran(Add(t, c))
  /\ cols' = IF t = "story_deps" /\ "stories" \in keyed
             THEN cols ELSE [cols EXCEPT ![t] = @ \union {c}]
  /\ UNCHANGED <<keyed, rows, deps>>

(* UPDATE t SET project_id = 'default' WHERE project_id = '': refused when  *)
(* the key would then be there twice.                                      *)
StampAccepted(t) ==
  t \in keyed =>
    \A r \in rows[t] : r[2] = Blank => <<r[1], Default>> \notin rows[t]
DoStamp(t) ==
  /\ Stamp(t) \in Ready /\ Ran(Stamp(t))
  /\ StampAccepted(t)
  /\ rows' = [rows EXCEPT ![t] = {<<r[1], IF r[2] = Blank THEN Default ELSE r[2]>>
                                    : r \in @}]
  /\ UNCHANGED <<cols, keyed, deps>>

(* The rebuild names every column it copies: a missing one is an error.    *)
(* The edges with no project take their story's (NULL is refused), and     *)
(* their table's key is rebuilt in the same transaction.                   *)
StoriesOf(i) == {r \in rows["stories"] : r[1] = i}
EdgeProject(d) == (CHOOSE r \in StoriesOf(d.story) : TRUE)[2]
RebuildAccepted(t) ==
  /\ Copied(t) \subseteq cols[t]
  /\ t = "stories" =>
       /\ "project_id" \in cols["story_deps"]
       /\ \A d \in deps : d.project = Blank => StoriesOf(d.story) # {}
DoRebuildStories ==
  /\ Rebuild("stories") \in Ready /\ Ran(Rebuild("stories"))
  /\ IF "stories" \in keyed
     THEN UNCHANGED <<cols, keyed, deps>>
     ELSE /\ RebuildAccepted("stories")
          /\ cols' = [cols EXCEPT !["stories"] = Copied("stories"),
                                  !["story_deps"] = Copied("story_deps")]
          /\ keyed' = keyed \union {"stories", "story_deps"}
          /\ deps' = {IF d.project = Blank
                      THEN [d EXCEPT !.project = EdgeProject(d)] ELSE d : d \in deps}
  /\ UNCHANGED rows
DoRebuildSprints ==
  /\ Rebuild("sprints") \in Ready /\ Ran(Rebuild("sprints"))
  /\ IF "sprints" \in keyed
     THEN UNCHANGED <<cols, keyed>>
     ELSE /\ RebuildAccepted("sprints")
          /\ cols' = [cols EXCEPT !["sprints"] = Copied("sprints")]
          /\ keyed' = keyed \union {"sprints"}
  /\ UNCHANGED <<rows, deps>>

(* The process ends, or Open returns a statement's error: the next start    *)
(* begins with the first statement.                                        *)
Restart ==
  /\ ran # {}
  /\ ran' = {}
  /\ UNCHANGED <<cols, keyed, rows, deps>>

(* Once open, the stores insert rows that always carry a project: a run, a *)
(* task, an event, a sprint, and a story with its edges.                   *)
Insert(t, i, p) ==
  /\ Serving
  /\ IF t \in keyed THEN <<i, p>> \notin rows[t] ELSE \A r \in rows[t] : r[1] # i
  /\ rows' = [rows EXCEPT ![t] = @ \union {<<i, p>>}]
  /\ UNCHANGED <<ran, cols, keyed>>
InsertRow(t, i, p) == t # "stories" /\ Insert(t, i, p) /\ UNCHANGED deps
CreateStory(i, p, D) ==
  /\ Insert("stories", i, p)
  /\ deps' = deps \union {[story |-> i, dep |-> d, project |-> p] : d \in D}

-----------------------------------------------------------------------------
(* A database some earlier version left.  A table whose key does not hold  *)
(* the project predates every column that is added after its rebuild.      *)
Left ==
  /\ \A t \in Tables : cols[t] # {} => "id" \in cols[t]
  /\ \A t \in Rebuilt : t \notin keyed => cols[t] \subseteq Copied(t)
  /\ keyed \subseteq Rebuilt \union {"story_deps"}
  /\ "stories" \in keyed => "project_id" \in cols["story_deps"]
  /\ \A t \in keyed : t \in Rebuilt => Copied(t) \subseteq cols[t]
  /\ \A t \in Stamped :
       /\ "project_id" \notin cols[t] => \A r \in rows[t] : r[2] = Blank
       /\ cols[t] = {} => rows[t] = {}
       /\ t \in keyed => \A r \in rows[t] : r[2] # Blank
       /\ t \notin keyed => \A r, q \in rows[t] : r[1] = q[1] => r = q
  /\ \A d \in deps :
       \/ d.project = Blank /\ "stories" \notin keyed
                            /\ \E r \in rows["stories"] : r[1] = d.story
       \/ d.project # Blank /\ <<d.story, d.project>> \in rows["stories"]

Types ==
  /\ ran \in SUBSET Statements
  /\ cols \in [Tables -> SUBSET UNION {Wanted(t) : t \in Tables}]
  /\ \A t \in Tables : cols[t] \subseteq Wanted(t)
  /\ keyed \in SUBSET Tables
  /\ rows \in [Stamped -> SUBSET (Ids \X (Projects \union {Blank}))]
  /\ deps \in SUBSET [story : Ids, dep : Ids, project : Projects \union {Blank}]

Init ==
  /\ ran = {}
  /\ Types
  /\ Left

Step(s) ==
  \/ s.op = "create" /\ DoCreate(s.t)
  \/ s.op = "add" /\ DoAdd(s.t, s.c)
  \/ s.op = "stamp" /\ DoStamp(s.t)
  \/ s = Rebuild("stories") /\ DoRebuildStories
  \/ s = Rebuild("sprints") /\ DoRebuildSprints

Next ==
  \/ Ready # {} /\ Step(CHOOSE s \in Ready : TRUE)
  \/ Restart
  \/ \E t \in Stamped, i \in Ids, p \in Projects : InsertRow(t, i, p)
  \/ \E i \in Ids, p \in Projects, D \in SUBSET Ids : CreateStory(i, p, D)

Spec == Init /\ [][Next]_vars

-----------------------------------------------------------------------------
(* A process that serves has every table, with every column its statements *)
(* name; every row belongs to a project; the stories, the sprints and the  *)
(* edges are keyed by project, and every edge names the project of a story *)
(* that is there.  Whatever the databases were, and wherever earlier starts*)
(* stopped.                                                                *)
Stamps == \A t \in Stamped : \A r \in rows[t] : r[2] # Blank
Edges  == \A d \in deps : <<d.story, d.project>> \in rows["stories"]
OpenIsComplete ==
  Serving => /\ \A t \in Tables : cols[t] = Wanted(t)
             /\ Rebuilt \subseteq keyed
             /\ Stamps
             /\ Edges

(* No statement is ever refused: a rebuild finds every column it names and *)
(* a story for every edge, a backfill never makes a key twice.  A database *)
(* that one start could not upgrade would keep every later one from opening.*)
NeverRefused ==
  \A s \in Ready :
    /\ s.op = "stamp" => StampAccepted(s.t)
    /\ s.op = "rebuild" /\ s.t \notin keyed => RebuildAccepted(s.t)

(* No step of an upgrade loses anything: not a column some version added   *)
(* (a rebuild copies only the columns it names), not a row, not an edge,   *)
(* and no row or edge changes a project it has.                            *)
Loses ==
  \/ \E t \in Tables : ~(cols[t] \subseteq cols'[t])
  \/ \E t \in Stamped : \E r \in rows[t] :
       r \notin rows'[t] /\ (r[2] # Blank \/ \A p \in Projects : <<r[1], p>> \notin rows'[t])
  \/ \E d \in deps :
       d \notin deps' /\ (d.project # Blank
                          \/ \A p \in Projects : [d EXCEPT !.project = p] \notin deps')
NothingIsLost == [][~Loses]_vars
=============================================================================
