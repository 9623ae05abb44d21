------------------------------ MODULE EventBus ------------------------------
(****************************************************************************)
(* The events table and who follows it (engine/internal/store,              *)
(* api/bus.go, api/websocket.go, channels/delivery.go).  Writers append     *)
(* under sqlite's write lock, so a row with a smaller seq is never visible  *)
(* after one with a larger seq; one goroutine polls the tail of the table,  *)
(* offers each event to the bounded queue of every connected browser while  *)
(* it holds the lock of the bus, and then hands it to the outbound chat     *)
(* channels, which send in goroutines of their own.  Retention deletes old  *)
(* rows at any time, and the process may die at any time.                   *)
(*                                                                          *)
(* An event's payload is abstracted to the run it is about and whether it   *)
(* is one of the few a chat channel is told of (loud).                      *)
(****************************************************************************)
EXTENDS Naturals, Sequences, FiniteSets

CONSTANTS Runs,         \* runs events are about
          AllRuns,      \* the filter of a client that follows every run
          Clients,      \* websocket connections, one at a time each
          Targets,      \* chat channels
          Cap,          \* the size of a client's queue (256 in the code)
          MaxEvents, MaxRestarts

VARIABLES
  rows,       \* seqs in the events table
  last,       \* the AUTOINCREMENT counter of seq
  what,       \* seq -> [run, loud]
  tx,         \* the write transaction: [open, base], base the counter when it began
  pc,         \* the bus goroutine: "start" (MaxSeq not read yet), "idle", "fan", "hook"
  lastSeq,    \* Bus.lastSeq
  todo,       \* events read and not yet offered to the clients
  tell,       \* events read and not yet handed to the channels
  conn,       \* client -> [pc, run], pc "off", "on" or "leaving"
  ch,         \* client -> its queue
  hand,       \* client -> what its handler took from the queue and is writing
  sends,      \* the send goroutines that run: [to, seq]
  \* history
  got,        \* client -> what its connection was sent
  since,      \* client -> the position of the bus when it subscribed
  dropped,    \* client -> events its full queue refused
  lost,       \* seqs pruned before the bus of this process read them
  announced,  \* seq -> how often the channels were told
  posts,      \* <<channel, seq>> -> how often the channel got it
  blind,      \* whether some start could not read MaxSeq
  started,    \* the position of the bus when this process started it
  restarts

table == <<rows, last, what, tx>>
bus == <<pc, lastSeq, todo, tell>>
client == <<conn, ch, hand, got, since, dropped>>
channel == <<sends, announced, posts>>
past == <<lost, blind, started, restarts>>
vars == <<table, bus, client, channel, past>>

Seqs == 1 .. MaxEvents

\* The last seq whose transaction has committed.
Tip == IF tx.open THEN tx.base ELSE last

Smallest(e, S) == e \in S /\ \A x \in S : e <= x

Largest(e, S) == IF S = {} THEN e = 0 ELSE e \in S /\ \A x \in S : x <= e

Elements(q) == {q[i] : i \in DOMAIN q}

Wants(c, e) == conn[c].run \in {AllRuns, what[e].run}

Init ==
    /\ rows = {} /\ last = 0
    /\ what \in [Seqs -> [run : Runs, loud : BOOLEAN]]
    /\ tx = [open |-> FALSE, base |-> 0]
    /\ pc = "start" /\ lastSeq = 0 /\ todo = {} /\ tell = {}
    /\ conn = [c \in Clients |-> [pc |-> "off", run |-> AllRuns]]
    /\ ch = [c \in Clients |-> <<>>] /\ hand = [c \in Clients |-> <<>>]
    /\ sends = {}
    /\ got = [c \in Clients |-> <<>>] /\ since = [c \in Clients |-> 0]
    /\ dropped = [c \in Clients |-> {}]
    /\ lost = {} /\ blind = FALSE /\ started = 0 /\ restarts = 0
    /\ announced = [e \in Seqs |-> 0]
    /\ posts = [t \in Targets |-> [e \in Seqs |-> 0]]

-----------------------------------------------------------------------------
(* The writers: one at a time has the write lock, and rolling back gives    *)
(* the seqs back.                                                           *)

BeginTx ==
    /\ ~tx.open
    /\ tx' = [open |-> TRUE, base |-> last]
    /\ UNCHANGED <<rows, last, what, bus, client, channel, past>>

emitTx ==
    /\ tx.open /\ last < MaxEvents
    /\ last' = last + 1
    /\ UNCHANGED <<rows, what, tx, bus, client, channel, past>>

CommitTx ==
    /\ tx.open
    /\ rows' = rows \cup {e \in Seqs : tx.base < e /\ e <= last}
    /\ tx' = [open |-> FALSE, base |-> 0]
    /\ UNCHANGED <<last, what, bus, client, channel, past>>

RollbackTx ==
    /\ tx.open
    /\ last' = tx.base
    /\ tx' = [open |-> FALSE, base |-> 0]
    /\ UNCHANGED <<rows, what, bus, client, channel, past>>

AppendEvent ==
    /\ ~tx.open /\ last < MaxEvents
    /\ last' = last + 1
    /\ rows' = rows \cup {last + 1}
    /\ UNCHANGED <<what, tx, bus, client, channel, past>>

\* created_at is read before the row is inserted, so what is old enough is
\* not a prefix of the table.
PruneEvents(D) ==
    /\ ~tx.open
    /\ D # {} /\ rows' = rows \ D
    /\ lost' = lost \cup {e \in D : e > lastSeq /\ e \notin todo}
    /\ UNCHANGED <<last, what, tx, bus, client, channel, blind, started, restarts>>

-----------------------------------------------------------------------------
(* The bus.                                                                 *)

\* From the tip of the table, or from 0 when it cannot be read.
StartBus(tip) ==
    /\ pc = "start"
    /\ Largest(tip, rows) \/ tip = 0
    /\ blind' = (blind \/ ~Largest(tip, rows))
    /\ lastSeq' = tip /\ started' = tip
    /\ since' = [c \in Clients |-> tip]
    /\ lost' = {e \in Seqs : tip < e /\ e <= Tip} \ rows
    /\ pc' = "idle"
    /\ UNCHANGED <<table, todo, tell, conn, ch, hand, got, dropped, channel, restarts>>

DrainRead ==
    /\ pc = "idle"
    /\ LET new == {e \in rows : e > lastSeq} IN
       /\ new # {}
       /\ todo' = new /\ tell' = new
    /\ pc' = "fan"
    /\ UNCHANGED <<table, lastSeq, client, channel, past>>

Accepts(c, e) == conn[c].pc # "off" /\ Wants(c, e)

\* One event, offered to every queue without waiting.
DrainFan(e) ==
    /\ pc = "fan" /\ Smallest(e, todo)
    /\ todo' = todo \ {e}
    /\ lastSeq' = IF e > lastSeq THEN e ELSE lastSeq
    /\ ch' = [c \in Clients |->
                IF Accepts(c, e) /\ Len(ch[c]) < Cap THEN Append(ch[c], e) ELSE ch[c]]
    /\ dropped' = [c \in Clients |->
                IF Accepts(c, e) /\ ~(Len(ch[c]) < Cap) THEN dropped[c] \cup {e} ELSE dropped[c]]
    /\ pc' = IF todo = {e} THEN "hook" ELSE "fan"
    /\ UNCHANGED <<table, tell, conn, hand, got, since, channel, past>>

\* onEvent, outside the lock: Deliver looks up the channels of a loud event
\* (the look-up may fail: nobody is told) and starts a send for each.
DrainHook(e, T) ==
    /\ pc = "hook" /\ Smallest(e, tell)
    /\ tell' = tell \ {e}
    /\ announced' = [announced EXCEPT ![e] = @ + 1]
    /\ sends' = IF what[e].loud THEN sends \cup {[to |-> t, seq |-> e] : t \in T} ELSE sends
    /\ pc' = IF tell = {e} THEN "idle" ELSE "hook"
    /\ UNCHANGED <<table, lastSeq, todo, client, posts, past>>

\* A send ends within notifyTimeout, one way or the other.
Notify(n) ==
    /\ n \in sends
    /\ sends' = sends \ {n}
    /\ \/ posts' = [posts EXCEPT ![n.to][n.seq] = @ + 1]
       \/ UNCHANGED posts
    /\ UNCHANGED <<table, bus, client, announced, past>>

-----------------------------------------------------------------------------
(* A websocket connection.  Subscribe and Unsubscribe take the lock of the  *)
(* bus, which the fan-out holds.                                            *)

Subscribe(c, r) ==
    /\ conn[c].pc = "off" /\ pc # "fan"
    /\ conn' = [conn EXCEPT ![c] = [pc |-> "on", run |-> r]]
    /\ ch' = [ch EXCEPT ![c] = <<>>]
    /\ hand' = [hand EXCEPT ![c] = <<>>]
    /\ got' = [got EXCEPT ![c] = <<>>]
    /\ since' = [since EXCEPT ![c] = lastSeq]
    /\ dropped' = [dropped EXCEPT ![c] = {}]
    /\ UNCHANGED <<table, bus, channel, past>>

Receive(c) ==
    /\ conn[c].pc = "on" /\ hand[c] = <<>> /\ ch[c] # <<>>
    /\ hand' = [hand EXCEPT ![c] = <<Head(ch[c])>>]
    /\ ch' = [ch EXCEPT ![c] = Tail(@)]
    /\ UNCHANGED <<table, bus, conn, got, since, dropped, channel, past>>

Write(c) ==
    /\ conn[c].pc = "on" /\ hand[c] # <<>>
    /\ got' = [got EXCEPT ![c] = Append(@, hand[c][1])]
    /\ hand' = [hand EXCEPT ![c] = <<>>]
    /\ UNCHANGED <<table, bus, conn, ch, since, dropped, channel, past>>

\* The request ends, or the write fails.
Leave(c) ==
    /\ conn[c].pc = "on"
    /\ conn' = [conn EXCEPT ![c].pc = "leaving"]
    /\ UNCHANGED <<table, bus, ch, hand, got, since, dropped, channel, past>>

Unsubscribe(c) ==
    /\ conn[c].pc = "leaving" /\ pc # "fan"
    /\ conn' = [conn EXCEPT ![c].pc = "off"]
    /\ UNCHANGED <<table, bus, ch, hand, got, since, dropped, channel, past>>

-----------------------------------------------------------------------------
\* The process dies: an open transaction is rolled back, connections and
\* sends are gone, and the new process has a new bus.
Restart ==
    /\ restarts < MaxRestarts
    /\ restarts' = restarts + 1
    /\ last' = Tip
    /\ tx' = [open |-> FALSE, base |-> 0]
    /\ pc' = "start" /\ lastSeq' = 0 /\ todo' = {} /\ tell' = {}
    /\ conn' = [c \in Clients |-> [pc |-> "off", run |-> AllRuns]]
    /\ sends' = {}
    /\ started' = 0
    /\ UNCHANGED <<rows, what, ch, hand, got, since, dropped, announced, posts, lost, blind>>

Next ==
    \/ BeginTx \/ emitTx \/ CommitTx \/ RollbackTx \/ AppendEvent
    \/ \E D \in SUBSET rows : PruneEvents(D)
    \/ \E tip \in Seqs \cup {0} : StartBus(tip)
    \/ DrainRead
    \/ \E e \in Seqs : DrainFan(e)
    \/ \E e \in Seqs, T \in SUBSET Targets : DrainHook(e, T)
    \/ \E n \in sends : Notify(n)
    \/ \E c \in Clients, r \in Runs \cup {AllRuns} : Subscribe(c, r)
    \/ \E c \in Clients : Receive(c) \/ Write(c) \/ Leave(c) \/ Unsubscribe(c)
    \/ Restart

Spec == Init /\ [][Next]_vars

-----------------------------------------------------------------------------
TypeOK ==
    /\ rows \subseteq Seqs
    /\ last \in 0 .. MaxEvents
    /\ what \in [Seqs -> [run : Runs, loud : BOOLEAN]]
    /\ tx \in [open : BOOLEAN, base : 0 .. MaxEvents]
    /\ pc \in {"start", "idle", "fan", "hook"}
    /\ lastSeq \in 0 .. MaxEvents
    /\ todo \subseteq Seqs /\ tell \subseteq Seqs
    /\ conn \in [Clients -> [pc : {"off", "on", "leaving"}, run : Runs \cup {AllRuns}]]
    /\ ch \in [Clients -> Seq(Seqs)]
    /\ hand \in [Clients -> Seq(Seqs)] /\ \A c \in Clients : Len(hand[c]) <= 1
    /\ got \in [Clients -> Seq(Seqs)]
    /\ since \in [Clients -> 0 .. MaxEvents]
    /\ dropped \in [Clients -> SUBSET Seqs]
    /\ lost \subseteq Seqs /\ blind \in BOOLEAN
    /\ started \in 0 .. MaxEvents /\ restarts \in Nat
    /\ sends \subseteq [to : Targets, seq : Seqs]
    /\ announced \in [Seqs -> Nat]
    /\ posts \in [Targets -> [Seqs -> Nat]]

Increasing(q) == \A i, j \in DOMAIN q : i < j => q[i] < q[j]

\* What a connection receives is in the order of the table and without
\* repetitions, whatever is appended, rolled back or pruned meanwhile.
StreamInOrder == \A c \in Clients : conn[c].pc = "on" => Increasing(got[c])

\* A connection misses only what its own full queue refused or what was
\* pruned before the bus read it: no event is skipped because another with a
\* larger seq was seen first, or because the client subscribed while the bus
\* was reading.
NothingSkipped ==
    \A c \in Clients, e \in Seqs :
        conn[c].pc = "on" /\ since[c] < e /\ e <= lastSeq /\ Wants(c, e)
            => e \in Elements(got[c]) \cup Elements(hand[c]) \cup Elements(ch[c])
                     \cup dropped[c] \cup lost

\* A chat channel hears of an event at most once, restarts included, as long
\* as every start could read the tip of the table.
ToldOnce ==
    ~blind => \A e \in Seqs : announced[e] <= 1 /\ \A t \in Targets : posts[t][e] <= 1

=============================================================================
