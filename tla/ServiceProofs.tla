---------------------------- MODULE ServiceProofs ----------------------------
(***************************************************************************)
(* The services around the kernel, and what is kept on disk: the event bus *)
(* and the chat channels, the daily digest, the orchestrator's GitHub mode,*)
(* the previews releases leave, and the databases a new process upgrades.  *)
(* They share no state; all but the event bus are brought in under a name  *)
(* of their own: Digest, Loop, Rel and Up.                                 *)
(***************************************************************************)
EXTENDS EventBus, FiniteSetTheorems, SequenceTheorems, TLAPS

CONSTANTS Stories, NoRun, Due
VARIABLES clock, story, runOf, updated, linked, mark, digestPc, next, window, seen, asOf,
          news, told

Digest == INSTANCE Standup
          WITH status <- story, channel <- linked, pc <- digestPc, since <- window

CONSTANTS Issues, Deps, MaxRuns, MaxFaults
VARIABLES open, status, for, fired, completed, failed, file, loopPc, listed, queue, fresh,
          faults, closedOnce, forgotten

Loop == INSTANCE IssueOrchestrator WITH pc <- loopPc, todo <- queue

CONSTANTS Workers, Keep, Calm
VARIABLES relPc, job, src, dirs, mod, diskClock, victims, at, unremoved

Rel == INSTANCE Releases WITH pc <- relPc, clock <- diskClock, failed <- unremoved

CONSTANTS Ids, Projects, Default, Blank
VARIABLES ran, cols, keyed, tableRows, deps

Up == INSTANCE Upgrade WITH rows <- tableRows

(****************************************************************************)
(* A browser's stream is in order and misses only what its own queue        *)
(* refused or what was pruned unread, and a chat channel is told once --    *)
(* for every number of runs, clients, channels, events and restarts and     *)
(* every size of the queues.                                                *)
(*                                                                          *)
(* The argument: sqlite's writer lock makes seqs visible in their order     *)
(* (Committed, Covered), so the tail the bus reads never has a hole that    *)
(* is filled later; the bus offers a batch in order before it moves on      *)
(* (Batch); so what a queue gets is above all it got before (Streams).      *)
(****************************************************************************)

Committed ==
    /\ tx.open => tx.base <= last
    /\ \A e \in rows \cup todo \cup tell \cup lost : e <= Tip
    /\ lastSeq <= Tip

Batch ==
    /\ (pc = "fan") <=> (todo # {})
    /\ todo \subseteq tell
    /\ pc \in {"start", "idle"} => tell = {}
    /\ \A e \in todo : lastSeq < e
    /\ \A e \in tell \ todo : e <= lastSeq
    /\ pc = "start" => lastSeq = 0

\* Above the position of the bus, a committed seq is in its batch, still in
\* the table, or lost; and what is not in the batch is above it.
Covered ==
    pc # "start" =>
      \A x \in Seqs : lastSeq < x /\ x <= Tip /\ x \notin lost =>
          x \in todo \/ (x \in rows /\ \A t \in todo : t < x)

Streams ==
    \A c \in Clients : conn[c].pc # "off" =>
        /\ since[c] <= lastSeq
        /\ Increasing(got[c]) /\ Increasing(hand[c]) /\ Increasing(ch[c])
        /\ \A g \in Elements(got[c]), x \in Elements(hand[c]) \cup Elements(ch[c]) : g < x
        /\ \A h \in Elements(hand[c]), x \in Elements(ch[c]) : h < x
        /\ \A x \in Elements(got[c]) \cup Elements(hand[c]) \cup Elements(ch[c]) : x <= lastSeq

Told ==
    /\ \A e \in Seqs : announced[e] # 0 => e <= Tip
    /\ \A t \in Targets, e \in Seqs :
         /\ posts[t][e] <= announced[e]
         /\ [to |-> t, seq |-> e] \in sends => posts[t][e] < announced[e]
    /\ ~blind => \A e \in Seqs :
         /\ announced[e] <= 1
         /\ e \in tell => announced[e] = 0
         /\ announced[e] # 0 /\ e \in rows /\ pc # "start" => e <= lastSeq

IInv == TypeOK /\ Committed /\ Batch /\ Covered /\ Streams /\ NothingSkipped /\ Told

-----------------------------------------------------------------------------
(* Queues.                                                                   *)

LEMMA ElementsOfSeq ==
  ASSUME NEW q \in Seq(Seqs)
  PROVE  Elements(q) \subseteq Seqs
BY ElementOfSeq DEF Elements

LEMMA EmptyQueue == Elements(<<>>) = {} /\ Increasing(<<>>)
BY DEF Elements, Increasing

LEMMA SingleQueue ==
  ASSUME NEW e \in Seqs
  PROVE  <<e>> \in Seq(Seqs) /\ Len(<<e>>) = 1 /\ Elements(<<e>>) = {e} /\ Increasing(<<e>>)
BY DEF Elements, Increasing

LEMMA AppendQueue ==
  ASSUME NEW q \in Seq(Seqs), NEW e \in Seqs
  PROVE  /\ Append(q, e) \in Seq(Seqs)
         /\ Elements(Append(q, e)) = Elements(q) \cup {e}
         /\ Increasing(q) /\ (\A x \in Elements(q) : x < e) => Increasing(Append(q, e))
<1>1. /\ Append(q, e) \in Seq(Seqs) /\ Len(Append(q, e)) = Len(q) + 1 /\ Len(q) \in Nat
      /\ DOMAIN q = 1 .. Len(q) /\ DOMAIN Append(q, e) = 1 .. Len(q) + 1
      /\ \A i \in 1 .. Len(q) : Append(q, e)[i] = q[i]
      /\ Append(q, e)[Len(q) + 1] = e
  OBVIOUS
<1>2. Elements(Append(q, e)) = Elements(q) \cup {e}
  BY <1>1 DEF Elements
<1>3. ASSUME Increasing(q), \A x \in Elements(q) : x < e  PROVE Increasing(Append(q, e))
  <2>1. \A i \in 1 .. Len(q) : q[i] < e
    BY <1>1, <1>3 DEF Elements
  <2> QED
    BY <1>1, <1>3, <2>1 DEF Increasing
<1> QED
  BY <1>1, <1>2, <1>3

LEMMA HeadOfQueue ==
  ASSUME NEW q \in Seq(Seqs), q # <<>>
  PROVE  /\ Head(q) \in Seqs /\ Tail(q) \in Seq(Seqs)
         /\ Elements(q) = {Head(q)} \cup Elements(Tail(q))
         /\ Increasing(q) => Increasing(Tail(q)) /\ \A x \in Elements(Tail(q)) : Head(q) < x
<1>1. /\ Len(q) \in Nat /\ Len(q) > 0 /\ DOMAIN q = 1 .. Len(q)
      /\ Head(q) = q[1] /\ q[1] \in Seqs /\ Tail(q) \in Seq(Seqs)
      /\ DOMAIN Tail(q) = 1 .. Len(q) - 1
      /\ \A i \in 1 .. Len(q) - 1 : Tail(q)[i] = q[i + 1]
  BY ElementOfSeq
<1>2. Elements(q) = {Head(q)} \cup Elements(Tail(q))
  <2>1. \A i \in 2 .. Len(q) : i - 1 \in 1 .. Len(q) - 1 /\ q[i] = Tail(q)[i - 1]
    BY <1>1
  <2>2. \A x \in Elements(q) : x \in {Head(q)} \cup Elements(Tail(q))
    BY <1>1, <2>1 DEF Elements
  <2>3. \A i \in 1 .. Len(q) - 1 : i + 1 \in DOMAIN q
    BY <1>1
  <2>4. \A x \in {Head(q)} \cup Elements(Tail(q)) : x \in Elements(q)
    BY <1>1, <2>3 DEF Elements
  <2> QED
    BY <2>2, <2>4
<1>3. ASSUME Increasing(q)
      PROVE  Increasing(Tail(q)) /\ \A x \in Elements(Tail(q)) : Head(q) < x
  <2>1. \A i, j \in 1 .. Len(q) : i < j => q[i] < q[j]
    BY <1>1, <1>3 DEF Increasing
  <2>2. \A i, j \in 1 .. Len(q) - 1 : i < j => Tail(q)[i] < Tail(q)[j]
    BY <1>1, <2>1
  <2>3. \A i \in 1 .. Len(q) - 1 : q[1] < Tail(q)[i]
    BY <1>1, <2>1
  <2> QED
    BY <1>1, <2>2, <2>3 DEF Increasing, Elements
<1> QED
  BY <1>1, <1>2, <1>3

-----------------------------------------------------------------------------
LEMMA InitIInv ==
  ASSUME MaxEvents \in Nat, Init
  PROVE  IInv
<1>1. TypeOK
  <2>1. 0 \in 0 .. MaxEvents /\ <<>> \in Seq(Seqs) /\ Len(<<>>) = 0
    OBVIOUS
  <2>2. /\ conn \in [Clients -> [pc : {"off", "on", "leaving"}, run : Runs \cup {AllRuns}]]
        /\ announced \in [Seqs -> Nat] /\ posts \in [Targets -> [Seqs -> Nat]]
    BY DEF Init
  <2>3. /\ rows \subseteq Seqs /\ todo \subseteq Seqs /\ tell \subseteq Seqs
             /\ lost \subseteq Seqs
        /\ sends \subseteq [to : Targets, seq : Seqs]
        /\ tx \in [open : BOOLEAN, base : 0 .. MaxEvents]
        /\ what \in [Seqs -> [run : Runs, loud : BOOLEAN]]
    BY <2>1 DEF Init
  <2>4. /\ ch \in [Clients -> Seq(Seqs)] /\ hand \in [Clients -> Seq(Seqs)]
        /\ \A c \in Clients : Len(hand[c]) <= 1
        /\ got \in [Clients -> Seq(Seqs)] /\ since \in [Clients -> 0 .. MaxEvents]
        /\ dropped \in [Clients -> SUBSET Seqs]
    BY <2>1 DEF Init
  <2>5. /\ last \in 0 .. MaxEvents /\ lastSeq \in 0 .. MaxEvents
             /\ started \in 0 .. MaxEvents
        /\ restarts \in Nat /\ blind \in BOOLEAN /\ pc \in {"start", "idle", "fan", "hook"}
    BY <2>1 DEF Init
  <2> QED
    BY <2>2, <2>3, <2>4, <2>5 DEF TypeOK
<1>2. Committed /\ Batch /\ Covered /\ Streams /\ NothingSkipped
  BY DEF Init, Committed, Batch, Covered, Streams, NothingSkipped, Tip
<1>3. Told
  BY DEF Init, Told, Tip, Seqs
<1> QED
  BY <1>1, <1>2, <1>3 DEF IInv

\* What the writers do: committed rows appear above the tip, in order.
LEMMA TableGrows ==
  ASSUME MaxEvents \in Nat, IInv, UNCHANGED <<what, bus, client, channel, past>>,
         last' \in 0 .. MaxEvents, tx' \in [open : BOOLEAN, base : 0 .. MaxEvents],
         tx'.open => tx'.base <= last', Tip <= Tip',
         rows' = rows \cup {e \in Seqs : Tip < e /\ e <= Tip'}
  PROVE  IInv'
<1>0. Tip \in Nat /\ Tip' \in Nat /\ Tip' <= MaxEvents /\ lastSeq \in Nat
  BY DEF Tip, IInv, TypeOK
<1>1. TypeOK'
  BY DEF IInv, TypeOK, bus, client, channel, past, Seqs
<1>2. Committed'
  <2>1. \A e \in rows' \cup todo' \cup tell' \cup lost' : e <= Tip'
    BY <1>0 DEF IInv, Committed, TypeOK, Seqs, bus, past
  <2> QED
    BY <1>0, <2>1 DEF IInv, Committed, bus
<1>3. Batch'
  BY DEF IInv, Batch, bus
<1>4. Covered'
  <2> SUFFICES ASSUME pc # "start", NEW x \in Seqs, lastSeq < x, x <= Tip',
                      x \notin lost, x \notin todo
               PROVE  x \in rows' /\ \A t \in todo : t < x
    BY DEF Covered, bus, past
  <2>1. CASE x <= Tip
    BY <2>1 DEF IInv, Covered
  <2>2. CASE ~(x <= Tip)
    BY <2>2, <1>0 DEF IInv, Committed, TypeOK, Seqs
  <2> QED
    BY <2>1, <2>2
<1>5. Streams' /\ NothingSkipped'
  BY DEF IInv, Streams, NothingSkipped, Wants, bus, client, past
<1>6. Told'
  <2>1. \A e \in Seqs : announced[e] # 0 => e <= Tip'
    BY <1>0 DEF IInv, Told, Seqs
  <2>2. \A e \in Seqs : announced[e] # 0 /\ e \in rows' => e \in rows
    BY <1>0 DEF IInv, Told, Seqs
  <2> QED
    BY <2>1, <2>2 DEF IInv, Told, bus, channel, past
<1> QED
  BY <1>1, <1>2, <1>3, <1>4, <1>5, <1>6 DEF IInv

LEMMA WritersIInv ==
  ASSUME MaxEvents \in Nat, IInv, BeginTx \/ emitTx \/ CommitTx \/ RollbackTx \/ AppendEvent
  PROVE  IInv'
<1>0. last \in 0 .. MaxEvents /\ tx \in [open : BOOLEAN, base : 0 .. MaxEvents]
        /\ rows \subseteq Seqs
      /\ (tx.open => tx.base <= last)
  BY DEF IInv, TypeOK, Committed
<1>1. CASE BeginTx
  BY <1>0, <1>1, TableGrows DEF BeginTx, Tip, Seqs
<1>2. CASE emitTx
  BY <1>0, <1>2, TableGrows DEF emitTx, Tip, Seqs
<1>3. CASE CommitTx
  BY <1>0, <1>3, TableGrows DEF CommitTx, Tip, Seqs
<1>4. CASE RollbackTx
  BY <1>0, <1>4, TableGrows DEF RollbackTx, Tip, Seqs
<1>5. CASE AppendEvent
  <2>1. {last + 1} = {e \in Seqs : Tip < e /\ e <= Tip'} /\ Tip <= Tip'
    BY <1>0, <1>5 DEF AppendEvent, Tip, Seqs
  <2> QED
    BY <1>0, <1>5, <2>1, TableGrows DEF AppendEvent
<1> QED
  BY <1>1, <1>2, <1>3, <1>4, <1>5

LEMMA PruneIInv ==
  ASSUME MaxEvents \in Nat, IInv, NEW D \in SUBSET rows, PruneEvents(D)
  PROVE  IInv'
<1>0. /\ rows' = rows \ D /\ lost' = lost \cup {e \in D : e > lastSeq /\ e \notin todo}
      /\ UNCHANGED <<last, what, tx, bus, client, channel, blind, started, restarts>>
      /\ Tip' = Tip
  BY DEF PruneEvents, Tip
<1>1. TypeOK'
  BY <1>0 DEF IInv, TypeOK, bus, client, channel
<1>2. Committed' /\ Batch'
  BY <1>0 DEF IInv, Committed, Batch, bus
<1>3. Covered'
  BY <1>0 DEF IInv, Covered, bus, TypeOK, Seqs
<1>4. Streams' /\ NothingSkipped'
  BY <1>0 DEF IInv, Streams, NothingSkipped, Wants, bus, client
<1>5. Told'
  BY <1>0 DEF IInv, Told, bus, channel
<1> QED
  BY <1>1, <1>2, <1>3, <1>4, <1>5 DEF IInv

-----------------------------------------------------------------------------
(* The bus.                                                                  *)

LEMMA StartIInv ==
  ASSUME MaxEvents \in Nat, IInv, NEW tip \in Seqs \cup {0}, StartBus(tip)
  PROVE  IInv'
<1>0. /\ pc = "start" /\ lastSeq = 0 /\ lastSeq' = tip /\ pc' = "idle"
      /\ started' = tip /\ since' = [c \in Clients |-> tip]
      /\ lost' = {e \in Seqs : tip < e /\ e <= Tip} \ rows
      /\ Largest(tip, rows) \/ tip = 0
      /\ blind' = (blind \/ ~Largest(tip, rows))
      /\ UNCHANGED <<table, todo, tell, conn, ch, hand, got, dropped, channel, restarts>>
      /\ Tip' = Tip /\ Tip \in Nat /\ tip \in 0 .. MaxEvents
  BY DEF StartBus, IInv, Batch, TypeOK, Tip, table, Seqs
<1>1. TypeOK'
  BY <1>0 DEF IInv, TypeOK, table, channel
<1>2. Committed'
  BY <1>0 DEF IInv, Committed, TypeOK, table, Largest, Seqs
<1>3. todo = {} /\ tell = {}
  BY <1>0 DEF IInv, Batch
<1>4. Batch' /\ Covered'
  BY <1>0, <1>3 DEF Batch, Covered, table
<1>5. Streams' /\ NothingSkipped'
  <2>1. \A c \in Clients : conn[c].pc # "off" =>
          \A x \in Elements(got[c]) \cup Elements(hand[c]) \cup Elements(ch[c]) : x <= tip
    <3>1. \A c \in Clients :
            Elements(got[c]) \subseteq Seqs /\ Elements(hand[c]) \subseteq Seqs
              /\ Elements(ch[c]) \subseteq Seqs
      BY ElementsOfSeq DEF IInv, TypeOK
    <3> QED
      BY <3>1, <1>0 DEF IInv, Streams, Seqs
  <2>2. Streams'
    BY <1>0, <2>1 DEF IInv, Streams
  <2>3. NothingSkipped'
    BY <1>0 DEF NothingSkipped, Seqs
  <2> QED
    BY <2>2, <2>3
<1>6. Told'
  <2>1. ~blind' => \A e \in rows : e <= tip
    BY <1>0 DEF Largest
  <2> QED
    BY <1>0, <1>3, <2>1 DEF IInv, Told, channel, table
<1> QED
  BY <1>1, <1>2, <1>4, <1>5, <1>6 DEF IInv

LEMMA DrainReadIInv ==
  ASSUME MaxEvents \in Nat, IInv, DrainRead
  PROVE  IInv'
<1>0. /\ pc = "idle" /\ pc' = "fan"
      /\ todo' = {e \in rows : e > lastSeq} /\ tell' = todo' /\ todo' # {}
      /\ UNCHANGED <<table, lastSeq, client, channel, past>> /\ Tip' = Tip
  BY DEF DrainRead, Tip, table
<1>1. TypeOK'
  BY <1>0 DEF IInv, TypeOK, table, client, channel, past
<1>2. Committed'
  BY <1>0 DEF IInv, Committed, table, past
<1>3. Batch'
  BY <1>0 DEF Batch, IInv, TypeOK, Seqs
<1>4. Covered'
  BY <1>0 DEF IInv, Covered, table, past, Batch
<1>5. Streams' /\ NothingSkipped'
  BY <1>0 DEF IInv, Streams, NothingSkipped, Wants, table, client, past
<1>6. Told'
  BY <1>0 DEF IInv, Told, table, channel, past, TypeOK, Seqs
<1> QED
  BY <1>1, <1>2, <1>3, <1>4, <1>5, <1>6 DEF IInv

LEMMA DrainFanIInv ==
  ASSUME MaxEvents \in Nat, IInv, NEW e \in Seqs, DrainFan(e)
  PROVE  IInv'
<1>0. /\ pc = "fan" /\ e \in todo /\ \A x \in todo : e <= x
      /\ todo' = todo \ {e} /\ lastSeq' = e /\ lastSeq < e
      /\ pc' = IF todo = {e} THEN "hook" ELSE "fan"
      /\ ch' \in [Clients -> Seq(Seqs)] /\ dropped' \in [Clients -> SUBSET Seqs]
      /\ UNCHANGED <<table, tell, conn, hand, got, since, channel, past>> /\ Tip' = Tip
  <2>1. ch \in [Clients -> Seq(Seqs)] /\ dropped \in [Clients -> SUBSET Seqs]
    BY DEF IInv, TypeOK
  <2>2. ch' \in [Clients -> Seq(Seqs)] /\ dropped' \in [Clients -> SUBSET Seqs]
    BY <2>1, AppendQueue DEF DrainFan
  <2>3. lastSeq < e
    BY DEF DrainFan, Smallest, IInv, Batch
  <2> QED
    BY <2>2, <2>3 DEF DrainFan, Smallest, Tip, table
<1>1. TypeOK'
  <2>1. lastSeq' \in 0 .. MaxEvents /\ todo' \subseteq Seqs /\ pc' \in {"start", "idle",
          "fan", "hook"}
    BY <1>0 DEF IInv, TypeOK, Seqs
  <2> QED
    BY <1>0, <2>1 DEF IInv, TypeOK, table, channel, past
<1>2. Committed'
  BY <1>0 DEF IInv, Committed, table, past
<1>3. Batch'
  <2>1. lastSeq \in Nat /\ tell \subseteq Seqs /\ todo \subseteq Seqs
    BY DEF IInv, TypeOK
  <2>2. \A x \in todo \ {e} : e < x
    BY <1>0, <2>1 DEF Seqs
  <2>3. \A x \in tell \ (todo \ {e}) : x <= e
    BY <1>0, <2>1 DEF IInv, Batch, Seqs
  <2>4. (pc' = "fan") <=> (todo' # {})
    BY <1>0
  <2> QED
    BY <1>0, <2>2, <2>3, <2>4 DEF IInv, Batch
<1>4. Covered'
  BY <1>0 DEF IInv, Covered, table, past, TypeOK, Seqs
<1>5. /\ \A c \in Clients : ch'[c] = ch[c] \/ (conn[c].pc # "off"
           /\ ch'[c] = Append(ch[c], e))
      /\ \A c \in Clients : conn[c].pc # "off" /\ Wants(c,
           e) => e \in Elements(ch'[c]) \cup dropped'[c]
      /\ \A c \in Clients : dropped[c] \subseteq dropped'[c]
           /\ Elements(ch[c]) \subseteq Elements(ch'[c])
  <2> SUFFICES ASSUME NEW c \in Clients
               PROVE  /\ ch'[c] = ch[c] \/ (conn[c].pc # "off" /\ ch'[c] = Append(ch[c], e))
                      /\ conn[c].pc # "off" /\ Wants(c,
                           e) => e \in Elements(ch'[c]) \cup dropped'[c]
                      /\ dropped[c] \subseteq dropped'[c]
                           /\ Elements(ch[c]) \subseteq Elements(ch'[c])
    OBVIOUS
  <2>1. /\ ch'[c] = IF Accepts(c, e) /\ Len(ch[c]) < Cap THEN Append(ch[c], e) ELSE ch[c]
        /\ dropped'[c] = IF Accepts(c, e)
             /\ ~(Len(ch[c]) < Cap) THEN dropped[c] \cup {e} ELSE dropped[c]
    BY DEF DrainFan
  <2>2. Elements(Append(ch[c], e)) = Elements(ch[c]) \cup {e}
    BY AppendQueue DEF IInv, TypeOK
  <2> QED
    BY <2>1, <2>2 DEF Accepts
<1>6. Streams'
  <2> SUFFICES ASSUME NEW c \in Clients, conn[c].pc # "off"
               PROVE  /\ since[c] <= e
                      /\ Increasing(got[c]) /\ Increasing(hand[c]) /\ Increasing(ch'[c])
                      /\ \A g \in Elements(got[c]),
                           x \in Elements(hand[c]) \cup Elements(ch'[c]) : g < x
                      /\ \A h \in Elements(hand[c]), x \in Elements(ch'[c]) : h < x
                      /\ \A x \in Elements(got[c]) \cup Elements(hand[c]) \cup Elements(ch'[c]) : x <= e
    BY <1>0 DEF Streams
  <2>1. /\ Elements(got[c]) \subseteq Seqs /\ Elements(hand[c]) \subseteq Seqs
             /\ Elements(ch[c]) \subseteq Seqs
        /\ ch[c] \in Seq(Seqs) /\ lastSeq \in Nat /\ since[c] \in Nat
    BY ElementsOfSeq DEF IInv, TypeOK
  <2>2. /\ \A x \in Elements(got[c]) \cup Elements(hand[c]) \cup Elements(ch[c]) : x < e
        /\ since[c] <= e
    <3>1. /\ \A x \in Elements(got[c]) \cup Elements(hand[c]) \cup Elements(ch[c]) : x <= lastSeq
          /\ since[c] <= lastSeq
      BY DEF IInv, Streams
    <3>2. e \in Nat /\ \A x \in Seqs : x \in Nat
      BY DEF Seqs
    <3>a. lastSeq < e /\ lastSeq \in Nat
      BY <1>0, <2>1
    <3>3. ASSUME NEW x \in Seqs, x <= lastSeq PROVE x < e
      BY <3>2, <3>3, <3>a
    <3>4. \A x \in Elements(got[c]) \cup Elements(hand[c]) \cup Elements(ch[c]) : x \in Seqs
      BY <2>1
    <3>5. since[c] <= e
      BY <1>0, <2>1, <3>1, <3>2
    <3> QED
      BY <3>1, <3>3, <3>4, <3>5
  <2>3. Increasing(ch'[c]) /\ Elements(ch'[c]) \subseteq Elements(ch[c]) \cup {e}
    <3>1. /\ Elements(Append(ch[c], e)) = Elements(ch[c]) \cup {e}
          /\ Increasing(ch[c])
               /\ (\A x \in Elements(ch[c]) : x < e) => Increasing(Append(ch[c], e))
      BY <2>1, AppendQueue
    <3>2. Increasing(ch[c])
      BY DEF IInv, Streams
    <3> QED
      BY <1>5, <2>2, <3>1, <3>2
  <2>4. \A x \in Elements(ch'[c]) : x \in Elements(ch[c]) \/ x = e
    BY <2>3
  <2>5. \A x \in Elements(got[c]) \cup Elements(hand[c]) \cup Elements(ch'[c]) : x <= e
    BY <2>1, <2>2, <2>4 DEF Seqs
  <2> QED
    BY <2>2, <2>3, <2>4, <2>5 DEF IInv, Streams
<1>7. NothingSkipped'
  <2> SUFFICES ASSUME NEW c \in Clients, NEW x \in Seqs, conn[c].pc = "on", since[c] < x,
                      x <= e, Wants(c, x)
               PROVE  x \in Elements(got[c]) \cup Elements(hand[c]) \cup Elements(ch'[c]) \cup dropped'[c] \cup lost
    BY <1>0 DEF NothingSkipped, Wants, table, past
  <2>1. CASE x <= lastSeq
    BY <2>1, <1>5 DEF IInv, NothingSkipped
  <2>2. CASE x = e
    BY <2>2, <1>5
  <2>3. CASE ~(x <= lastSeq) /\ x # e
    <3>1. x \in Nat /\ e \in Nat /\ lastSeq \in Nat /\ Tip \in Nat /\ e <= Tip
      BY <1>0 DEF IInv, TypeOK, Committed, Seqs, Tip
    <3>2. lastSeq < x /\ x <= Tip /\ x < e
      BY <2>3, <3>1
    <3>3. x \notin todo /\ ~(\A t \in todo : t < x)
      BY <1>0, <3>1, <3>2
    <3> QED
      BY <1>0, <3>2, <3>3 DEF IInv, Covered
  <2> QED
    BY <2>1, <2>2, <2>3
<1>8. Told'
  BY <1>0 DEF IInv, Told, table, channel, past, TypeOK, Seqs
<1> QED
  BY <1>1, <1>2, <1>3, <1>4, <1>6, <1>7, <1>8 DEF IInv

LEMMA DrainHookIInv ==
  ASSUME MaxEvents \in Nat, IInv, NEW e \in Seqs, NEW T \in SUBSET Targets, DrainHook(e, T)
  PROVE  IInv'
<1>0. /\ pc = "hook" /\ e \in tell /\ tell' = tell \ {e}
      /\ announced' = [announced EXCEPT ![e] = @ + 1]
      /\ pc' = IF tell = {e} THEN "idle" ELSE "hook"
      /\ sends \subseteq sends' /\ sends' \subseteq sends \cup {[to |-> t,
           seq |-> e] : t \in T}
      /\ UNCHANGED <<table, lastSeq, todo, client, posts, past>> /\ Tip' = Tip
  BY DEF DrainHook, Smallest, Tip, table
<1>1. TypeOK'
  <2>1. announced' \in [Seqs -> Nat]
    BY <1>0 DEF IInv, TypeOK
  <2>2. sends' \subseteq [to : Targets, seq : Seqs]
    BY <1>0 DEF IInv, TypeOK
  <2> QED
    BY <1>0, <2>1, <2>2 DEF IInv, TypeOK, table, client, past
<1>2. Committed'
  BY <1>0 DEF IInv, Committed, table, past
<1>3. Batch' /\ Covered'
  BY <1>0 DEF IInv, Batch, Covered, table, past
<1>4. Streams' /\ NothingSkipped'
  BY <1>0 DEF IInv, Streams, NothingSkipped, Wants, table, client, past
<1>5. Told'
  <2>1. /\ announced \in [Seqs -> Nat] /\ posts \in [Targets -> [Seqs -> Nat]]
        /\ announced'[e] = announced[e] + 1
        /\ \A x \in Seqs : x # e => announced'[x] = announced[x]
    BY <1>0 DEF IInv, TypeOK
  <2>2. e <= Tip /\ e <= lastSeq /\ (~blind => announced[e] = 0)
    BY <1>0 DEF IInv, Committed, Batch, Told
  <2>3. \A x \in Seqs : announced'[x] # 0 => x <= Tip
    BY <2>1, <2>2 DEF IInv, Told
  <2>4. \A t \in Targets, x \in Seqs :
           /\ posts[t][x] <= announced'[x]
           /\ [to |-> t, seq |-> x] \in sends' => posts[t][x] < announced'[x]
    <3> SUFFICES ASSUME NEW t \in Targets, NEW x \in Seqs
                 PROVE  /\ posts[t][x] <= announced'[x]
                        /\ [to |-> t, seq |-> x] \in sends' => posts[t][x] < announced'[x]
      OBVIOUS
    <3>1. posts[t][x] \in Nat /\ announced[x] \in Nat /\ posts[t][x] <= announced[x]
      BY <2>1 DEF IInv, Told
    <3>2. CASE x = e
      BY <3>1, <3>2, <2>1
    <3>3. CASE x # e
      <4>1. [to |-> t, seq |-> x] \in sends' => [to |-> t, seq |-> x] \in sends
        BY <1>0, <3>3
      <4> QED
        BY <4>1, <3>1, <3>3, <2>1 DEF IInv, Told
    <3> QED
      BY <3>2, <3>3
  <2>5. ~blind => \A x \in Seqs :
           /\ announced'[x] <= 1
           /\ x \in tell' => announced'[x] = 0
           /\ announced'[x] # 0 /\ x \in rows /\ pc' # "start" => x <= lastSeq
    BY <1>0, <2>1, <2>2 DEF IInv, Told
  <2> QED
    BY <1>0, <2>3, <2>4, <2>5 DEF Told, table, past
<1> QED
  BY <1>1, <1>2, <1>3, <1>4, <1>5 DEF IInv

LEMMA NotifyIInv ==
  ASSUME MaxEvents \in Nat, IInv, NEW n \in sends, Notify(n)
  PROVE  IInv'
<1>0. /\ n \in [to : Targets, seq : Seqs] /\ n = [to |-> n.to, seq |-> n.seq]
      /\ n.to \in Targets /\ n.seq \in Seqs
      /\ sends' = sends \ {n}
      /\ posts' = posts \/ posts' = [posts EXCEPT ![n.to][n.seq] = @ + 1]
      /\ UNCHANGED <<table, bus, client, announced, past>> /\ Tip' = Tip
  BY DEF Notify, IInv, TypeOK, Tip, table
<1> DEFINE row == [posts[n.to] EXCEPT ![n.seq] = posts[n.to][n.seq] + 1]
<1>a. /\ posts \in [Targets -> [Seqs -> Nat]]
      /\ posts' = posts \/ posts' = [posts EXCEPT ![n.to] = row]
  BY <1>0 DEF IInv, TypeOK
<1>b. /\ row \in [Seqs -> Nat] /\ row[n.seq] = posts[n.to][n.seq] + 1
      /\ \A x \in Seqs : x # n.seq => row[x] = posts[n.to][x]
  BY <1>0, <1>a
<1> HIDE DEF row
<1>1. posts' \in [Targets -> [Seqs -> Nat]]
  BY <1>a, <1>b
<1>2. \A t \in Targets, x \in Seqs :
         \/ posts'[t][x] = posts[t][x]
         \/ [to |-> t, seq |-> x] = n /\ posts'[t][x] = posts[t][x] + 1
  <2> SUFFICES ASSUME NEW t \in Targets, NEW x \in Seqs
               PROVE  \/ posts'[t][x] = posts[t][x]
                      \/ [to |-> t, seq |-> x] = n /\ posts'[t][x] = posts[t][x] + 1
    OBVIOUS
  <2>1. CASE t = n.to /\ x = n.seq
    BY <2>1, <1>0, <1>a, <1>b
  <2>2. CASE t = n.to /\ x # n.seq
    BY <2>2, <1>a, <1>b
  <2>3. CASE t # n.to
    BY <2>3, <1>a
  <2> QED
    BY <2>1, <2>2, <2>3
<1>3. TypeOK'
  BY <1>0, <1>1 DEF IInv, TypeOK, table, bus, client, past
<1>4. Committed' /\ Batch' /\ Covered' /\ Streams' /\ NothingSkipped'
  BY <1>0 DEF IInv, Committed, Batch, Covered, Streams, NothingSkipped, Wants,
              table, bus, client, past
<1>5. Told'
  <2>1. \A t \in Targets, x \in Seqs :
           /\ posts'[t][x] <= announced[x]
           /\ [to |-> t, seq |-> x] \in sends' => posts'[t][x] < announced[x]
    <3> SUFFICES ASSUME NEW t \in Targets, NEW x \in Seqs
                 PROVE  /\ posts'[t][x] <= announced[x]
                        /\ [to |-> t, seq |-> x] \in sends' => posts'[t][x] < announced[x]
      OBVIOUS
    <3>1. posts[t][x] \in Nat /\ announced[x] \in Nat /\ posts[t][x] <= announced[x]
          /\ ([to |-> t, seq |-> x] \in sends => posts[t][x] < announced[x])
      BY DEF IInv, Told, TypeOK
    <3> QED
      BY <1>0, <1>2, <3>1
  <2> QED
    BY <1>0, <2>1 DEF IInv, Told, bus, table, past
<1> QED
  BY <1>3, <1>4, <1>5 DEF IInv

-----------------------------------------------------------------------------
(* The connections.                                                          *)

\* A step of the connection c leaves the rest of the invariant alone.
LEMMA ClientStep ==
  ASSUME IInv, UNCHANGED <<table, bus, channel, past>>
  PROVE  Committed' /\ Batch' /\ Covered' /\ Told'
BY DEF IInv, Committed, Batch, Covered, Told, Tip, table, bus, channel, past

LEMMA SubscribeIInv ==
  ASSUME MaxEvents \in Nat, IInv, NEW c \in Clients, NEW r \in Runs \cup {AllRuns},
         Subscribe(c, r)
  PROVE  IInv'
<1>1. /\ conn' \in [Clients -> [pc : {"off", "on", "leaving"}, run : Runs \cup {AllRuns}]]
      /\ ch' \in [Clients -> Seq(Seqs)] /\ hand' \in [Clients -> Seq(Seqs)]
      /\ got' \in [Clients -> Seq(Seqs)] /\ since' \in [Clients -> 0 .. MaxEvents]
      /\ dropped' \in [Clients -> SUBSET Seqs]
  BY DEF Subscribe, IInv, TypeOK
<1>2. /\ ch'[c] = <<>> /\ hand'[c] = <<>> /\ got'[c] = <<>> /\ since'[c] = lastSeq
      /\ \A d \in Clients : d # c => /\ conn'[d] = conn[d] /\ ch'[d] = ch[d]
           /\ hand'[d] = hand[d]
                                     /\ got'[d] = got[d] /\ since'[d] = since[d]
                                          /\ dropped'[d] = dropped[d]
  BY DEF Subscribe, IInv, TypeOK
<1>3. UNCHANGED <<table, bus, channel, past>> /\ lastSeq \in Nat
  BY DEF Subscribe, IInv, TypeOK
<1>4. TypeOK'
  <2>1. \A d \in Clients : Len(hand'[d]) <= 1
    <3>1. Len(hand'[c]) = 0 /\ \A d \in Clients : Len(hand[d]) <= 1
      BY <1>2 DEF IInv, TypeOK
    <3>2. \A d \in Clients : d = c \/ hand'[d] = hand[d]
      BY <1>2
    <3> QED
      BY <3>1, <3>2
  <2> QED
    BY <1>1, <1>3, <2>1 DEF IInv, TypeOK, table, bus, channel, past
<1>5. Streams'
  BY <1>2, <1>3, EmptyQueue DEF IInv, Streams, bus
<1>6. NothingSkipped'
  BY <1>2, <1>3 DEF IInv, NothingSkipped, Wants, bus, table, past, Seqs
<1> QED
  BY <1>3, <1>4, <1>5, <1>6, ClientStep DEF IInv

LEMMA ReceiveIInv ==
  ASSUME MaxEvents \in Nat, IInv, NEW c \in Clients, Receive(c)
  PROVE  IInv'
<1>1. /\ ch[c] \in Seq(Seqs) /\ ch[c] # <<>> /\ hand[c] = <<>>
      /\ ch' = [ch EXCEPT ![c] = Tail(@)] /\ hand' = [hand EXCEPT ![c] = <<Head(ch[c])>>]
      /\ UNCHANGED <<table, bus, conn, got, since, dropped, channel, past>>
  BY DEF Receive, IInv, TypeOK
<1>2. /\ Head(ch[c]) \in Seqs /\ Tail(ch[c]) \in Seq(Seqs)
      /\ Elements(ch[c]) = {Head(ch[c])} \cup Elements(Tail(ch[c]))
      /\ Increasing(ch[c]) => Increasing(Tail(ch[c]))
           /\ \A x \in Elements(Tail(ch[c])) : Head(ch[c]) < x
  BY <1>1, HeadOfQueue
<1>3. /\ <<Head(ch[c])>> \in Seq(Seqs) /\ Len(<<Head(ch[c])>>) = 1
      /\ Elements(<<Head(ch[c])>>) = {Head(ch[c])} /\ Increasing(<<Head(ch[c])>>)
  BY <1>2, SingleQueue
<1>4. /\ ch'[c] = Tail(ch[c]) /\ hand'[c] = <<Head(ch[c])>>
      /\ \A d \in Clients : d # c => ch'[d] = ch[d] /\ hand'[d] = hand[d]
      /\ ch' \in [Clients -> Seq(Seqs)] /\ hand' \in [Clients -> Seq(Seqs)]
  BY <1>1, <1>2, <1>3 DEF IInv, TypeOK
<1>5. TypeOK'
  <2>1. \A d \in Clients : Len(hand'[d]) <= 1
    <3>1. Len(hand'[c]) <= 1 /\ \A d \in Clients : Len(hand[d]) <= 1
      <4>1. \A d \in Clients : Len(hand[d]) <= 1
        BY DEF IInv, TypeOK
      <4> QED
        BY <1>3, <1>4, <4>1
    <3>2. \A d \in Clients : d = c \/ hand'[d] = hand[d]
      BY <1>4
    <3> QED
      BY <3>1, <3>2
  <2> QED
    BY <1>1, <1>4, <2>1 DEF IInv, TypeOK, table, bus, channel, past
<1>6. Elements(hand'[c]) = {Head(ch[c])}
        /\ Elements(ch[c]) = Elements(hand'[c]) \cup Elements(ch'[c])
  BY <1>2, <1>3, <1>4
<1>7. Streams'
  <2> SUFFICES ASSUME NEW d \in Clients, conn[d].pc # "off"
               PROVE  /\ since[d] <= lastSeq
                      /\ Increasing(got[d]) /\ Increasing(hand'[d]) /\ Increasing(ch'[d])
                      /\ \A g \in Elements(got[d]),
                           x \in Elements(hand'[d]) \cup Elements(ch'[d]) : g < x
                      /\ \A h \in Elements(hand'[d]), x \in Elements(ch'[d]) : h < x
                      /\ \A x \in Elements(got[d]) \cup Elements(hand'[d]) \cup Elements(ch'[d]) : x <= lastSeq
    BY <1>1 DEF Streams, bus
  <2>1. CASE d # c
    BY <2>1, <1>4 DEF IInv, Streams
  <2>2. CASE d = c
    BY <2>2, <1>2, <1>3, <1>4, <1>6 DEF IInv, Streams
  <2> QED
    BY <2>1, <2>2
<1>8. NothingSkipped'
  <2>1. Elements(hand[c]) = {}
    BY <1>1, EmptyQueue
  <2>2. \A d \in Clients : Elements(hand'[d]) \cup Elements(ch'[d]) = Elements(hand[d]) \cup Elements(ch[d])
    BY <1>4, <1>6, <2>1
  <2> QED
    BY <1>1, <2>2 DEF IInv, NothingSkipped, Wants, bus, table, past
<1> QED
  BY <1>1, <1>5, <1>7, <1>8, ClientStep DEF IInv

LEMMA WriteIInv ==
  ASSUME MaxEvents \in Nat, IInv, NEW c \in Clients, Write(c)
  PROVE  IInv'
<1> DEFINE e == hand[c][1]
<1>1. /\ conn[c].pc = "on" /\ hand[c] # <<>>
      /\ got' = [got EXCEPT ![c] = Append(@, e)] /\ hand' = [hand EXCEPT ![c] = <<>>]
      /\ UNCHANGED <<table, bus, conn, ch, since, dropped, channel, past>>
  BY DEF Write
<1>2. e \in Seqs /\ Elements(hand[c]) = {e}
  <2>1. hand[c] \in Seq(Seqs) /\ Len(hand[c]) = 1 /\ DOMAIN hand[c] = {1}
    <3>1. hand[c] \in Seq(Seqs) /\ Len(hand[c]) <= 1
      BY DEF IInv, TypeOK
    <3>2. Len(hand[c]) \in Nat /\ DOMAIN hand[c] = 1 .. Len(hand[c])
      BY <3>1
    <3>3. Len(hand[c]) # 0
      BY <1>1, <3>1, EmptySeq
    <3>4. Len(hand[c]) = 1
      <4>1. \A k \in Nat : k <= 1 /\ k # 0 => k = 1
        OBVIOUS
      <4> QED
        BY <3>1, <3>2, <3>3, <4>1, Zenon
    <3>5. 1 .. 1 = {1}
      OBVIOUS
    <3> QED
      BY <3>1, <3>2, <3>4, <3>5
  <2> QED
    BY <2>1, ElementOfSeq DEF Elements
<1> HIDE DEF e
<1>3. /\ Append(got[c], e) \in Seq(Seqs)
      /\ Elements(Append(got[c], e)) = Elements(got[c]) \cup {e}
      /\ Increasing(got[c])
           /\ (\A x \in Elements(got[c]) : x < e) => Increasing(Append(got[c], e))
  BY <1>2, AppendQueue DEF IInv, TypeOK
<1>4. /\ got'[c] = Append(got[c], e) /\ hand'[c] = <<>>
      /\ \A d \in Clients : d # c => got'[d] = got[d] /\ hand'[d] = hand[d]
      /\ got' \in [Clients -> Seq(Seqs)] /\ hand' \in [Clients -> Seq(Seqs)]
  BY <1>1, <1>3 DEF IInv, TypeOK
<1>5. TypeOK'
  <2>1. \A d \in Clients : Len(hand'[d]) <= 1
    <3>1. Len(hand'[c]) = 0 /\ \A d \in Clients : Len(hand[d]) <= 1
      BY <1>4 DEF IInv, TypeOK
    <3>2. \A d \in Clients : d = c \/ hand'[d] = hand[d]
      BY <1>4
    <3> QED
      BY <3>1, <3>2
  <2> QED
    BY <1>1, <1>4, <2>1 DEF IInv, TypeOK, table, bus, channel, past
<1>6. Elements(hand'[c]) = {} /\ Increasing(hand'[c])
        /\ Elements(got'[c]) = Elements(got[c]) \cup Elements(hand[c])
  BY <1>2, <1>3, <1>4, EmptyQueue
<1>7. Streams'
  <2> SUFFICES ASSUME NEW d \in Clients, conn[d].pc # "off"
               PROVE  /\ since[d] <= lastSeq
                      /\ Increasing(got'[d]) /\ Increasing(hand'[d]) /\ Increasing(ch[d])
                      /\ \A g \in Elements(got'[d]),
                           x \in Elements(hand'[d]) \cup Elements(ch[d]) : g < x
                      /\ \A h \in Elements(hand'[d]), x \in Elements(ch[d]) : h < x
                      /\ \A x \in Elements(got'[d]) \cup Elements(hand'[d]) \cup Elements(ch[d]) : x <= lastSeq
    BY <1>1 DEF Streams, bus
  <2>1. CASE d # c
    BY <2>1, <1>4 DEF IInv, Streams
  <2>2. CASE d = c
    <3>1. Increasing(got'[c])
      BY <2>2, <1>2, <1>3, <1>4 DEF IInv, Streams
    <3> QED
      BY <2>2, <3>1, <1>6 DEF IInv, Streams
  <2> QED
    BY <2>1, <2>2
<1>8. NothingSkipped'
  BY <1>1, <1>4, <1>6 DEF IInv, NothingSkipped, Wants, bus, table, past
<1> QED
  BY <1>1, <1>5, <1>7, <1>8, ClientStep DEF IInv

LEMMA LeaveIInv ==
  ASSUME MaxEvents \in Nat, IInv, NEW c \in Clients, Leave(c) \/ Unsubscribe(c)
  PROVE  IInv'
<1>1. /\ conn' \in [Clients -> [pc : {"off", "on", "leaving"}, run : Runs \cup {AllRuns}]]
      /\ \A d \in Clients : /\ conn'[d].run = conn[d].run
                            /\ conn'[d].pc # "off" => conn[d].pc # "off"
                            /\ conn'[d].pc = "on" => conn[d].pc = "on"
      /\ UNCHANGED <<table, bus, ch, hand, got, since, dropped, channel, past>>
  <2>1. conn \in [Clients -> [pc : {"off", "on", "leaving"}, run : Runs \cup {AllRuns}]]
    BY DEF IInv, TypeOK
  <2>2. PICK p \in {"off", "leaving"} :
          /\ conn' = [conn EXCEPT ![c] = [conn[c] EXCEPT !.pc = p]]
          /\ p = "leaving" => conn[c].pc = "on"
          /\ UNCHANGED <<table, bus, ch, hand, got, since, dropped, channel, past>>
    BY DEF Leave, Unsubscribe
  <2>3. /\ [conn[c] EXCEPT !.pc = p] \in [pc : {"off", "on", "leaving"},
             run : Runs \cup {AllRuns}]
        /\ [conn[c] EXCEPT !.pc = p].pc = p /\ [conn[c] EXCEPT !.pc = p].run = conn[c].run
    BY <2>1
  <2> QED
    BY <2>1, <2>2, <2>3
<1>2. TypeOK'
  BY <1>1 DEF IInv, TypeOK, table, bus, channel, past
<1>3. Streams' /\ NothingSkipped'
  BY <1>1 DEF IInv, Streams, NothingSkipped, Wants, bus, table, past
<1> QED
  BY <1>1, <1>2, <1>3, ClientStep DEF IInv

LEMMA RestartIInv ==
  ASSUME MaxEvents \in Nat, IInv, Restart
  PROVE  IInv'
<1>0. /\ Tip \in 0 .. MaxEvents /\ Tip' = Tip /\ last' = Tip /\ tx' = [open |-> FALSE,
           base |-> 0]
      /\ pc' = "start" /\ lastSeq' = 0 /\ todo' = {} /\ tell' = {} /\ sends' = {}
           /\ started' = 0
      /\ conn' = [c \in Clients |-> [pc |-> "off", run |-> AllRuns]]
      /\ restarts' = restarts + 1
      /\ UNCHANGED <<rows, what, ch, hand, got, since, dropped, announced, posts, lost,
           blind>>
  BY DEF Restart, Tip, IInv, TypeOK
<1>1. TypeOK'
  BY <1>0 DEF IInv, TypeOK
<1>2. Committed' /\ Batch' /\ Covered'
  BY <1>0 DEF IInv, Committed, Batch, Covered
<1>3. Streams' /\ NothingSkipped' /\ Told'
  BY <1>0 DEF IInv, Streams, NothingSkipped, Told
<1> QED
  BY <1>1, <1>2, <1>3 DEF IInv

LEMMA StepIInv ==
  ASSUME MaxEvents \in Nat, IInv, [Next]_vars
  PROVE  IInv'
<1>1. CASE BeginTx \/ emitTx \/ CommitTx \/ RollbackTx \/ AppendEvent
  BY <1>1, WritersIInv
<1>2. ASSUME NEW D \in SUBSET rows, PruneEvents(D)  PROVE IInv'
  BY <1>2, PruneIInv
<1>3. ASSUME NEW tip \in Seqs \cup {0}, StartBus(tip)  PROVE IInv'
  BY <1>3, StartIInv
<1>4. CASE DrainRead
  BY <1>4, DrainReadIInv
<1>5. ASSUME NEW e \in Seqs, DrainFan(e)  PROVE IInv'
  BY <1>5, DrainFanIInv
<1>6. ASSUME NEW e \in Seqs, NEW T \in SUBSET Targets, DrainHook(e, T)  PROVE IInv'
  BY <1>6, DrainHookIInv
<1>7. ASSUME NEW n \in sends, Notify(n)  PROVE IInv'
  BY <1>7, NotifyIInv
<1>8. ASSUME NEW c \in Clients, NEW r \in Runs \cup {AllRuns}, Subscribe(c, r)  PROVE IInv'
  BY <1>8, SubscribeIInv
<1>9. ASSUME NEW c \in Clients, Receive(c) \/ Write(c) \/ Leave(c) \/ Unsubscribe(c)
      PROVE IInv'
  BY <1>9, ReceiveIInv, WriteIInv, LeaveIInv
<1>10. CASE Restart
  BY <1>10, RestartIInv
<1>11. CASE UNCHANGED vars
  BY <1>11 DEF vars, table, bus, client, channel, past, IInv, TypeOK, Committed,
               Batch, Covered,
     Streams, NothingSkipped, Told, Wants, Tip
<1> QED
  BY <1>1, <1>2, <1>3, <1>4, <1>5, <1>6, <1>7, <1>8, <1>9, <1>10, <1>11 DEF Next

LEMMA Invariance ==
  ASSUME MaxEvents \in Nat
  PROVE  Spec => []IInv
<1>1. Init => IInv
  BY InitIInv
<1>2. IInv /\ [Next]_vars => IInv'
  BY StepIInv
<1> QED
  BY <1>1, <1>2, PTL DEF Spec

-----------------------------------------------------------------------------
\* A connection gets the events in the order of the table, each once: the
\* bus reads a tail without holes and offers a batch in order (bus.go drain).
THEOREM StreamIsOrdered ==
  ASSUME MaxEvents \in Nat
  PROVE  Spec => []StreamInOrder
<1>1. IInv => StreamInOrder
  BY DEF IInv, Streams, StreamInOrder
<1> QED
  BY <1>1, Invariance, PTL

\* What a connection did not get, its own full queue refused or retention
\* pruned before the bus read it (bus.go drain, store.go AllEventsAfter).
THEOREM StreamIsComplete ==
  ASSUME MaxEvents \in Nat
  PROVE  Spec => []NothingSkipped
<1>1. IInv => NothingSkipped
  BY DEF IInv
<1> QED
  BY <1>1, Invariance, PTL

\* While every start reads the tip of the table, no event is announced to a
\* chat channel twice, restarts and retention included (bus.go Run).
THEOREM ChannelsAreToldOnce ==
  ASSUME MaxEvents \in Nat
  PROVE  Spec => []ToldOnce
<1>1. IInv => ToldOnce
  <2> SUFFICES ASSUME IInv, ~blind, NEW e \in Seqs
               PROVE  announced[e] <= 1 /\ \A t \in Targets : posts[t][e] <= 1
    BY DEF ToldOnce
  <2>1. announced[e] \in Nat /\ announced[e] <= 1
    BY DEF IInv, TypeOK, Told
  <2>2. \A t \in Targets : posts[t][e] \in Nat /\ posts[t][e] <= announced[e]
    BY DEF IInv, TypeOK, Told
  <2> QED
    BY <2>1, <2>2
<1> QED
  BY <1>1, Invariance, PTL

-----------------------------------------------------------------------------
(***************************************************************************)
(* A standup tells a story once, for any stories, runs and schedule: the   *)
(* watermark is later than every change told so far, and a later digest    *)
(* tells only what changed since the watermark.                            *)
(***************************************************************************)

NoRunIsNoRun == NoRun \notin Runs

(* Times read are never ahead of times written, nor the watermark of the   *)
(* clock; a story without a run has no time.                               *)
DigestClocks ==
  /\ mark <= clock
  /\ \A r \in Digest!Refs : updated[r] <= clock /\ asOf[r] <= updated[r]
  /\ updated[NoRun] = 0

(* A digest in the making uses the watermark as it is.                     *)
DigestWorking == {"stories", "runs", "send", "mark"}
ReadsMark == digestPc \in DigestWorking => window = mark

(* What was told lies behind the watermark, or is the digest that was just *)
(* sent, whose watermark will be the present, later than all it read.      *)
ToldBeforeMark ==
  \A p \in told : updated[p[2]] < mark
                  \/ (digestPc = "mark" /\ p \in news /\ updated[p[2]] < clock)

(* A digest ready to be sent tells only what changed since its watermark.  *)
DigestFresh ==
  digestPc = "send" => \A p \in news : window = 0 \/ asOf[p[2]] >= window

DigestInv == Digest!TypeOK /\ DigestClocks /\ ReadsMark /\ ToldBeforeMark /\ DigestFresh

LEMMA DigestInit == ASSUME NoRunIsNoRun PROVE Digest!Init => DigestInv
BY DEF NoRunIsNoRun, Digest!Init, DigestInv, Digest!TypeOK, DigestClocks, ReadsMark,
       DigestWorking, ToldBeforeMark, DigestFresh,
       Digest!Phases, Digest!Status, Digest!Refs

LEMMA DigestTypes == ASSUME NoRunIsNoRun, Digest!TypeOK, [Digest!Next]_Digest!vars
                     PROVE Digest!TypeOK'
<1>1. CASE Digest!Tick
  BY <1>1 DEF Digest!TypeOK, Digest!Tick, Digest!work, Digest!project, Digest!digest
<1>2. ASSUME NEW r \in Runs, Digest!SetRunStatus(r) PROVE Digest!TypeOK'
  BY <1>2 DEF Digest!TypeOK, Digest!SetRunStatus, Digest!project, Digest!digest,
              Digest!Refs
<1>3. ASSUME NEW s \in Stories, NEW st \in Digest!Status, NEW r \in Digest!Refs,
             Digest!SetStatus(s, st, r)
      PROVE  Digest!TypeOK'
  BY <1>3 DEF Digest!TypeOK, Digest!SetStatus, Digest!project, Digest!digest
<1>4. ASSUME NEW on \in BOOLEAN, Digest!SetDigestChannel(on) PROVE Digest!TypeOK'
  BY <1>4 DEF Digest!TypeOK, Digest!SetDigestChannel, Digest!work, Digest!digest
<1>5. CASE Digest!Sleep \/ Digest!sendDigests \/ Digest!GiveUp \/ Digest!MarkDigestSent
  BY <1>5 DEF Digest!TypeOK, Digest!Sleep, Digest!sendDigests, Digest!GiveUp,
              Digest!MarkDigestSent, Digest!work, Digest!project,
              Digest!digest,
              Digest!Phases
<1>6. CASE Digest!ListStories
  BY <1>6 DEF Digest!TypeOK, Digest!ListStories, Digest!work, Digest!project,
              Digest!Phases
<1>7. CASE Digest!Gather
  <2>1. news' \subseteq Stories \X Digest!Refs
    BY <1>7 DEF Digest!TypeOK, Digest!Gather
  <2> QED BY <1>7, <2>1 DEF Digest!TypeOK, Digest!Gather, Digest!work,
                            Digest!project, Digest!Phases
<1>8. CASE Digest!Deliver
  BY <1>8 DEF Digest!TypeOK, Digest!Deliver, Digest!work, Digest!project,
              Digest!digest, Digest!Phases
<1>9. CASE Digest!MarkFails \/ Digest!Restart
  BY <1>9 DEF Digest!TypeOK, Digest!MarkFails, Digest!Restart, Digest!Unmarked,
              Digest!work, Digest!project, Digest!digest, Digest!Phases
<1>10. CASE UNCHANGED Digest!vars
  BY <1>10 DEF Digest!TypeOK, Digest!vars, Digest!work, Digest!project,
               Digest!digest
<1> QED BY <1>1, <1>2, <1>3, <1>4, <1>5, <1>6, <1>7, <1>8, <1>9,
<1>10 DEF Digest!Next

LEMMA DigestStep == ASSUME NoRunIsNoRun, DigestInv, [Digest!Next]_Digest!vars
                    PROVE DigestInv'
<1> USE DEF DigestWorking
<1>t. Digest!TypeOK' BY DigestTypes DEF DigestInv
<1>1. CASE Digest!Tick
  BY <1>1, <1>t DEF DigestInv, Digest!TypeOK, DigestClocks, ReadsMark,
                    ToldBeforeMark, DigestFresh, Digest!Tick, Digest!work,
                    Digest!project, Digest!digest
<1>2. ASSUME NEW r \in Runs, Digest!SetRunStatus(r) PROVE DigestInv'
  (* A changed run is out of what was told: everything left keeps its time. *)
  <2>1. /\ updated' = [updated EXCEPT ![r] = clock]
        /\ told' = {p \in told : p[2] # r}
        /\ UNCHANGED <<clock, mark, digestPc, window, asOf, news>>
    BY <1>2 DEF Digest!SetRunStatus, Digest!project, Digest!digest
  <2>2. \A q \in Digest!Refs : updated'[q] = IF q = r THEN clock ELSE updated[q]
    BY <2>1 DEF DigestInv, Digest!TypeOK, Digest!Refs
  <2>3. DigestClocks'
    BY <2>1, <2>2 DEF NoRunIsNoRun, DigestInv, Digest!TypeOK, DigestClocks,
                      Digest!Refs
  <2>4. ToldBeforeMark'
    <3> SUFFICES ASSUME NEW p \in told'
                 PROVE  updated'[p[2]] < mark'
                        \/ (digestPc' = "mark" /\ p \in news' /\ updated'[p[2]] < clock')
      BY DEF ToldBeforeMark
    <3>1. p \in told /\ p[2] # r /\ p[2] \in Digest!Refs
      BY <2>1 DEF DigestInv, Digest!TypeOK
    <3> QED BY <2>1, <2>2, <3>1 DEF DigestInv, ToldBeforeMark
  <2> QED BY <1>t, <2>1, <2>3, <2>4 DEF DigestInv, ReadsMark, DigestFresh
<1>3. ASSUME NEW s \in Stories, NEW st \in Digest!Status, NEW r \in Digest!Refs,
             Digest!SetStatus(s, st, r)
      PROVE  DigestInv'
  BY <1>3, <1>t DEF DigestInv, DigestClocks, ReadsMark, ToldBeforeMark, DigestFresh,
                    Digest!SetStatus, Digest!project,
                    Digest!digest
<1>4. ASSUME NEW on \in BOOLEAN, Digest!SetDigestChannel(on) PROVE DigestInv'
  BY <1>4, <1>t DEF DigestInv, DigestClocks, ReadsMark, ToldBeforeMark, DigestFresh,
                    Digest!SetDigestChannel,
                    Digest!work,
                    Digest!digest
<1>5. CASE Digest!Sleep
  BY <1>5, <1>t DEF DigestInv, DigestClocks, ReadsMark, ToldBeforeMark, DigestFresh,
                    Digest!Sleep, Digest!work,
                    Digest!project, Digest!digest
<1>6. CASE Digest!sendDigests
  BY <1>6, <1>t DEF DigestInv, DigestClocks, ReadsMark, ToldBeforeMark, DigestFresh,
                    Digest!sendDigests, Digest!work,
                    Digest!project
<1>7. CASE Digest!ListStories
  BY <1>7, <1>t DEF DigestInv, DigestClocks, ReadsMark, ToldBeforeMark, DigestFresh,
                    Digest!ListStories, Digest!work,
                    Digest!project
<1>8. CASE Digest!Gather
  <2>1. DigestFresh'
    BY <1>8 DEF DigestFresh, Digest!Gather, Digest!InWindow
  <2>2. DigestClocks'
    BY <1>8 DEF DigestInv, Digest!TypeOK, DigestClocks, Digest!Gather, Digest!work,
                Digest!project
  <2> QED
    BY <1>8, <1>t, <2>1, <2>2 DEF DigestInv, ReadsMark, ToldBeforeMark,
                                  Digest!Gather, Digest!work, Digest!project
<1>9. CASE Digest!Deliver
  (* What is sent was read before the clock moved: it lies before the       *)
  (* watermark to come.                                                     *)
  <2>1. /\ clock' = clock + 1 /\ digestPc = "send" /\ digestPc' = "mark"
        /\ told' = told \union {p \in news : updated[p[2]] = asOf[p[2]]}
        /\ UNCHANGED <<mark, window, updated, asOf, news>>
    BY <1>9 DEF Digest!Deliver, Digest!work, Digest!project, Digest!digest
  <2>2. DigestClocks'
    BY <2>1 DEF DigestInv, Digest!TypeOK, DigestClocks
  <2>3. ToldBeforeMark'
    <3> SUFFICES ASSUME NEW p \in told'
                 PROVE  updated[p[2]] < mark
                        \/ (p \in news /\ updated[p[2]] < clock + 1)
      BY <2>1 DEF ToldBeforeMark
    <3>1. p \in told => updated[p[2]] < mark
      BY <2>1 DEF DigestInv, ToldBeforeMark
    <3>2. p \in news => p[2] \in Digest!Refs
      BY DEF DigestInv, Digest!TypeOK
    <3>3. p \in news => updated[p[2]] < clock + 1
      BY <3>2 DEF DigestInv, Digest!TypeOK, DigestClocks
    <3> QED BY <2>1, <3>1, <3>3
  <2> QED BY <1>t, <2>1, <2>2, <2>3 DEF DigestInv, ReadsMark, DigestFresh
<1>10. CASE Digest!MarkDigestSent
  <2>1. /\ mark' = clock /\ digestPc = "mark" /\ digestPc' = "idle"
        /\ UNCHANGED <<clock, window, updated, asOf, news, told>>
    BY <1>10 DEF Digest!MarkDigestSent, Digest!work, Digest!digest
  <2>2. ToldBeforeMark'
    <3> SUFFICES ASSUME NEW p \in told PROVE updated[p[2]] < clock
      BY <2>1 DEF ToldBeforeMark
    <3>1. p[2] \in Digest!Refs
      BY DEF DigestInv, Digest!TypeOK
    <3> QED BY <3>1 DEF DigestInv, Digest!TypeOK, DigestClocks, ToldBeforeMark
  <2> QED BY <1>t, <2>1, <2>2 DEF DigestInv, DigestClocks, ReadsMark, DigestFresh,
                                  Digest!TypeOK
<1>11. CASE Digest!GiveUp
  BY <1>11, <1>t DEF DigestInv, DigestClocks, ReadsMark, ToldBeforeMark,
                     DigestFresh, Digest!GiveUp, Digest!work,
                     Digest!project, Digest!digest
<1>12. CASE Digest!MarkFails \/ Digest!Restart
  (* What was sent and not recorded is taken back.                          *)
  <2>1. /\ digestPc' = "idle" /\ told' = IF digestPc = "mark" THEN told \ news ELSE told
        /\ UNCHANGED <<clock, mark, window, updated, asOf, news>>
    BY <1>12 DEF Digest!MarkFails, Digest!Restart, Digest!Unmarked, Digest!work,
                 Digest!project, Digest!digest
  <2> QED BY <1>t, <2>1 DEF DigestInv, DigestClocks, ReadsMark, ToldBeforeMark,
                            DigestFresh
<1>13. CASE UNCHANGED Digest!vars
  BY <1>13, <1>t DEF DigestInv, DigestClocks, ReadsMark, ToldBeforeMark,
                     DigestFresh, Digest!vars, Digest!work,
                     Digest!project, Digest!digest
<1> QED
  BY <1>1, <1>2, <1>3, <1>4, <1>5, <1>6, <1>7, <1>8, <1>9, <1>10, <1>11, <1>12, <1>13
     DEF Digest!Next

(* No digest tells a story twice for the same change of its run, however   *)
(* the stores move between the reads of a digest and wherever the process  *)
(* restarts (digest.go Gather, projects.go MarkDigestSent): needs the whole*)
(* invariant, for nothing but the watermark remembers what was told.       *)
THEOREM StandupTellsOnce == ASSUME NoRunIsNoRun PROVE Digest!Spec => []Digest!ToldOnce
<1>1. Digest!Init => DigestInv
  BY DigestInit
<1>2. DigestInv /\ [Digest!Next]_Digest!vars => DigestInv'
  BY DigestStep
<1>3. DigestInv => Digest!ToldOnce
  <2> SUFFICES ASSUME DigestInv, digestPc = "send", NEW p \in news, p \in told
               PROVE  FALSE
    BY DEF Digest!ToldOnce
  <2>1. p[2] \in Digest!Refs /\ updated[p[2]] < mark /\ window = mark
    BY DEF DigestInv, Digest!TypeOK, ToldBeforeMark, ReadsMark, DigestWorking
  <2>2. window = 0 \/ asOf[p[2]] >= window
    BY DEF DigestInv, DigestFresh
  <2> QED BY <2>1, <2>2 DEF DigestInv, Digest!TypeOK, DigestClocks
<1> QED BY <1>1, <1>2, <1>3, PTL DEF Digest!Spec

-----------------------------------------------------------------------------
(****************************************************************************)
(* For any set of issues, any dependencies and any number of runs and       *)
(* faults: the orchestrator fires a dependent only after what it depends on *)
(* and never fires twice an issue whose run it knows.                       *)
(****************************************************************************)

LoopBounds == Loop!NoIssue \notin Issues /\ MaxRuns \in Nat

Memories == [fired : [Issues -> Loop!Runs \cup {Loop!NoRun}], completed : SUBSET Issues,
             failed : SUBSET Issues, torn : BOOLEAN]

LoopTypes ==
    /\ open \subseteq Issues
    /\ status \in [Loop!Runs -> {"unborn", "RUNNING", "DONE", "FAILED"}]
    /\ for \in [Loop!Runs -> Issues \cup {Loop!NoIssue}]
    /\ \A r \in Loop!Runs : status[r] = "unborn" <=> for[r] = Loop!NoIssue
    /\ fired \in [Issues -> Loop!Runs \cup {Loop!NoRun}]
    /\ completed \subseteq Issues /\ failed \subseteq Issues
    /\ file \in Memories
    /\ loopPc \in {"list", "reconcile", "fire", "mark", "dead"}
    /\ queue \subseteq Issues /\ listed \subseteq Issues
    /\ fresh \in Loop!Runs \cup {Loop!NoRun}

\* A recorded run is that issue's, and a completed issue has a run that is DONE.
RunsAreOwn(f) == \A n \in Issues : f[n] # Loop!NoRun => for[f[n]] = n
CompletedIsDone(c) == \A n \in c : \E q \in Loop!Runs : for[q] = n /\ status[q] = "DONE"

Records ==
    /\ RunsAreOwn(fired) /\ RunsAreOwn(file.fired)
    /\ CompletedIsDone(completed) /\ CompletedIsDone(file.completed)

ListIsReal == loopPc \in {"reconcile", "fire",
  "mark"} => Issues \ listed \subseteq closedOnce

FreshIsUnmarked ==
    loopPc = "mark" => fresh \in Loop!Runs /\ for[fresh] \in Issues
      /\ fired[for[fresh]] = Loop!NoRun

\* A live orchestrator knows every run that is not forgotten.
KnowsItsRuns ==
    loopPc # "dead" =>
        \A r \in Loop!Runs \ forgotten : for[r] \in Issues =>
            fired[for[r]] = r \/ (loopPc = "mark" /\ fresh = r)

LoopInv == LoopTypes /\ Records /\ ListIsReal /\ FreshIsUnmarked /\ KnowsItsRuns
  /\ Loop!DependentsWait /\ Loop!FiredOnce

-----------------------------------------------------------------------------
LEMMA NoRunIsNone == LoopBounds => Loop!NoRun \notin Loop!Runs
  BY DEF LoopBounds, Loop!NoRun, Loop!Runs

LEMMA LoopInit == LoopBounds /\ Loop!Init => LoopInv
<1> SUFFICES ASSUME LoopBounds, Loop!Init  PROVE LoopInv
  OBVIOUS
<1>1. LoopTypes
  BY DEF LoopBounds, Loop!Init, LoopTypes, Memories, Loop!NoFile, Loop!Empty
<1>2. Records
  BY DEF Loop!Init, Records, RunsAreOwn, CompletedIsDone, Loop!NoFile, Loop!Empty
<1>3. ListIsReal /\ FreshIsUnmarked /\ KnowsItsRuns
  BY DEF Loop!Init, LoopBounds, ListIsReal, FreshIsUnmarked, KnowsItsRuns
<1>4. Loop!DependentsWait /\ Loop!FiredOnce
  BY DEF Loop!Init, Loop!DependentsWait, Loop!FiredOnce, Loop!RunsOf
<1> QED
  BY <1>1, <1>2, <1>3, <1>4 DEF LoopInv

\* The cycle's steps that record nothing, and what people do to issues.
QuietStep ==
  \/ Loop!List \/ Loop!Reconciled \/ Loop!CycleEnds
  \/ \E n \in Issues : Loop!LeaveUnsettled(n) \/ Loop!Pass(n) \/ Loop!Close(n)
    \/ Loop!Reopen(n)

LEMMA QuietLoop == LoopInv /\ QuietStep => LoopInv'
<1> SUFFICES ASSUME LoopInv, QuietStep  PROVE LoopInv'
  OBVIOUS
<1>1. /\ UNCHANGED <<status, for, fired, completed, failed, file, forgotten, fresh>>
      /\ closedOnce \subseteq closedOnce'
  BY DEF QuietStep, Loop!List, Loop!Reconciled, Loop!CycleEnds, Loop!LeaveUnsettled,
         Loop!Pass, Loop!Close, Loop!Reopen, Loop!memory, Loop!github,
         Loop!loop, Loop!history
<1>2. /\ loopPc' \in {"list", "reconcile", "fire", "mark", "dead"}
      /\ (loopPc' = "mark" <=> loopPc = "mark") /\ (loopPc' = "dead" <=> loopPc = "dead")
      /\ queue' \subseteq Issues /\ open' \subseteq Issues
  BY DEF Loop!github, QuietStep, Loop!List, Loop!Reconciled, Loop!CycleEnds,
         Loop!LeaveUnsettled, Loop!Pass, Loop!Close, Loop!Reopen, Loop!loop,
         LoopInv, LoopTypes
<1>3. listed' \subseteq Issues /\ ListIsReal'
  <2>1. CASE Loop!List
    BY <2>1 DEF Loop!List, ListIsReal, LoopInv, LoopTypes
  <2>2. CASE Loop!CycleEnds
    BY <2>2 DEF Loop!CycleEnds, ListIsReal
  <2>3. CASE ~Loop!List /\ ~Loop!CycleEnds
    <3>1. UNCHANGED <<listed, closedOnce>> /\ (loopPc' = loopPc
            \/ (loopPc = "reconcile" /\ loopPc' = "fire"))
      BY <2>3 DEF QuietStep, Loop!Reconciled, Loop!LeaveUnsettled, Loop!Pass,
                  Loop!Close, Loop!Reopen, Loop!loop, Loop!history
    <3> QED
      BY <3>1 DEF LoopInv, LoopTypes, ListIsReal
  <2> QED
    BY <2>1, <2>2, <2>3
<1>4. LoopTypes'
  BY <1>1, <1>2, <1>3 DEF LoopInv, LoopTypes
<1>5. Records'
  BY <1>1 DEF LoopInv, Records, RunsAreOwn, CompletedIsDone
<1>6. FreshIsUnmarked' /\ KnowsItsRuns'
  BY <1>1, <1>2 DEF LoopInv, FreshIsUnmarked, KnowsItsRuns
<1>7. Loop!DependentsWait' /\ Loop!FiredOnce'
  BY <1>1 DEF LoopInv, Loop!DependentsWait, Loop!FiredOnce, Loop!RunsOf
<1> QED
  BY <1>3, <1>4, <1>5, <1>6, <1>7 DEF LoopInv

\* Whatever becomes of the write, the file holds what it held or the new memory.
LEMMA FlushKeeps ==
  ASSUME NEW f \in [Issues -> Loop!Runs \cup {Loop!NoRun}], NEW c \in SUBSET Issues,
         NEW x \in SUBSET Issues,
         file \in Memories, Loop!Flush(f, c, x)
  PROVE  /\ file' \in Memories
         /\ file'.fired = file.fired \/ file'.fired = f
         /\ file'.completed = file.completed \/ file'.completed = c
<1>1. [fired |-> f, completed |-> c, failed |-> x, torn |-> FALSE] \in Memories
  BY DEF Memories
<1>2. CASE file' = file
  BY <1>2
<1>3. CASE file' = [fired |-> f, completed |-> c, failed |-> x, torn |-> FALSE]
  BY <1>1, <1>3
<1> QED
  BY <1>2, <1>3 DEF Loop!Flush

LEMMA SettleLoop ==
  ASSUME LoopInv, NEW n \in Issues, Loop!MarkCompleted(n) \/ Loop!MarkFailed(n)
  PROVE  LoopInv'
<1>1. /\ UNCHANGED <<open, status, for, fired, loopPc, listed, fresh, closedOnce,
           forgotten>>
      /\ queue' = queue \ {n}
      /\ completed' \in {completed, completed \cup {n}}
      /\ failed' \in {failed, failed \cup {n}}
  BY DEF Loop!MarkCompleted, Loop!MarkFailed, Loop!github, Loop!history
<1>2. CompletedIsDone(completed')
  <2>1. CASE Loop!MarkCompleted(n)
    <3>1. for[fired[n]] = n /\ fired[n] \in Loop!Runs /\ status[fired[n]] = "DONE"
      BY <2>1 DEF Loop!MarkCompleted, Loop!Unsettled, LoopInv, LoopTypes, Records,
                  RunsAreOwn
    <3> QED
      BY <2>1, <3>1 DEF Loop!MarkCompleted, LoopInv, Records, CompletedIsDone
  <2>2. CASE Loop!MarkFailed(n)
    BY <2>2 DEF Loop!MarkFailed, LoopInv, Records
  <2> QED
    BY <2>1, <2>2
<1>3. /\ file' \in Memories
      /\ file'.fired = file.fired \/ file'.fired = fired
      /\ file'.completed = file.completed \/ file'.completed = completed'
  <2>1. Loop!Flush(fired, completed', failed')
    BY DEF Loop!MarkCompleted, Loop!MarkFailed
  <2> QED
    BY <1>1, <2>1, FlushKeeps DEF LoopInv, LoopTypes
<1>4. LoopTypes'
  BY <1>1, <1>3 DEF LoopInv, LoopTypes
<1>5. Records'
  BY <1>1, <1>2, <1>3 DEF LoopInv, Records, RunsAreOwn, CompletedIsDone
<1>6. ListIsReal' /\ FreshIsUnmarked' /\ KnowsItsRuns' /\ Loop!DependentsWait'
        /\ Loop!FiredOnce'
  BY <1>1 DEF LoopInv, ListIsReal, FreshIsUnmarked, KnowsItsRuns,
              Loop!DependentsWait, Loop!FiredOnce, Loop!RunsOf
<1> QED
  BY <1>4, <1>5, <1>6 DEF LoopInv

LEMMA MarkFiredLoop ==
  ASSUME LoopBounds, LoopInv, NEW n \in Issues, Loop!MarkFired(n)
  PROVE  LoopInv'
<1>1. /\ UNCHANGED <<open, status, for, listed, completed, failed, closedOnce, forgotten>>
      /\ queue' = queue \ {n} /\ loopPc = "mark" /\ loopPc' = "fire" /\ fresh' = Loop!NoRun
      /\ n = for[fresh] /\ fired[n] = Loop!NoRun /\ fresh \in Loop!Runs
      /\ fired' = [fired EXCEPT ![n] = fresh]
  BY DEF Loop!MarkFired, Loop!github, Loop!history, LoopInv, FreshIsUnmarked
<1>3. fired' \in [Issues -> Loop!Runs \cup {Loop!NoRun}] /\ RunsAreOwn(fired')
  BY <1>1 DEF LoopInv, LoopTypes, Records, RunsAreOwn
<1>2. /\ file' \in Memories
      /\ file'.fired = file.fired \/ file'.fired = fired'
      /\ file'.completed = file.completed \/ file'.completed = completed
  BY <1>3, FlushKeeps DEF Loop!MarkFired, LoopInv, LoopTypes
<1>4. LoopTypes'
  BY <1>1, <1>2, <1>3 DEF LoopInv, LoopTypes
<1>5. Records'
  <2>1. RunsAreOwn(fired)' /\ RunsAreOwn(file.fired)'
    BY <1>1, <1>2, <1>3 DEF LoopInv, Records, RunsAreOwn
  <2>2. CompletedIsDone(completed)' /\ CompletedIsDone(file.completed)'
    BY <1>1, <1>2 DEF LoopInv, Records, CompletedIsDone
  <2> QED
    BY <2>1, <2>2 DEF Records
<1>6. ListIsReal' /\ FreshIsUnmarked'
  BY <1>1 DEF LoopInv, ListIsReal, FreshIsUnmarked
<1>7. KnowsItsRuns'
  BY <1>1, NoRunIsNone DEF LoopInv, LoopTypes, KnowsItsRuns
<1>8. Loop!DependentsWait' /\ Loop!FiredOnce'
  BY <1>1 DEF LoopInv, Loop!DependentsWait, Loop!FiredOnce, Loop!RunsOf
<1> QED
  BY <1>4, <1>5, <1>6, <1>7, <1>8 DEF LoopInv

LEMMA FireLoop ==
  ASSUME LoopBounds, LoopInv, NEW n \in Issues, NEW r \in Loop!Runs, Loop!FireRun(n,
         r) \/ Loop!FireRunUnheard(n, r)
  PROVE  LoopInv'
<1>1. /\ loopPc = "fire" /\ fired[n] = Loop!NoRun /\ Loop!depsAllDone(n)
           /\ status[r] = "unborn"
      /\ status' = [status EXCEPT ![r] = "RUNNING"] /\ for' = [for EXCEPT ![r] = n]
      /\ UNCHANGED <<open, fired, completed, failed, file, listed, closedOnce>>
      /\ queue' \subseteq Issues
  BY DEF Loop!FireRun, Loop!FireRunUnheard, Loop!Born, Loop!Fires, Loop!memory,
         LoopInv, LoopTypes, Loop!history
<1>2. r # Loop!NoRun /\ for[r] = Loop!NoIssue /\ n # Loop!NoIssue
  BY <1>1, NoRunIsNone DEF LoopBounds, LoopInv, LoopTypes
<1>3. \/ fresh' = r /\ loopPc' = "mark" /\ forgotten' = forgotten
      \/ fresh' = fresh /\ loopPc' = "fire" /\ forgotten' = forgotten \cup {r}
  BY <1>1 DEF Loop!FireRun, Loop!FireRunUnheard, Loop!history
<1>4. LoopTypes'
  BY <1>1, <1>2, <1>3 DEF LoopInv, LoopTypes
<1>5. /\ \A q \in Loop!Runs : q # r => for'[q] = for[q] /\ status'[q] = status[q]
      /\ for'[r] = n /\ status'[r] = "RUNNING"
      /\ \A m \in Issues : fired[m] # r /\ file.fired[m] # r
  <2>1. \A m \in Issues : fired[m] # r /\ file.fired[m] # r
    BY <1>2 DEF LoopInv, Records, RunsAreOwn, LoopBounds
  <2> QED
    BY <1>1, <2>1 DEF LoopInv, LoopTypes
<1>6. Records'
  <2>1. RunsAreOwn(fired)' /\ RunsAreOwn(file.fired)'
    BY <1>1, <1>5 DEF LoopInv, LoopTypes, Memories, Records, RunsAreOwn
  <2>2. CompletedIsDone(completed)' /\ CompletedIsDone(file.completed)'
    BY <1>1, <1>5 DEF LoopInv, Records, CompletedIsDone
  <2> QED
    BY <2>1, <2>2 DEF Records
<1>7. ListIsReal' /\ FreshIsUnmarked'
  BY <1>1, <1>3, <1>5 DEF LoopInv, ListIsReal, FreshIsUnmarked
<1>8. KnowsItsRuns'
  BY <1>1, <1>3, <1>5 DEF LoopInv, KnowsItsRuns
<1>9. Loop!DependentsWait'
  <2> SUFFICES ASSUME NEW q \in Loop!Runs, status'[q] # "unborn", NEW d \in Deps[for'[q]]
               PROVE  d \in closedOnce \/ \E p \in Loop!RunsOf(d)' : status'[p] = "DONE"
    BY <1>1 DEF Loop!DependentsWait
  <2>1. CASE q # r
    <3>1. d \in closedOnce \/ \E p \in Loop!RunsOf(d) : status[p] = "DONE"
      BY <1>5, <2>1 DEF LoopInv, Loop!DependentsWait
    <3> QED
      BY <1>1, <1>5, <3>1 DEF Loop!RunsOf
  <2>2. CASE q = r
    <3>1. d \in Issues /\ (d \notin listed \/ d \in completed)
      BY <1>1, <1>5, <2>2 DEF Loop!depsAllDone
    <3>2. CASE d \notin listed
      BY <1>1, <3>1, <3>2 DEF LoopInv, ListIsReal
    <3>3. CASE d \in completed
      <4>1. PICK p \in Loop!Runs : for[p] = d /\ status[p] = "DONE"
        BY <3>3 DEF LoopInv, Records, CompletedIsDone
      <4> QED
        BY <1>1, <1>5, <4>1 DEF Loop!RunsOf
    <3> QED
      BY <3>1, <3>2, <3>3
  <2> QED
    BY <2>1, <2>2
<1>10. Loop!FiredOnce'
  <2> SUFFICES ASSUME NEW m \in Issues, NEW p \in Loop!RunsOf(m)' \ forgotten',
                      NEW q \in Loop!RunsOf(m)' \ forgotten'
               PROVE  p = q
    BY DEF Loop!FiredOnce
  <2>1. \A k \in Loop!RunsOf(n) : k \in forgotten
    BY <1>1, NoRunIsNone DEF LoopInv, KnowsItsRuns, Loop!RunsOf
  <2>2. CASE m = n
    BY <1>3, <1>5, <2>1, <2>2 DEF Loop!RunsOf
  <2>3. CASE m # n
    BY <1>3, <1>5, <2>3 DEF Loop!RunsOf, LoopInv, Loop!FiredOnce
  <2> QED
    BY <2>2, <2>3
<1> QED
  BY <1>4, <1>6, <1>7, <1>8, <1>9, <1>10 DEF LoopInv

LEMMA RunEndsLoop ==
  ASSUME LoopInv, NEW r \in Loop!Runs, NEW t \in {"DONE", "FAILED"}, Loop!RunEnds(r, t)
  PROVE  LoopInv'
<1>1. /\ UNCHANGED <<open, for, fired, completed, failed, file, loopPc, listed, queue,
           fresh, closedOnce, forgotten>>
      /\ status[r] = "RUNNING" /\ status' = [status EXCEPT ![r] = t]
  BY DEF Loop!RunEnds, Loop!memory, Loop!loop, Loop!history
<1>2. /\ \A q \in Loop!Runs : status[q] = "DONE" => status'[q] = "DONE"
      /\ \A q \in Loop!Runs : status'[q] = "unborn" <=> status[q] = "unborn"
  BY <1>1 DEF LoopInv, LoopTypes
<1>3. LoopTypes'
  BY <1>1, <1>2 DEF LoopInv, LoopTypes
<1>4. Records'
  BY <1>1, <1>2 DEF LoopInv, Records, RunsAreOwn, CompletedIsDone
<1>5. ListIsReal' /\ FreshIsUnmarked' /\ KnowsItsRuns'
  BY <1>1 DEF LoopInv, ListIsReal, FreshIsUnmarked, KnowsItsRuns
<1>6. Loop!DependentsWait' /\ Loop!FiredOnce'
  BY <1>1, <1>2 DEF LoopInv, Loop!DependentsWait, Loop!FiredOnce, Loop!RunsOf
<1> QED
  BY <1>3, <1>4, <1>5, <1>6 DEF LoopInv

\* A death leaves the file as it was or torn; the next start knows what the
\* file tells it, and forgets the rest.
LEMMA LifeLoop ==
  ASSUME LoopBounds, LoopInv, Loop!Start \/ Loop!RemoveFile
         \/ \E tears \in BOOLEAN : Loop!Die(tears)
  PROVE  LoopInv'
<1>1. UNCHANGED <<open, status, for, closedOnce>>
  BY DEF Loop!Start, Loop!RemoveFile, Loop!Die, Loop!github, Loop!history
<1>2. CASE Loop!Start
  <2>1. /\ UNCHANGED <<file, listed, queue, fresh>> /\ loopPc' = "list"
        /\ fired' = file.fired /\ completed' = file.completed /\ failed' = file.failed
        /\ forgotten' = forgotten \cup {r \in Loop!Runs : for[r] \in Issues
             /\ file.fired[for[r]] # r}
    BY <1>2 DEF Loop!Start
  <2>2. LoopTypes' /\ Records'
    BY <1>1, <2>1 DEF LoopInv, LoopTypes, Memories, Records, RunsAreOwn,
                      CompletedIsDone
  <2>3. ListIsReal' /\ FreshIsUnmarked' /\ KnowsItsRuns'
    BY <1>1, <2>1 DEF ListIsReal, FreshIsUnmarked, KnowsItsRuns
  <2>4. Loop!DependentsWait' /\ Loop!FiredOnce'
    BY <1>1, <2>1 DEF LoopInv, Loop!DependentsWait, Loop!FiredOnce, Loop!RunsOf
  <2> QED
    BY <2>2, <2>3, <2>4 DEF LoopInv
<1>3. CASE Loop!RemoveFile
  <2>1. UNCHANGED <<fired, completed, failed, loopPc, listed, queue, fresh,
          forgotten>> /\ file' = Loop!NoFile
    BY <1>3 DEF Loop!RemoveFile, Loop!memory, Loop!loop, Loop!history
  <2>2. LoopTypes' /\ Records'
    BY <1>1, <2>1 DEF LoopInv, LoopTypes, Memories, Loop!NoFile, Loop!Empty,
                      Records, RunsAreOwn, CompletedIsDone
  <2>3. ListIsReal' /\ FreshIsUnmarked' /\ KnowsItsRuns' /\ Loop!DependentsWait'
          /\ Loop!FiredOnce'
    BY <1>1, <2>1 DEF LoopInv, ListIsReal, FreshIsUnmarked, KnowsItsRuns,
                      Loop!DependentsWait, Loop!FiredOnce, Loop!RunsOf
  <2> QED
    BY <2>2, <2>3 DEF LoopInv
<1>4. ASSUME NEW tears \in BOOLEAN, Loop!Die(tears)  PROVE LoopInv'
  <2>1. /\ UNCHANGED <<fired, completed, failed, forgotten>>
             /\ file' = [file EXCEPT !.torn = tears]
        /\ loopPc' = "dead" /\ listed' = {} /\ queue' = {} /\ fresh' = Loop!NoRun
    BY <1>4 DEF Loop!Die, Loop!memory, Loop!history
  <2>2. file' \in Memories /\ file'.fired = file.fired /\ file'.completed = file.completed
    BY <2>1 DEF LoopInv, LoopTypes, Memories
  <2>3. LoopTypes' /\ Records'
    BY <1>1, <2>1, <2>2 DEF LoopInv, LoopTypes, Records, RunsAreOwn, CompletedIsDone
  <2>4. ListIsReal' /\ FreshIsUnmarked' /\ KnowsItsRuns' /\ Loop!DependentsWait'
          /\ Loop!FiredOnce'
    BY <1>1, <2>1 DEF LoopInv, ListIsReal, FreshIsUnmarked, KnowsItsRuns,
                      Loop!DependentsWait, Loop!FiredOnce, Loop!RunsOf
  <2> QED
    BY <2>3, <2>4 DEF LoopInv
<1> QED
  BY <1>2, <1>3, <1>4

LEMMA LoopStep == LoopBounds /\ LoopInv /\ [Loop!Next]_Loop!vars => LoopInv'
<1> SUFFICES ASSUME LoopBounds, LoopInv, [Loop!Next]_Loop!vars  PROVE LoopInv'
  OBVIOUS
<1>1. CASE Loop!List \/ Loop!Reconciled \/ Loop!CycleEnds
  BY <1>1, QuietLoop DEF QuietStep
<1>2. CASE Loop!Start \/ Loop!RemoveFile \/ \E tears \in BOOLEAN : Loop!Die(tears)
  BY <1>2, LifeLoop
<1>3. ASSUME NEW n \in Issues, Loop!LeaveUnsettled(n) \/ Loop!Pass(n) \/ Loop!Close(n) \/ Loop!Reopen(n)
      PROVE LoopInv'
  BY <1>3, QuietLoop DEF QuietStep
<1>4. ASSUME NEW n \in Issues, Loop!MarkCompleted(n) \/ Loop!MarkFailed(n)  PROVE LoopInv'
  BY <1>4, SettleLoop
<1>5. ASSUME NEW n \in Issues, Loop!MarkFired(n)  PROVE LoopInv'
  BY <1>5, MarkFiredLoop
<1>6. ASSUME NEW n \in Issues, NEW r \in Loop!Runs, Loop!FireRun(n, r) \/ Loop!FireRunUnheard(n, r)
      PROVE LoopInv'
  BY <1>6, FireLoop
<1>7. ASSUME NEW r \in Loop!Runs, NEW t \in {"DONE", "FAILED"}, Loop!RunEnds(r, t)
      PROVE LoopInv'
  BY <1>7, RunEndsLoop
<1>8. CASE UNCHANGED Loop!vars
  BY <1>8 DEF Loop!vars, LoopInv, LoopTypes, Records, RunsAreOwn, CompletedIsDone,
              ListIsReal, FreshIsUnmarked,
              KnowsItsRuns, Loop!DependentsWait, Loop!FiredOnce, Loop!RunsOf
<1> QED
  BY <1>1, <1>2, <1>3, <1>4, <1>5, <1>6, <1>7, <1>8 DEF Loop!Next

LEMMA LoopInvariance == ASSUME LoopBounds  PROVE Loop!Spec => []LoopInv
  BY LoopInit, LoopStep, PTL DEF Loop!Spec

\* depsAllDone holds the dependents back: an issue has a run only if each of its
\* dependencies was seen closed or has a run that is DONE.
THEOREM OrchestratorWaits == ASSUME LoopBounds  PROVE Loop!Spec => []Loop!DependentsWait
<1>1. LoopInv => Loop!DependentsWait
  BY DEF LoopInv
<1> QED
  BY <1>1, LoopInvariance, PTL

\* The state file keeps a restart from firing twice what it knows to be fired.
THEOREM OrchestratorFiresOnce == ASSUME LoopBounds  PROVE Loop!Spec => []Loop!FiredOnce
<1>1. LoopInv => Loop!FiredOnce
  BY DEF LoopInv
<1> QED
  BY <1>1, LoopInvariance, PTL

-----------------------------------------------------------------------------
(***************************************************************************)
(* What concurrent releases leave on the disk, for any workers, runs and   *)
(* number of previews to keep.  The bound needs only that the clock is not *)
(* behind a directory's time; that the newest are kept needs that no two   *)
(* directories share a time, and that a directory some listing condemned is*)
(* neither written nor replaced (Calm), which is why runs in progress must *)
(* not have a preview yet.                                                 *)
(***************************************************************************)

ReleaseBounds == Keep \in Nat /\ IsFiniteSet(Runs)

Clocked ==
  /\ \A r \in Runs : mod[r] <= diskClock
  /\ \A w \in Workers : at[w] <= diskClock
  /\ \A d, e \in dirs : mod[d] = mod[e] => d = e
  /\ \A d \in dirs : mod[d] > 0

Early == {"fetch", "build", "place"}
Fresh ==
  Calm => /\ \A w, o \in Workers :
               relPc[w] # "idle" /\ relPc[o] # "idle" /\ job[w] = job[o] => w = o
          /\ \A w \in Workers : relPc[w] \in Early => mod[job[w]] = 0

Newer(v) == {d \in dirs : mod[d] > mod[v]}
Kept(w) == {d \in dirs \ (victims[w] \union unremoved[w]) : mod[d] <= at[w]}

NewestKept == Calm => Rel!GcKeepsNewest

ReleaseInv == Rel!TypeOK /\ Clocked /\ Fresh /\ Rel!DiskBound /\ NewestKept

(* The Cardinality of Releases is this module's.                           *)
LEMMA SameCardinality == ASSUME NEW S PROVE Rel!Cardinality(S) = Cardinality(S)
BY DEF Rel!Cardinality, Cardinality

LEMMA FiniteRuns ==
  ASSUME ReleaseBounds, Rel!TypeOK, NEW S \in SUBSET Runs
  PROVE  IsFiniteSet(S) /\ Cardinality(S) \in Nat
BY FS_Subset, FS_CardinalityType DEF ReleaseBounds

LEMMA SmallerSet ==
  ASSUME ReleaseBounds, NEW S \in SUBSET Runs, NEW T \in SUBSET S
  PROVE  Cardinality(T) <= Cardinality(S)
<1>1. IsFiniteSet(S)
  BY FS_Subset DEF ReleaseBounds
<1> QED BY <1>1, FS_Subset

(* A step that removes directories, and condemns or forgives none, cannot  *)
(* break the bound.                                                        *)
LEMMA BoundShrinks ==
  ASSUME ReleaseBounds, ReleaseInv, NEW w \in Workers, relPc[w] = "gc", Rel!TypeOK',
         Kept(w)' \subseteq Kept(w)
  PROVE  Cardinality(Kept(w)') <= Keep
<1>1. Kept(w) \in SUBSET Runs
  BY DEF ReleaseInv, Rel!TypeOK, Kept
<1>2. Kept(w)' \in SUBSET Runs
  BY DEF Rel!TypeOK, Kept
<1>3. Cardinality(Kept(w)) <= Keep
  BY SameCardinality DEF ReleaseInv, Rel!DiskBound, Kept
<1>4. Cardinality(Kept(w)') <= Cardinality(Kept(w))
  BY <1>1, SmallerSet
<1>5. Cardinality(Kept(w)') \in Nat /\ Cardinality(Kept(w)) \in Nat
  BY <1>1, <1>2, FiniteRuns DEF ReleaseInv
<1> QED BY <1>3, <1>4, <1>5 DEF ReleaseBounds

LEMMA BoundIs == Rel!DiskBound <=> \A w \in Workers : relPc[w] = "gc" => Cardinality(Kept(w)) <= Keep
BY SameCardinality DEF Rel!DiskBound, Kept

LEMMA NewestIs ==
  Rel!GcKeepsNewest <=> \A w \in Workers : relPc[w] = "gc" =>
                      \A v \in victims[w] : Cardinality(Newer(v)) >= Keep
BY SameCardinality DEF Rel!GcKeepsNewest, Newer

(* A directory that has at least as many newer ones as another still has   *)
(* Keep.                                                                   *)
LEMMA AsNew ==
  ASSUME ReleaseBounds, Rel!TypeOK, NEW S \in SUBSET Runs, NEW T \in SUBSET Runs,
         T \subseteq S, Cardinality(T) >= Keep
  PROVE  Cardinality(S) >= Keep
<1>1. Cardinality(T) <= Cardinality(S)
  BY SmallerSet
<1> QED BY <1>1, FiniteRuns DEF ReleaseBounds

(* Steps that touch neither a directory nor a collection.                  *)
LEMMA Quiet ==
  ASSUME ReleaseBounds, ReleaseInv, Rel!TypeOK',
         UNCHANGED <<dirs, mod, diskClock, victims, at, unremoved>>,
         \A w \in Workers : relPc'[w] = "gc" => relPc[w] = "gc"
  PROVE  Clocked' /\ Rel!DiskBound' /\ NewestKept'
<1>1. Clocked'
  BY DEF ReleaseInv, Clocked
<1>2. Rel!DiskBound'
  BY DEF ReleaseInv, Rel!DiskBound
<1>3. NewestKept'
  BY DEF ReleaseInv, NewestKept, Rel!GcKeepsNewest
<1> QED BY <1>1, <1>2, <1>3

(* A worker that goes on with the run it has, or stops.                    *)
LEMMA FreshGoesOn ==
  ASSUME ReleaseInv, NEW w \in Workers, NEW p \in Rel!Phases, Rel!Goto(w, p), job' = job, mod' = mod,
         relPc[w] # "idle", p \in Early => relPc[w] \in Early
  PROVE  Fresh'
BY DEF ReleaseInv, Rel!TypeOK, Fresh, Rel!Goto

LEMMA ReturnKeeps ==
  ASSUME ReleaseBounds, ReleaseInv, NEW w \in Workers, relPc[w] # "idle", Rel!Return(w), UNCHANGED Rel!gc
  PROVE  ReleaseInv'
<1>1. Rel!TypeOK'
  BY DEF ReleaseInv, Rel!TypeOK, Rel!Return, Rel!Goto, Rel!Phases, Rel!gc
<1>2. \A o \in Workers : relPc'[o] = "gc" => relPc[o] = "gc"
  BY DEF ReleaseInv, Rel!TypeOK, Rel!Return, Rel!Goto
<1>3. Clocked' /\ Rel!DiskBound' /\ NewestKept'
  BY <1>1, <1>2, Quiet DEF Rel!Return, Rel!gc
<1>4. Fresh'
  BY FreshGoesOn DEF Rel!Return, Rel!Phases, Early
<1> QED BY <1>1, <1>3, <1>4 DEF ReleaseInv

LEMMA RunKeeps ==
  ASSUME ReleaseBounds, ReleaseInv, NEW w \in Workers, NEW r \in Runs, Rel!Run(w, r)
  PROVE  ReleaseInv'
<1>1. Rel!TypeOK'
  BY DEF ReleaseInv, Rel!TypeOK, Rel!Run, Rel!Goto, Rel!Phases, Rel!gc
<1>2. \A o \in Workers : relPc'[o] = "gc" => relPc[o] = "gc"
  BY DEF ReleaseInv, Rel!TypeOK, Rel!Run, Rel!Goto
<1>3. Clocked' /\ Rel!DiskBound' /\ NewestKept'
  BY <1>1, <1>2, Quiet DEF Rel!Run, Rel!gc
<1>4. Fresh'
  <2> SUFFICES ASSUME Calm PROVE Fresh' BY DEF Fresh
  <2>1. /\ \A o \in Workers : relPc'[o] # "idle" => o = w \/ (relPc[o] # "idle" /\ relPc'[o] = relPc[o])
        /\ \A o \in Workers : o # w => job'[o] = job[o]
        /\ job'[w] = r /\ mod' = mod /\ mod[r] = 0
        /\ \A o \in Workers : relPc[o] # "idle" => job[o] # r
    BY DEF ReleaseInv, Rel!TypeOK, Rel!Run, Rel!Goto
  <2>2. \A a, o \in Workers :
          relPc'[a] # "idle" /\ relPc'[o] # "idle" /\ job'[a] = job'[o] => a = o
    BY <2>1 DEF ReleaseInv, Fresh
  <2>3. \A o \in Workers : relPc'[o] \in Early => mod'[job'[o]] = 0
    BY <2>1 DEF ReleaseInv, Fresh, Early
  <2> QED BY <2>2, <2>3 DEF Fresh
<1> QED BY <1>1, <1>3, <1>4 DEF ReleaseInv

LEMMA OnwardKeeps ==
  ASSUME ReleaseBounds, ReleaseInv, NEW w \in Workers, Rel!gitClone(w) \/ Rel!Build(w)
  PROVE  ReleaseInv'
<1>1. Rel!TypeOK'
  BY DEF ReleaseInv, Rel!TypeOK, Rel!gitClone, Rel!Build, Rel!Goto, Rel!Phases, Rel!gc
<1>2. \A o \in Workers : relPc'[o] = "gc" => relPc[o] = "gc"
  BY DEF ReleaseInv, Rel!TypeOK, Rel!gitClone, Rel!Build, Rel!Goto
<1>3. Clocked' /\ Rel!DiskBound' /\ NewestKept'
  BY <1>1, <1>2, Quiet DEF Rel!gitClone, Rel!Build, Rel!gc
<1>4. Fresh'
  BY FreshGoesOn DEF Rel!gitClone, Rel!Build, Rel!Phases, Early
<1> QED BY <1>1, <1>3, <1>4 DEF ReleaseInv

LEMMA RemoveOldKeeps ==
  ASSUME ReleaseBounds, ReleaseInv, NEW w \in Workers, Rel!RemoveOld(w)
  PROVE  ReleaseInv'
<1>1. Rel!TypeOK'
  BY DEF ReleaseInv, Rel!TypeOK, Rel!RemoveOld, Rel!Goto, Rel!Phases, Rel!gc
<1>2. /\ \A o \in Workers : relPc'[o] = "gc" => relPc[o] = "gc"
      /\ UNCHANGED <<job, mod, diskClock, victims, at, unremoved>>
      /\ dirs' = dirs \ {job[w]} /\ relPc[w] = "place" /\ job[w] \in Runs
  BY DEF ReleaseInv, Rel!TypeOK, Rel!RemoveOld, Rel!Goto, Rel!gc
<1>3. Clocked'
  BY <1>2 DEF ReleaseInv, Clocked
<1>4. Fresh'
  BY <1>2, FreshGoesOn DEF Rel!RemoveOld, Rel!Phases, Early
<1>5. Rel!DiskBound'
  <2>1. \A o \in Workers : Kept(o)' \subseteq Kept(o)
    BY <1>2 DEF Kept
  <2>2. \A o \in Workers : relPc'[o] = "gc" => Cardinality(Kept(o)') <= Keep
    BY <1>1, <1>2, <2>1, BoundShrinks
  <2> QED BY <2>2, SameCardinality DEF Rel!DiskBound, Kept
<1>6. NewestKept'
  <2>1. Calm => dirs' = dirs
    <3> SUFFICES ASSUME Calm PROVE job[w] \notin dirs
      BY <1>2
    <3>1. mod[job[w]] = 0
      BY <1>2 DEF ReleaseInv, Fresh, Early
    <3>2. \A d \in dirs : mod[d] > 0
      BY DEF ReleaseInv, Clocked
    <3> QED BY <3>1, <3>2
  <2> QED BY <1>2, <2>1 DEF ReleaseInv, NewestKept, Rel!GcKeepsNewest
<1> QED BY <1>1, <1>3, <1>4, <1>5, <1>6 DEF ReleaseInv

LEMMA CopyKeeps ==
  ASSUME ReleaseBounds, ReleaseInv, NEW w \in Workers, Rel!Copy(w)
  PROVE  ReleaseInv'
<1> DEFINE r == job[w]
<1>0. r \in Runs
  BY DEF ReleaseInv, Rel!TypeOK
<1>1. Rel!TypeOK'
  BY <1>0 DEF ReleaseInv, Rel!TypeOK, Rel!Copy, Rel!Goto, Rel!Phases, Rel!gc
<1>2. /\ \A o \in Workers : relPc'[o] = "gc" => relPc[o] = "gc"
      /\ \A o \in Workers : relPc[o] = "gc" => relPc'[o] = "gc"
      /\ \A o \in Workers : o # w => relPc'[o] = relPc[o]
      /\ relPc'[w] = "publish" /\ relPc[w] # "idle"
      /\ UNCHANGED <<job, victims, at, unremoved>>
      /\ dirs' = dirs \union {r} /\ diskClock' = diskClock + 1
      /\ mod'[r] = diskClock + 1 /\ \A q \in Runs : q # r => mod'[q] = mod[q]
      /\ dirs \subseteq Runs
  BY <1>0 DEF ReleaseInv, Rel!TypeOK, Rel!Copy, Rel!Goto, Rel!gc
<1>3. /\ diskClock \in Nat /\ \A q \in Runs : mod[q] \in Nat /\ mod[q] <= diskClock
      /\ \A o \in Workers : at[o] \in Nat /\ at[o] <= diskClock
  BY DEF ReleaseInv, Rel!TypeOK, Clocked
<1> HIDE DEF r
<1>4. Clocked'
  <2>1. \A q \in Runs : mod'[q] <= diskClock'
    BY <1>2, <1>3
  <2>2. \A o \in Workers : at'[o] <= diskClock'
    BY <1>2, <1>3
  <2>3. \A d, e \in dirs' : mod'[d] = mod'[e] => d = e
    <3>1. \A q \in Runs : q # r => mod'[q] # mod'[r]
      BY <1>2, <1>3
    <3>2. \A d, e \in dirs : mod[d] = mod[e] => d = e
      BY DEF ReleaseInv, Clocked
    <3> QED BY <1>0, <1>2, <3>1, <3>2
  <2>4. \A d \in dirs' : mod'[d] > 0
    <3>1. \A d \in dirs : mod[d] > 0
      BY DEF ReleaseInv, Clocked
    <3> QED BY <1>2, <1>3, <3>1
  <2> QED BY <2>1, <2>2, <2>3, <2>4 DEF Clocked
<1>5. Fresh'
  <2> SUFFICES ASSUME Calm PROVE Fresh' BY DEF Fresh
  <2>1. \A a, o \in Workers :
          relPc'[a] # "idle" /\ relPc'[o] # "idle" /\ job'[a] = job'[o] => a = o
    BY <1>2 DEF ReleaseInv, Fresh
  <2>2. ASSUME NEW o \in Workers, relPc'[o] \in Early PROVE mod'[job'[o]] = 0
    <3>1. o # w /\ relPc[o] \in Early /\ relPc[o] # "idle" /\ job[o] \in Runs
      BY <1>2, <2>2 DEF Early, ReleaseInv, Rel!TypeOK
    <3>2. job[o] # r
      BY <1>2, <3>1 DEF ReleaseInv, Fresh, r
    <3>3. mod[job[o]] = 0
      BY <3>1 DEF ReleaseInv, Fresh
    <3> QED BY <1>2, <3>1, <3>2, <3>3
  <2> QED BY <2>1, <2>2 DEF Fresh
<1>6. Rel!DiskBound'
  <2>1. \A o \in Workers : Kept(o)' \subseteq Kept(o)
    <3> SUFFICES ASSUME NEW o \in Workers, NEW d \in Kept(o)' PROVE d \in Kept(o)
      OBVIOUS
    <3>1. d \in dirs' \ (victims[o] \union unremoved[o]) /\ mod'[d] <= at[o]
      BY <1>2 DEF Kept
    <3>2. d # r
      BY <1>2, <1>3, <3>1
    <3> QED BY <1>2, <3>1, <3>2 DEF Kept
  <2>2. \A o \in Workers : relPc'[o] = "gc" => Cardinality(Kept(o)') <= Keep
    BY <1>1, <1>2, <2>1, BoundShrinks
  <2> QED BY <2>2, SameCardinality DEF Rel!DiskBound, Kept
<1>7. NewestKept'
  <2> SUFFICES ASSUME Calm PROVE Rel!GcKeepsNewest'
    BY DEF NewestKept
  <2>1. ASSUME NEW o \in Workers, relPc'[o] = "gc", NEW v \in victims[o]
        PROVE  Cardinality(Newer(v)') >= Keep
    <3>1. v # r /\ v \in Runs
      BY <1>2, <2>1 DEF Rel!Copy, Rel!Condemned, ReleaseInv, Rel!TypeOK, r
    <3>2. Newer(v) \subseteq Newer(v)'
      BY <1>0, <1>2, <1>3, <3>1 DEF Newer
    <3>3. Cardinality(Newer(v)) >= Keep
      BY <1>2, <2>1, NewestIs DEF ReleaseInv, NewestKept
    <3>4. Newer(v) \in SUBSET Runs /\ Newer(v)' \in SUBSET Runs
      BY <1>0, <1>2 DEF Newer
    <3> QED BY <3>2, <3>3, <3>4, AsNew DEF ReleaseInv
  <2>2. \A o \in Workers : relPc'[o] = "gc" =>
          \A v \in victims'[o] : Cardinality(Newer(v)') >= Keep
    BY <1>2, <2>1
  <2> QED BY <2>2, SameCardinality DEF Rel!GcKeepsNewest, Newer
<1> QED BY <1>1, <1>4, <1>5, <1>6, <1>7 DEF ReleaseInv

LEMMA ListKeeps ==
  ASSUME ReleaseBounds, ReleaseInv, NEW w \in Workers, NEW V \in SUBSET dirs, Rel!ListPreviews(w, V)
  PROVE  ReleaseInv'
<1>1. Rel!TypeOK'
  BY DEF ReleaseInv, Rel!TypeOK, Rel!ListPreviews, Rel!Goto, Rel!Phases
<1>2. /\ \A o \in Workers : o # w => relPc'[o] = relPc[o] /\ victims'[o] = victims[o]
                                     /\ at'[o] = at[o] /\ unremoved'[o] = unremoved[o]
      /\ relPc[w] = "publish" /\ relPc'[w] = "gc" /\ victims'[w] = V
      /\ at'[w] = diskClock /\ unremoved'[w] = {}
      /\ UNCHANGED <<job, src, dirs, mod, diskClock>>
      /\ dirs \subseteq Runs
  BY DEF ReleaseInv, Rel!TypeOK, Rel!ListPreviews, Rel!Goto
<1>3. /\ diskClock \in Nat /\ \A q \in Runs : mod[q] \in Nat /\ mod[q] <= diskClock
  BY DEF ReleaseInv, Rel!TypeOK, Clocked
<1>4. Clocked'
  BY <1>2, <1>3 DEF ReleaseInv, Clocked
<1>5. Fresh'
  BY <1>2, FreshGoesOn DEF Rel!ListPreviews, Rel!Phases, Early
<1>6. Rel!Oldest(V)
  BY DEF Rel!ListPreviews
<1>7. Cardinality(dirs \ V) <= Keep
  <2>1. CASE Cardinality(dirs) <= Keep
    <3>1. dirs \ V = dirs
      BY <1>6, <2>1, SameCardinality DEF Rel!Oldest
    <3> QED BY <2>1, <3>1
  <2>2. CASE ~(Cardinality(dirs) <= Keep)
    BY <1>6, <2>2, SameCardinality DEF Rel!Oldest, ReleaseBounds
  <2> QED BY <2>1, <2>2
<1>8. Rel!DiskBound'
  <2>1. Kept(w)' = dirs \ V
    BY <1>2, <1>3 DEF Kept
  <2>2. ASSUME NEW o \in Workers, o # w, relPc'[o] = "gc"
        PROVE  Cardinality(Kept(o)') <= Keep
    <3>1. Kept(o)' = Kept(o)
      BY <1>2, <2>2 DEF Kept
    <3> QED BY <1>2, <2>2, <3>1, BoundIs DEF ReleaseInv
  <2>3. \A o \in Workers : relPc'[o] = "gc" => Cardinality(Kept(o)') <= Keep
    BY <1>7, <2>1, <2>2
  <2> QED BY <2>3, SameCardinality DEF Rel!DiskBound, Kept
<1>9. NewestKept'
  <2> SUFFICES ASSUME Calm PROVE Rel!GcKeepsNewest'
    BY DEF NewestKept
  <2>1. ASSUME NEW o \in Workers, o # w, relPc'[o] = "gc", NEW v \in victims'[o]
        PROVE  Cardinality(Newer(v)') >= Keep
    <3>1. Newer(v)' = Newer(v)
      BY <1>2 DEF Newer
    <3> QED BY <1>2, <2>1, <3>1, NewestIs DEF ReleaseInv, NewestKept
  <2>2. ASSUME NEW v \in V PROVE Cardinality(Newer(v)') >= Keep
    <3>1. ~(Cardinality(dirs) <= Keep)
      BY <1>6, <2>2, SameCardinality DEF Rel!Oldest
    <3>2. Cardinality(dirs \ V) = Keep /\ \A d \in dirs \ V : mod[v] <= mod[d]
      BY <1>6, <2>2, <3>1, SameCardinality DEF Rel!Oldest
    <3>3. \A d \in dirs \ V : mod[v] # mod[d]
      BY <2>2 DEF ReleaseInv, Clocked
    <3>4. dirs \ V \subseteq Newer(v)'
      BY <1>2, <1>3, <3>2, <3>3 DEF Newer
    <3>5. dirs \ V \in SUBSET Runs /\ Newer(v)' \in SUBSET Runs
      BY <1>2 DEF Newer
    <3>6. Cardinality(dirs \ V) >= Keep
      BY <3>2 DEF ReleaseBounds
    <3> QED BY <3>4, <3>5, <3>6, AsNew DEF ReleaseInv
  <2>3. \A o \in Workers : relPc'[o] = "gc" =>
          \A v \in victims'[o] : Cardinality(Newer(v)') >= Keep
    BY <1>2, <2>1, <2>2
  <2> QED BY <2>3, SameCardinality DEF Rel!GcKeepsNewest, Newer
<1> QED BY <1>1, <1>4, <1>5, <1>8, <1>9 DEF ReleaseInv

LEMMA RemoveKeeps ==
  ASSUME ReleaseBounds, ReleaseInv, NEW w \in Workers, NEW u \in victims[w], Rel!RemoveVictim(w, u)
  PROVE  ReleaseInv'
<1>1. Rel!TypeOK'
  BY DEF ReleaseInv, Rel!TypeOK, Rel!RemoveVictim
<1>2. /\ relPc[w] = "gc" /\ victims'[w] = victims[w] \ {u}
      /\ \A o \in Workers : o # w => victims'[o] = victims[o]
      /\ dirs' = dirs \ {u} /\ u \in Runs /\ dirs \subseteq Runs
      /\ UNCHANGED <<relPc, job, mod, diskClock, at, unremoved>>
      /\ \A o \in Workers : victims[o] \subseteq Runs
  BY DEF ReleaseInv, Rel!TypeOK, Rel!RemoveVictim
<1>3. Clocked'
  BY <1>2 DEF ReleaseInv, Clocked
<1>4. Fresh'
  BY <1>2 DEF ReleaseInv, Fresh
<1>5. Rel!DiskBound'
  <2>1. \A o \in Workers : Kept(o)' \subseteq Kept(o)
    BY <1>2 DEF Kept
  <2>2. \A o \in Workers : relPc'[o] = "gc" => Cardinality(Kept(o)') <= Keep
    BY <1>1, <1>2, <2>1, BoundShrinks
  <2> QED BY <2>2, SameCardinality DEF Rel!DiskBound, Kept
<1>6. NewestKept'
  <2> SUFFICES ASSUME Calm PROVE Rel!GcKeepsNewest'
    BY DEF NewestKept
  <2>1. Cardinality(Newer(u)) >= Keep
    BY <1>2, NewestIs DEF ReleaseInv, NewestKept
  <2>2. ASSUME NEW o \in Workers, relPc[o] = "gc", NEW v \in victims[o]
        PROVE  Cardinality(Newer(v)') >= Keep
    <3>1. v \in Runs /\ mod[v] \in Nat /\ mod[u] \in Nat /\ \A d \in dirs : mod[d] \in Nat
      BY <1>2 DEF ReleaseInv, Rel!TypeOK
    <3>2. Newer(v)' = Newer(v) \ {u}
      BY <1>2 DEF Newer
    <3>3. Newer(v) \in SUBSET Runs /\ Newer(u) \in SUBSET Runs /\ Newer(v)' \in SUBSET Runs
      BY <1>2 DEF Newer
    <3>4. CASE mod[u] > mod[v]
      <4>1. Newer(u) \subseteq Newer(v)'
        BY <3>1, <3>2, <3>4 DEF Newer
      <4> QED BY <2>1, <3>3, <4>1, AsNew DEF ReleaseInv
    <3>5. CASE ~(mod[u] > mod[v])
      <4>1. Newer(v)' = Newer(v)
        BY <3>2, <3>5 DEF Newer
      <4> QED BY <2>2, <4>1, NewestIs DEF ReleaseInv, NewestKept
    <3> QED BY <3>4, <3>5
  <2>3. \A o \in Workers : relPc'[o] = "gc" =>
          \A v \in victims'[o] : Cardinality(Newer(v)') >= Keep
    BY <1>2, <2>2
  <2> QED BY <2>3, SameCardinality DEF Rel!GcKeepsNewest, Newer
<1> QED BY <1>1, <1>3, <1>4, <1>5, <1>6 DEF ReleaseInv

LEMMA RemoveFailsKeeps ==
  ASSUME ReleaseBounds, ReleaseInv, NEW w \in Workers, NEW u \in victims[w], Rel!RemoveFails(w, u)
  PROVE  ReleaseInv'
<1>1. Rel!TypeOK'
  BY DEF ReleaseInv, Rel!TypeOK, Rel!RemoveFails
<1>2. /\ relPc[w] = "gc" /\ victims'[w] = victims[w] \ {u}
      /\ unremoved'[w] = unremoved[w] \union {u}
      /\ \A o \in Workers : o # w => victims'[o] = victims[o] /\ unremoved'[o] = unremoved[o]
      /\ UNCHANGED <<relPc, job, dirs, mod, diskClock, at>>
  BY DEF ReleaseInv, Rel!TypeOK, Rel!RemoveFails
<1>3. Clocked'
  BY <1>2 DEF ReleaseInv, Clocked
<1>4. Fresh'
  BY <1>2 DEF ReleaseInv, Fresh
<1>5. Rel!DiskBound'
  <2>1. \A o \in Workers : Kept(o)' \subseteq Kept(o)
    BY <1>2 DEF Kept
  <2>2. \A o \in Workers : relPc'[o] = "gc" => Cardinality(Kept(o)') <= Keep
    BY <1>1, <1>2, <2>1, BoundShrinks
  <2> QED BY <2>2, SameCardinality DEF Rel!DiskBound, Kept
<1>6. NewestKept'
  <2>1. \A o \in Workers : victims'[o] \subseteq victims[o]
    BY <1>2
  <2> QED BY <1>2, <2>1 DEF ReleaseInv, NewestKept, Rel!GcKeepsNewest
<1> QED BY <1>1, <1>3, <1>4, <1>5, <1>6 DEF ReleaseInv

LEMMA CrashKeeps == ASSUME ReleaseBounds, ReleaseInv, Rel!Crash PROVE ReleaseInv'
<1>1. Rel!TypeOK'
  BY DEF ReleaseInv, Rel!TypeOK, Rel!Crash, Rel!Phases
<1>2. \A w \in Workers : relPc'[w] = "idle"
  BY DEF Rel!Crash
<1>3. Clocked'
  BY DEF ReleaseInv, Clocked, Rel!Crash
<1>4. Fresh' /\ Rel!DiskBound' /\ NewestKept'
  BY <1>2 DEF Fresh, Rel!DiskBound, NewestKept, Rel!GcKeepsNewest, Early
<1> QED BY <1>1, <1>3, <1>4 DEF ReleaseInv

LEMMA ReleaseInit == ASSUME ReleaseBounds PROVE Rel!Init => ReleaseInv
<1> SUFFICES ASSUME Rel!Init PROVE ReleaseInv OBVIOUS
<1>1. Rel!TypeOK
  BY DEF Rel!Init, Rel!TypeOK, Rel!Phases
<1>2. Clocked /\ Fresh
  BY DEF Rel!Init, Clocked, Fresh, Early
<1>3. Rel!DiskBound /\ NewestKept
  BY DEF Rel!Init, Rel!DiskBound, NewestKept, Rel!GcKeepsNewest
<1> QED BY <1>1, <1>2, <1>3 DEF ReleaseInv

LEMMA ReleaseStep == ASSUME ReleaseBounds, ReleaseInv, [Rel!Next]_Rel!vars PROVE ReleaseInv'
<1>1. ASSUME NEW w \in Workers, Rel!WorkerStep(w) PROVE ReleaseInv'
  <2>1. CASE \E r \in Runs : Rel!Run(w, r)
    BY <2>1, RunKeeps
  <2>2. CASE Rel!gitClone(w) \/ Rel!Build(w)
    BY <2>2, OnwardKeeps
  <2>3. CASE Rel!Fail(w) \/ Rel!releaseFirebase(w) \/ Rel!CopyFails(w) \/ Rel!ListFails(w) \/ Rel!Published(w)
    BY <2>3, ReturnKeeps DEF Rel!Fail, Rel!releaseFirebase, Rel!CopyFails, Rel!ListFails, Rel!Published
  <2>4. CASE Rel!RemoveOld(w)
    BY <2>4, RemoveOldKeeps
  <2>5. CASE Rel!Copy(w)
    BY <2>5, CopyKeeps
  <2>6. CASE \E V \in SUBSET dirs : Rel!ListPreviews(w, V)
    BY <2>6, ListKeeps
  <2>7. CASE \E v \in victims[w] : Rel!RemoveVictim(w, v) \/ Rel!RemoveFails(w, v)
    BY <2>7, RemoveKeeps, RemoveFailsKeeps
  <2> QED BY <1>1, <2>1, <2>2, <2>3, <2>4, <2>5, <2>6, <2>7 DEF Rel!WorkerStep
<1>2. CASE UNCHANGED Rel!vars
  BY <1>2 DEF Rel!vars, ReleaseInv, Rel!TypeOK, Clocked, Fresh, Rel!DiskBound, NewestKept,
              Rel!GcKeepsNewest
<1> QED BY <1>1, <1>2, CrashKeeps DEF Rel!Next

LEMMA ReleaseInvariance == ASSUME ReleaseBounds PROVE Rel!Spec => []ReleaseInv
<1>1. Rel!Init => ReleaseInv BY ReleaseInit
<1>2. ReleaseInv /\ [Rel!Next]_Rel!vars => ReleaseInv' BY ReleaseStep
<1> QED BY <1>1, <1>2, PTL DEF Rel!Spec

-----------------------------------------------------------------------------
(* A collection leaves at most Keep of the previews it listed, but for the *)
(* ones it has still to remove or could not, whatever other releases, copies*)
(* that fail and crashes do meanwhile.                                     *)
THEOREM DiskStaysBounded == ASSUME ReleaseBounds PROVE Rel!Spec => []Rel!DiskBound
<1>1. ReleaseInv => Rel!DiskBound BY DEF ReleaseInv
<1> QED BY <1>1, ReleaseInvariance, PTL

(* When a run is released once and its copy ends before a collection picks *)
(* its directory, collections never take one of the Keep newest previews,  *)
(* however stale their listings.                                           *)
THEOREM NewestStay == ASSUME ReleaseBounds, Calm PROVE Rel!Spec => []Rel!GcKeepsNewest
<1>1. ReleaseInv => Rel!GcKeepsNewest BY DEF ReleaseInv, NewestKept
<1> QED BY <1>1, ReleaseInvariance, PTL

-----------------------------------------------------------------------------
(***************************************************************************)
(* What the statements of the three Opens guarantee, for every set of rows *)
(* and whatever databases and interrupted starts came before.  The         *)
(* inductive invariant says that each statement this start has run is still*)
(* done (Done), and that a table whose key does not hold the project has   *)
(* only columns its rebuild copies (Left): the order of the statements is  *)
(* what makes the second true, and it is used only through the facts       *)
(* OrderOf... below.                                                       *)
(***************************************************************************)

SomeProject == Default \in Projects /\ Blank \notin Projects

Holds(s) ==
  /\ s.op = "create" => cols[s.t] # {}
  /\ s.op = "add" => s.c \in cols[s.t]
  /\ s.op = "stamp" => \A r \in tableRows[s.t] : r[2] # Blank
  /\ s.op = "rebuild" => s.t \in keyed

SchemaInv == Up!Types /\ Up!Left /\ \A s \in ran : Holds(s)

(* What Left says of rows, and of edges.                                   *)
RowsLeft ==
  \A t \in Up!Stamped :
    /\ "project_id" \notin cols[t] => \A r \in tableRows[t] : r[2] = Blank
    /\ cols[t] = {} => tableRows[t] = {}
    /\ t \in keyed => \A r \in tableRows[t] : r[2] # Blank
    /\ t \notin keyed => \A r, q \in tableRows[t] : r[1] = q[1] => r = q
DepsLeft ==
  \A d \in deps :
    \/ d.project = Blank /\ "stories" \notin keyed
                         /\ \E r \in tableRows["stories"] : r[1] = d.story
    \/ d.project # Blank /\ <<d.story, d.project>> \in tableRows["stories"]
ColsLeft ==
  /\ \A t \in Up!Tables : cols[t] # {} => "id" \in cols[t]
  /\ \A t \in Up!Rebuilt : t \notin keyed => cols[t] \subseteq Up!Copied(t)
  /\ keyed \subseteq Up!Rebuilt \union {"story_deps"}
  /\ "stories" \in keyed => "project_id" \in cols["story_deps"]
  /\ \A t \in keyed : t \in Up!Rebuilt => Up!Copied(t) \subseteq cols[t]

LEMMA LeftParts == Up!Left <=> ColsLeft /\ RowsLeft /\ DepsLeft
BY DEF Up!Left, ColsLeft, RowsLeft, DepsLeft

-----------------------------------------------------------------------------
(* The statements, and the order they are in.                              *)

LEMMA Names ==
  /\ \A t \in Up!Tables : Up!Create(t) \in Up!Statements
  /\ \A t \in Up!Stamped : Up!Stamp(t) \in Up!Statements
  /\ \A t \in Up!Rebuilt : Up!Rebuild(t) \in Up!Statements
  /\ \A t \in Up!Tables : \A c \in Up!Wanted(t) \ {"id"} : Up!Add(t, c) \in Up!Statements
<1>1. \A t \in Up!Tables : "id" \in Up!Wanted(t)
  BY DEF Up!Tables, Up!Wanted, Up!Stamped, Up!Kernel
<1>2. \A t \in Up!Stamped : t \in Up!Tables /\ "project_id" \in Up!Wanted(t)
  BY DEF Up!Tables, Up!Wanted, Up!Stamped, Up!Kernel, Up!EarlyStory
<1>3. \A t \in Up!Rebuilt : t \in Up!Tables
  BY DEF Up!Rebuilt, Up!Tables, Up!Stamped
<1>4. \A t \in Up!Tables : \A c \in Up!Wanted(t) : c \in UNION {Up!Wanted(u) : u \in Up!Tables}
  OBVIOUS
<1>5. \A t \in Up!Tables : Up!Create(t) \in Up!Statements
  BY <1>1, <1>4 DEF Up!Create, Up!Statements, Up!Statement
<1>6. \A t \in Up!Stamped : Up!Stamp(t) \in Up!Statements
  BY <1>2, <1>4 DEF Up!Stamp, Up!Statements, Up!Statement
<1>7. \A t \in Up!Rebuilt : Up!Rebuild(t) \in Up!Statements
  BY <1>1, <1>3, <1>4 DEF Up!Rebuild, Up!Statements, Up!Statement
<1>8. \A t \in Up!Tables : \A c \in Up!Wanted(t) \ {"id"} : Up!Add(t, c) \in Up!Statements
  BY <1>4 DEF Up!Add, Up!Statements, Up!Statement
<1> QED BY <1>5, <1>6, <1>7, <1>8

(* A statement of a lower rank has run before one that is ready.           *)
LEMMA EarlierRan ==
  ASSUME NEW s \in Up!Ready, NEW r \in Up!Statements,
         Up!Rank(r) \in Nat, Up!Rank(s) \in Nat, Up!Rank(r) < Up!Rank(s)
  PROVE  r \in ran
BY DEF Up!Ready

LEMMA OrderOfAdds ==
  ASSUME NEW t \in Up!Tables, NEW c \in Up!Wanted(t) \ {"id"}, Up!Add(t, c) \in Up!Ready
  PROVE  Up!Create(t) \in ran
<1>1. Up!Rank(Up!Create(t)) \in Nat /\ Up!Rank(Up!Add(t, c)) \in Nat
        /\ Up!Rank(Up!Create(t)) < Up!Rank(Up!Add(t, c))
  <2>1. CASE t \in Up!Kernel
    <3>1. Up!Rank(Up!Create(t)) = 1 BY <2>1 DEF Up!Rank, Up!Create, Up!Kernel
    <3>2. Up!Rank(Up!Add(t, c)) = 2 BY <2>1 DEF Up!Rank, Up!Add, Up!Kernel
    <3> QED BY <3>1, <3>2
  <2>2. CASE t \in {"stories", "sprints", "story_deps"}
    <3>1. Up!Rank(Up!Create(t)) = 4
      <4>1. t \notin Up!Kernel BY <2>2 DEF Up!Kernel
      <4> QED BY <2>2, <4>1 DEF Up!Rank, Up!Create
    <3>2. Up!Rank(Up!Add(t, c)) \in {5, 7, 8, 11}
      <4>1. t \notin Up!Kernel BY <2>2 DEF Up!Kernel
      <4>2. CASE t = "stories" BY <4>1, <4>2 DEF Up!Rank, Up!Add
      <4>3. CASE t = "sprints" BY <4>1, <4>3 DEF Up!Rank, Up!Add
      <4>4. CASE t = "story_deps" BY <4>1, <4>4 DEF Up!Rank, Up!Add
      <4> QED BY <2>2, <4>2, <4>3, <4>4
    <3> QED BY <3>1, <3>2
  <2>3. CASE t = "projects"
    <3>1. t \notin Up!Kernel BY <2>3 DEF Up!Kernel
    <3>2. Up!Rank(Up!Create(t)) = 12 BY <2>3, <3>1 DEF Up!Rank, Up!Create
    <3>3. Up!Rank(Up!Add(t, c)) = 13 BY <2>3, <3>1 DEF Up!Rank, Up!Add
    <3> QED BY <3>2, <3>3
  <2> QED BY <2>1, <2>2, <2>3 DEF Up!Tables, Up!Stamped
<1> QED BY <1>1, Names, EarlierRan

LEMMA OrderOfStamps ==
  ASSUME NEW t \in Up!Stamped, Up!Stamp(t) \in Up!Ready
  PROVE  Up!Add(t, "project_id") \in ran
<1>1. "project_id" \in Up!Wanted(t) \ {"id"} /\ t \in Up!Tables
  BY DEF Up!Wanted, Up!Stamped, Up!Kernel, Up!EarlyStory, Up!Tables
<1>2. Up!Rank(Up!Stamp(t)) \in Nat /\ Up!Rank(Up!Add(t, "project_id")) \in Nat
      /\ Up!Rank(Up!Add(t, "project_id")) < Up!Rank(Up!Stamp(t))
  <2>1. CASE t \in Up!Kernel
    BY <2>1 DEF Up!Rank, Up!Stamp, Up!Add, Up!Kernel
  <2>2. CASE t = "stories"
    BY <2>2 DEF Up!Rank, Up!Stamp, Up!Add, Up!Kernel, Up!EarlyStory
  <2>3. CASE t = "sprints"
    BY <2>3 DEF Up!Rank, Up!Stamp, Up!Add, Up!Kernel
  <2> QED BY <2>1, <2>2, <2>3 DEF Up!Stamped
<1>3. Up!Add(t, "project_id") \in Up!Statements
  BY <1>1, Names
<1> QED BY <1>2, <1>3, EarlierRan

LEMMA OrderOfLateColumns ==
  /\ \A c \in Up!Ceremony : Up!Add("sprints",
       c) \in Up!Ready => Up!Rebuild("sprints") \in ran
  /\ Up!Add("stories", "agent_lost") \in Up!Ready => Up!Rebuild("stories") \in ran
<1>1. /\ Up!Rank(Up!Rebuild("sprints")) = 10 /\ Up!Rank(Up!Rebuild("stories")) = 9
      /\ Up!Rank(Up!Add("stories", "agent_lost")) = 11
  BY DEF Up!Rank, Up!Rebuild, Up!Add, Up!Kernel, Up!EarlyStory, Up!LateStory
<1>2. \A c \in Up!Ceremony : Up!Rank(Up!Add("sprints", c)) = 11
  BY DEF Up!Rank, Up!Add, Up!Kernel, Up!EarlyStory, Up!LateStory, Up!Ceremony
<1>3. Up!Rebuild("sprints") \in Up!Statements /\ Up!Rebuild("stories") \in Up!Statements
  BY Names DEF Up!Rebuilt
<1> QED BY <1>1, <1>2, <1>3, EarlierRan

LEMMA OrderOfRebuilds ==
  ASSUME NEW t \in Up!Rebuilt, Up!Rebuild(t) \in Up!Ready
  PROVE  /\ Up!Stamp(t) \in ran
         /\ Up!Create(t) \in ran
         /\ \A c \in Up!Copied(t) \ {"id"} : Up!Add(t, c) \in ran
         /\ Up!Add("story_deps", "project_id") \in ran
<1>1. Up!Rank(Up!Rebuild(t)) \in 9..10
  BY DEF Up!Rank, Up!Rebuild, Up!Kernel, Up!Rebuilt
<1>2. Up!Rank(Up!Stamp(t)) = 6
  BY DEF Up!Rank, Up!Stamp, Up!Kernel, Up!Rebuilt
<1>0. t \notin Up!Kernel
  BY DEF Up!Kernel, Up!Rebuilt
<1>3. Up!Rank(Up!Create(t)) = 4
  BY <1>0 DEF Up!Rank, Up!Create, Up!Rebuilt
<1>4. \A c \in Up!Copied(t) \ {"id"} : Up!Rank(Up!Add(t, c)) \in {5, 7}
  <2>1. CASE t = "stories"
    <3> SUFFICES ASSUME NEW c \in Up!EarlyStory \union Up!LateStory
                 PROVE  Up!Rank(Up!Add(t, c)) \in {5, 7}
      BY <2>1 DEF Up!Copied
    <3> QED BY <1>0, <2>1 DEF Up!Rank, Up!Add
  <2>2. CASE t = "sprints"
    <3> SUFFICES Up!Rank(Up!Add(t, "project_id")) \in {5, 7}
      BY <2>2 DEF Up!Copied
    <3> QED BY <1>0, <2>2 DEF Up!Rank, Up!Add
  <2> QED BY <2>1, <2>2 DEF Up!Rebuilt
<1>5. Up!Rank(Up!Add("story_deps", "project_id")) = 8
  BY DEF Up!Rank, Up!Add, Up!Kernel
<1>6. /\ t \in Up!Stamped /\ t \in Up!Tables /\ "story_deps" \in Up!Tables
      /\ "project_id" \in Up!Wanted("story_deps")
      /\ Up!Copied(t) \subseteq Up!Wanted(t)
  BY DEF Up!Rebuilt, Up!Stamped, Up!Tables, Up!Wanted, Up!Kernel, Up!Copied
<1>7. /\ Up!Stamp(t) \in Up!Statements /\ Up!Create(t) \in Up!Statements
      /\ Up!Add("story_deps", "project_id") \in Up!Statements
      /\ \A c \in Up!Copied(t) \ {"id"} : Up!Add(t, c) \in Up!Statements
  BY <1>6, Names
<1>8. Up!Stamp(t) \in ran
  BY <1>1, <1>2, <1>7, EarlierRan
<1>9. Up!Create(t) \in ran
  BY <1>1, <1>3, <1>7, EarlierRan
<1>10. Up!Add("story_deps", "project_id") \in ran
  BY <1>1, <1>5, <1>7, EarlierRan
<1>11. ASSUME NEW c \in Up!Copied(t) \ {"id"} PROVE Up!Add(t, c) \in ran
  BY <1>1, <1>4, <1>7, EarlierRan
<1> QED BY <1>8, <1>9, <1>10, <1>11
-----------------------------------------------------------------------------
(* The invariant, action by action.                                        *)

LEMMA SchemaInit == Up!Init => SchemaInv
BY DEF Up!Init, SchemaInv

(* Columns and keys that only grow, with the rows untouched, keep what was *)
(* done.                                                                   *)
LEMMA DoneGrows ==
  ASSUME Up!Types, \A t \in Up!Tables : cols[t] \subseteq cols'[t],
         keyed \subseteq keyed',
         \A t \in Up!Stamped : \A r \in tableRows'[t] : r[2] = Blank => r \in tableRows[t],
         NEW s \in Up!Statements, Holds(s)
  PROVE  Holds(s)'
<1>1. s.t \in Up!Tables /\ (s.op = "stamp" => s.t \in Up!Stamped)
  BY DEF Up!Statements, Up!Statement, Up!Stamp, Up!Create, Up!Rebuild
<1>2. s.op = "create" => cols'[s.t] # {}
  BY <1>1 DEF Holds
<1>3. s.op = "add" => s.c \in cols'[s.t]
  BY <1>1 DEF Holds
<1>4. s.op = "stamp" => \A r \in tableRows'[s.t] : r[2] # Blank
  BY <1>1 DEF Holds
<1>5. s.op = "rebuild" => s.t \in keyed'
  BY DEF Holds
<1> QED BY <1>2, <1>3, <1>4, <1>5 DEF Holds

LEMMA SchemaSteps ==
  /\ \A t : Up!Create(t).op = "create" /\ Up!Create(t).t = t
  /\ \A t, c : Up!Add(t, c).op = "add" /\ Up!Add(t, c).t = t /\ Up!Add(t, c).c = c
  /\ \A t : Up!Stamp(t).op = "stamp" /\ Up!Stamp(t).t = t
  /\ \A t : Up!Rebuild(t).op = "rebuild" /\ Up!Rebuild(t).t = t
BY DEF Up!Create, Up!Add, Up!Stamp, Up!Rebuild

LEMMA TablesFacts ==
  /\ Up!Stamped \subseteq Up!Tables /\ Up!Rebuilt \subseteq Up!Stamped
  /\ "story_deps" \in Up!Tables /\ "stories" \in Up!Rebuilt /\ "sprints" \in Up!Rebuilt
  /\ "story_deps" \notin Up!Stamped
  /\ \A t \in Up!Tables : /\ "id" \in Up!Wanted(t) /\ "id" \in Up!SchemaColumns(t)
                       /\ Up!SchemaColumns(t) \subseteq Up!Wanted(t)
  /\ Up!SchemaColumns("stories") = Up!Copied("stories")
  /\ Up!Copied("sprints") \subseteq Up!SchemaColumns("sprints")
  /\ Up!Copied("story_deps") = Up!Wanted("story_deps")
  /\ \A t \in Up!Rebuilt : Up!Copied(t) \subseteq Up!Wanted(t) /\ "id" \in Up!Copied(t)
<1>1. /\ Up!Stamped \subseteq Up!Tables /\ Up!Rebuilt \subseteq Up!Stamped
      /\ "story_deps" \in Up!Tables /\ "stories" \in Up!Rebuilt /\ "sprints" \in Up!Rebuilt
      /\ "story_deps" \notin Up!Stamped
  BY DEF Up!Tables, Up!Stamped, Up!Rebuilt, Up!Kernel
<1>2. \A t \in Up!Tables : /\ "id" \in Up!Wanted(t) /\ "id" \in Up!SchemaColumns(t)
                        /\ Up!SchemaColumns(t) \subseteq Up!Wanted(t)
  BY DEF Up!Tables, Up!Stamped, Up!Kernel, Up!Wanted, Up!SchemaColumns
<1>3. Up!SchemaColumns("stories") = Up!Copied("stories")
  BY DEF Up!SchemaColumns, Up!Copied, Up!Wanted, Up!EarlyStory, Up!LateStory
<1>4. Up!Copied("sprints") \subseteq Up!SchemaColumns("sprints")
  BY DEF Up!SchemaColumns, Up!Copied, Up!Wanted
<1>5. Up!Copied("story_deps") = Up!Wanted("story_deps")
  BY DEF Up!Copied, Up!Wanted
<1>6. \A t \in Up!Rebuilt : Up!Copied(t) \subseteq Up!Wanted(t) /\ "id" \in Up!Copied(t)
  BY DEF Up!Rebuilt, Up!Copied, Up!Wanted
<1> QED BY <1>1, <1>2, <1>3, <1>4, <1>5, <1>6

LEMMA ReadyIsNew == Up!Ready \subseteq Up!Statements
BY DEF Up!Ready

LEMMA CreateKeeps ==
  ASSUME SchemaInv, NEW t \in Up!Tables, Up!DoCreate(t)
  PROVE  SchemaInv'
<1> USE DEF SchemaInv
<1>1. /\ Up!Create(t) \in Up!Statements /\ ran' = ran \union {Up!Create(t)}
      /\ tableRows' = tableRows /\ deps' = deps
  BY ReadyIsNew DEF Up!DoCreate, Up!Ran
<1>2. CASE cols[t] # {}
  <2>1. cols' = cols /\ keyed' = keyed
    BY <1>2 DEF Up!DoCreate
  <2>2. Up!Types'
    BY <1>1, <2>1 DEF Up!Types
  <2>3. Up!Left'
    BY <1>1, <2>1 DEF Up!Left, Up!StoriesOf
  <2>4. Holds(Up!Create(t))'
    BY <1>2, <2>1, SchemaSteps DEF Holds
  <2>5. \A s \in ran : Holds(s)'
    BY <1>1, <2>1 DEF Holds
  <2> QED BY <1>1, <2>2, <2>3, <2>4, <2>5
<1>3. CASE cols[t] = {}
  <2>1. /\ cols' = [cols EXCEPT ![t] = Up!SchemaColumns(t)]
        /\ keyed' = keyed \union ({t} \intersect Up!SchemaKeyed)
    BY <1>3 DEF Up!DoCreate
  <2>2. /\ cols'[t] = Up!SchemaColumns(t)
        /\ \A u \in Up!Tables : u # t => cols'[u] = cols[u]
        /\ \A u \in Up!Tables : cols[u] \subseteq cols'[u]
    BY <1>3, <2>1 DEF Up!Types
  <2>3. keyed' = IF t = "sprints" THEN keyed \union {"sprints"} ELSE keyed
    BY <2>1 DEF Up!SchemaKeyed
  <2>4. Up!Types'
    <3>1. \A u \in Up!Tables : cols'[u] \subseteq Up!Wanted(u)
      BY <2>2, TablesFacts DEF Up!Types
    <3>2. cols' \in [Up!Tables -> SUBSET UNION {Up!Wanted(u) : u \in Up!Tables}]
      BY <2>1, TablesFacts DEF Up!Types
    <3>3. keyed' \in SUBSET Up!Tables
      BY <2>1 DEF Up!Types
    <3>4. ran' \in SUBSET Up!Statements
      BY <1>1 DEF Up!Types
    <3> QED BY <1>1, <3>1, <3>2, <3>3, <3>4 DEF Up!Types
  <2>5. ColsLeft'
    <3>1. ColsLeft
      BY LeftParts
    <3>2. \A u \in Up!Tables : cols'[u] # {} => "id" \in cols'[u]
      BY <2>2, <3>1, TablesFacts DEF ColsLeft
    <3>3. \A u \in Up!Rebuilt : u \notin keyed' => cols'[u] \subseteq Up!Copied(u)
      BY <2>2, <2>3, <3>1, TablesFacts DEF ColsLeft, Up!Rebuilt
    <3>4. keyed' \subseteq Up!Rebuilt \union {"story_deps"}
      BY <2>3, <3>1, TablesFacts DEF ColsLeft
    <3>5. "stories" \in keyed' => "project_id" \in cols'["story_deps"]
      BY <2>2, <2>3, <3>1, TablesFacts DEF ColsLeft
    <3>6. \A u \in keyed' : u \in Up!Rebuilt => Up!Copied(u) \subseteq cols'[u]
      BY <2>2, <2>3, <3>1, TablesFacts DEF ColsLeft
    <3> QED BY <3>2, <3>3, <3>4, <3>5, <3>6 DEF ColsLeft
  <2>6. RowsLeft'
    <3>1. RowsLeft
      BY LeftParts
    <3>2. t \in Up!Stamped => tableRows[t] = {}
      BY <1>3, <3>1 DEF RowsLeft
    <3>3. \A u \in Up!Stamped : u # t => cols'[u] = cols[u]
            /\ (u \in keyed' <=> u \in keyed)
      BY <2>2, <2>3, TablesFacts
    <3> QED BY <1>1, <3>1, <3>2, <3>3 DEF RowsLeft
  <2>7. DepsLeft'
    BY <1>1, <2>3, LeftParts DEF DepsLeft
  <2>8. Holds(Up!Create(t))'
    BY <2>2, SchemaSteps, TablesFacts DEF Holds
  <2>9. \A s \in ran : Holds(s)'
    BY <1>1, <2>2, <2>3, DoneGrows DEF Up!Types
  <2>10. Up!Left'
    BY <2>5, <2>6, <2>7, LeftParts, PTL
  <2> QED BY <1>1, <2>4, <2>8, <2>9, <2>10
<1> QED BY <1>2, <1>3

LEMMA AddKeeps ==
  ASSUME SchemaInv, NEW t \in Up!Tables, NEW c \in Up!Wanted(t) \ {"id"}, Up!DoAdd(t, c)
  PROVE  SchemaInv'
<1> USE DEF SchemaInv
<1>1. /\ Up!Add(t, c) \in Up!Ready /\ Up!Add(t, c) \in Up!Statements
      /\ ran' = ran \union {Up!Add(t, c)}
      /\ keyed' = keyed /\ tableRows' = tableRows /\ deps' = deps
  BY ReadyIsNew DEF Up!DoAdd, Up!Ran
<1>0. ColsLeft /\ RowsLeft /\ DepsLeft
  BY LeftParts
<1>2. /\ \A u \in Up!Tables : u # t => cols'[u] = cols[u]
      /\ cols'[t] = cols[t] \union {c}
  <2>1. CASE t = "story_deps" /\ "stories" \in keyed
    <3>1. c = "project_id"
      BY <2>1 DEF Up!Wanted
    <3>2. "project_id" \in cols["story_deps"] /\ cols' = cols
      BY <1>0, <2>1 DEF ColsLeft, Up!DoAdd
    <3> QED BY <2>1, <3>1, <3>2
  <2>2. CASE ~(t = "story_deps" /\ "stories" \in keyed)
    BY <2>2 DEF Up!DoAdd, Up!Types
  <2> QED BY <2>1, <2>2
<1>3. cols[t] # {}
  BY <1>1, OrderOfAdds, SchemaSteps DEF Holds
<1>4. Up!Types'
  <2>1. cols' \in [Up!Tables -> SUBSET UNION {Up!Wanted(u) : u \in Up!Tables}]
    BY DEF Up!DoAdd, Up!Types
  <2>2. \A u \in Up!Tables : cols'[u] \subseteq Up!Wanted(u)
    BY <1>2 DEF Up!Types
  <2>3. ran' \in SUBSET Up!Statements
    BY <1>1 DEF Up!Types
  <2> QED BY <1>1, <2>1, <2>2, <2>3 DEF Up!Types
<1>5. ASSUME t \in Up!Rebuilt, t \notin keyed PROVE c \in Up!Copied(t)
  <2>1. Up!Rebuild(t) \notin ran
    BY <1>5, SchemaSteps DEF Holds
  <2>2. CASE t = "stories"
    BY <1>1, <2>1, <2>2, OrderOfLateColumns DEF Up!Wanted, Up!Copied
  <2>3. CASE t = "sprints"
    BY <1>1, <2>1, <2>3, OrderOfLateColumns DEF Up!Wanted, Up!Copied
  <2> QED BY <1>5, <2>2, <2>3 DEF Up!Rebuilt
<1>6. ColsLeft'
  <2>1. \A u \in Up!Tables : cols'[u] # {} => "id" \in cols'[u]
    BY <1>0, <1>2, <1>3 DEF ColsLeft
  <2>2. \A u \in Up!Rebuilt : u \notin keyed' => cols'[u] \subseteq Up!Copied(u)
    BY <1>0, <1>1, <1>2, <1>5, TablesFacts DEF ColsLeft
  <2>3. "stories" \in keyed' => "project_id" \in cols'["story_deps"]
    BY <1>0, <1>1, <1>2, TablesFacts DEF ColsLeft
  <2>4. \A u \in keyed' : u \in Up!Rebuilt => Up!Copied(u) \subseteq cols'[u]
    BY <1>0, <1>1, <1>2, TablesFacts DEF ColsLeft
  <2>5. keyed' \subseteq Up!Rebuilt \union {"story_deps"}
    BY <1>0, <1>1 DEF ColsLeft
  <2> QED BY <2>1, <2>2, <2>3, <2>4, <2>5 DEF ColsLeft
<1>7. RowsLeft'
  <2>1. \A u \in Up!Stamped : cols[u] \subseteq cols'[u]
    BY <1>2, TablesFacts
  <2>2. \A u \in Up!Stamped : cols'[u] = {} => cols[u] = {}
    BY <2>1
  <2> QED BY <1>0, <1>1, <2>1, <2>2 DEF RowsLeft
<1>8. DepsLeft'
  BY <1>0, <1>1 DEF DepsLeft
<1>9. Holds(Up!Add(t, c))'
  BY <1>2, SchemaSteps DEF Holds
<1>10. \A s \in ran : Holds(s)'
  BY <1>1, <1>2, DoneGrows DEF Up!Types
<1>11. Up!Left'
  BY <1>6, <1>7, <1>8, LeftParts, PTL
<1> QED BY <1>1, <1>4, <1>9, <1>10, <1>11

LEMMA StampKeeps ==
  ASSUME SomeProject, SchemaInv, NEW t \in Up!Stamped, Up!DoStamp(t)
  PROVE  SchemaInv'
<1> USE DEF SchemaInv
<1>0. ColsLeft /\ RowsLeft /\ DepsLeft
  BY LeftParts
<1>1. /\ Up!Stamp(t) \in Up!Statements /\ ran' = ran \union {Up!Stamp(t)}
      /\ cols' = cols /\ keyed' = keyed /\ deps' = deps
  BY ReadyIsNew DEF Up!DoStamp, Up!Ran
<1> DEFINE P(r) == IF r[2] = Blank THEN Default ELSE r[2]
<1>2. /\ \A u \in Up!Stamped : u # t => tableRows'[u] = tableRows[u]
      /\ tableRows'[t] = {<<r[1], P(r)>> : r \in tableRows[t]}
  BY DEF Up!DoStamp, Up!Types
<1>3. \A r \in tableRows[t] : /\ r = <<r[1], r[2]>> /\ r[1] \in Ids
                         /\ P(r) \in Projects /\ P(r) # Blank
                         /\ (r[2] # Blank => <<r[1], P(r)>> = r)
  BY DEF Up!Types, SomeProject
<1> HIDE DEF P
<1>4. \A q \in tableRows'[t] : \E r \in tableRows[t] : q = <<r[1], P(r)>> /\ q[1] = r[1]
        /\ q[2] = P(r)
  BY <1>2
<1>5. tableRows'[t] \subseteq Ids \X (Projects \union {Blank})
  BY <1>3, <1>4
<1>6. Up!Types'
  <2>1. tableRows' \in [Up!Stamped -> SUBSET (Ids \X (Projects \union {Blank}))]
    <3>1. tableRows' = [tableRows EXCEPT ![t] = tableRows'[t]]
      BY <1>2 DEF Up!DoStamp, Up!Types
    <3> QED BY <1>5, <3>1 DEF Up!Types
  <2> QED BY <1>1, <2>1 DEF Up!Types
<1>7. ColsLeft'
  BY <1>0, <1>1 DEF ColsLeft
<1>8. "project_id" \in cols[t] \/ tableRows[t] = {}
  <2>1. CASE t \in keyed
    <3>1. \A r \in tableRows[t] : r[2] # Blank
      BY <1>0, <2>1 DEF RowsLeft
    <3> QED BY <1>0, <3>1 DEF RowsLeft
  <2>2. CASE t \notin keyed
    <3>1. Up!Add(t, "project_id") \in ran
      BY <1>1, OrderOfStamps DEF Up!DoStamp
    <3> QED BY <3>1, SchemaSteps DEF Holds
  <2> QED BY <2>1, <2>2
<1>9. RowsLeft'
  <2>1. ASSUME NEW u \in Up!Stamped, u # t
        PROVE  /\ "project_id" \notin cols[u] => \A r \in tableRows[u] : r[2] = Blank
               /\ cols[u] = {} => tableRows[u] = {}
               /\ u \in keyed => \A r \in tableRows[u] : r[2] # Blank
               /\ u \notin keyed => \A r, q \in tableRows[u] : r[1] = q[1] => r = q
    BY <1>0 DEF RowsLeft
  <2>2. "project_id" \notin cols[t] => \A r \in tableRows'[t] : r[2] = Blank
    BY <1>2, <1>8
  <2>3. cols[t] = {} => tableRows'[t] = {}
    BY <1>0, <1>2 DEF RowsLeft
  <2>4. \A r \in tableRows'[t] : r[2] # Blank
    BY <1>3, <1>4
  <2>5. ASSUME t \notin keyed, NEW r \in tableRows'[t], NEW q \in tableRows'[t], r[1] = q[1]
        PROVE  r = q
    <3>1. PICK x \in tableRows[t] : r = <<x[1], P(x)>> /\ r[1] = x[1]
      BY <1>4
    <3>2. PICK y \in tableRows[t] : q = <<y[1], P(y)>> /\ q[1] = y[1]
      BY <1>4
    <3>3. x = y
      BY <1>0, <2>5, <3>1, <3>2 DEF RowsLeft
    <3> QED BY <3>1, <3>2, <3>3
  <2> QED BY <1>1, <1>2, <2>1, <2>2, <2>3, <2>4, <2>5 DEF RowsLeft
<1>10. DepsLeft'
  <2>1. \A r \in tableRows["stories"] : \E q \in tableRows'["stories"] :
          q[1] = r[1] /\ (r[2] # Blank => q = r)
    <3>1. CASE t = "stories"
      <4>1. ASSUME NEW r \in tableRows["stories"]
            PROVE  /\ <<r[1], P(r)>> \in tableRows'["stories"]
                   /\ <<r[1], P(r)>>[1] = r[1]
                   /\ (r[2] # Blank => <<r[1], P(r)>> = r)
        BY <1>2, <1>3, <3>1
      <4> QED BY <4>1
    <3>2. CASE t # "stories"
      BY <1>2, <3>2, TablesFacts
    <3> QED BY <3>1, <3>2
  <2>2. ASSUME NEW d \in deps, d.project = Blank
        PROVE  "stories" \notin keyed' /\ \E r \in tableRows'["stories"] : r[1] = d.story
    BY <1>0, <1>1, <2>1, <2>2 DEF DepsLeft
  <2>3. ASSUME NEW d \in deps, d.project # Blank
        PROVE  <<d.story, d.project>> \in tableRows'["stories"]
    <3>1. <<d.story, d.project>> \in tableRows["stories"]
      BY <1>0, <2>3 DEF DepsLeft
    <3>2. <<d.story, d.project>>[2] # Blank
      BY <2>3
    <3> QED BY <2>1, <3>1, <3>2
  <2> QED BY <1>1, <2>2, <2>3 DEF DepsLeft
<1>11. Holds(Up!Stamp(t))'
  <2>1. \A r \in tableRows'[t] : r[2] # Blank
    BY <1>3, <1>4
  <2> QED BY <2>1, SchemaSteps DEF Holds
<1>12. \A s \in ran : Holds(s)'
  <2>1. \A u \in Up!Stamped : \A r \in tableRows'[u] : r[2] = Blank => r \in tableRows[u]
    BY <1>2, <1>3, <1>4
  <2> QED BY <1>1, <2>1, DoneGrows DEF Up!Types
<1>13. Up!Left'
  BY <1>7, <1>9, <1>10, LeftParts, PTL
<1> QED BY <1>1, <1>6, <1>11, <1>12, <1>13

(* A rebuild copies exactly the columns that are there.                    *)
LEMMA RebuildCopiesAll ==
  ASSUME SchemaInv, NEW t \in Up!Rebuilt, t \notin keyed, Up!RebuildAccepted(t)
  PROVE  cols[t] = Up!Copied(t)
BY DEF SchemaInv, Up!Left, Up!RebuildAccepted

LEMMA RebuildStoriesKeeps ==
  ASSUME SomeProject, SchemaInv, Up!DoRebuildStories
  PROVE  SchemaInv' /\ cols' = cols
<1> USE DEF SchemaInv
<1>0. ColsLeft /\ RowsLeft /\ DepsLeft
  BY LeftParts
<1>1. /\ Up!Rebuild("stories") \in Up!Statements /\ Up!Rebuild("stories") \in Up!Ready
      /\ ran' = ran \union {Up!Rebuild("stories")} /\ tableRows' = tableRows
  BY ReadyIsNew DEF Up!DoRebuildStories, Up!Ran
<1>2. CASE "stories" \in keyed
  <2>1. cols' = cols /\ keyed' = keyed /\ deps' = deps
    BY <1>2 DEF Up!DoRebuildStories
  <2>2. Up!Types'
    BY <1>1, <2>1 DEF Up!Types
  <2>3. Up!Left'
    BY <1>1, <2>1 DEF Up!Left
  <2>4. Holds(Up!Rebuild("stories"))'
    BY <1>2, <2>1, SchemaSteps DEF Holds
  <2>5. \A s \in ran : Holds(s)'
    BY <1>1, <2>1 DEF Holds
  <2> QED BY <1>1, <2>1, <2>2, <2>3, <2>4, <2>5
<1>3. CASE "stories" \notin keyed
  <2>1. /\ Up!RebuildAccepted("stories")
        /\ cols' = [cols EXCEPT !["stories"] = Up!Copied("stories"),
                                !["story_deps"] = Up!Copied("story_deps")]
        /\ keyed' = keyed \union {"stories", "story_deps"}
        /\ deps' = {IF d.project = Blank
                    THEN [d EXCEPT !.project = Up!EdgeProject(d)] ELSE d : d \in deps}
    BY <1>3 DEF Up!DoRebuildStories
  <2>2. cols["stories"] = Up!Copied("stories")
    BY <1>3, <2>1, RebuildCopiesAll, TablesFacts
  <2>3. cols["story_deps"] = Up!Copied("story_deps")
    <3>1. "project_id" \in cols["story_deps"] /\ "id" \in cols["story_deps"]
      BY <1>0, <2>1, TablesFacts DEF Up!RebuildAccepted, ColsLeft
    <3>2. cols["story_deps"] \subseteq Up!Wanted("story_deps")
      BY TablesFacts DEF Up!Types
    <3> QED BY <3>1, <3>2 DEF Up!Wanted, Up!Copied
  <2>4. cols' = cols
    BY <2>1, <2>2, <2>3, TablesFacts DEF Up!Types
  <2>5. \A r \in tableRows["stories"] : r[2] # Blank
    BY <1>1, OrderOfRebuilds, TablesFacts, SchemaSteps DEF Holds
  <2>6. ASSUME NEW d \in deps, d.project = Blank
        PROVE  /\ <<d.story, Up!EdgeProject(d)>> \in tableRows["stories"]
               /\ Up!EdgeProject(d) \in Projects
    <3>1. Up!StoriesOf(d.story) # {}
      BY <2>1, <2>6 DEF Up!RebuildAccepted
    <3> DEFINE r == CHOOSE r \in Up!StoriesOf(d.story) : TRUE
    <3>2. r \in tableRows["stories"] /\ r[1] = d.story
      BY <3>1 DEF Up!StoriesOf
    <3>3. r \in Ids \X (Projects \union {Blank})
      BY <3>2, TablesFacts DEF Up!Types
    <3>4. r = <<r[1], r[2]>> /\ r[2] \in Projects \union {Blank}
      BY <3>3
    <3>5. Up!EdgeProject(d) = r[2]
      BY DEF Up!EdgeProject
    <3> HIDE DEF r
    <3> QED BY <2>5, <3>2, <3>4, <3>5
  <2>7. \A d \in deps : d = [story |-> d.story, dep |-> d.dep, project |-> d.project]
                        /\ d.story \in Ids /\ d.dep \in Ids
                        /\ d.project \in Projects \union {Blank}
    BY DEF Up!Types
  <2>8. \A e \in deps' : \/ e \in deps /\ e.project # Blank
                         \/ \E d \in deps :
                              /\ d.project = Blank
                              /\ e = [story |-> d.story, dep |-> d.dep,
                                      project |-> Up!EdgeProject(d)]
    BY <2>1, <2>7
  <2>9. \A e \in deps' :
           /\ e \in [story : Ids, dep : Ids, project : Projects \union {Blank}]
           /\ e.project # Blank
           /\ <<e.story, e.project>> \in tableRows["stories"]
    <3>1. ASSUME NEW e \in deps, e.project # Blank
          PROVE  /\ e \in [story : Ids, dep : Ids, project : Projects \union {Blank}]
                 /\ <<e.story, e.project>> \in tableRows["stories"]
      BY <1>0, <3>1 DEF Up!Types, DepsLeft
    <3>2. ASSUME NEW d \in deps, d.project = Blank,
                 NEW e, e = [story |-> d.story, dep |-> d.dep,
                 project |-> Up!EdgeProject(d)]
          PROVE  /\ e \in [story : Ids, dep : Ids, project : Projects \union {Blank}]
                 /\ e.project # Blank
                 /\ <<e.story, e.project>> \in tableRows["stories"]
      BY <2>6, <2>7, <3>2 DEF SomeProject
    <3> QED BY <2>8, <3>1, <3>2
  <2>10. Up!Types'
    <3>1. keyed' \in SUBSET Up!Tables
      BY <2>1, TablesFacts DEF Up!Types
    <3>2. ran' \in SUBSET Up!Statements
      BY <1>1 DEF Up!Types
    <3>3. deps' \in SUBSET [story : Ids, dep : Ids, project : Projects \union {Blank}]
      BY <2>9
    <3> QED BY <1>1, <2>4, <3>1, <3>2, <3>3 DEF Up!Types
  <2>11. ColsLeft'
    <3>1. \A u \in keyed' : u \in Up!Rebuilt => Up!Copied(u) \subseteq cols[u]
      BY <1>0, <2>1, <2>2, TablesFacts DEF ColsLeft, Up!Rebuilt
    <3>2. "project_id" \in cols["story_deps"]
      BY <2>3 DEF Up!Copied
    <3>3. \A u \in Up!Rebuilt : u \notin keyed' => cols[u] \subseteq Up!Copied(u)
      BY <1>0, <2>1 DEF ColsLeft
    <3>4. keyed' \subseteq Up!Rebuilt \union {"story_deps"}
      BY <1>0, <2>1, TablesFacts DEF ColsLeft
    <3>5. \A u \in Up!Tables : cols[u] # {} => "id" \in cols[u]
      BY <1>0 DEF ColsLeft
    <3> QED BY <2>4, <3>1, <3>2, <3>3, <3>4, <3>5 DEF ColsLeft
  <2>12. RowsLeft'
    <3>1. \A u \in Up!Stamped : u # "stories" => (u \in keyed' <=> u \in keyed)
      BY <2>1, TablesFacts
    <3> QED BY <1>0, <1>1, <2>1, <2>4, <2>5, <3>1 DEF RowsLeft
  <2>13. DepsLeft'
    BY <1>1, <2>9 DEF DepsLeft
  <2>14. Holds(Up!Rebuild("stories"))'
    BY <2>1, SchemaSteps DEF Holds
  <2>15. \A s \in ran : Holds(s)'
    BY <1>1, <2>1, <2>4, DoneGrows DEF Up!Types
  <2>16. Up!Left'
    BY <2>11, <2>12, <2>13, LeftParts, PTL
  <2> QED BY <1>1, <2>4, <2>10, <2>14, <2>15, <2>16
<1> QED BY <1>2, <1>3

LEMMA RebuildSprintsKeeps ==
  ASSUME SchemaInv, Up!DoRebuildSprints
  PROVE  SchemaInv' /\ cols' = cols
<1> USE DEF SchemaInv
<1>0. ColsLeft /\ RowsLeft /\ DepsLeft
  BY LeftParts
<1>1. /\ Up!Rebuild("sprints") \in Up!Statements /\ Up!Rebuild("sprints") \in Up!Ready
      /\ ran' = ran \union {Up!Rebuild("sprints")} /\ tableRows' = tableRows /\ deps' = deps
  BY ReadyIsNew DEF Up!DoRebuildSprints, Up!Ran
<1>2. cols' = cols /\ (keyed' = keyed \union {"sprints"})
  <2>1. CASE "sprints" \in keyed
    BY <2>1 DEF Up!DoRebuildSprints
  <2>2. CASE "sprints" \notin keyed
    <3>1. cols["sprints"] = Up!Copied("sprints")
      BY <2>2, RebuildCopiesAll, TablesFacts DEF Up!DoRebuildSprints
    <3> QED BY <2>2, <3>1, TablesFacts DEF Up!DoRebuildSprints, Up!Types
  <2> QED BY <2>1, <2>2
<1>3. "sprints" \notin keyed => cols["sprints"] = Up!Copied("sprints")
  BY RebuildCopiesAll, TablesFacts DEF Up!DoRebuildSprints
<1>4. \A r \in tableRows["sprints"] : r[2] # Blank
  BY <1>1, OrderOfRebuilds, TablesFacts, SchemaSteps DEF Holds
<1>5. Up!Types'
  BY <1>1, <1>2, TablesFacts DEF Up!Types
<1>6. ColsLeft'
  <2>1. \A u \in keyed' : u \in Up!Rebuilt => Up!Copied(u) \subseteq cols[u]
    BY <1>0, <1>2, <1>3 DEF ColsLeft
  <2>2. "stories" \in keyed' => "project_id" \in cols["story_deps"]
    BY <1>0, <1>2 DEF ColsLeft
  <2> QED BY <1>0, <1>2, <2>1, <2>2, TablesFacts DEF ColsLeft
<1>7. RowsLeft'
  <2>1. \A u \in Up!Stamped : u # "sprints" => (u \in keyed' <=> u \in keyed)
    BY <1>2
  <2> QED BY <1>0, <1>1, <1>2, <1>4, <2>1 DEF RowsLeft
<1>8. DepsLeft'
  BY <1>0, <1>1, <1>2 DEF DepsLeft
<1>9. Holds(Up!Rebuild("sprints"))'
  BY <1>2, SchemaSteps DEF Holds
<1>10. \A s \in ran : Holds(s)'
  BY <1>1, <1>2, DoneGrows DEF Up!Types
<1>11. Up!Left'
  BY <1>6, <1>7, <1>8, LeftParts, PTL
<1> QED BY <1>1, <1>2, <1>5, <1>9, <1>10, <1>11

LEMMA RestartKeeps ==
  ASSUME SchemaInv, Up!Restart
  PROVE  SchemaInv'
BY DEF SchemaInv, Up!Restart, Up!Types, Up!Left

(* A process that serves has run every statement.                          *)
LEMMA ServingMeansDone ==
  ASSUME SchemaInv, Up!Serving
  PROVE  /\ \A t \in Up!Tables : cols[t] = Up!Wanted(t)
         /\ Up!Rebuilt \subseteq keyed
         /\ Up!Stamps
         /\ Up!Edges
<1> USE DEF SchemaInv
<1>0. ColsLeft /\ RowsLeft /\ DepsLeft
  BY LeftParts
<1>1. \A t \in Up!Tables : cols[t] = Up!Wanted(t)
  <2>1. ASSUME NEW t \in Up!Tables PROVE "id" \in cols[t]
    BY <1>0, Names, SchemaSteps DEF Up!Serving, Holds, ColsLeft
  <2>2. ASSUME NEW t \in Up!Tables, NEW c \in Up!Wanted(t) \ {"id"} PROVE c \in cols[t]
    BY Names, SchemaSteps DEF Up!Serving, Holds
  <2>3. \A t \in Up!Tables : cols[t] \subseteq Up!Wanted(t)
    BY DEF Up!Types
  <2> QED BY <2>1, <2>2, <2>3
<1>2. Up!Rebuilt \subseteq keyed
  BY Names, SchemaSteps DEF Up!Serving, Holds
<1>3. Up!Stamps
  BY Names, SchemaSteps DEF Up!Serving, Holds, Up!Stamps
<1>4. Up!Edges
  BY <1>0, <1>2, TablesFacts DEF DepsLeft, Up!Edges
<1> QED BY <1>1, <1>2, <1>3, <1>4

LEMMA InsertKeeps ==
  ASSUME SomeProject, SchemaInv, NEW t \in Up!Stamped, NEW i \in Ids, NEW p \in Projects,
         Up!Insert(t, i, p)
  PROVE  /\ Up!Types' \/ deps' # deps
         /\ ColsLeft' /\ RowsLeft'
         /\ \A s \in ran' : Holds(s)'
         /\ \A u \in Up!Stamped : tableRows[u] \subseteq tableRows'[u]
         /\ <<i, p>> \in tableRows'[t]
         /\ tableRows' \in [Up!Stamped -> SUBSET (Ids \X (Projects \union {Blank}))]
<1> USE DEF SchemaInv
<1>0. ColsLeft /\ RowsLeft
  BY LeftParts
<1>1. /\ ran' = ran /\ cols' = cols /\ keyed' = keyed
      /\ \A u \in Up!Stamped : u # t => tableRows'[u] = tableRows[u]
      /\ tableRows'[t] = tableRows[t] \union {<<i, p>>}
      /\ tableRows' \in [Up!Stamped -> SUBSET (Ids \X (Projects \union {Blank}))]
  BY DEF Up!Insert, Up!Types
<1>2. /\ p # Blank /\ <<i, p>>[1] = i /\ <<i, p>>[2] = p
  BY DEF SomeProject
<1>3. cols[t] = Up!Wanted(t) /\ "project_id" \in Up!Wanted(t)
  BY ServingMeansDone, TablesFacts DEF Up!Insert, Up!Wanted, Up!Stamped, Up!Kernel,
                                       Up!EarlyStory
<1>4. Up!Types' \/ deps' # deps
  BY <1>1 DEF Up!Types
<1>5. ColsLeft'
  BY <1>0, <1>1 DEF ColsLeft
<1>6. RowsLeft'
  <2>1. \A u \in Up!Stamped : u # t =>
          /\ "project_id" \notin cols[u] => \A r \in tableRows[u] : r[2] = Blank
          /\ cols[u] = {} => tableRows[u] = {}
          /\ u \in keyed => \A r \in tableRows[u] : r[2] # Blank
          /\ u \notin keyed => \A r, q \in tableRows[u] : r[1] = q[1] => r = q
    BY <1>0 DEF RowsLeft
  <2>2. t \in keyed => \A r \in tableRows'[t] : r[2] # Blank
    BY <1>0, <1>1, <1>2 DEF RowsLeft
  <2>3. t \notin keyed => \A r, q \in tableRows'[t] : r[1] = q[1] => r = q
    BY <1>0, <1>1, <1>2 DEF RowsLeft, Up!Insert
  <2> QED BY <1>1, <1>3, <2>1, <2>2, <2>3 DEF RowsLeft
<1>7. \A s \in ran' : Holds(s)'
  <2>1. \A u \in Up!Stamped : \A r \in tableRows'[u] : r[2] = Blank => r \in tableRows[u]
    BY <1>1, <1>2
  <2> QED BY <1>1, <2>1, DoneGrows DEF Up!Types
<1> QED BY <1>1, <1>4, <1>5, <1>6, <1>7

LEMMA InsertRowKeeps ==
  ASSUME SomeProject, SchemaInv, NEW t \in Up!Stamped, NEW i \in Ids, NEW p \in Projects,
         Up!InsertRow(t, i, p)
  PROVE  SchemaInv'
<1>1. Up!Insert(t, i, p) /\ deps' = deps /\ t # "stories"
  BY DEF Up!InsertRow
<1>2. DepsLeft'
  BY <1>1, LeftParts, TablesFacts DEF DepsLeft, Up!Insert, SchemaInv, Up!Types
<1>3. Up!Types' /\ ColsLeft' /\ RowsLeft' /\ \A s \in ran' : Holds(s)'
  BY <1>1, InsertKeeps
<1>4. Up!Left'
  BY <1>2, <1>3, LeftParts, PTL
<1> QED BY <1>3, <1>4 DEF SchemaInv

LEMMA CreateStoryKeeps ==
  ASSUME SomeProject, SchemaInv, NEW i \in Ids, NEW p \in Projects, NEW D \in SUBSET Ids,
         Up!CreateStory(i, p, D)
  PROVE  SchemaInv'
<1>1. Up!Insert("stories", i, p)
      /\ deps' = deps \union {[story |-> i, dep |-> d, project |-> p] : d \in D}
  BY DEF Up!CreateStory
<1>2. /\ ColsLeft' /\ RowsLeft' /\ \A s \in ran' : Holds(s)'
      /\ tableRows["stories"] \subseteq tableRows'["stories"] /\ <<i, p>> \in tableRows'["stories"]
      /\ tableRows' \in [Up!Stamped -> SUBSET (Ids \X (Projects \union {Blank}))]
  BY <1>1, InsertKeeps, TablesFacts
<1>3. ran' = ran /\ cols' = cols /\ keyed' = keyed
  BY <1>1 DEF Up!Insert
<1>4. Up!Types'
  <2>1. deps' \in SUBSET [story : Ids, dep : Ids, project : Projects \union {Blank}]
    BY <1>1 DEF SchemaInv, Up!Types
  <2> QED BY <1>2, <1>3, <2>1 DEF SchemaInv, Up!Types
<1>5. DepsLeft'
  <2>1. ASSUME NEW d \in deps PROVE <<d.story, d.project>> \in tableRows["stories"]
                                    /\ d.project # Blank
    <3>1. "stories" \in keyed
      BY <1>1, ServingMeansDone, TablesFacts DEF Up!Insert
    <3> QED BY <3>1, LeftParts DEF SchemaInv, DepsLeft
  <2>2. \A e \in {[story |-> i, dep |-> d, project |-> p] : d \in D} :
          e.story = i /\ e.project = p /\ p # Blank
    BY DEF SomeProject
  <2> QED BY <1>1, <1>2, <2>1, <2>2 DEF DepsLeft
<1>6. Up!Left'
  BY <1>2, <1>5, LeftParts, PTL
<1> QED BY <1>2, <1>4, <1>6 DEF SchemaInv

(* A statement that runs is one of the statements, of a table of its kind. *)
LEMMA StepKinds ==
  ASSUME NEW s \in Up!Statements
  PROVE  /\ s.t \in Up!Tables
         /\ s.op = "add" => s.c \in Up!Wanted(s.t) \ {"id"}
         /\ s.op = "stamp" => s.t \in Up!Stamped
BY DEF Up!Statements, Up!Statement, Up!Create, Up!Stamp, Up!Rebuild

LEMMA SchemaStep ==
  ASSUME SomeProject, SchemaInv, [Up!Next]_Up!vars
  PROVE  SchemaInv'
<1>1. CASE \E s \in Up!Ready : Up!Step(s)
  <2>1. PICK s \in Up!Ready : Up!Step(s)
    BY <1>1
  <2>2. s \in Up!Statements
    BY ReadyIsNew
  <2>3. CASE s.op = "create" /\ Up!DoCreate(s.t)
    BY <2>2, <2>3, StepKinds, CreateKeeps
  <2>4. CASE s.op = "add" /\ Up!DoAdd(s.t, s.c)
    BY <2>2, <2>4, StepKinds, AddKeeps
  <2>5. CASE s.op = "stamp" /\ Up!DoStamp(s.t)
    BY <2>2, <2>5, StepKinds, StampKeeps
  <2>6. CASE Up!DoRebuildStories
    BY <2>6, RebuildStoriesKeeps
  <2>7. CASE Up!DoRebuildSprints
    BY <2>7, RebuildSprintsKeeps
  <2> QED BY <2>1, <2>3, <2>4, <2>5, <2>6, <2>7 DEF Up!Step
<1>2. CASE Up!Restart
  BY <1>2, RestartKeeps
<1>3. CASE \E t \in Up!Stamped, i \in Ids, p \in Projects : Up!InsertRow(t, i, p)
  BY <1>3, InsertRowKeeps
<1>4. CASE \E i \in Ids, p \in Projects, D \in SUBSET Ids : Up!CreateStory(i, p, D)
  BY <1>4, CreateStoryKeeps
<1>5. CASE UNCHANGED Up!vars
  BY <1>5 DEF Up!vars, SchemaInv, Up!Types, Up!Left, Holds
<1>6. (Up!Ready # {}
        /\ Up!Step(CHOOSE s \in Up!Ready : TRUE)) => \E s \in Up!Ready : Up!Step(s)
  <2>1. Up!Ready # {} => (CHOOSE s \in Up!Ready : TRUE) \in Up!Ready
    OBVIOUS
  <2> QED BY <2>1
<1> QED BY <1>1, <1>2, <1>3, <1>4, <1>5, <1>6 DEF Up!Next

LEMMA SchemaInvariant == ASSUME SomeProject PROVE Up!Spec => []SchemaInv
<1>1. Up!Init => SchemaInv
  BY SchemaInit
<1>2. SchemaInv /\ [Up!Next]_Up!vars => SchemaInv'
  BY SchemaStep
<1> QED BY <1>1, <1>2, PTL DEF Up!Spec

-----------------------------------------------------------------------------
(* Whatever the databases were and wherever earlier starts stopped, a      *)
(* process that serves has every column it uses, keys that hold the        *)
(* project, no row without one, and edges that name their story's project. *)
THEOREM UpgradeIsComplete == ASSUME SomeProject PROVE Up!Spec => []Up!OpenIsComplete
<1>1. SchemaInv => Up!OpenIsComplete
  BY ServingMeansDone DEF Up!OpenIsComplete
<1> QED BY <1>1, SchemaInvariant, PTL

(* Whatever state an interrupted start left, no statement of a later one is*)
(* refused: a rebuild finds every column it names and a story for every    *)
(* edge, and a backfill never makes a key that is already there.           *)
THEOREM UpgradeIsNeverRefused == ASSUME SomeProject PROVE Up!Spec => []Up!NeverRefused
<1>1. ASSUME SchemaInv, NEW s \in Up!Ready PROVE s.op = "stamp" => Up!StampAccepted(s.t)
  <2> SUFFICES ASSUME s.op = "stamp" PROVE Up!StampAccepted(s.t)
    OBVIOUS
  <2>1. s.t \in Up!Stamped
    BY ReadyIsNew, StepKinds
  <2> QED BY <1>1, <2>1 DEF SchemaInv, Up!Left, Up!StampAccepted
<1>2. ASSUME SchemaInv, NEW s \in Up!Ready, s.op = "rebuild", s.t \notin keyed
      PROVE  Up!RebuildAccepted(s.t)
  <2> USE DEF SchemaInv
  <2>1. s.t \in Up!Rebuilt /\ s = Up!Rebuild(s.t)
    BY <1>2, ReadyIsNew DEF Up!Statements, Up!Create, Up!Stamp
  <2>2. /\ Up!Create(s.t) \in ran
        /\ \A c \in Up!Copied(s.t) \ {"id"} : Up!Add(s.t, c) \in ran
        /\ Up!Add("story_deps", "project_id") \in ran
    BY <2>1, OrderOfRebuilds
  <2>3. cols[s.t] # {} /\ \A c \in Up!Copied(s.t) \ {"id"} : c \in cols[s.t]
    BY <1>2, <2>2, SchemaSteps DEF Holds
  <2>4. "project_id" \in cols["story_deps"]
    BY <1>2, <2>2, SchemaSteps DEF Holds
  <2>5. "id" \in cols[s.t]
    BY <1>2, <2>1, <2>3, TablesFacts DEF Up!Left
  <2>6. Up!Copied(s.t) \subseteq cols[s.t]
    BY <2>3, <2>5
  <2>7. \A d \in deps : d.project = Blank => Up!StoriesOf(d.story) # {}
    BY <1>2 DEF Up!Left, Up!StoriesOf
  <2> QED BY <2>4, <2>6, <2>7 DEF Up!RebuildAccepted
<1>3. SchemaInv => Up!NeverRefused
  BY <1>1, <1>2 DEF Up!NeverRefused
<1> QED BY <1>3, SchemaInvariant, PTL

(* The three ways to lose something.                                       *)
LosesColumn == \E t \in Up!Tables : ~(cols[t] \subseteq cols'[t])
LosesRow ==
  \E t \in Up!Stamped : \E r \in tableRows[t] :
    r \notin tableRows'[t] /\ (r[2] # Blank \/ \A p \in Projects : <<r[1], p>> \notin tableRows'[t])
LosesEdge ==
  \E d \in deps :
    d \notin deps' /\ (d.project # Blank
                       \/ \A p \in Projects : [d EXCEPT !.project = p] \notin deps')

LEMMA StampLosesNothing ==
  ASSUME SomeProject, SchemaInv, NEW t \in Up!Stamped, Up!DoStamp(t)
  PROVE  ~LosesColumn /\ ~LosesRow /\ ~LosesEdge
<1>1. cols' = cols /\ deps' = deps
  BY DEF Up!DoStamp
<1> DEFINE P(r) == IF r[2] = Blank THEN Default ELSE r[2]
<1>2. /\ \A u \in Up!Stamped : u # t => tableRows'[u] = tableRows[u]
      /\ tableRows'[t] = {<<r[1], P(r)>> : r \in tableRows[t]}
  BY DEF Up!DoStamp, SchemaInv, Up!Types
<1>3. \A r \in tableRows[t] : /\ r = <<r[1], r[2]>>
                         /\ (r[2] # Blank => <<r[1], P(r)>> = r)
                         /\ (r[2] = Blank => P(r) = Default)
  BY DEF SchemaInv, Up!Types
<1> HIDE DEF P
<1>4. ASSUME NEW r \in tableRows[t], r \notin tableRows'[t]
      PROVE  r[2] = Blank /\ <<r[1], Default>> \in tableRows'[t]
  BY <1>2, <1>3, <1>4
<1>5. ~LosesRow
  BY <1>2, <1>4 DEF LosesRow, SomeProject
<1>6. ~LosesColumn /\ ~LosesEdge
  BY <1>1 DEF LosesColumn, LosesEdge
<1> QED BY <1>5, <1>6

LEMMA RebuildStoriesLosesNothing ==
  ASSUME SomeProject, SchemaInv, Up!DoRebuildStories
  PROVE  ~LosesColumn /\ ~LosesRow /\ ~LosesEdge
<1>1. cols' = cols /\ tableRows' = tableRows
  BY RebuildStoriesKeeps DEF Up!DoRebuildStories
<1>2. ~LosesColumn /\ ~LosesRow
  BY <1>1 DEF LosesColumn, LosesRow
<1>3. ASSUME NEW d \in deps
      PROVE  \/ d \in deps'
             \/ d.project = Blank /\ \E p \in Projects : [d EXCEPT !.project = p] \in deps'
  <2>1. CASE "stories" \in keyed
    BY <2>1 DEF Up!DoRebuildStories
  <2>2. CASE "stories" \notin keyed /\ d.project # Blank
    BY <2>2 DEF Up!DoRebuildStories
  <2>3. CASE "stories" \notin keyed /\ d.project = Blank
    <3>1. [d EXCEPT !.project = Up!EdgeProject(d)] \in deps'
      BY <2>3 DEF Up!DoRebuildStories
    <3>2. deps' \in SUBSET [story : Ids, dep : Ids, project : Projects \union {Blank}]
      BY RebuildStoriesKeeps DEF SchemaInv, Up!Types
    <3>3. d \in [story : Ids, dep : Ids, project : Projects \union {Blank}]
      BY DEF SchemaInv, Up!Types
    <3>4. [d EXCEPT !.project = Up!EdgeProject(d)].project = Up!EdgeProject(d)
      BY <3>3
    <3>5. Up!EdgeProject(d) \in Projects \union {Blank}
      BY <3>1, <3>2, <3>4
    <3>6. Up!EdgeProject(d) # Blank
      <4>1. /\ Up!Rebuild("stories") \in Up!Ready /\ Up!RebuildAccepted("stories")
        BY <2>3 DEF Up!DoRebuildStories
      <4>2. \A r \in tableRows["stories"] : r[2] # Blank
        BY <4>1, OrderOfRebuilds, TablesFacts, SchemaSteps DEF SchemaInv, Holds
      <4>3. Up!StoriesOf(d.story) # {}
        BY <2>3, <4>1 DEF Up!RebuildAccepted
      <4>4. (CHOOSE r \in Up!StoriesOf(d.story) : TRUE) \in tableRows["stories"]
        BY <4>3 DEF Up!StoriesOf
      <4> QED BY <4>2, <4>4 DEF Up!EdgeProject
    <3> QED BY <2>3, <3>1, <3>5, <3>6
  <2> QED BY <2>1, <2>2, <2>3
<1>4. ~LosesEdge
  BY <1>3 DEF LosesEdge
<1> QED BY <1>2, <1>4

LEMMA StepLosesNothing ==
  ASSUME SomeProject, SchemaInv, Up!Next
  PROVE  ~Up!Loses
<1>1. Up!Loses => LosesColumn \/ LosesRow \/ LosesEdge
  BY DEF Up!Loses, LosesColumn, LosesRow, LosesEdge
<1>2. ASSUME NEW s \in Up!Ready, Up!Step(s)
      PROVE  ~LosesColumn /\ ~LosesRow /\ ~LosesEdge
  <2>1. s \in Up!Statements
    BY ReadyIsNew
  <2>2. CASE s.op = "create" /\ Up!DoCreate(s.t)
    <3>1. tableRows' = tableRows /\ deps' = deps
      BY <2>2 DEF Up!DoCreate
    <3>2. \A t \in Up!Tables : cols[t] \subseteq cols'[t]
      BY <2>2 DEF Up!DoCreate, SchemaInv, Up!Types
    <3> QED BY <3>1, <3>2 DEF LosesColumn, LosesRow, LosesEdge
  <2>3. CASE s.op = "add" /\ Up!DoAdd(s.t, s.c)
    <3>1. tableRows' = tableRows /\ deps' = deps
      BY <2>3 DEF Up!DoAdd
    <3>2. \A t \in Up!Tables : cols[t] \subseteq cols'[t]
      BY <2>3 DEF Up!DoAdd, SchemaInv, Up!Types
    <3> QED BY <3>1, <3>2 DEF LosesColumn, LosesRow, LosesEdge
  <2>4. CASE s.op = "stamp" /\ Up!DoStamp(s.t)
    BY <2>1, <2>4, StepKinds, StampLosesNothing
  <2>5. CASE Up!DoRebuildStories
    BY <2>5, RebuildStoriesLosesNothing
  <2>6. CASE Up!DoRebuildSprints
    BY <2>6, RebuildSprintsKeeps DEF Up!DoRebuildSprints, LosesColumn, LosesRow,
                                     LosesEdge
  <2> QED BY <1>2, <2>2, <2>3, <2>4, <2>5, <2>6 DEF Up!Step
<1>3. CASE Up!Ready # {} /\ Up!Step(CHOOSE s \in Up!Ready : TRUE)
  <2>1. (CHOOSE s \in Up!Ready : TRUE) \in Up!Ready
    BY <1>3
  <2> QED BY <1>1, <1>2, <1>3, <2>1
<1>4. CASE Up!Restart
  BY <1>1, <1>4 DEF Up!Restart, LosesColumn, LosesRow, LosesEdge
<1>5. ASSUME NEW t \in Up!Stamped, NEW i \in Ids, NEW p \in Projects, Up!Insert(t, i, p)
      PROVE  ~LosesColumn /\ ~LosesRow
  <2>1. cols' = cols /\ \A u \in Up!Stamped : tableRows[u] \subseteq tableRows'[u]
    BY <1>5 DEF Up!Insert, SchemaInv, Up!Types
  <2> QED BY <2>1 DEF LosesColumn, LosesRow
<1>6. CASE \E t \in Up!Stamped, i \in Ids, p \in Projects : Up!InsertRow(t, i, p)
  BY <1>1, <1>5, <1>6 DEF Up!InsertRow, LosesEdge
<1>7. CASE \E i \in Ids, p \in Projects, D \in SUBSET Ids : Up!CreateStory(i, p, D)
  <2>1. ~LosesEdge
    BY <1>7 DEF Up!CreateStory, LosesEdge
  <2>2. "stories" \in Up!Stamped
    BY TablesFacts
  <2> QED BY <1>1, <1>5, <1>7, <2>1, <2>2 DEF Up!CreateStory
<1> QED BY <1>3, <1>4, <1>6, <1>7 DEF Up!Next

(* No statement of an upgrade, nor anything a process does once it serves, *)
(* loses a column, a row or an edge, or moves one to another project: the  *)
(* columns added after a rebuild are never among those it fails to copy.   *)
THEOREM UpgradeLosesNothing == ASSUME SomeProject PROVE Up!Spec => Up!NothingIsLost
<1>1. SchemaInv /\ [Up!Next]_Up!vars => [~Up!Loses]_Up!vars
  BY StepLosesNothing
<1> QED BY <1>1, SchemaInvariant, PTL DEF Up!NothingIsLost, Up!Spec
=============================================================================
