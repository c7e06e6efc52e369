------------------------------ MODULE DockLink ------------------------------
(***************************************************************************)
(* The session of a HUD view with the bus (surface/dock.go, host.go,       *)
(* internal/viewtransport/connection.go): dials with a generation, the     *)
(* goroutine that reads a connection into a bounded channel, the chain of  *)
(* commands that waits on it, the retries, and the worker that commits an  *)
(* action to the journal before it is sent. Commands end in any order;     *)
(* once the program has quit, their messages are not handled any more.     *)
(***************************************************************************)
EXTENDS Integers, Sequences, FiniteSets, SequencesExt

CONSTANTS
  ChCap,      \* messages the channel of a connection holds
  QueueLen,   \* actions the delivery worker holds
  MaxGens, MaxMsgs, MaxActs, MaxSizes, MaxTrouble   \* bounds

Gens == 1..MaxGens
VARIABLES
  width, gen, bus, conn,   \* model: columns, live generation, busState, busConn (0: none)
  client,     \* the client of each dial
  waits,      \* waitBus commands that run, per generation
  inbox,      \* messages on their way to Update
  retries,    \* retry timers that run
  seen,       \* the last event handled on the connection; the first names the view
  queue,      \* deliveryWorker.queue
  committed,  \* operations in the journal of the view
  wire,       \* history: what the writer of each client was given
  open,       \* the program runs; then its session is closed
  working,    \* the delivery worker runs
  acts, sizes, trouble
vars == <<width, gen, bus, conn, client, waits, inbox, retries, seen, queue, committed, wire, open, working, acts, sizes, trouble>>
ui == <<width, gen, bus, conn, retries, seen>>

Msg(kind, g, k) == [kind |-> kind, gen |-> g, k |-> k]
Init == /\ width = 0 /\ gen = 0 /\ bus = "absent" /\ conn = 0
        /\ client = [g \in Gens |-> [st |-> "none", ch |-> <<>>, reads |-> FALSE, sent |-> 0]]
        /\ waits = [g \in Gens |-> 0] /\ inbox = {} /\ retries = 0 /\ seen = 0
        /\ queue = <<>> /\ committed = {} /\ wire = [g \in Gens |-> <<>>] /\ open = TRUE /\ working = TRUE
        /\ acts = 0 /\ sizes = 0 /\ trouble = 0

Trouble == trouble < MaxTrouble /\ trouble' = trouble + 1
\* busClient.Close: once
Closed(cs, g) == IF g # 0 /\ cs[g].st = "open" THEN [cs EXCEPT ![g].st = "shut"] ELSE cs
\* Writer.Send of an action, by the worker: refused by a client that is closed
\* or whose queue is full, which closes it. What else a view sends (hello,
\* grid, visibility, ping) leaves no trace here.
Sent(g, m) == \/ /\ client[g].st = "open" /\ wire' = [wire EXCEPT ![g] = Append(@, m)]
                 /\ UNCHANGED <<client, trouble>>
              \/ client[g].st = "open" /\ Trouble /\ client' = Closed(client, g) /\ UNCHANGED wire
              \/ client[g].st # "open" /\ UNCHANGED <<client, wire, trouble>>

---------------------------------------------------------------------------
\* busSession.connect, as a command
Dial == /\ gen < MaxGens /\ gen' = gen + 1
        /\ client' = [client EXCEPT ![gen + 1].st = "dialing"]
DialEnds(g) ==
  /\ client[g].st = "dialing"
  /\ \/ /\ client' = [client EXCEPT ![g].st = IF open THEN "open" ELSE "shut", ![g].reads = TRUE]
        /\ inbox' = inbox \cup {Msg("connected", g, 0)} /\ UNCHANGED trouble
     \/ /\ IF open THEN Trouble ELSE UNCHANGED trouble
        /\ client' = [client EXCEPT ![g].st = "shut"]
        /\ inbox' = inbox \cup {Msg("gone", g, 0)}
  /\ UNCHANGED <<ui, waits, queue, committed, wire, open, working, acts, sizes>>

\* busClient.read: into the channel as long as it has room; what was decoded
\* when the client was closed may still get in
Read(g) == /\ client[g].reads
           /\ client[g].sent < MaxMsgs /\ Len(client[g].ch) < ChCap
           /\ client' = [client EXCEPT ![g].sent = @ + 1, ![g].ch = Append(@, client[g].sent + 1)]
           /\ UNCHANGED <<ui, waits, inbox, queue, committed, wire, open, working, acts, sizes, trouble>>
\* ... until the connection ends or is closed, which closes the channel too
ReadEnds(g) == /\ client[g].reads
               /\ IF client[g].st = "open" THEN Trouble ELSE UNCHANGED trouble
               /\ client' = [client EXCEPT ![g].reads = FALSE, ![g].st = "shut"]
               /\ UNCHANGED <<ui, waits, inbox, queue, committed, wire, open, working, acts, sizes>>

\* waitBus
WaitBus(g) ==
  /\ waits[g] > 0 /\ waits' = [waits EXCEPT ![g] = @ - 1]
  /\ \/ /\ client[g].ch # <<>>
        /\ inbox' = inbox \cup {Msg("event", g, Head(client[g].ch))}
        /\ client' = [client EXCEPT ![g].ch = Tail(@)]
     \/ /\ client[g].ch = <<>> /\ ~client[g].reads
        /\ inbox' = inbox \cup {Msg("gone", g, 0)} /\ UNCHANGED client
  /\ UNCHANGED <<ui, queue, committed, wire, open, working, acts, sizes, trouble>>

---------------------------------------------------------------------------
\* Update: a size; the first one dials
Resize(w) ==
  /\ open /\ sizes < MaxSizes /\ sizes' = sizes + 1 /\ width' = w
  /\ w # width \/ w = 0  \* the same size again changes nothing here
  /\ IF width = 0 THEN Dial ELSE UNCHANGED <<gen, client>>
  /\ UNCHANGED <<bus, conn, waits, inbox, retries, seen, queue, committed, wire, open, working, acts, trouble>>

Take(m) == open /\ m \in inbox /\ inbox' = inbox \ {m}
Connected(g) ==
  /\ Take(Msg("connected", g, 0))
  /\ IF g # gen THEN client' = Closed(client, g) /\ UNCHANGED <<ui, waits>>
     ELSE /\ bus' = "connected" /\ conn' = g /\ seen' = 0
          /\ client' = Closed(client, conn)
          /\ waits' = [waits EXCEPT ![g] = @ + 1]
          /\ UNCHANGED <<width, gen, retries>>
  /\ UNCHANGED <<queue, committed, wire, open, working, acts, sizes, trouble>>

Disconnected(g) ==
  /\ Take(Msg("gone", g, 0))
  /\ IF g # gen THEN UNCHANGED <<ui, client>>
     ELSE /\ bus' = "absent" /\ conn' = 0 /\ client' = Closed(client, conn) /\ retries' = retries + 1
          /\ UNCHANGED <<width, gen, seen>>
  /\ UNCHANGED <<waits, queue, committed, wire, open, working, acts, sizes, trouble>>
RetryBus == /\ open /\ retries > 0 /\ retries' = retries - 1
            /\ IF bus = "absent" /\ width > 0 THEN Dial ELSE UNCHANGED <<gen, client>>
            /\ UNCHANGED <<width, bus, conn, waits, inbox, seen, queue, committed, wire, open, working, acts, sizes, trouble>>
\* An event of a live chain is handled and the chain goes on.
FaultStale(g) == FALSE
Stale(g) == g # gen
BusEvent(g, k) ==
  /\ Take(Msg("event", g, k))
  /\ IF Stale(g) THEN UNCHANGED <<ui, waits>>
     ELSE /\ seen' = k
          /\ waits' = [waits EXCEPT ![g] = @ + 1]
          /\ UNCHANGED <<width, gen, bus, conn, retries>>
  /\ UNCHANGED <<client, queue, committed, wire, open, working, acts, sizes, trouble>>

---------------------------------------------------------------------------
\* A tap on an action: busSession.Send and deliveryWorker.submit
SendRowAct == /\ open /\ bus = "connected" /\ conn # 0 /\ acts < MaxActs /\ acts' = acts + 1
              /\ queue' = IF Len(queue) < QueueLen THEN Append(queue, [op |-> acts + 1, gen |-> conn]) ELSE queue
              /\ UNCHANGED <<ui, client, waits, inbox, committed, wire, open, working, sizes, trouble>>
\* deliver: the row is committed, then the action is sent; a commit that
\* reports an error may be there all the same.
Commit(op) == committed' = committed \cup {op}
Deliver == /\ working /\ queue # <<>> /\ queue' = Tail(queue)
           /\ LET i == Head(queue) IN
              \/ Commit(i.op) /\ Sent(i.gen, i.op)
              \/ /\ Trouble /\ (Commit(i.op) \/ UNCHANGED committed)
                 /\ client' = Closed(client, i.gen) /\ UNCHANGED wire
           /\ UNCHANGED <<ui, waits, inbox, open, working, acts, sizes>>
\* busSession.close: dials are cancelled and clients closed; when the dials
\* and the readers are through, the worker is stopped.
CloseSession == /\ open /\ open' = FALSE
                /\ client' = [g \in Gens |-> Closed(client, g)[g]]
                /\ UNCHANGED <<ui, waits, inbox, queue, committed, wire, working, acts, sizes, trouble>>
StopDelivery == /\ ~open /\ working /\ working' = FALSE
                /\ \A g \in Gens : client[g].st # "dialing" /\ ~client[g].reads
                /\ UNCHANGED <<ui, client, waits, inbox, queue, committed, wire, open, acts, sizes, trouble>>

Next == \/ \E g \in Gens : \/ DialEnds(g) \/ Read(g) \/ ReadEnds(g) \/ WaitBus(g)
                           \/ Connected(g) \/ Disconnected(g) \/ (\E k \in 1..MaxMsgs : BusEvent(g, k))
        \/ \E w \in 0..1 : Resize(w)
        \/ RetryBus \/ SendRowAct \/ Deliver \/ CloseSession \/ StopDelivery

Spec == Init /\ [][Next]_vars

---------------------------------------------------------------------------
TypeOK == /\ client \in [Gens -> [st : {"none", "dialing", "open", "shut"}, ch : Seq(1..MaxMsgs), reads : BOOLEAN, sent : 0..MaxMsgs]]
          /\ conn \in 0..gen /\ (bus = "connected") = (conn # 0) /\ Len(queue) <= QueueLen

Coming(g) == {m \in inbox : m.gen = g}
\* A connection nobody will close is not left open: while the program runs an
\* open client is the one in use, or the message that carries it is on its way,
\* and none outlives the program, although a dial may end after it (Update,
\* busSession).
NoLeakedClient == \A g \in Gens : client[g].st = "open" => open /\ (g = conn \/ Msg("connected", g, 0) \in inbox)

\* The view is never left without a way to the bus once it has a size: it
\* reads its connection by one chain of commands, or a dial, its answer or a
\* retry is under way, also over sizes of zero and dials that overtake each
\* other (busGen, retryBus, waitBus).
NeverStranded ==
  /\ open /\ width > 0 =>
       \/ client[gen].st = "dialing" \/ Coming(gen) # {} \/ waits[gen] = 1
       \/ bus = "absent" /\ retries > 0
  /\ \A g \in Gens : waits[g] + Cardinality({m \in inbox : m.gen = g /\ m.kind # "connected"}) <= 1

\* An action is on the wire only after it is in the journal, once, and in the
\* order of the taps (deliveryWorker).
CommittedFirst == \A g \in Gens :
  /\ ToSet(wire[g]) \subseteq committed
  /\ \A i, j \in DOMAIN wire[g] : i < j => wire[g][i] < wire[g][j]

\* The events of a connection are handled in the order of the bus, without a
\* gap, and none of a connection that was replaced (waitBus, busGen).
NoGap == [][seen' # seen /\ conn' = conn => seen' = seen + 1 /\ conn = gen]_vars
=============================================================================
