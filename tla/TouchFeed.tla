---------------------------- MODULE TouchFeed ----------------------------
(* A socket of touchd and its readers: the claim of the path and the        *)
(* broadcaster (broadcast.go), the keyboard events a module publishes on it *)
(* (moonlander.go) and the reader of the bus, which forgets held keys when  *)
(* the connection ends (keyfeed.go).                                        *)
EXTENDS Naturals, Sequences, FiniteSets, SequencesExt

CONSTANTS
  Daemons,     \* processes that may claim the socket
  Clients,     \* connections, in the order they are made
  Keys,        \* keys of the board
  QueueLen,    \* clientQueueLen
  MaxClients,  \* maxBroadcastClients
  MaxLines, MaxTrouble  \* bounds

None == "none"
VARIABLES
  lock,      \* the owner of the lock file
  socket,    \* "none", "stale", "foreign" (a live daemon that takes no lock), or the daemon that listens
  backlog,   \* a live socket whose backlog is full refuses a dial
  claim,     \* how far a daemon is: "out", "locked", "proven", "serving", "refused"
  down,      \* keys that are down on the board
  board,     \* the board is connected
  lines,     \* history: every line published, in order
  retained,  \* the newest retained line, its index in lines, or 0
  conn,      \* connections: "new", "open", "cut" (closed by us), "gone" (peer), "refused"
  queue,     \* lines a client has queued
  got,       \* history: what a client read
  from,      \* history: how many lines there were when it was accepted, and the retained one
  held,      \* what the reader believes is held
  trouble
vars == <<lock, socket, backlog, claim, down, board, lines, retained, conn, queue, got, from, held, trouble>>

Init == /\ lock = None /\ socket \in {"none", "stale", "foreign"} /\ backlog = FALSE
        /\ claim = [d \in Daemons |-> "out"]
        /\ down = {} /\ board = TRUE /\ lines = <<>> /\ retained = 0
        /\ conn = [c \in Clients |-> "new"] /\ queue = [c \in Clients |-> <<>>]
        /\ got = [c \in Clients |-> <<>>] /\ from = [c \in Clients |-> [after |-> 0, retained |-> 0]]
        /\ held = [c \in Clients |-> {}] /\ trouble = 0

Unlucky == trouble < MaxTrouble /\ trouble' = trouble + 1
claims == <<lock, socket, backlog, claim>>
feed == <<down, board, lines, retained, conn, queue, got, from, held>>

---------------------------------------------------------------------------
\* listenBroadcaster: the lock, then the dial, then the proof that nobody
\* holds a socket that refuses, then the listen.
Lock(d) == /\ claim[d] = "out"
           /\ IF lock = None THEN lock' = d /\ claim' = [claim EXCEPT ![d] = "locked"]
              ELSE claim' = [claim EXCEPT ![d] = "refused"] /\ UNCHANGED lock
           /\ UNCHANGED <<socket, backlog, feed, trouble>>
GiveUp(d) == /\ lock' = None /\ claim' = [claim EXCEPT ![d] = "refused"]
             /\ UNCHANGED socket
\* lsof answers for the holder of a live socket also when its backlog is full
FaultHolderAbsent == backlog \/ socket = "stale"
HolderAbsent == socket = "stale"
Probe(d) == /\ claim[d] = "locked"
            /\ CASE socket = "none" -> claim' = [claim EXCEPT ![d] = "proven"] /\ UNCHANGED <<lock, socket>>
                 [] socket = "foreign" /\ ~backlog -> GiveUp(d)
                 [] OTHER -> IF HolderAbsent
                             THEN claim' = [claim EXCEPT ![d] = "proven"] /\ socket' = "none" /\ UNCHANGED lock
                             ELSE GiveUp(d)
            /\ UNCHANGED <<backlog, feed, trouble>>
Listen(d) == /\ claim[d] = "proven"
             /\ IF socket = "none" THEN socket' = d /\ claim' = [claim EXCEPT ![d] = "serving"] /\ UNCHANGED lock
                ELSE GiveUp(d)
             /\ UNCHANGED <<backlog, feed, trouble>>
\* bindBroadcaster tries again
Retry(d) == /\ claim[d] = "refused" /\ Unlucky
            /\ claim' = [claim EXCEPT ![d] = "out"]
            /\ UNCHANGED <<lock, socket, backlog, feed>>
\* The daemon dies: the lock goes with it, the path stays.
Die(d) == /\ claim[d] = "serving" /\ Unlucky
          /\ claim' = [claim EXCEPT ![d] = "out"] /\ lock' = None /\ socket' = "stale"
          /\ conn' = [c \in Clients |-> IF conn[c] = "open" THEN "cut" ELSE conn[c]]
          /\ queue' = [c \in Clients |-> <<>>]
          /\ lines' = <<>> /\ retained' = 0 /\ from' = [c \in Clients |-> [after |-> 0, retained |-> 0]]
          /\ got' = [c \in Clients |-> <<>>]
          /\ held' = held /\ UNCHANGED <<backlog, down, board>>
ForeignEnds == /\ socket = "foreign" /\ Unlucky /\ socket' \in {"none", "stale"}
               /\ UNCHANGED <<lock, backlog, claim, feed>>
Backlog == /\ socket = "foreign" /\ ~backlog /\ backlog' = TRUE
           /\ UNCHANGED <<lock, socket, claim, feed, trouble>>

Serving == \E d \in Daemons : socket = d

---------------------------------------------------------------------------
\* publishLine: every client queues the line; one whose queue is full is hung
\* up and forgotten, so that it never misses a line of a stream it still reads.
Full(c) == Len(queue[c]) >= QueueLen
Cut == {c \in Clients : conn[c] = "open" /\ Full(c)}
Publish(line) ==
  /\ Serving /\ Len(lines) < MaxLines
  /\ lines' = Append(lines, line)
  /\ conn' = [c \in Clients |-> IF c \in Cut THEN "cut" ELSE conn[c]]
  /\ queue' = [c \in Clients |-> IF conn[c] = "open" /\ ~Full(c) THEN Append(queue[c], line) ELSE queue[c]]
  /\ UNCHANGED <<claims, got, from, held, trouble>>

Key(kind, k) == [kind |-> kind, key |-> k]
\* parseMoonReport: a key goes down or up
Press(k) == /\ board /\ k \notin down /\ down' = down \cup {k} /\ Publish(Key("down", k)) /\ UNCHANGED <<board, retained>>
Release(k) == /\ board /\ k \in down /\ down' = down \ {k} /\ Publish(Key("up", k)) /\ UNCHANGED <<board, retained>>
\* publishRetainedJSON: a state line that a later client is told at accept
State == /\ Publish(Key("state", None)) /\ retained' = Len(lines) + 1 /\ UNCHANGED <<down, board>>
\* moonModule.Run: the board is lost with keys down; what was held is cleared
Clears == Key("clear", None)
BoardLost == /\ board /\ Unlucky /\ board' = FALSE /\ down' = {}
             /\ IF Serving /\ Len(lines) < MaxLines
                THEN /\ lines' = Append(lines, Clears)
                     /\ conn' = [c \in Clients |-> IF c \in Cut THEN "cut" ELSE conn[c]]
                     /\ queue' = [c \in Clients |-> IF conn[c] = "open" /\ ~Full(c) THEN Append(queue[c], Clears) ELSE queue[c]]
                ELSE ~Serving /\ UNCHANGED <<lines, conn, queue>>
             /\ UNCHANGED <<claims, retained, got, from, held>>
BoardBack == /\ ~board /\ board' = TRUE
             /\ UNCHANGED <<claims, down, lines, retained, conn, queue, got, from, held, trouble>>

\* accept: the retained line is replayed in the same critical section as the
\* registration.
Registered == {c \in Clients : conn[c] = "open"}
Accept(c) == /\ Serving /\ conn[c] = "new"
             /\ IF Cardinality(Registered) >= MaxClients
                THEN conn' = [conn EXCEPT ![c] = "refused"] /\ UNCHANGED <<queue, from>>
                ELSE /\ conn' = [conn EXCEPT ![c] = "open"]
                     /\ queue' = [queue EXCEPT ![c] = IF retained = 0 THEN <<>> ELSE <<lines[retained]>>]
                     /\ from' = [from EXCEPT ![c] = [after |-> Len(lines), retained |-> retained]]
             /\ UNCHANGED <<claims, down, board, lines, retained, got, held, trouble>>

\* Consume: what a line does to the keys the reader shows as held
Apply(h, line) == CASE line.kind = "down" -> h \cup {line.key}
                    [] line.kind = "up" -> h \ {line.key}
                    [] line.kind = "clear" -> {}
                    [] OTHER -> h
\* writeTo and Consume: a line is written and read
Deliver(c) == /\ conn[c] = "open" /\ queue[c] # <<>>
              /\ queue' = [queue EXCEPT ![c] = Tail(@)]
              /\ got' = [got EXCEPT ![c] = Append(@, Head(queue[c]))]
              /\ held' = [held EXCEPT ![c] = Apply(@, Head(queue[c]))]
              /\ UNCHANGED <<claims, down, board, lines, retained, conn, from, trouble>>
\* a write misses its deadline
WriteFails(c) == /\ conn[c] = "open" /\ queue[c] # <<>> /\ Unlucky
                 /\ conn' = [conn EXCEPT ![c] = "cut"]
                 /\ UNCHANGED <<claims, down, board, lines, retained, queue, got, from, held>>
\* Run of the reader: the connection ends, what was held is cleared, and it
\* dials again.
Redial(c) == /\ conn[c] \in {"cut", "refused"}
             /\ conn' = [conn EXCEPT ![c] = "new"]
             /\ queue' = [queue EXCEPT ![c] = <<>>] /\ got' = [got EXCEPT ![c] = <<>>]
             /\ held' = [held EXCEPT ![c] = {}]
             /\ UNCHANGED <<claims, down, board, lines, retained, from, trouble>>

Next == \/ \E d \in Daemons : Lock(d) \/ Probe(d) \/ Listen(d) \/ Retry(d) \/ Die(d)
        \/ ForeignEnds \/ Backlog
        \/ \E k \in Keys : Press(k) \/ Release(k)
        \/ State \/ BoardLost \/ BoardBack
        \/ \E c \in Clients : Accept(c) \/ Deliver(c) \/ WriteFails(c) \/ Redial(c)

Spec == Init /\ [][Next]_vars

---------------------------------------------------------------------------
TypeOK == /\ claim \in [Daemons -> {"out", "locked", "proven", "serving", "refused"}]
          /\ conn \in [Clients -> {"new", "open", "cut", "refused"}]
          /\ \A c \in Clients : Len(queue[c]) <= QueueLen /\ held[c] \subseteq Keys

\* A socket is owned by the daemon that holds its lock, and by no second one.
OneServer == \A d \in Daemons : claim[d] \in {"locked", "proven", "serving"} => lock = d

\* A live socket is never unlinked, also when its backlog refuses a dial
\* (holder not proven absent).
LiveSocketStays == [][socket = "foreign" /\ claim' # claim => socket' = socket]_vars

\* A client reads the retained line and then every line published since, with
\* no gap, for as long as it is connected (publishLine, accept).
NoGap == \A c \in Clients : conn[c] = "open" =>
           got[c] \o queue[c] = (IF from[c].retained = 0 THEN <<>> ELSE <<lines[from[c].retained]>>)
                                \o SubSeq(lines, from[c].after + 1, Len(lines))

\* A key is never shown held after it went up: a reader that has read all its
\* lines shows only keys that are down, also when the board was lost while
\* they were (Run of moonModule, Run of the reader).
HeldIsTrue == \A c \in Clients : conn[c] = "open" /\ queue[c] = <<>> => held[c] \subseteq down

---------------------------------------------------------------------------
\* What the proofs need besides.
FeedAssumption ==
  /\ Daemons \cap {"none", "stale", "foreign"} = {} /\ QueueLen \in Nat \ {0}
  /\ MaxClients \in Nat /\ MaxLines \in Nat /\ MaxTrouble \in Nat

Line == [kind : {"down", "up"}, key : Keys] \cup [kind : {"state", "clear"}, key : {None}]
Books == /\ lock \in Daemons \cup {None} /\ socket \in Daemons \cup {"none", "stale", "foreign"}
         /\ lines \in Seq(Line) /\ retained \in 0..Len(lines) /\ down \subseteq Keys
         /\ queue \in [Clients -> Seq(Line)] /\ got \in [Clients -> Seq(Line)]
         /\ from \in [Clients -> [after : 0..Len(lines), retained : 0..Len(lines)]]
         /\ held \in [Clients -> SUBSET Keys]
\* who serves is who listens, and only it has clients
Listens == \A d \in Daemons : claim[d] = "serving" <=> socket = d
Served == \A c \in Clients : conn[c] = "open" => Serving
StateIsKept == retained # 0 => lines[retained].kind = "state"
Fresh == \A c \in Clients : conn[c] = "new" => got[c] = <<>> /\ held[c] = {}
\* what a reader shows held, or will, and is up by now is lifted by a line that is queued for it
Lifts(line, k) == line = Key("up", k) \/ line.kind = "clear"
HeldIsLifted == \A c \in Clients : conn[c] = "open" =>
                  \A k \in held[c] \ down : \E j \in 1..Len(queue[c]) : Lifts(queue[c][j], k)
DownIsLifted == \A c \in Clients : conn[c] = "open" =>
                  \A i \in 1..Len(queue[c]) : \A k \in Keys \ down :
                    queue[c][i] = Key("down", k) => \E j \in (i + 1)..Len(queue[c]) : Lifts(queue[c][j], k)
IInv == /\ TypeOK /\ Books /\ OneServer /\ Listens /\ Served /\ StateIsKept /\ Fresh
        /\ NoGap /\ HeldIsLifted /\ DownIsLifted
=============================================================================
