-------------------------- MODULE BusActionsProofs --------------------------
(***************************************************************************)
(* BusActions is type correct, runs every operation at most once, tells    *)
(* the truth about what it ran and prunes nothing that recovery needs, for *)
(* any number of clients, messages, crashes and journal errors.            *)
(***************************************************************************)
EXTENDS BusActions, TLAPS, WellFoundedInduction

USE JournalAssumption, ActionsAssumption

(* The inductive invariant, in three parts: the journal with its history,   *)
(* the goroutines' hold on the rows they run, and the stopped bus.          *)

\* A row exists iff it has a sequence; an operation that has not started has
\* no run in this lifetime, and none at all unless it is a desired state.
Unstarted ==
  \A i \in Ids :
    rows[i].state = "pending" =>
      execsHere[i] = 0 /\ (rows[i].req.policy # "reconcile" => execs[i] = 0)

JournalOK ==
  /\ rows \in [Ids -> Row] /\ next \in Nat \ {0}
  /\ execs \in [Ids -> Nat] /\ execsHere \in [Ids -> Nat]
  /\ \A i \in Ids : rows[i].state = Absent <=> rows[i].seq = 0
  /\ Unstarted
  /\ AtMostOnce

Unrun(i) ==
  /\ rows[i].state = "running" /\ execsHere[i] = 0
  /\ rows[i].req.policy # "reconcile" => execs[i] = 0

Busy(a) == pc[a] \in {"apply", "settle"}

\* An actor between start and settle, or a reaper, is alone with a running row;
\* before the handler, that row has not run in this lifetime.
Ownership ==
  /\ \A a \in Actors : pc[a] \in {"lock", "accept", "start", "apply", "settle"}
                         => op[a] \in Messages
  /\ \A a \in Actors : Busy(a) => rows[op[a].id].state = "running"
  /\ \A a \in Actors : pc[a] = "apply" => Unrun(op[a].id)
  /\ \A a, b \in Actors : Busy(a) /\ Busy(b) /\ op[a].id = op[b].id => a = b
  /\ \A m \in reaping : /\ rows[m.id].state = "running"
                        /\ \A a \in Actors : Busy(a) => op[a].id # m.id
  /\ \A m, n \in reaping : m.id = n.id => m = n

Stopped ==
  phase = "down" =>
    /\ \A a \in Actors : pc[a] = "idle"
    /\ queue = <<>> /\ reaping = {}
    /\ \A i \in Ids : execsHere[i] = 0

IInv == TypeOK /\ JournalOK /\ Ownership /\ Stopped

-----------------------------------------------------------------------------
(* What a journal call does to the journal and to other people's rows.      *)

Kept(j) == rows'[j] = rows[j] /\ execs'[j] = execs[j] /\ execsHere'[j] = execsHere[j]

\* Committing a table whose rows are the old ones or gone keeps the journal sound.
LEMMA RowsOfTables ==
  ASSUME rows \in [Ids -> Row]
  PROVE  /\ Prune(rows) \in [Ids -> Row]
         /\ \A i \in Ids : \/ Prune(rows)[i] = rows[i]
                           \/ Prune(rows)[i] = NoRow /\ rows[i].state \in Terminal
         /\ Recover(rows) \in [Ids -> Row]
         /\ \A i \in Ids : /\ Recover(rows)[i].seq = rows[i].seq
                           /\ Recover(rows)[i].req = rows[i].req
                           /\ Recover(rows)[i].state = Absent <=> rows[i].state = Absent
                           /\ Recover(rows)[i].state = "pending" =>
                                rows[i].state = "pending" \/ rows[i].req.policy = "reconcile"
<1>1. /\ Prune(rows) \in [Ids -> Row]
      /\ \A i \in Ids : \/ Prune(rows)[i] = rows[i]
                        \/ Prune(rows)[i] = NoRow /\ rows[i].state \in Terminal
  BY DEF Prune, Prunable, Row, NoRow, Absent
<1>2. ASSUME NEW s \in States, NEW p
      PROVE  /\ RecoveredState(s, p) \in States
             /\ RecoveredState(s, p) = "pending" => s = "pending" \/ p = "reconcile"
  BY DEF RecoveredState, States, Terminal, Unresolved, Applied
<1>3. ASSUME NEW i \in Ids
      PROVE  /\ Recover(rows)[i] \in Row
             /\ Recover(rows)[i].seq = rows[i].seq
             /\ Recover(rows)[i].req = rows[i].req
             /\ Recover(rows)[i].state = Absent <=> rows[i].state = Absent
             /\ Recover(rows)[i].state = "pending" =>
                  rows[i].state = "pending" \/ rows[i].req.policy = "reconcile"
  <2>1. CASE rows[i].state = Absent
    BY <2>1 DEF Recover, Absent
  <2>2. CASE rows[i].state # Absent
    <3>1. rows[i] \in Row /\ rows[i].state \in States
      BY <2>2 DEF Row
    <3>2. Recover(rows)[i] = [rows[i] EXCEPT !.state = RecoveredState(rows[i].state, rows[i].req.policy)]
      BY <2>2 DEF Recover
    <3>3. Absent \notin States
      BY DEF Absent, States, Terminal, Unresolved, Applied
    <3> QED BY <2>2, <3>1, <3>2, <3>3, <1>2 DEF Row
  <2> QED BY <2>1, <2>2
<1>4. Recover(rows) \in [Ids -> Row]
  BY <1>3 DEF Recover
<1> QED BY <1>1, <1>3, <1>4

\* A transition call, whatever it returns, leaves the journal sound and touches
\* no row but the one whose compare-and-set can succeed.
LEMMA TransitionCall ==
  ASSUME JournalOK, NEW i \in Ids, NEW from, NEW to \in States,
         Transitioned(i, from, to) \/ NotTransitioned(i, from, to)
  PROVE  /\ JournalOK'
         /\ \A j \in Ids : j # i \/ rows[i].state # from => Kept(j)
         /\ Transitioned(i, from, to) =>
              /\ rows[i].state = from
              /\ rows'[i] = [rows[i] EXCEPT !.state = to]
              /\ execs' = execs /\ execsHere' = execsHere
<1>1. Move(rows, i, to) \in [Ids -> Row]
  BY DEF Move, JournalOK, Row
<1>2. /\ execs' = execs /\ execsHere' = execsHere /\ next' = next
      /\ \/ rows' = rows
         \/ /\ rows' = Move(rows, i, to)
            /\ rows[i].state = from /\ from # Absent /\ to # "pending"
  <2>1. CASE UNCHANGED <<rows, next, execs, execsHere>>
    BY <2>1
  <2>2. CASE Commit(Move(rows, i, to), next) /\ CanMove(rows, i, from, to)
    <3>1. \A j \in Ids : SameRow(Move(rows, i, to), j)
      BY DEF SameRow, Move, JournalOK, Row
    <3>2. from # Absent /\ to # "pending"
      BY <2>2 DEF CanMove, Edges, Absent
    <3> QED BY <2>2, <3>1, <3>2 DEF Commit, JournalOK, CanMove
  <2> QED BY <2>1, <2>2 DEF Transitioned, NotTransitioned, Saved, Failed, journal
<1>3. CASE rows' = rows
  <2>1. JournalOK'
    BY <1>2, <1>3 DEF JournalOK, Unstarted, AtMostOnce
  <2>2. Transitioned(i, from, to) => rows[i].state = from /\ rows' = Move(rows, i, to)
    BY DEF Transitioned, CanMove, Saved, Commit
  <2> QED BY <1>2, <1>3, <2>1, <2>2 DEF Kept, Move, JournalOK
<1>4. CASE rows' = Move(rows, i, to) /\ rows[i].state = from /\ from # Absent /\ to # "pending"
  <2>1. /\ \A j \in Ids : rows'[j].seq = rows[j].seq /\ rows'[j].req = rows[j].req
        /\ \A j \in Ids : j # i => rows'[j] = rows[j]
        /\ rows'[i] = [rows[i] EXCEPT !.state = to] /\ rows'[i].state = to
    BY <1>4 DEF Move, JournalOK, Row
  <2>2. to # Absent
    BY DEF Absent, States, Terminal, Unresolved, Applied
  <2>3. JournalOK'
    BY <1>1, <1>2, <1>4, <2>1, <2>2 DEF JournalOK, Unstarted, AtMostOnce
  <2> QED BY <1>2, <1>4, <2>1, <2>3 DEF Kept
<1> QED BY <1>2, <1>3, <1>4

\* An accept call leaves the journal sound and keeps every unresolved row.
LEMMA AcceptCall ==
  ASSUME JournalOK, NEW m \in Messages,
         AcceptFresh(m) \/ AcceptKnown(m) \/ AcceptError(m)
  PROVE  /\ JournalOK'
         /\ \A j \in Ids : rows[j].state \in Unresolved => Kept(j)
<1>1. m.id \in Ids /\ m.req \in Requests
  OBVIOUS
<1>2. CASE UNCHANGED <<rows, next, execs, execsHere>>
  BY <1>2 DEF JournalOK, Unstarted, AtMostOnce, Kept
<1>3. CASE ~ Duplicate(rows, m.id) /\ Commit(Insert(rows, m.id, next, m.req), next + 1)
  <2> DEFINE table == Insert(rows, m.id, next, m.req)
             new == [state |-> "pending", seq |-> next, req |-> m.req]
  <2>1. Prune(rows) \in [Ids -> Row] /\
        \A i \in Ids : \/ Prune(rows)[i] = rows[i]
                       \/ Prune(rows)[i] = NoRow /\ rows[i].state \in Terminal
    BY RowsOfTables DEF JournalOK
  <2>2. new \in Row
    BY <1>1 DEF Row, JournalOK, States, Unresolved
  <2>3. table \in [Ids -> Row] /\ table[m.id] = new
        /\ \A i \in Ids : i # m.id => table[i] = Prune(rows)[i]
    BY <1>1, <2>1, <2>2 DEF Insert
  <2>4. rows[m.id].state = Absent /\ rows[m.id].seq = 0 /\ next # 0
    BY <1>1, <1>3 DEF Duplicate, JournalOK
  <2>5. ~ SameRow(table, m.id) /\ rows'[m.id] = new /\ execs'[m.id] = 0 /\ execsHere'[m.id] = 0
    BY <1>1, <1>3, <2>3, <2>4 DEF SameRow, Commit
  <2>6. ASSUME NEW i \in Ids, i # m.id, table[i] = rows[i]
        PROVE  Kept(i)
    BY <1>3, <2>6 DEF Kept, SameRow, Commit
  <2>7. ASSUME NEW i \in Ids, i # m.id, table[i] # rows[i]
        PROVE  rows'[i] = NoRow /\ execs'[i] \in Nat /\ execsHere'[i] = 0 /\ rows[i].state \in Terminal
    <3>1. table[i] = NoRow /\ rows[i].state \in Terminal
      BY <2>1, <2>3, <2>7
    <3>2. rows[i].seq # 0
      BY <3>1 DEF JournalOK, Terminal, Absent, Applied
    <3>3. ~ SameRow(table, i)
      BY <3>1, <3>2 DEF SameRow, NoRow
    <3> QED BY <1>3, <3>1, <3>3 DEF Commit
  <2>8. rows' \in [Ids -> Row] /\ next' \in Nat \ {0}
        /\ execs' \in [Ids -> Nat] /\ execsHere' \in [Ids -> Nat]
    BY <1>3, <2>3 DEF Commit, JournalOK
  <2>9. ASSUME NEW i \in Ids
        PROVE  /\ rows'[i].state = Absent <=> rows'[i].seq = 0
               /\ rows'[i].state = "pending" =>
                    execsHere'[i] = 0 /\ (rows'[i].req.policy # "reconcile" => execs'[i] = 0)
               /\ execsHere'[i] <= 1
               /\ rows'[i].state # Absent /\ rows'[i].req.policy # "reconcile" => execs'[i] <= 1
    <3>1. CASE i = m.id
      BY <3>1, <2>4, <2>5 DEF Absent
    <3>2. CASE i # m.id /\ table[i] = rows[i]
      BY <3>2, <2>6 DEF Kept, JournalOK, Unstarted, AtMostOnce
    <3>3. CASE i # m.id /\ table[i] # rows[i]
      BY <3>3, <2>7 DEF NoRow, Absent
    <3> QED BY <3>1, <3>2, <3>3
  <2>10. JournalOK'
    BY <2>8, <2>9 DEF JournalOK, Unstarted, AtMostOnce
  <2>11. ASSUME NEW j \in Ids, rows[j].state \in Unresolved PROVE Kept(j)
    <3>1. rows[j].state \notin Terminal /\ rows[j].state # Absent
      BY <2>11 DEF Unresolved, Terminal, Applied, Absent
    <3> QED BY <3>1, <2>4, <2>6, <2>7
  <2> QED BY <2>10, <2>11
<1> QED BY <1>2, <1>3 DEF AcceptFresh, AcceptNew, AcceptPending, AcceptKnown, AcceptError,
                          Saved, Failed, journal

\* The recovery transaction of a stopped bus: desired-state rows may become
\* pending again, and nothing has run yet in the lifetime that begins.
LEMMA RecoverCall ==
  ASSUME JournalOK, \A i \in Ids : execsHere[i] = 0,
         Saved(Recover(rows), next) \/ Failed(Recover(rows), next)
  PROVE  JournalOK'
<1>1. CASE UNCHANGED <<rows, next, execs, execsHere>>
  BY <1>1 DEF JournalOK, Unstarted, AtMostOnce
<1>2. CASE Commit(Recover(rows), next)
  <2>1. rows \in [Ids -> Row]
    BY DEF JournalOK
  <2>2. /\ Recover(rows) \in [Ids -> Row]
        /\ \A i \in Ids : /\ Recover(rows)[i].seq = rows[i].seq
                          /\ Recover(rows)[i].req = rows[i].req
                          /\ Recover(rows)[i].state = Absent <=> rows[i].state = Absent
                          /\ Recover(rows)[i].state = "pending" =>
                               rows[i].state = "pending" \/ rows[i].req.policy = "reconcile"
    BY <2>1, RowsOfTables
  <2>3. \A i \in Ids : SameRow(Recover(rows), i)
    BY <2>2 DEF SameRow
  <2>4. rows' = Recover(rows) /\ next' = next /\ execs' = execs /\ execsHere' = execsHere
    BY <1>2, <2>3 DEF Commit, JournalOK
  <2> QED BY <2>2, <2>4 DEF JournalOK, Unstarted, AtMostOnce
<1> QED BY <1>1, <1>2 DEF Saved, Failed

\* A handler run by the owner of a row nobody has run keeps the journal sound.
LEMMA HandlerRun ==
  ASSUME JournalOK, NEW i \in Ids, Unrun(i), Ran(i), rows' = rows, next' = next
  PROVE  JournalOK' /\ \A j \in Ids : j # i => Kept(j)
BY DEF JournalOK, Unstarted, AtMostOnce, Unrun, Ran, Kept

\* Ownership and the stopped bus survive a step that moves one actor, keeps the
\* running rows of everyone else, and happens while the bus is not down.
LEMMA OneActorMoves ==
  ASSUME IInv, NEW a \in Actors, phase # "down", phase' # "down", reaping' = reaping,
         \A b \in Actors \ {a} : pc'[b] = pc[b] /\ op'[b] = op[b],
         \A j \in Ids : rows[j].state = "running" /\ (Busy(a) => j # op[a].id) => Kept(j),
         pc'[a] \in {"lock", "accept", "start", "apply", "settle"} => op'[a] \in Messages,
         pc'[a] \in {"apply", "settle"} =>
            /\ rows'[op'[a].id].state = "running"
            /\ (Busy(a) /\ op'[a] = op[a]) \/ rows[op'[a].id].state # "running",
         pc'[a] = "apply" => Unrun(op[a].id)'
  PROVE  Ownership' /\ Stopped'
<1>1. ASSUME NEW b \in Actors \ {a}, Busy(b)
      PROVE  Kept(op[b].id) /\ op[b].id \in Ids /\ rows[op[b].id].state = "running"
  BY <1>1 DEF IInv, Ownership, Busy
<1>2. ASSUME NEW m \in reaping
      PROVE  Kept(m.id) /\ rows[m.id].state = "running" /\ (Busy(a) => op[a].id # m.id)
  BY <1>2 DEF IInv, Ownership, Busy, TypeOK
<1>3. \A b \in Actors : pc'[b] \in {"lock", "accept", "start", "apply", "settle"}
                         => op'[b] \in Messages
  BY DEF IInv, Ownership
<1>4. \A b \in Actors : pc'[b] \in {"apply", "settle"} => rows'[op'[b].id].state = "running"
  BY <1>1 DEF Busy, Kept
<1>5. \A b \in Actors : pc'[b] = "apply" => Unrun(op[b].id)'
  <2>1. ASSUME NEW b \in Actors \ {a}, pc'[b] = "apply"
        PROVE  Unrun(op[b].id)'
    <3>1. Unrun(op[b].id) /\ Kept(op[b].id) /\ op'[b] = op[b]
      BY <1>1, <2>1 DEF IInv, Ownership, Busy
    <3> QED BY <3>1 DEF Unrun, Kept
  <2> QED BY <2>1
<1>6. \A b, c \in Actors :
        pc'[b] \in {"apply", "settle"} /\ pc'[c] \in {"apply", "settle"} /\ op'[b].id = op'[c].id
          => b = c
  <2>1. ASSUME NEW b \in Actors \ {a}, Busy(b), pc'[a] \in {"apply", "settle"}
        PROVE  op'[a].id # op'[b].id
    BY <1>1, <2>1 DEF IInv, Ownership
  <2>2. \A b, c \in Actors \ {a} : Busy(b) /\ Busy(c) /\ op'[b].id = op'[c].id => b = c
    BY DEF IInv, Ownership
  <2>3. ASSUME NEW b \in Actors, NEW c \in Actors, op'[b].id = op'[c].id, b # c,
               pc'[b] \in {"apply", "settle"}, pc'[c] \in {"apply", "settle"}
        PROVE  FALSE
    <3>1. CASE b = a
      BY <2>1, <2>3, <3>1 DEF Busy
    <3>2. CASE c = a
      BY <2>1, <2>3, <3>2 DEF Busy
    <3>3. CASE b # a /\ c # a
      BY <2>2, <2>3, <3>3 DEF Busy
    <3> QED BY <3>1, <3>2, <3>3
  <2> QED BY <2>3
<1>7. \A m \in reaping' : /\ rows'[m.id].state = "running"
                          /\ \A b \in Actors : pc'[b] \in {"apply", "settle"} => op'[b].id # m.id
  BY <1>2 DEF IInv, Ownership, Busy, Kept
<1> QED BY <1>3, <1>4, <1>5, <1>6, <1>7 DEF IInv, Ownership, Stopped, Busy

-----------------------------------------------------------------------------
(* Types.  The journal part is JournalOK; the rest follows action by action. *)

TypeRest ==
  /\ saved \in [Keys -> Nat] /\ live \in [Keys -> Nat]
  /\ phase \in {"down", "boot", "up"} /\ journalErr \in BOOLEAN
  /\ pc \in [Actors -> PcStates] /\ op \in [Actors -> Messages \cup {NoOp}]
  /\ verdict \in [Actors -> States]
  /\ desiredMu \in Actors \cup {Free}
  /\ queue \in Seq(Messages) /\ reaping \subseteq Messages
  /\ cursor \in Nat /\ records \in [Ids -> Row]
  /\ reported \subseteq Nat \X States
  /\ disowned \subseteq Nat
  /\ sends \in Nat /\ faults \in Nat /\ crashes \in Nat /\ faulted \in BOOLEAN

\* The parts make the whole, after a step as before it.
LEMMA Assemble ==
  ASSUME JournalOK', TypeRest', Ownership', Stopped'
  PROVE  IInv'
BY DEF IInv, JournalOK, TypeRest, TypeOK

\* Every goroutine is an actor.
LEMMA ActorsKnown ==
  /\ \A a \in Conns : a \in Actors
  /\ \A d \in Docks : d \in Actors
  /\ InputWorker \in Actors /\ Boot \in Actors
BY DEF Actors

\* A journal call, whatever it does, counts its errors.
LEMMA CountersTyped ==
  ASSUME TypeOK, NEW t, NEW n, Saved(t, n) \/ Failed(t, n) \/ UNCHANGED journal
  PROVE  faults' \in Nat /\ faulted' \in BOOLEAN
<1>1. faults' \in Nat
  BY DEF TypeOK, Saved, Failed, journal
<1>2. faulted' = faulted \/ faulted' = TRUE
  BY Zenon DEF Saved, Failed, journal
<1> QED BY <1>1, <1>2 DEF TypeOK

\* A journal call of a control connection, the reply and its types.
LEMMA ReplyTyped ==
  ASSUME TypeOK, NEW a \in Actors, NEW S \in SUBSET States, op[a] \in Messages, Reply(a, S)
  PROVE  /\ pc' \in [Actors -> PcStates] /\ op' \in [Actors -> Messages \cup {NoOp}]
         /\ desiredMu' \in Actors \cup {Free}
         /\ reported' \subseteq Nat \X States
<1>1. rows[op[a].id].seq \in Nat
  BY DEF TypeOK, Row
<1> QED BY <1>1 DEF Reply, TypeOK, PcStates

\* An actor that lets go of its message keeps its types.
LEMMA DropTyped ==
  ASSUME TypeOK, NEW a \in Actors, Drop(a)
  PROVE  pc' \in [Actors -> PcStates] /\ op' \in [Actors -> Messages \cup {NoOp}]
BY DEF Drop, TypeOK, PcStates

\* The types of an accept call.
LEMMA AcceptTyped ==
  ASSUME TypeOK, NEW m, AcceptFresh(m) \/ AcceptKnown(m) \/ AcceptError(m)
  PROVE  faults' \in Nat /\ faulted' \in BOOLEAN
BY CountersTyped DEF AcceptFresh, AcceptNew, AcceptPending, AcceptKnown, AcceptError

\* The types of a transition call.
LEMMA TransitionTyped ==
  ASSUME TypeOK, NEW i, NEW s, NEW t, Transitioned(i, s, t) \/ NotTransitioned(i, s, t)
  PROVE  faults' \in Nat /\ faulted' \in BOOLEAN
BY CountersTyped DEF Transitioned, NotTransitioned

\* The types of a handler run.
LEMMA HandlerTyped ==
  ASSUME TypeOK, NEW a \in Actors, op[a] \in Messages, NEW v \in States, HandleCtl(a, v)
  PROVE  /\ saved' \in [Keys -> Nat] /\ live' \in [Keys -> Nat]
         /\ verdict' \in [Actors -> States]
         /\ Ran(op[a].id)
<1>1. rows[op[a].id].seq \in Nat
  BY DEF TypeOK, Row
<1> QED BY <1>1 DEF HandleCtl, ApplyDesired, ApplyOther, Choose, TypeOK, desired

-----------------------------------------------------------------------------
(* One lemma per action.                                                    *)

\* A step that does not touch the journal keeps it sound.
LEMMA QuietJournal ==
  ASSUME JournalOK, UNCHANGED <<rows, next, execs, execsHere>>
  PROVE  JournalOK' /\ \A j \in Ids : Kept(j)
BY DEF JournalOK, Unstarted, AtMostOnce, Kept

\* A row that was just started has not run in this lifetime.
LEMMA StartedRow ==
  ASSUME IInv, NEW i \in Ids, Transitioned(i, "pending", "running")
  PROVE  /\ rows[i].state # "running"
         /\ rows'[i].state = "running" /\ execsHere'[i] = 0
         /\ rows'[i].req.policy # "reconcile" => execs'[i] = 0
<1>1. /\ rows[i].state = "pending" /\ rows'[i] = [rows[i] EXCEPT !.state = "running"]
      /\ execs' = execs /\ execsHere' = execsHere
  BY TransitionCall DEF IInv, States, Unresolved
<1>2. execsHere[i] = 0 /\ (rows[i].req.policy # "reconcile" => execs[i] = 0)
  BY <1>1 DEF IInv, JournalOK, Unstarted
<1>3. rows[i] \in Row
  BY DEF IInv, TypeOK
<1> QED BY <1>1, <1>2, <1>3 DEF Row

\* A connection takes a message in its hands: nothing else moves.
LEMMA CtlReceiveStep ==
  ASSUME IInv, NEW a \in Conns, NEW m \in Messages, CtlReceive(a, m)
  PROVE  IInv'
<1>1. a \in Actors /\ phase # "down" /\ phase' = phase /\ pc[a] = "idle"
  BY ActorsKnown DEF CtlReceive
<1>2. JournalOK' /\ \A j \in Ids : Kept(j)
  BY QuietJournal DEF IInv, CtlReceive, journal
<1>3. /\ pc' = [pc EXCEPT ![a] = IF m.key = NoKey THEN "accept" ELSE "lock"]
      /\ op' = [op EXCEPT ![a] = m]
  BY DEF CtlReceive, Goto
<1>4. TypeRest'
  BY <1>1, <1>3 DEF IInv, TypeOK, TypeRest, CtlReceive, PcStates, journal, desired, recovery
<1>5. pc'[a] \in {"accept", "lock"} /\ op'[a] = m
      /\ \A b \in Actors \ {a} : pc'[b] = pc[b] /\ op'[b] = op[b]
  BY <1>1, <1>3 DEF IInv, TypeOK
<1>6. Ownership' /\ Stopped'
  BY <1>1, <1>2, <1>5, OneActorMoves DEF CtlReceive, Busy
<1> QED BY <1>2, <1>4, <1>6, Assemble

\* Taking the desired-state lock.
LEMMA CtlLockStep ==
  ASSUME IInv, NEW a \in Conns, CtlLock(a)
  PROVE  IInv'
<1>1. a \in Actors /\ pc[a] = "lock" /\ phase # "down" /\ phase' = phase /\ op[a] \in Messages
  BY ActorsKnown DEF CtlLock, IInv, Stopped, Ownership
<1>2. JournalOK' /\ \A j \in Ids : Kept(j)
  BY QuietJournal DEF IInv, CtlLock, journal
<1>3. TypeRest'
  BY <1>1 DEF IInv, TypeOK, TypeRest, CtlLock, Goto, PcStates, journal, desired, recovery
<1>4. pc'[a] = "accept" /\ op' = op /\ \A b \in Actors \ {a} : pc'[b] = pc[b]
  BY <1>1 DEF IInv, TypeOK, CtlLock, Goto
<1>5. Ownership' /\ Stopped'
  BY <1>1, <1>2, <1>4, OneActorMoves DEF CtlLock, Busy
<1> QED BY <1>2, <1>3, <1>5, Assemble

\* A control connection accepts, or replies without running anything.
LEMMA CtlAcceptStep ==
  ASSUME IInv, NEW a \in Conns, CtlAccept(a)
  PROVE  IInv'
<1>1. a \in Actors /\ pc[a] = "accept" /\ phase # "down" /\ phase' = phase /\ op[a] \in Messages
  BY ActorsKnown DEF CtlAccept, IInv, Stopped, Ownership
<1>2. JournalOK' /\ \A j \in Ids : rows[j].state = "running" => Kept(j)
  BY <1>1, AcceptCall DEF IInv, CtlAccept, Unresolved
<1>3. faults' \in Nat /\ faulted' \in BOOLEAN
  BY AcceptTyped DEF IInv, CtlAccept
<1>4. \/ pc' = [pc EXCEPT ![a] = "start"] /\ UNCHANGED <<op, desiredMu, reported>>
      \/ \E S \in SUBSET States : Reply(a, S)
  <2>1. CASE AcceptKnown(op[a]) /\ Reply(a, {rows[op[a].id].state})
    <3>1. {rows[op[a].id].state} \in SUBSET States
      BY <1>1, <2>1 DEF AcceptKnown, IInv, TypeOK, Row
    <3> QED BY <2>1, <3>1
  <2>2. CASE Reply(a, {})
    BY <2>2
  <2> QED BY <2>1, <2>2 DEF CtlAccept, Goto
<1>5. /\ pc' \in [Actors -> PcStates] /\ op' \in [Actors -> Messages \cup {NoOp}]
      /\ desiredMu' \in Actors \cup {Free} /\ reported' \subseteq Nat \X States
  <2>1. CASE pc' = [pc EXCEPT ![a] = "start"] /\ UNCHANGED <<op, desiredMu, reported>>
    BY <2>1 DEF IInv, TypeOK, PcStates
  <2> QED BY <1>1, <1>4, <2>1, ReplyTyped DEF IInv
<1>6. TypeRest'
  BY <1>3, <1>5 DEF IInv, TypeOK, TypeRest, CtlAccept, desired, recovery
<1>7. /\ pc'[a] \in {"start", "idle"} /\ (pc'[a] = "start" => op'[a] \in Messages)
      /\ \A b \in Actors \ {a} : pc'[b] = pc[b] /\ op'[b] = op[b]
  BY <1>1, <1>4 DEF IInv, TypeOK, Reply
<1>8. Ownership' /\ Stopped'
  BY <1>1, <1>2, <1>7, OneActorMoves DEF CtlAccept, Busy
<1> QED BY <1>2, <1>6, <1>8, Assemble

\* A control connection that wins the compare-and-set owns the row.
LEMMA CtlStartStep ==
  ASSUME IInv, NEW a \in Conns, CtlStart(a)
  PROVE  IInv'
<1>1. a \in Actors /\ pc[a] = "start" /\ phase # "down" /\ phase' = phase
      /\ op[a] \in Messages /\ op[a].id \in Ids
  BY ActorsKnown DEF CtlStart, IInv, Stopped, Ownership
<1> DEFINE i == op[a].id
           done == Transitioned(i, "pending", "running")
<1>2. done \/ NotTransitioned(i, "pending", "running")
  BY DEF CtlStart
<1>3. /\ JournalOK'
      /\ \A j \in Ids : j # i \/ rows[i].state # "pending" => Kept(j)
      /\ done => /\ rows[i].state = "pending" /\ rows'[i] = [rows[i] EXCEPT !.state = "running"]
                 /\ execs' = execs /\ execsHere' = execsHere
  <2>1. JournalOK /\ "running" \in States /\ i \in Ids
    BY <1>1 DEF IInv, States, Unresolved
  <2> HIDE DEF i, done
  <2>2. Transitioned(i, "pending", "running") \/ NotTransitioned(i, "pending", "running")
    BY <1>2 DEF i, done
  <2> QED BY <2>1, <2>2, TransitionCall DEF done
<1>4. faults' \in Nat /\ faulted' \in BOOLEAN
  BY <1>2, TransitionTyped DEF IInv
<1>5. \/ done /\ pc' = [pc EXCEPT ![a] = "apply"] /\ UNCHANGED <<op, desiredMu, reported>>
      \/ Reply(a, {})
  BY DEF CtlStart, Goto
<1>6. /\ pc' \in [Actors -> PcStates] /\ op' \in [Actors -> Messages \cup {NoOp}]
      /\ desiredMu' \in Actors \cup {Free} /\ reported' \subseteq Nat \X States
  <2>1. CASE pc' = [pc EXCEPT ![a] = "apply"] /\ UNCHANGED <<op, desiredMu, reported>>
    BY <2>1 DEF IInv, TypeOK, PcStates
  <2> QED BY <1>1, <1>5, <2>1, ReplyTyped DEF IInv
<1>7. TypeRest'
  BY <1>4, <1>6 DEF IInv, TypeOK, TypeRest, CtlStart, desired, recovery
<1>8. \/ pc'[a] = "apply" /\ op' = op /\ done
      \/ pc'[a] = "idle"
  BY <1>1, <1>5 DEF IInv, TypeOK, Reply
<1>9. \A b \in Actors \ {a} : pc'[b] = pc[b] /\ op'[b] = op[b]
  BY <1>1, <1>5 DEF IInv, TypeOK, Reply
<1>10. \A j \in Ids : rows[j].state = "running" => Kept(j)
  BY <1>3
<1>11. done => /\ rows[i].state # "running"
               /\ rows'[i].state = "running" /\ execsHere'[i] = 0
               /\ rows'[i].req.policy # "reconcile" => execs'[i] = 0
  BY <1>1, StartedRow
<1>12. Ownership' /\ Stopped'
  BY <1>1, <1>8, <1>9, <1>10, <1>11, OneActorMoves DEF CtlStart, Unrun, Busy
<1> QED BY <1>3, <1>7, <1>12, Assemble

\* Running a handler: shared by control connections and recovery.
LEMMA ApplyStep ==
  ASSUME IInv, NEW a \in Actors, pc[a] = "apply", NEW v \in States, HandleCtl(a, v),
         Goto(a, "settle"), UNCHANGED <<rows, next, faults, faulted>>,
         UNCHANGED <<phase, journalErr, op, desiredMu, queue, reaping, recovery,
                     reported, disowned, sends, crashes>>
  PROVE  IInv'
<1>1. phase # "down" /\ op[a] \in Messages /\ op[a].id \in Ids /\ Unrun(op[a].id)
  BY DEF IInv, Stopped, Ownership
<1>2. /\ saved' \in [Keys -> Nat] /\ live' \in [Keys -> Nat]
      /\ verdict' \in [Actors -> States] /\ Ran(op[a].id)
  BY <1>1, HandlerTyped DEF IInv
<1>3. JournalOK' /\ \A j \in Ids : j # op[a].id => Kept(j)
  BY <1>1, <1>2, HandlerRun DEF IInv
<1>4. TypeRest'
  BY <1>2 DEF IInv, TypeOK, TypeRest, Goto, PcStates, recovery
<1>5. pc'[a] = "settle" /\ \A b \in Actors \ {a} : pc'[b] = pc[b]
  BY DEF IInv, TypeOK, Goto
<1>6. rows'[op[a].id].state = "running"
  BY <1>1 DEF Unrun
<1>7. Ownership' /\ Stopped'
  BY <1>1, <1>3, <1>5, <1>6, OneActorMoves DEF Busy
<1> QED BY <1>3, <1>4, <1>7, Assemble

\* Saving an outcome: the actor lets go of its row, whatever the call returns.
LEMMA SettleStep ==
  ASSUME IInv, NEW a \in Actors, pc[a] = "settle",
         \/ Transitioned(op[a].id, "running", verdict[a])
         \/ NotTransitioned(op[a].id, "running", verdict[a]),
         pc'[a] \in {"idle", "scan"},
         \A b \in Actors \ {a} : pc'[b] = pc[b] /\ op'[b] = op[b],
         phase' = phase, reaping' = reaping
  PROVE  /\ JournalOK' /\ Ownership' /\ Stopped'
         /\ faults' \in Nat /\ faulted' \in BOOLEAN
<1>1. phase # "down" /\ op[a] \in Messages /\ op[a].id \in Ids /\ verdict[a] \in States
  BY DEF IInv, Stopped, Ownership, TypeOK
<1>2. JournalOK' /\ \A j \in Ids : j # op[a].id => Kept(j)
  BY <1>1, TransitionCall DEF IInv
<1>3. faults' \in Nat /\ faulted' \in BOOLEAN
  BY TransitionTyped DEF IInv
<1>4. Ownership' /\ Stopped'
  BY <1>1, <1>2, OneActorMoves DEF Busy
<1> QED BY <1>2, <1>3, <1>4

\* A control connection runs its handler.
LEMMA CtlApplyStep ==
  ASSUME IInv, NEW a \in Conns, CtlApply(a)
  PROVE  IInv'
BY ApplyStep, ActorsKnown DEF CtlApply

\* A control connection saves its outcome and replies.
LEMMA CtlSettleStep ==
  ASSUME IInv, NEW a \in Conns, CtlSettle(a)
  PROVE  IInv'
<1>1. a \in Actors /\ pc[a] = "settle" /\ op[a] \in Messages /\ verdict[a] \in States
  BY ActorsKnown DEF CtlSettle, IInv, Ownership, TypeOK
<1>2. \E S \in SUBSET States : Reply(a, S)
  <2>1. {verdict[a]} \in SUBSET States /\ {"uncertain"} \in SUBSET States
    BY <1>1 DEF States, Unresolved
  <2> QED BY <2>1 DEF CtlSettle
<1>3. /\ pc' \in [Actors -> PcStates] /\ op' \in [Actors -> Messages \cup {NoOp}]
      /\ desiredMu' \in Actors \cup {Free} /\ reported' \subseteq Nat \X States
  BY <1>1, <1>2, ReplyTyped DEF IInv
<1>4. pc'[a] = "idle" /\ \A b \in Actors \ {a} : pc'[b] = pc[b] /\ op'[b] = op[b]
  BY <1>1, <1>2 DEF IInv, TypeOK, Reply
<1>5. /\ JournalOK' /\ Ownership' /\ Stopped'
      /\ faults' \in Nat /\ faulted' \in BOOLEAN
  BY <1>1, <1>4, SettleStep DEF CtlSettle
<1>6. TypeRest'
  BY <1>3, <1>5 DEF IInv, TypeOK, TypeRest, CtlSettle, desired, recovery
<1> QED BY <1>5, <1>6, Assemble

\* A discard by hand touches an uncertain row, which nobody owns.
LEMMA DiscardReviewedStep ==
  ASSUME IInv, NEW i \in Ids, DiscardReviewed(i)
  PROVE  IInv'
<1>1. phase # "down" /\ phase' = phase /\ reaping' = reaping /\ pc' = pc /\ op' = op
  BY DEF DiscardReviewed
<1>2. /\ JournalOK' /\ \A j \in Ids : j # i => Kept(j)
      /\ rows[i].state = "uncertain"
  BY TransitionCall DEF DiscardReviewed, IInv, States, Terminal
<1>3. faults' \in Nat /\ faulted' \in BOOLEAN /\ rows[i].seq \in Nat
  BY TransitionTyped DEF DiscardReviewed, IInv, TypeOK, Row
<1>4. TypeRest'
  BY <1>3 DEF IInv, TypeOK, TypeRest, DiscardReviewed, desired, recovery
<1>5. \A j \in Ids : rows[j].state = "running" => Kept(j)
  BY <1>2
<1>6. Ownership'
  <2>1. \A a \in Actors : Busy(a) => op[a].id \in Ids /\ Kept(op[a].id)
    BY <1>5 DEF IInv, Ownership, Busy
  <2>2. \A m \in reaping : m.id \in Ids /\ Kept(m.id)
    BY <1>5 DEF IInv, Ownership, TypeOK
  <2> QED BY <1>1, <2>1, <2>2 DEF IInv, Ownership, Busy, Kept, Unrun
<1> QED BY <1>1, <1>2, <1>4, <1>6, Assemble DEF Stopped

\* A dock connection queues its message or takes it in hand to discard.
LEMMA DockReceiveStep ==
  ASSUME IInv, NEW d \in Docks, NEW m \in Messages, DockReceive(d, m)
  PROVE  IInv'
<1>1. d \in Actors /\ phase # "down" /\ phase' = phase /\ pc[d] = "idle" /\ reaping' = reaping
  BY ActorsKnown DEF DockReceive
<1>2. JournalOK' /\ \A j \in Ids : Kept(j)
  BY QuietJournal DEF IInv, DockReceive, journal
<1>3. \/ queue' = Append(queue, m) /\ pc' = pc /\ op' = op
      \/ queue' = queue /\ op' = [op EXCEPT ![d] = m] /\ pc' = [pc EXCEPT ![d] = "accept"]
  BY DEF DockReceive, Goto
<1>4. TypeRest'
  <2>1. CASE queue' = Append(queue, m) /\ pc' = pc /\ op' = op
    <3>1. Append(queue, m) \in Seq(Messages)
      BY DEF IInv, TypeOK
    <3> QED BY <2>1, <3>1 DEF IInv, TypeOK, TypeRest, DockReceive, journal, desired, recovery
  <2>2. CASE queue' = queue /\ op' = [op EXCEPT ![d] = m] /\ pc' = [pc EXCEPT ![d] = "accept"]
    BY <1>1, <2>2 DEF IInv, TypeOK, TypeRest, DockReceive, PcStates, journal, desired, recovery
  <2> QED BY <1>3, <2>1, <2>2
<1>5. /\ pc'[d] \in {"accept", "idle"} /\ (pc'[d] = "accept" => op'[d] \in Messages)
      /\ \A b \in Actors \ {d} : pc'[b] = pc[b] /\ op'[b] = op[b]
  BY <1>1, <1>3 DEF IInv, TypeOK
<1>6. Ownership' /\ Stopped'
  BY <1>1, <1>2, <1>5, OneActorMoves DEF Busy
<1> QED BY <1>2, <1>4, <1>6, Assemble

\* Accepting input: shared by the dock connections and the input worker.
LEMMA AcceptStep ==
  ASSUME IInv, NEW a \in Actors, pc[a] = "accept",
         \/ AcceptFresh(op[a]) /\ Goto(a, "start") /\ UNCHANGED op
         \/ (AcceptKnown(op[a]) \/ AcceptError(op[a])) /\ Drop(a),
         UNCHANGED <<desired, phase, journalErr, verdict, desiredMu, queue, reaping,
                     recovery, reported, disowned, sends, crashes>>
  PROVE  IInv'
<1>1. phase # "down" /\ op[a] \in Messages
  BY DEF IInv, Stopped, Ownership
<1>2. JournalOK' /\ \A j \in Ids : rows[j].state = "running" => Kept(j)
  BY <1>1, AcceptCall DEF IInv, Unresolved
<1>3. faults' \in Nat /\ faulted' \in BOOLEAN
  BY AcceptTyped DEF IInv
<1>4. \/ pc' = [pc EXCEPT ![a] = "start"] /\ op' = op
      \/ pc' = [pc EXCEPT ![a] = "idle"] /\ op' = [op EXCEPT ![a] = NoOp]
  BY DEF Goto, Drop
<1>5. TypeRest'
  BY <1>3, <1>4 DEF IInv, TypeOK, TypeRest, PcStates, desired, recovery
<1>6. /\ pc'[a] \in {"start", "idle"} /\ (pc'[a] = "start" => op'[a] \in Messages)
      /\ \A b \in Actors \ {a} : pc'[b] = pc[b] /\ op'[b] = op[b]
  BY <1>1, <1>4 DEF IInv, TypeOK
<1>7. Ownership' /\ Stopped'
  BY <1>1, <1>2, <1>6, OneActorMoves DEF Busy
<1> QED BY <1>2, <1>5, <1>7, Assemble

\* A dock connection accepts what it will discard.
LEMMA DockAcceptStep ==
  ASSUME IInv, NEW d \in Docks, DockAccept(d)
  PROVE  IInv'
BY AcceptStep, ActorsKnown DEF DockAccept

\* The input worker accepts what it took from the queue.
LEMMA InputAcceptStep ==
  ASSUME IInv, InputAccept
  PROVE  IInv'
BY AcceptStep, ActorsKnown DEF InputAccept

\* A discard touches a pending row, which nobody owns.
LEMMA DockDiscardStep ==
  ASSUME IInv, NEW d \in Docks, DockDiscard(d)
  PROVE  IInv'
<1>1. /\ d \in Actors /\ pc[d] = "start" /\ phase # "down" /\ phase' = phase
      /\ op[d] \in Messages /\ op[d].id \in Ids /\ reaping' = reaping
  BY ActorsKnown DEF DockDiscard, IInv, Stopped, Ownership
<1>2. JournalOK' /\ \A j \in Ids : rows[j].state = "running" => Kept(j)
  BY <1>1, TransitionCall DEF DockDiscard, IInv, States, Terminal
<1>3. faults' \in Nat /\ faulted' \in BOOLEAN
  BY TransitionTyped DEF DockDiscard, IInv
<1>4. pc' \in [Actors -> PcStates] /\ op' \in [Actors -> Messages \cup {NoOp}]
  BY <1>1, DropTyped DEF DockDiscard, IInv
<1>5. TypeRest'
  BY <1>3, <1>4 DEF IInv, TypeOK, TypeRest, DockDiscard, desired, recovery
<1>6. pc'[d] = "idle" /\ \A b \in Actors \ {d} : pc'[b] = pc[b] /\ op'[b] = op[b]
  BY <1>1 DEF DockDiscard, Drop, IInv, TypeOK
<1>7. Ownership' /\ Stopped'
  BY <1>1, <1>2, <1>6, OneActorMoves DEF Busy
<1> QED BY <1>2, <1>5, <1>7, Assemble

\* The input worker takes the head of the queue.
LEMMA InputTakeStep ==
  ASSUME IInv, InputTake
  PROVE  IInv'
<1>1. /\ InputWorker \in Actors /\ pc[InputWorker] = "idle" /\ phase # "down" /\ phase' = phase
      /\ reaping' = reaping
  BY ActorsKnown DEF InputTake, IInv, Stopped
<1>2. JournalOK' /\ \A j \in Ids : Kept(j)
  BY QuietJournal DEF IInv, InputTake, journal
<1>3. Head(queue) \in Messages /\ Tail(queue) \in Seq(Messages)
  BY DEF InputTake, IInv, TypeOK
<1>4. TypeRest'
  BY <1>1, <1>3 DEF IInv, TypeOK, TypeRest, InputTake, Goto, PcStates, journal, desired, recovery
<1>5. /\ pc'[InputWorker] = "accept" /\ op'[InputWorker] \in Messages
      /\ \A b \in Actors \ {InputWorker} : pc'[b] = pc[b] /\ op'[b] = op[b]
  BY <1>1, <1>3 DEF IInv, TypeOK, InputTake, Goto
<1>6. Ownership' /\ Stopped'
  BY <1>1, <1>2, <1>5, OneActorMoves DEF Busy
<1> QED BY <1>2, <1>4, <1>6, Assemble

\* The input worker that wins the compare-and-set owns the row.
LEMMA InputStartStep ==
  ASSUME IInv, InputStart
  PROVE  IInv'
<1> DEFINE a == InputWorker
<1>1. a \in Actors /\ pc[a] = "start" /\ phase # "down" /\ phase' = phase
      /\ op[a] \in Messages /\ op[a].id \in Ids /\ reaping' = reaping
  BY ActorsKnown DEF InputStart, IInv, Stopped, Ownership
<1>2. JournalOK' /\ \A j \in Ids : rows[j].state = "running" => Kept(j)
  BY <1>1, TransitionCall DEF InputStart, IInv, States, Unresolved
<1>3. faults' \in Nat /\ faulted' \in BOOLEAN
  BY TransitionTyped DEF InputStart, IInv
<1>4. \/ /\ Transitioned(op[a].id, "pending", "running")
         /\ pc' = [pc EXCEPT ![a] = "apply"] /\ op' = op
      \/ pc' = [pc EXCEPT ![a] = "idle"] /\ op' = [op EXCEPT ![a] = NoOp]
  BY DEF InputStart, Goto, Drop
<1>5. TypeRest'
  BY <1>1, <1>3, <1>4 DEF IInv, TypeOK, TypeRest, InputStart, PcStates, desired, recovery
<1>6. /\ pc'[a] \in {"apply", "idle"}
      /\ pc'[a] = "apply" => op' = op /\ Transitioned(op[a].id, "pending", "running")
      /\ \A b \in Actors \ {a} : pc'[b] = pc[b] /\ op'[b] = op[b]
  BY <1>1, <1>4 DEF IInv, TypeOK
<1>7. pc'[a] = "apply" => /\ rows[op[a].id].state # "running"
                          /\ rows'[op[a].id].state = "running" /\ execsHere'[op[a].id] = 0
                          /\ rows'[op[a].id].req.policy # "reconcile" => execs'[op[a].id] = 0
  BY <1>1, <1>6, StartedRow
<1>8. Ownership' /\ Stopped'
  BY <1>1, <1>2, <1>6, <1>7, OneActorMoves DEF Busy, Unrun
<1> QED BY <1>2, <1>5, <1>8, Assemble

\* The input worker runs its handler, or hands the row to a reaper.
LEMMA InputApplyStep ==
  ASSUME IInv, InputApply
  PROVE  IInv'
<1> DEFINE a == InputWorker
<1>1. a \in Actors /\ pc[a] = "apply" /\ phase # "down" /\ phase' = phase
      /\ op[a] \in Messages /\ op[a].id \in Ids /\ Unrun(op[a].id) /\ rows' = rows /\ next' = next
  BY ActorsKnown DEF InputApply, IInv, Stopped, Ownership
<1>2. JournalOK' /\ \A j \in Ids : j # op[a].id => Kept(j)
  <2>1. CASE UNCHANGED <<execs, execsHere>>
    BY <1>1, <2>1, QuietJournal DEF IInv
  <2>2. CASE Ran(op[a].id)
    BY <1>1, <2>2, HandlerRun DEF IInv
  <2> QED BY <2>1, <2>2 DEF InputApply
<1>3. \/ /\ pc' = [pc EXCEPT ![a] = "settle"] /\ op' = op /\ reaping' = reaping
         /\ verdict' \in [Actors -> States]
      \/ /\ pc' = [pc EXCEPT ![a] = "idle"] /\ op' = [op EXCEPT ![a] = NoOp]
         /\ reaping' = reaping \cup {op[a]} /\ verdict' = verdict
  BY <1>1 DEF InputApply, Goto, Drop, IInv, TypeOK, States, Terminal, Unresolved, Applied
<1>4. TypeRest'
  BY <1>1, <1>3 DEF IInv, TypeOK, TypeRest, InputApply, PcStates, desired, recovery
<1>5. Ownership' /\ Stopped'
  <2>1. CASE pc' = [pc EXCEPT ![a] = "settle"] /\ op' = op /\ reaping' = reaping
    <3>1. pc'[a] = "settle" /\ \A b \in Actors \ {a} : pc'[b] = pc[b]
      BY <1>1, <2>1 DEF IInv, TypeOK
    <3> QED BY <1>1, <1>2, <2>1, <3>1, OneActorMoves DEF Busy, Unrun
  <2>2. CASE /\ pc' = [pc EXCEPT ![a] = "idle"] /\ op' = [op EXCEPT ![a] = NoOp]
             /\ reaping' = reaping \cup {op[a]}
    <3>1. pc'[a] = "idle" /\ \A b \in Actors \ {a} : pc'[b] = pc[b] /\ op'[b] = op[b]
      BY <1>1, <2>2 DEF IInv, TypeOK
    <3>2. \A b \in Actors : pc'[b] = "apply" => Unrun(op[b].id)'
      <4>1. ASSUME NEW b \in Actors \ {a}, pc[b] = "apply"
            PROVE  Unrun(op[b].id)'
        <5>1. op[b].id \in Ids /\ op[b].id # op[a].id /\ Unrun(op[b].id)
          BY <1>1, <4>1 DEF IInv, Ownership, Busy
        <5> QED BY <1>2, <3>1, <5>1 DEF Unrun, Kept
      <4> QED BY <3>1, <4>1
    <3>3. \A b \in Actors : pc'[b] \in {"apply", "settle"} =>
             /\ b # a /\ Busy(b) /\ op'[b] = op[b] /\ op[b].id # op[a].id
             /\ rows'[op[b].id].state = "running"
      BY <1>1, <3>1 DEF IInv, Ownership, Busy
    <3>4. \A m \in reaping : m.id # op[a].id
      BY <1>1 DEF IInv, Ownership, Busy
    <3>5. rows[op[a].id].state = "running"
      BY <1>1 DEF Unrun
    <3>6. \A b \in Actors : pc'[b] \in {"lock", "accept", "start", "apply", "settle"} => op'[b] \in Messages
      BY <3>1 DEF IInv, Ownership
    <3>7. \A m \in reaping' : /\ rows'[m.id].state = "running"
                              /\ \A b \in Actors : pc'[b] \in {"apply", "settle"} => op'[b].id # m.id
      BY <1>1, <2>2, <3>3, <3>5 DEF IInv, Ownership
    <3>8. \A m, n \in reaping' : m.id = n.id => m = n
      BY <2>2, <3>4 DEF IInv, Ownership
    <3>9. \A b, c \in Actors :
            pc'[b] \in {"apply", "settle"} /\ pc'[c] \in {"apply", "settle"} /\ op'[b].id = op'[c].id
              => b = c
      BY <3>3 DEF IInv, Ownership
    <3> QED BY <1>1, <3>2, <3>3, <3>6, <3>7, <3>8, <3>9 DEF Ownership, Stopped, Busy
  <2> QED BY <1>3, <2>1, <2>2
<1> QED BY <1>2, <1>4, <1>5, Assemble

\* The input worker saves its outcome.
LEMMA InputSettleStep ==
  ASSUME IInv, InputSettle
  PROVE  IInv'
<1> DEFINE a == InputWorker
<1>1. a \in Actors /\ pc[a] = "settle"
  BY ActorsKnown DEF InputSettle
<1>2. pc' \in [Actors -> PcStates] /\ op' \in [Actors -> Messages \cup {NoOp}]
  BY <1>1, DropTyped DEF InputSettle, IInv
<1>3. pc'[a] = "idle" /\ \A b \in Actors \ {a} : pc'[b] = pc[b] /\ op'[b] = op[b]
  BY <1>1 DEF InputSettle, Drop, IInv, TypeOK
<1>4. /\ JournalOK' /\ Ownership' /\ Stopped'
      /\ faults' \in Nat /\ faulted' \in BOOLEAN
  BY <1>1, <1>3, SettleStep DEF InputSettle
<1>5. TypeRest'
  BY <1>2, <1>4 DEF IInv, TypeOK, TypeRest, InputSettle, desired, recovery
<1> QED BY <1>4, <1>5, Assemble

\* A reaper saves the exit status: nobody else is on its row.
LEMMA ReapStep ==
  ASSUME IInv, NEW m \in Messages, Reap(m)
  PROVE  IInv'
<1>1. /\ phase # "down" /\ phase' = phase /\ pc' = pc /\ op' = op
      /\ m \in reaping /\ reaping' = reaping \ {m} /\ m.id \in Ids
  BY DEF Reap, IInv, Stopped
<1>2. PICK v \in {"succeeded", "failed", "uncertain"} :
        Transitioned(m.id, "running", v) \/ NotTransitioned(m.id, "running", v)
  BY DEF Reap
<1>3. v \in States
  BY DEF States, Terminal, Unresolved, Applied
<1>4. JournalOK' /\ \A j \in Ids : j # m.id => Kept(j)
  BY <1>1, <1>2, <1>3, TransitionCall DEF IInv
<1>5. faults' \in Nat /\ faulted' \in BOOLEAN
  BY <1>2, TransitionTyped DEF IInv
<1>6. TypeRest'
  BY <1>1, <1>5 DEF IInv, TypeOK, TypeRest, Reap, desired, recovery
<1>7. \A a \in Actors : Busy(a) => op[a].id \in Ids /\ op[a].id # m.id /\ Kept(op[a].id)
  BY <1>1, <1>4 DEF IInv, Ownership, Busy
<1>8. \A n \in reaping' : n \in reaping /\ n.id \in Ids /\ n.id # m.id /\ Kept(n.id)
  BY <1>1, <1>4 DEF IInv, TypeOK, Ownership
<1>9. Ownership'
  BY <1>1, <1>7, <1>8 DEF IInv, Ownership, Busy, Kept, Unrun
<1> QED BY <1>1, <1>4, <1>6, <1>9, Assemble DEF Stopped

-----------------------------------------------------------------------------
(* Crash and recovery.                                                      *)

\* A crash keeps the table and the runs of every row, and empties the rest.
LEMMA CrashStep ==
  ASSUME IInv, Crash
  PROVE  IInv'
<1>1. /\ rows' = rows /\ next' = next /\ execs' = execs
      /\ execsHere' = [i \in Ids |-> 0]
      /\ pc' = [a \in Actors |-> "idle"] /\ queue' = <<>> /\ reaping' = {}
  BY DEF Crash
<1>2. JournalOK'
  BY <1>1 DEF IInv, JournalOK, Unstarted, AtMostOnce
<1>3. EmptyTable \in [Ids -> Row] /\ "succeeded" \in States
  BY DEF EmptyTable, NoRow, Row, States, Terminal, Applied
<1>4. <<>> \in Seq(Messages)
  OBVIOUS
<1>5. /\ pc' \in [Actors -> PcStates] /\ op' \in [Actors -> Messages \cup {NoOp}]
      /\ verdict' \in [Actors -> States] /\ live' \in [Keys -> Nat] /\ queue' \in Seq(Messages)
  BY <1>3, <1>4 DEF Crash, PcStates
<1>6. TypeRest'
  <2>1. /\ saved' \in [Keys -> Nat] /\ phase' \in {"down", "boot", "up"} /\ journalErr' \in BOOLEAN
        /\ desiredMu' \in Actors \cup {Free} /\ faulted' \in BOOLEAN
    BY DEF IInv, TypeOK, Crash
  <2>2. /\ reaping' \subseteq Messages /\ cursor' \in Nat /\ records' \in [Ids -> Row]
        /\ reported' \subseteq Nat \X States /\ disowned' \subseteq Nat
    BY <1>3 DEF IInv, TypeOK, Crash
  <2>3. sends' \in Nat /\ faults' \in Nat /\ crashes' \in Nat
    BY DEF IInv, TypeOK, Crash
  <2> QED BY <1>5, <2>1, <2>2, <2>3 DEF TypeRest
<1>7. Ownership' /\ Stopped'
  BY <1>1 DEF Ownership, Stopped, Busy
<1> QED BY <1>2, <1>6, <1>7, Assemble

\* The next bus recovers the journal before anyone runs.
LEMMA OpenStep ==
  ASSUME IInv, Open
  PROVE  IInv'
<1>1. /\ phase = "down" /\ phase' = "boot" /\ queue' = queue /\ reaping' = reaping /\ op' = op
      /\ pc' = [pc EXCEPT ![Boot] = "list"]
  BY DEF Open, Goto
<1>2. /\ \A a \in Actors : pc[a] = "idle"
      /\ reaping = {} /\ \A i \in Ids : execsHere[i] = 0
  BY <1>1 DEF IInv, Stopped
<1>3. JournalOK'
  BY <1>2, RecoverCall DEF IInv, Open
<1>4. faults' \in Nat /\ faulted' \in BOOLEAN
  BY CountersTyped DEF IInv, Open
<1>5. journalErr' \in BOOLEAN /\ live' \in [Keys -> Nat]
  BY DEF IInv, TypeOK, Open
<1>6. TypeRest'
  BY <1>1, <1>4, <1>5 DEF IInv, TypeOK, TypeRest, Open, PcStates, recovery
<1>7. \A a \in Actors : pc'[a] \in {"idle", "list"}
  BY <1>1, <1>2 DEF IInv, TypeOK
<1>8. Ownership' /\ Stopped'
  BY <1>1, <1>2, <1>7 DEF Ownership, Stopped, Busy
<1> QED BY <1>3, <1>6, <1>8, Assemble

\* Reading the table changes nothing in it.
LEMMA BootListStep ==
  ASSUME IInv, BootList
  PROVE  IInv'
<1>1. /\ Boot \in Actors /\ phase = "boot" /\ phase' \in {"boot", "up"} /\ pc[Boot] = "list"
      /\ reaping' = reaping /\ op' = op
      /\ \E there \in {"scan", "idle"} : pc' = [pc EXCEPT ![Boot] = there]
      /\ records' = rows \/ records' = records
  BY ActorsKnown DEF BootList, Goto
<1>2. UNCHANGED <<rows, next, execs, execsHere>>
  BY DEF BootList, journal, Failed, Commit, SameRow, IInv, JournalOK
<1>3. JournalOK' /\ \A j \in Ids : Kept(j)
  BY <1>2, QuietJournal DEF IInv
<1>4. faults' \in Nat /\ faulted' \in BOOLEAN
  BY CountersTyped DEF IInv, BootList
<1>5. TypeRest'
  BY <1>1, <1>4 DEF IInv, TypeOK, TypeRest, BootList, PcStates, desired
<1>6. pc'[Boot] \in {"scan", "idle"} /\ \A b \in Actors \ {Boot} : pc'[b] = pc[b]
  BY <1>1 DEF IInv, TypeOK
<1>7. Ownership' /\ Stopped'
  BY <1>1, <1>3, <1>6, OneActorMoves DEF Busy
<1> QED BY <1>3, <1>5, <1>7, Assemble

\* An overtaken choice is discarded from pending: no running row moves.
LEMMA BootSupersedeStep ==
  ASSUME IInv, NEW i \in Ids, phase = "boot", pc[Boot] = "scan", BootSupersede(i)
  PROVE  IInv'
<1>1. /\ Boot \in Actors /\ phase = "boot" /\ phase' = phase /\ pc[Boot] = "scan"
      /\ reaping' = reaping /\ pc' = pc /\ op' = op /\ records[i].seq \in Nat
  BY ActorsKnown DEF BootSupersede, IInv, TypeOK, Row
<1>2. JournalOK' /\ \A j \in Ids : rows[j].state = "running" => Kept(j)
  BY TransitionCall DEF BootSupersede, IInv, States, Terminal
<1>3. faults' \in Nat /\ faulted' \in BOOLEAN
  BY TransitionTyped DEF BootSupersede, IInv
<1>4. TypeRest'
  BY <1>1, <1>3 DEF IInv, TypeOK, TypeRest, BootSupersede, desired
<1>5. Ownership' /\ Stopped'
  BY <1>1, <1>2, OneActorMoves DEF Busy
<1> QED BY <1>2, <1>4, <1>5, Assemble

\* A choice that still stands is started like one just accepted.
LEMMA BootStartStep ==
  ASSUME IInv, NEW i \in Ids, phase = "boot", pc[Boot] = "scan", BootStart(i)
  PROVE  IInv'
<1>1. /\ Boot \in Actors /\ phase = "boot" /\ phase' = phase /\ pc[Boot] = "scan"
      /\ reaping' = reaping /\ records[i].seq \in Nat
  BY ActorsKnown DEF BootStart, IInv, TypeOK, Row
<1>2. JournalOK' /\ \A j \in Ids : rows[j].state = "running" => Kept(j)
  BY TransitionCall DEF BootStart, IInv, States, Unresolved
<1>3. faults' \in Nat /\ faulted' \in BOOLEAN
  BY TransitionTyped DEF BootStart, IInv
<1>4. \/ /\ Transitioned(i, "pending", "running") /\ pc' = [pc EXCEPT ![Boot] = "apply"]
         /\ \E m \in Messages : m.id = i /\ op' = [op EXCEPT ![Boot] = m]
      \/ pc' = pc /\ op' = op
  BY DEF BootStart, Goto
<1>5. pc' \in [Actors -> PcStates] /\ op' \in [Actors -> Messages \cup {NoOp}]
  BY <1>1, <1>4 DEF IInv, TypeOK, PcStates
<1>10. TypeRest'
  BY <1>1, <1>3, <1>5 DEF IInv, TypeOK, TypeRest, BootStart, desired
<1>6. /\ \A b \in Actors \ {Boot} : pc'[b] = pc[b] /\ op'[b] = op[b]
      /\ \/ pc'[Boot] = "scan"
         \/ /\ pc'[Boot] = "apply" /\ op'[Boot] \in Messages /\ op'[Boot].id = i
            /\ Transitioned(i, "pending", "running")
  BY <1>1, <1>4 DEF IInv, TypeOK
<1>7. pc'[Boot] = "apply" => /\ rows[i].state # "running"
                             /\ rows'[i].state = "running" /\ execsHere'[i] = 0
                             /\ rows'[i].req.policy # "reconcile" => execs'[i] = 0
  BY <1>6, StartedRow
<1>8. pc'[Boot] = "apply" => Unrun(op[Boot].id)'
  BY <1>6, <1>7 DEF Unrun
<1>9. Ownership' /\ Stopped'
  BY <1>1, <1>2, <1>6, <1>7, <1>8, OneActorMoves DEF Busy
<1> QED BY <1>2, <1>9, <1>10, Assemble

\* Recovery runs the handler of a choice as a connection does.
LEMMA BootApplyStep ==
  ASSUME IInv, BootApply
  PROVE  IInv'
BY ApplyStep, ActorsKnown DEF BootApply

\* Recovery saves its outcome and goes on scanning.
LEMMA BootSettleStep ==
  ASSUME IInv, BootSettle
  PROVE  IInv'
<1>1. Boot \in Actors /\ pc[Boot] = "settle"
  BY ActorsKnown DEF BootSettle
<1>2. pc'[Boot] = "scan" /\ \A b \in Actors \ {Boot} : pc'[b] = pc[b] /\ op'[b] = op[b]
  BY <1>1 DEF BootSettle, IInv, TypeOK
<1>3. /\ JournalOK' /\ Ownership' /\ Stopped'
      /\ faults' \in Nat /\ faulted' \in BOOLEAN
  BY <1>1, <1>2, SettleStep DEF BootSettle
<1>4. TypeRest'
  BY <1>1, <1>3 DEF IInv, TypeOK, TypeRest, BootSettle, PcStates, desired, recovery
<1> QED BY <1>3, <1>4, Assemble

\* The end of recovery: the bus serves.
LEMMA BootDoneStep ==
  ASSUME IInv, BootDone
  PROVE  IInv'
<1>1. /\ Boot \in Actors /\ phase = "boot" /\ phase' = "up" /\ pc[Boot] = "scan"
      /\ reaping' = reaping /\ op' = op /\ pc' = [pc EXCEPT ![Boot] = "idle"]
  BY ActorsKnown DEF BootDone, Goto
<1>2. JournalOK' /\ \A j \in Ids : Kept(j)
  BY QuietJournal DEF IInv, BootDone, journal
<1>3. TypeRest'
  BY <1>1 DEF IInv, TypeOK, TypeRest, BootDone, PcStates, journal, desired, recovery
<1>4. pc'[Boot] = "idle" /\ \A b \in Actors \ {Boot} : pc'[b] = pc[b]
  BY <1>1 DEF IInv, TypeOK
<1>5. Ownership' /\ Stopped'
  BY <1>1, <1>2, <1>4, OneActorMoves DEF Busy
<1> QED BY <1>2, <1>3, <1>5, Assemble

-----------------------------------------------------------------------------
(* The invariant holds in every behaviour, and with it what it contains.    *)

\* A fresh bus satisfies the invariant: the journal is empty and no one runs.
LEMMA InitIInv == Init => IInv
<1> SUFFICES ASSUME Init PROVE IInv
  OBVIOUS
<1>1. EmptyTable \in [Ids -> Row] /\ \A i \in Ids : EmptyTable[i] = NoRow
  BY DEF EmptyTable, NoRow, Row
<1>2. "succeeded" \in States /\ NoRow.state = Absent /\ NoRow.seq = 0
  BY DEF States, Terminal, Applied, NoRow
<1> /\ pc \in [Actors -> PcStates] /\ op \in [Actors -> Messages \cup {NoOp}]
    /\ verdict \in [Actors -> States] /\ queue \in Seq(Messages)
  <2>1. <<>> \in Seq(Messages)
    OBVIOUS
  <2> QED BY <1>2, <2>1 DEF Init, PcStates
<1>3. TypeOK
  <2>1. /\ saved \in [Keys -> Nat] /\ live \in [Keys -> Nat] /\ phase \in {"down", "boot", "up"}
        /\ journalErr \in BOOLEAN /\ desiredMu \in Actors \cup {Free} /\ faulted \in BOOLEAN
    BY DEF Init
  <2>2. /\ reaping \subseteq Messages /\ cursor \in Nat /\ records \in [Ids -> Row]
        /\ reported \subseteq Nat \X States /\ disowned \subseteq Nat
        /\ sends \in Nat /\ faults \in Nat /\ crashes \in Nat
    BY <1>1 DEF Init
  <2>3. /\ rows \in [Ids -> Row] /\ next \in Nat \ {0}
        /\ execs \in [Ids -> Nat] /\ execsHere \in [Ids -> Nat]
    BY <1>1 DEF Init
  <2> QED BY <2>1, <2>2, <2>3 DEF TypeOK
<1>4. JournalOK
  BY <1>1, <1>2 DEF Init, JournalOK, Unstarted, AtMostOnce, Absent
<1>5. Ownership /\ Stopped
  BY DEF Init, Ownership, Stopped, Busy
<1> QED BY <1>3, <1>4, <1>5 DEF IInv

\* No variable the invariant reads changes in a stutter.
LEMMA StutterStep ==
  ASSUME IInv, UNCHANGED vars
  PROVE  IInv'
<1>1. UNCHANGED <<rows, next, execs, execsHere>> /\ UNCHANGED <<pc, op, phase, queue, reaping>>
  BY DEF vars, journal
<1>2. JournalOK'
  BY <1>1, QuietJournal DEF IInv
<1>3. TypeRest'
  BY DEF IInv, TypeOK, TypeRest, vars, journal, desired, recovery
<1>4. Ownership'
  BY <1>1 DEF IInv, Ownership, Busy, Unrun
<1>5. Stopped'
  BY <1>1 DEF IInv, Stopped
<1> QED BY <1>2, <1>3, <1>4, <1>5, Assemble

\* Every step preserves the invariant: one case per action.
LEMMA StepIInv == IInv /\ [Next]_vars => IInv'
<1> SUFFICES ASSUME IInv, [Next]_vars PROVE IInv'
  OBVIOUS
<1>1. ASSUME NEW a \in Conns, NEW m \in Messages, CtlReceive(a, m) PROVE IInv'
  BY <1>1, CtlReceiveStep
<1>2. ASSUME NEW a \in Conns, CtlStep(a) PROVE IInv'
  BY <1>2, CtlLockStep, CtlAcceptStep, CtlStartStep, CtlApplyStep, CtlSettleStep DEF CtlStep
<1>3. ASSUME NEW i \in Ids, DiscardReviewed(i) PROVE IInv'
  BY <1>3, DiscardReviewedStep
<1>4. ASSUME NEW d \in Docks, NEW m \in Messages, DockReceive(d, m) PROVE IInv'
  BY <1>4, DockReceiveStep
<1>5. ASSUME NEW d \in Docks, DockStep(d) PROVE IInv'
  BY <1>5, DockAcceptStep, DockDiscardStep DEF DockStep
<1>6. CASE InputStep
  BY <1>6, InputTakeStep, InputAcceptStep, InputStartStep, InputApplyStep, InputSettleStep
     DEF InputStep
<1>7. ASSUME NEW m \in Messages, Reap(m) PROVE IInv'
  BY <1>7, ReapStep
<1>8. CASE Crash
  BY <1>8, CrashStep
<1>9. CASE BootStep
  BY <1>9, OpenStep, BootListStep, BootSupersedeStep, BootStartStep, BootApplyStep,
     BootSettleStep, BootDoneStep DEF BootStep, BootReconcile
<1>10. CASE UNCHANGED vars
  BY <1>10, StutterStep
<1> QED BY <1>1, <1>2, <1>3, <1>4, <1>5, <1>6, <1>7, <1>8, <1>9, <1>10 DEF Next

\* The inductive invariant, for any clients, messages, crashes and errors.
THEOREM Inductive == Spec => []IInv
BY InitIInv, StepIInv, PTL DEF Spec

\* Every variable of the bus keeps its type in every behaviour.
THEOREM TypeCorrect == Spec => []TypeOK
<1>1. IInv => TypeOK
  BY DEF IInv
<1> QED BY <1>1, Inductive, PTL

\* The journal's promise: retries, lost replies, discarded copies, journal
\* errors, crashes and recovery never make a handler run an operation twice.
THEOREM AtMostOnceAlways == Spec => []AtMostOnce
<1>1. IInv => AtMostOnce
  BY DEF IInv, JournalOK
<1> QED BY <1>1, Inductive, PTL

\* While the bus runs, a running row has one owner: no two goroutines, and no
\* goroutine and reaper, settle the same operation.
THEOREM OneOwner == Spec => []Ownership
<1>1. IInv => Ownership
  BY DEF IInv
<1> QED BY <1>1, Inductive, PTL
-----------------------------------------------------------------------------
(* What the journal says of the work.  A second invariant, on top of the    *)
(* first: sequences tell operations apart, an actor about to save an        *)
(* outcome has the runs that outcome claims, and so has a reaper.           *)

Sequenced ==
  /\ \A i \in Ids : rows[i].seq < next
  /\ \A i, j \in Ids : rows[i].state # Absent /\ rows[i].seq = rows[j].seq => i = j
  /\ \A p \in reported : p[1] < next

Settled(a) ==
  /\ verdict[a] \in Terminal \cup {"uncertain"}
  /\ verdict[a] \in Applied => execs[op[a].id] >= 1
  /\ verdict[a] = "discarded" /\ rows[op[a].id].req.policy # "reconcile" => execs[op[a].id] = 0

Settling ==
  /\ \A a \in Actors : pc[a] = "settle" => Settled(a)
  /\ \A m \in reaping : execs[m.id] >= 1

OInv == Sequenced /\ Settling /\ OutcomeHonest /\ ReportedOutcomeStands /\ NoOrphanedRun

\* What a step may do to a row: nothing, prune it, insert it, or move it along.
Fresh(j) == /\ rows[j].state = Absent /\ rows'[j].state = "pending"
            /\ rows'[j].seq = next /\ next' = next + 1
Moved(j) == /\ rows[j].state \in Unresolved /\ rows'[j].state \in States
            /\ rows'[j].seq = rows[j].seq /\ rows'[j].req = rows[j].req
RowStep(j) == Kept(j) \/ rows'[j] = NoRow \/ Fresh(j) \/ Moved(j)
RowSteps == /\ \A j \in Ids : RowStep(j)
            /\ \A j, k \in Ids : Fresh(j) /\ Fresh(k) => j = k
            /\ next <= next'

HonestRow(i) ==
  /\ rows[i].state \in Applied => execs[i] >= 1
  /\ /\ rows[i].state = "discarded"
     /\ rows[i].req.policy # "reconcile"
     /\ rows[i].seq \notin disowned
     => execs[i] = 0

\* A report made in this step is of a row as this step leaves it.
ReportStep(p) ==
  \/ p \in reported
  \/ \E i \in Ids, s \in States :
       p = <<rows[i].seq, s>> /\ (s \in Terminal => rows[i].state = Absent \/ rows'[i].state = s)

\* States of rows that are told apart below.
LEMMA StatesApart ==
  /\ Absent \notin States /\ Terminal \cap Unresolved = {} /\ Terminal \subseteq States
  /\ "pending" \notin Terminal /\ "running" \notin Terminal
  /\ Unresolved \subseteq States /\ NoRow.state = Absent /\ NoRow.seq = 0
BY DEF Absent, States, Terminal, Unresolved, Applied, NoRow

\* Sequences go on telling operations apart.
LEMMA SequencedKept ==
  ASSUME IInv, IInv', Sequenced, RowSteps, \A p \in reported' : ReportStep(p)
  PROVE  Sequenced'
<1>1. next \in Nat /\ next' \in Nat /\ next <= next' /\ 0 < next
  BY DEF IInv, TypeOK, RowSteps
<1>2. ASSUME NEW i \in Ids
      PROVE  /\ rows[i].seq \in Nat /\ rows[i].seq < next
             /\ rows[i].state = Absent <=> rows[i].seq = 0
             /\ rows'[i].state = Absent <=> rows'[i].seq = 0
             /\ \/ Fresh(i)
                \/ rows'[i].seq = 0
                \/ rows'[i].seq = rows[i].seq
  <2>1. rows[i].seq \in Nat /\ rows[i].seq < next
    BY DEF IInv, TypeOK, Row, Sequenced
  <2>2. (rows[i].state = Absent <=> rows[i].seq = 0) /\ (rows'[i].state = Absent <=> rows'[i].seq = 0)
    BY DEF IInv, JournalOK
  <2>3. Fresh(i) \/ rows'[i].seq = 0 \/ rows'[i].seq = rows[i].seq
    BY StatesApart DEF RowSteps, RowStep, Kept, Moved
  <2> QED BY <2>1, <2>2, <2>3
<1>3. ASSUME NEW i \in Ids
      PROVE  rows'[i].seq < next'
  <2>1. CASE Fresh(i)
    <3>1. rows'[i].seq = next /\ next' = next + 1
      BY <2>1 DEF Fresh
    <3> QED BY <1>1, <3>1
  <2>2. CASE rows'[i].seq = 0
    BY <1>1, <2>2
  <2>3. CASE rows'[i].seq = rows[i].seq
    <3>1. rows[i].seq \in Nat /\ rows[i].seq < next
      BY <1>2
    <3> HIDE DEF RowSteps
    <3> QED BY <1>1, <2>3, <3>1
  <2> QED BY <1>2, <2>1, <2>2, <2>3
<1>4. ASSUME NEW i \in Ids, NEW j \in Ids, rows'[i].state # Absent, rows'[i].seq = rows'[j].seq
      PROVE  i = j
  <2>1. rows'[i].seq # 0 /\ rows'[j].seq # 0
    BY <1>2, <1>4
  <2>2. \A k \in Ids : Fresh(k) => rows'[k].seq = next
    BY DEF Fresh
  <2>3. rows[i].seq # next /\ rows[j].seq # next
    <3>1. rows[i].seq \in Nat /\ rows[i].seq < next /\ rows[j].seq \in Nat /\ rows[j].seq < next
      BY <1>2
    <3> QED BY <1>1, <3>1
  <2>4. CASE Fresh(i) /\ Fresh(j)
    BY <2>4 DEF RowSteps
  <2>5. CASE Fresh(i) /\ ~ Fresh(j)
    <3>1. rows'[j].seq = rows[j].seq /\ rows'[i].seq = next
      BY <1>2, <2>1, <2>2, <2>5
    <3> QED BY <1>4, <2>3, <3>1
  <2>6. CASE ~ Fresh(i) /\ Fresh(j)
    <3>1. rows'[i].seq = rows[i].seq /\ rows'[j].seq = next
      BY <1>2, <2>1, <2>2, <2>6
    <3> QED BY <1>4, <2>3, <3>1
  <2>7. CASE ~ Fresh(i) /\ ~ Fresh(j)
    <3>1. rows'[j].seq = rows[j].seq /\ rows'[i].seq = rows[i].seq /\ rows[i].state # Absent
      BY <1>2, <2>1, <2>7
    <3> QED BY <1>4, <3>1 DEF Sequenced
  <2> QED BY <2>4, <2>5, <2>6, <2>7
<1>5. ASSUME NEW p \in reported'
      PROVE  p[1] < next'
  <2>1. p[1] \in Nat /\ p[1] < next
    <3>1. CASE p \in reported
      BY <3>1 DEF IInv, TypeOK, Sequenced
    <3>2. ASSUME NEW i \in Ids, NEW s \in States, p = <<rows[i].seq, s>>
          PROVE  p[1] \in Nat /\ p[1] < next
      BY <1>2, <3>2
    <3> QED BY <1>5, <3>1, <3>2 DEF ReportStep
  <2> QED BY <1>1, <2>1
<1> QED BY <1>3, <1>4, <1>5 DEF Sequenced

\* What was reported stays true, and what is reported now is true.
LEMMA ReportsKept ==
  ASSUME IInv, Sequenced, ReportedOutcomeStands, RowSteps, \A p \in reported' : ReportStep(p)
  PROVE  ReportedOutcomeStands'
<1> SUFFICES ASSUME NEW i \in Ids, NEW s \in Terminal,
                    rows'[i].state # Absent, <<rows'[i].seq, s>> \in reported'
             PROVE  rows'[i].state = s
  BY DEF ReportedOutcomeStands
<1>1. ReportStep(<<rows'[i].seq, s>>)
  OBVIOUS
<1>2. ~ Fresh(i)
  <2>1. ASSUME Fresh(i) PROVE FALSE
    <3>1. rows'[i].seq = next /\ next \in Nat
      BY <2>1 DEF Fresh, IInv, TypeOK
    <3>2. CASE <<rows'[i].seq, s>> \in reported
      BY <3>1, <3>2 DEF Sequenced
    <3>3. ASSUME NEW k \in Ids, <<rows'[i].seq, s>> = <<rows[k].seq, s>>
          PROVE  FALSE
      BY <3>1, <3>3 DEF Sequenced
    <3> QED BY <1>1, <3>2, <3>3 DEF ReportStep
  <2> QED BY <2>1
<1>3. rows'[i].seq = rows[i].seq /\ rows[i].state # Absent /\ (rows[i].state \in Terminal => rows'[i].state = rows[i].state)
  BY <1>2, StatesApart DEF RowSteps, RowStep, Kept, Moved
<1>4. CASE <<rows[i].seq, s>> \in reported
  BY <1>3, <1>4 DEF ReportedOutcomeStands
<1>5. ASSUME NEW k \in Ids, rows[i].seq = rows[k].seq, rows[k].state = Absent \/ rows'[k].state = s
      PROVE  rows'[i].state = s
  BY <1>3, <1>5 DEF Sequenced
<1> QED BY <1>1, <1>3, <1>4, <1>5 DEF ReportStep

\* A transition call on the rows: it moves the one row along a legal edge or
\* leaves the table alone, and only an error hides which.
LEMMA TransitionRows ==
  ASSUME IInv, NEW i \in Ids, NEW from, NEW to \in States,
         Transitioned(i, from, to) \/ NotTransitioned(i, from, to)
  PROVE  /\ RowSteps /\ execs' = execs /\ execsHere' = execsHere
         /\ \A j \in Ids : j # i => rows'[j] = rows[j]
         /\ \/ rows'[i] = rows[i] /\ (faulted' \/ ~ CanMove(rows, i, from, to))
            \/ /\ rows[i].state = from /\ rows'[i] = [rows[i] EXCEPT !.state = to]
               /\ faulted' \/ Transitioned(i, from, to)
         /\ faulted => faulted'
         /\ Transitioned(i, from, to) => rows[i].state = from /\ rows'[i].state = to
<1>1. rows \in [Ids -> Row] /\ next \in Nat /\ rows[i] \in Row
  BY DEF IInv, TypeOK
<1>2. \A j \in Ids : SameRow(Move(rows, i, to), j)
  BY <1>1 DEF SameRow, Move, Row
<1>3. /\ execs' = execs /\ execsHere' = execsHere /\ next' = next
      /\ \/ rows' = rows /\ (faulted' \/ ~ CanMove(rows, i, from, to))
         \/ /\ CanMove(rows, i, from, to) /\ rows' = Move(rows, i, to)
            /\ faulted' \/ Transitioned(i, from, to)
      /\ faulted => faulted'
  <2>1. CASE CanMove(rows, i, from, to) /\ Commit(Move(rows, i, to), next)
    <3>1. execs' = execs /\ execsHere' = execsHere /\ next' = next /\ rows' = Move(rows, i, to)
      BY <1>2, <2>1 DEF Commit, IInv, TypeOK
    <3>2. (faulted' = faulted /\ Transitioned(i, from, to)) \/ faulted' = TRUE
      BY <2>1 DEF Transitioned, NotTransitioned, Saved, Failed, journal
    <3> QED BY <2>1, <3>1, <3>2
  <2>2. CASE UNCHANGED <<rows, next, execs, execsHere>>
              /\ (faulted' = TRUE \/ (~ CanMove(rows, i, from, to) /\ faulted' = faulted))
    BY <2>2
  <2> QED BY <2>1, <2>2 DEF Transitioned, NotTransitioned, Saved, Failed, journal
<1>4. CASE rows' = rows /\ (faulted' \/ ~ CanMove(rows, i, from, to))
  <2>1. \A j \in Ids : Kept(j) /\ ~ Fresh(j)
    BY <1>1, <1>3, <1>4 DEF Kept, Fresh, Absent
  <2>2. Transitioned(i, from, to) => rows[i].state = from /\ rows'[i].state = to
    BY <1>1 DEF Transitioned, CanMove, Saved, Commit, Move, Row
  <2> QED BY <1>1, <1>3, <1>4, <2>1, <2>2 DEF RowSteps, RowStep
<1>5. CASE CanMove(rows, i, from, to) /\ rows' = Move(rows, i, to)
           /\ (faulted' \/ Transitioned(i, from, to))
  <2>1. /\ rows[i].state = from /\ from \in Unresolved
        /\ rows'[i] = [rows[i] EXCEPT !.state = to] /\ \A j \in Ids : j # i => rows'[j] = rows[j]
    BY <1>1, <1>5 DEF CanMove, Edges, Unresolved, Move
  <2>2. rows'[i].state = to /\ rows'[i].seq = rows[i].seq /\ rows'[i].req = rows[i].req
    BY <1>1, <2>1 DEF Row
  <2>3. Moved(i) /\ \A j \in Ids : j # i => Kept(j)
    BY <1>3, <2>1, <2>2 DEF Moved, Kept
  <2>4. \A j \in Ids : ~ Fresh(j)
    BY <1>1, <1>3 DEF Fresh
  <2> QED BY <1>1, <1>3, <1>5, <2>1, <2>2, <2>3, <2>4 DEF RowSteps, RowStep
<1> QED BY <1>3, <1>4, <1>5

\* An accept call on the rows: it prunes settled rows and inserts at most one.
LEMMA AcceptRows ==
  ASSUME IInv, NEW m \in Messages,
         AcceptFresh(m) \/ AcceptKnown(m) \/ AcceptError(m)
  PROVE  /\ RowSteps /\ (faulted => faulted')
         /\ \A j \in Ids : Kept(j) \/ rows'[j] = NoRow \/ Fresh(j)
         /\ AcceptKnown(m) => rows' = rows /\ rows[m.id].state \in States
<1>1. rows \in [Ids -> Row] /\ next \in Nat /\ next # 0 /\ m.id \in Ids /\ m.req \in Requests
  BY DEF IInv, TypeOK
<1>2. faulted => faulted'
  BY DEF AcceptFresh, AcceptNew, AcceptPending, AcceptKnown, AcceptError, Saved, Failed, journal
<1>3. AcceptKnown(m) => rows' = rows /\ rows[m.id].state \in States
  BY <1>1 DEF AcceptKnown, journal, Row
<1>4. CASE UNCHANGED <<rows, next, execs, execsHere>>
  <2>1. \A j \in Ids : Kept(j) /\ ~ Fresh(j)
    BY <1>1, <1>4 DEF Kept, Fresh
  <2> QED BY <1>1, <1>2, <1>3, <1>4, <2>1 DEF RowSteps, RowStep
<1>5. CASE ~ Duplicate(rows, m.id) /\ Commit(Insert(rows, m.id, next, m.req), next + 1)
  <2> DEFINE table == Insert(rows, m.id, next, m.req)
             new == [state |-> "pending", seq |-> next, req |-> m.req]
  <2>1. Prune(rows) \in [Ids -> Row] /\
        \A i \in Ids : \/ Prune(rows)[i] = rows[i]
                       \/ Prune(rows)[i] = NoRow /\ rows[i].state \in Terminal
    BY <1>1, RowsOfTables
  <2>2. new \in Row
    BY <1>1 DEF Row, States, Unresolved
  <2>3. table[m.id] = new /\ \A i \in Ids : i # m.id => table[i] = Prune(rows)[i]
    BY <1>1, <2>1, <2>2 DEF Insert
  <2>4. rows[m.id].state = Absent /\ rows' = table /\ next' = next + 1
    BY <1>1, <1>5 DEF Duplicate, Commit
  <2>5. Fresh(m.id)
    BY <2>3, <2>4 DEF Fresh
  <2>6. ASSUME NEW j \in Ids, j # m.id
        PROVE  (Kept(j) \/ rows'[j] = NoRow) /\ ~ Fresh(j)
    <3>1. CASE table[j] = rows[j]
      <4>1. Kept(j)
        BY <1>5, <3>1 DEF Kept, SameRow, Commit
      <4>2. rows'[j].state = rows[j].state
        BY <4>1 DEF Kept
      <4> QED BY <4>1, <4>2 DEF Fresh, Absent
    <3>2. CASE table[j] = NoRow
      BY <2>4, <3>2 DEF Fresh, NoRow, Absent
    <3> QED BY <2>1, <2>3, <2>6, <3>1, <3>2
  <2> QED BY <1>1, <1>2, <1>3, <2>4, <2>5, <2>6 DEF RowSteps, RowStep
<1> QED BY <1>1, <1>2, <1>3, <1>4, <1>5
        DEF AcceptFresh, AcceptNew, AcceptPending, AcceptKnown, AcceptError, Saved, Failed, journal

\* A step of one actor: what it must show for the second invariant to survive.
LEMMA OneActorSettles ==
  ASSUME IInv, IInv', OInv, NEW a \in Actors, phase # "down", faulted => faulted',
         \A b \in Actors \ {a} : pc'[b] = pc[b] /\ op'[b] = op[b] /\ verdict'[b] = verdict[b],
         RowSteps, \A p \in reported' : ReportStep(p), disowned \subseteq disowned',
         \A j \in Ids : rows[j].state = "running" /\ (Busy(a) => j # op[a].id)
                          => execs'[j] = execs[j] /\ rows'[j].req = rows[j].req,
         \A j \in Ids : Kept(j) \/ HonestRow(j)',
         pc'[a] = "settle" => Settled(a)',
         \A m \in reaping' : m \in reaping \/ execs'[m.id] >= 1,
         \A j \in Ids : rows'[j].state = "running" =>
            \/ faulted'
            \/ pc'[a] \in {"apply", "settle"} /\ op'[a].id = j
            \/ \E m \in reaping' : m.id = j
            \/ /\ rows[j].state = "running" /\ (Busy(a) => op[a].id # j)
               /\ \A m \in reaping : m.id = j => m \in reaping'
  PROVE  OInv'
<1>1. Sequenced'
  BY SequencedKept DEF OInv
<1>2. ReportedOutcomeStands'
  BY ReportsKept DEF OInv
<1>3. OutcomeHonest'
  <2>1. ASSUME NEW i \in Ids
        PROVE  HonestRow(i)'
    <3>1. CASE Kept(i)
      BY <3>1 DEF OInv, OutcomeHonest, HonestRow, Kept
    <3> QED BY <3>1
  <2> QED BY <2>1 DEF OutcomeHonest, HonestRow
<1>4. Settling'
  <2>1. ASSUME NEW b \in Actors \ {a}, pc'[b] = "settle"
        PROVE  Settled(b)'
    <3>1. Settled(b) /\ Busy(b) /\ op[b].id \in Ids /\ rows[op[b].id].state = "running"
          /\ (Busy(a) => op[a].id # op[b].id)
      BY <2>1 DEF OInv, Settling, Busy, IInv, Ownership
    <3>2. execs'[op[b].id] = execs[op[b].id] /\ rows'[op[b].id].req = rows[op[b].id].req
      BY <3>1
    <3> QED BY <3>1, <3>2 DEF Settled
  <2>2. ASSUME NEW m \in reaping', m \in reaping
        PROVE  execs'[m.id] >= 1
    <3>1. m.id \in Ids /\ rows[m.id].state = "running" /\ (Busy(a) => op[a].id # m.id) /\ execs[m.id] >= 1
      BY <2>2 DEF IInv, TypeOK, Ownership, OInv, Settling
    <3> QED BY <3>1
  <2> QED BY <2>1, <2>2 DEF Settling
<1>5. NoOrphanedRun'
  <2> SUFFICES ASSUME ~ faulted', NEW j \in Ids, rows'[j].state = "running"
               PROVE  \/ \E b \in Actors : pc'[b] \in {"apply", "settle"} /\ op'[b].id = j
                      \/ \E m \in reaping' : m.id = j
    BY DEF NoOrphanedRun
  <2>1. CASE rows[j].state = "running" /\ (Busy(a) => op[a].id # j)
             /\ \A m \in reaping : m.id = j => m \in reaping'
    <3>1. ~ faulted
      OBVIOUS
    <3>2. \/ \E b \in Actors : Busy(b) /\ op[b].id = j
          \/ \E m \in reaping : m.id = j
      BY <2>1, <3>1 DEF OInv, NoOrphanedRun, Busy
    <3>3. ASSUME NEW b \in Actors, Busy(b), op[b].id = j
          PROVE  pc'[b] \in {"apply", "settle"} /\ op'[b].id = j
      BY <2>1, <3>3 DEF Busy
    <3> QED BY <2>1, <3>2, <3>3
  <2> QED BY <2>1
<1> QED BY <1>1, <1>2, <1>3, <1>4, <1>5 DEF OInv

-----------------------------------------------------------------------------
(* The second invariant, action by action.                                  *)

\* A step that leaves the journal and the reports alone.
LEMMA QuietSettles ==
  ASSUME IInv, IInv', OInv, NEW a \in Actors, phase # "down", faulted => faulted',
         UNCHANGED <<rows, next, execs, execsHere>>,
         UNCHANGED <<reported, disowned, reaping, verdict>>,
         \A b \in Actors \ {a} : pc'[b] = pc[b] /\ op'[b] = op[b],
         ~ Busy(a), pc'[a] \notin {"apply", "settle"}
  PROVE  OInv'
<1>1. next \in Nat /\ \A j \in Ids : Kept(j)
  BY DEF Kept, IInv, TypeOK
<1>2. RowSteps
  BY <1>1 DEF RowSteps, RowStep, Fresh
<1>3. \A p \in reported' : ReportStep(p)
  BY DEF ReportStep
<1> QED BY <1>1, <1>2, <1>3, OneActorSettles

\* An accept call, whatever it reports about the row it finds.
LEMMA AcceptSettles ==
  ASSUME IInv, IInv', OInv, NEW a \in Actors, pc[a] = "accept", phase # "down", op[a] \in Messages,
         AcceptFresh(op[a]) \/ AcceptKnown(op[a]) \/ AcceptError(op[a]),
         \A b \in Actors \ {a} : pc'[b] = pc[b] /\ op'[b] = op[b],
         pc'[a] \in {"start", "idle"}, UNCHANGED <<disowned, reaping, verdict>>,
         \/ reported' = reported
         \/ AcceptKnown(op[a]) /\ reported' = reported \cup {<<rows[op[a].id].seq, rows[op[a].id].state>>}
  PROVE  OInv'
<1>1. /\ RowSteps /\ (faulted => faulted') /\ op[a].id \in Ids
      /\ \A j \in Ids : Kept(j) \/ rows'[j] = NoRow \/ Fresh(j)
  BY AcceptRows
<1>2. \A p \in reported' : ReportStep(p)
  <2>1. CASE reported' = reported
    BY <2>1 DEF ReportStep
  <2>2. CASE AcceptKnown(op[a]) /\ reported' = reported \cup {<<rows[op[a].id].seq, rows[op[a].id].state>>}
    <3>1. rows' = rows /\ rows[op[a].id].state \in States
      BY <2>2, AcceptRows
    <3> QED BY <1>1, <2>2, <3>1 DEF ReportStep
  <2> QED BY <2>1, <2>2
<1>3. \A j \in Ids : Kept(j) \/ HonestRow(j)'
  BY <1>1, StatesApart DEF HonestRow, NoRow, Fresh, Absent, Applied
<1>4. \A j \in Ids : rows[j].state = "running" => Kept(j)
  BY AcceptCall DEF IInv, Unresolved
<1>5. \A j \in Ids : rows'[j].state = "running" => rows[j].state = "running"
  BY <1>1 DEF Kept, NoRow, Fresh, Absent
<1>6. ~ Busy(a)
  BY DEF Busy
<1> QED BY <1>1, <1>2, <1>3, <1>4, <1>5, <1>6, OneActorSettles DEF Kept

\* A start or a discard: the row was pending, and has not run for nothing.
LEMMA PendingSettles ==
  ASSUME IInv, IInv', OInv, NEW a \in Actors, ~ Busy(a), phase # "down", NEW i \in Ids,
         NEW to \in {"running", "discarded"},
         Transitioned(i, "pending", to) \/ NotTransitioned(i, "pending", to),
         \A b \in Actors \ {a} : pc'[b] = pc[b] /\ op'[b] = op[b],
         pc'[a] # "settle",
         pc'[a] = "apply" \/ to = "discarded" \/ NotTransitioned(i, "pending", to),
         pc'[a] = "apply" => op'[a].id = i,
         UNCHANGED <<reported, disowned, reaping, verdict>>
  PROVE  OInv'
<1>1. to \in States
  BY DEF States, Terminal, Unresolved
<1>2. /\ RowSteps /\ execs' = execs /\ execsHere' = execsHere /\ (faulted => faulted')
      /\ \A j \in Ids : j # i => rows'[j] = rows[j]
      /\ \/ rows'[i] = rows[i]
         \/ /\ rows[i].state = "pending" /\ rows'[i] = [rows[i] EXCEPT !.state = to]
            /\ faulted' \/ Transitioned(i, "pending", to)
  BY <1>1, TransitionRows
<1>3. \A p \in reported' : ReportStep(p)
  BY DEF ReportStep
<1>4. rows'[i] # rows[i] => rows'[i].state = to /\ rows'[i].req = rows[i].req
  <2>1. rows[i] \in Row
    BY DEF IInv, TypeOK
  <2>2. [rows[i] EXCEPT !.state = to].state = to /\ [rows[i] EXCEPT !.state = to].req = rows[i].req
    BY <2>1 DEF Row
  <2> QED BY <1>2, <2>2
<1>5. \A j \in Ids : Kept(j) \/ HonestRow(j)'
  <2>1. ASSUME rows'[i] # rows[i] PROVE HonestRow(i)'
    <3>1. rows[i].state = "pending" /\ rows'[i].state = to /\ rows'[i].req = rows[i].req /\ execs'[i] = execs[i]
      BY <1>2, <1>4, <2>1
    <3>2. rows[i].req.policy # "reconcile" => execs[i] = 0
      BY <3>1 DEF IInv, JournalOK, Unstarted
    <3> QED BY <3>1, <3>2 DEF HonestRow, Applied
  <2> QED BY <1>2, <2>1 DEF Kept
<1>6. \A j \in Ids : rows[j].state = "running" => Kept(j)
  BY <1>2 DEF Kept
<1>7. \A j \in Ids : rows'[j].state = "running" =>
         \/ rows[j].state = "running"
         \/ faulted'
         \/ pc'[a] = "apply" /\ op'[a].id = j
  <2>1. NotTransitioned(i, "pending", to) => faulted' \/ rows' = rows
    BY DEF NotTransitioned, Failed, journal
  <2> QED BY <1>2, <1>4, <2>1
<1> QED BY <1>2, <1>3, <1>5, <1>6, <1>7, OneActorSettles DEF Kept

\* Saving an outcome the actor or the reaper can answer for.
LEMMA OutcomeSettles ==
  ASSUME IInv, IInv', OInv, NEW a \in Actors, phase # "down", NEW i \in Ids,
         NEW v \in Terminal \cup {"uncertain"}, rows[i].state = "running",
         Transitioned(i, "running", v) \/ NotTransitioned(i, "running", v),
         v \in Applied => execs[i] >= 1,
         v = "discarded" /\ rows[i].req.policy # "reconcile" => execs[i] = 0,
         \A b \in Actors \ {a} : pc'[b] = pc[b] /\ op'[b] = op[b],
         \A b \in Actors : Busy(b) => (op[b].id = i <=> b = a),
         pc'[a] \in {"apply", "settle"} => FALSE,
         UNCHANGED <<disowned, verdict>>,
         \A m \in reaping' : m \in reaping,
         \A m \in reaping : m.id = i \/ m \in reaping',
         \/ reported' = reported
         \/ reported' = reported \cup {<<rows[i].seq, "uncertain">>}
         \/ Transitioned(i, "running", v) /\ reported' = reported \cup {<<rows[i].seq, v>>}
  PROVE  OInv'
<1>1. v \in States /\ "uncertain" \in States /\ "uncertain" \notin Terminal
  BY DEF States, Terminal, Unresolved, Applied
<1>2. CanMove(rows, i, "running", v)
  BY DEF CanMove, Edges, Terminal, Applied
<1>3. /\ RowSteps /\ execs' = execs /\ execsHere' = execsHere /\ (faulted => faulted')
      /\ \A j \in Ids : j # i => rows'[j] = rows[j]
      /\ \/ rows'[i] = rows[i] /\ faulted'
         \/ rows'[i] = [rows[i] EXCEPT !.state = v]
      /\ Transitioned(i, "running", v) => rows'[i].state = v
  BY <1>1, <1>2, TransitionRows
<1>4. rows'[i].req = rows[i].req /\ ((rows'[i] = rows[i] /\ faulted') \/ rows'[i].state = v)
  <2>1. rows[i] \in Row
    BY DEF IInv, TypeOK
  <2>2. [rows[i] EXCEPT !.state = v].state = v /\ [rows[i] EXCEPT !.state = v].req = rows[i].req
    BY <2>1 DEF Row
  <2> QED BY <1>3, <2>2
<1>5. \A p \in reported' : ReportStep(p)
  BY <1>1, <1>3 DEF ReportStep
<1>6. \A j \in Ids : Kept(j) \/ HonestRow(j)'
  <2>1. ASSUME rows'[i].state = v PROVE HonestRow(i)'
    BY <1>3, <1>4, <2>1 DEF HonestRow
  <2> QED BY <1>3, <1>4, <2>1 DEF Kept
<1>7. \A j \in Ids : rows[j].state = "running" => execs'[j] = execs[j] /\ rows'[j].req = rows[j].req
  BY <1>3, <1>4
<1>8. ASSUME NEW j \in Ids, rows'[j].state = "running", ~ faulted'
      PROVE  rows[j].state = "running" /\ j # i
  <2>1. j # i
    BY <1>3, <1>4, <1>8, StatesApart
  <2> QED BY <1>3, <1>8, <2>1
<1>9. \A j \in Ids : rows'[j].state = "running" =>
         \/ faulted'
         \/ /\ rows[j].state = "running" /\ (Busy(a) => op[a].id # j)
            /\ \A m \in reaping : m.id = j => m \in reaping'
  BY <1>8
<1> QED BY <1>3, <1>5, <1>6, <1>7, <1>9, OneActorSettles

\* A handler run by the actor that owns the row, with the outcome it leaves.
LEMMA HandlerSettles ==
  ASSUME IInv, IInv', OInv, NEW a \in Actors, pc[a] = "apply", phase # "down",
         op[a] \in Messages, rows' = rows, next' = next,
         \/ Ran(op[a].id)
         \/ UNCHANGED <<execs, execsHere>> /\ pc'[a] = "settle" /\ verdict'[a] \notin Applied,
         pc'[a] = "settle" => /\ verdict'[a] \in Terminal \cup {"uncertain"}
                              /\ Ran(op[a].id) => verdict'[a] # "discarded",
         \/ pc'[a] = "settle" /\ op'[a] = op[a] /\ reaping' = reaping
         \/ pc'[a] = "idle" /\ reaping' = reaping \cup {op[a]} /\ Ran(op[a].id),
         \A b \in Actors \ {a} : pc'[b] = pc[b] /\ op'[b] = op[b] /\ verdict'[b] = verdict[b],
         faulted' = faulted, UNCHANGED <<reported, disowned>>
  PROVE  OInv'
<1>1. op[a].id \in Ids /\ Unrun(op[a].id) /\ execs[op[a].id] \in Nat /\ next \in Nat
  BY DEF IInv, Ownership, TypeOK
<1>2. \A j \in Ids : j # op[a].id => Kept(j)
  BY DEF Kept, Ran, IInv, TypeOK
<1>3. /\ Ran(op[a].id) => execs'[op[a].id] = execs[op[a].id] + 1
      /\ UNCHANGED execs => execs'[op[a].id] = execs[op[a].id]
  BY <1>1 DEF Ran, IInv, TypeOK
<1>4. RowSteps
  <2>1. Moved(op[a].id)
    BY <1>1 DEF Moved, Unrun, Unresolved, States
  <2>2. \A j \in Ids : ~ Fresh(j)
    BY <1>1 DEF Fresh
  <2> QED BY <1>1, <1>2, <2>1, <2>2 DEF RowSteps, RowStep
<1>5. \A p \in reported' : ReportStep(p)
  BY DEF ReportStep
<1>6. \A j \in Ids : Kept(j) \/ HonestRow(j)'
  <2>1. \A j \in Ids : rows'[j].state = "running" => HonestRow(j)'
    BY DEF HonestRow, Applied
  <2> QED BY <1>1, <1>2, <2>1 DEF Unrun
<1>7. pc'[a] = "settle" => Settled(a)'
  <2> SUFFICES ASSUME pc'[a] = "settle" PROVE Settled(a)'
    OBVIOUS
  <2>1. op'[a] = op[a]
    OBVIOUS
  <2>2. CASE Ran(op[a].id)
    BY <1>1, <1>3, <2>1, <2>2 DEF Settled
  <2>3. CASE UNCHANGED <<execs, execsHere>> /\ verdict'[a] \notin Applied
    BY <1>1, <1>3, <2>1, <2>3 DEF Settled, Unrun
  <2> QED BY <2>2, <2>3
<1>8. \A m \in reaping' : m \in reaping \/ execs'[m.id] >= 1
  BY <1>1, <1>3
<1>9. \A j \in Ids : rows[j].state = "running" /\ (Busy(a) => j # op[a].id)
        => execs'[j] = execs[j] /\ rows'[j].req = rows[j].req
  BY <1>2 DEF Busy, Kept
<1>10. \A j \in Ids : rows'[j].state = "running" =>
         \/ pc'[a] \in {"apply", "settle"} /\ op'[a].id = j
         \/ \E m \in reaping' : m.id = j
         \/ /\ rows[j].state = "running" /\ (Busy(a) => op[a].id # j)
            /\ \A m \in reaping : m.id = j => m \in reaping'
  BY <1>1
<1> QED BY <1>4, <1>5, <1>6, <1>7, <1>8, <1>9, <1>10, OneActorSettles

\* A reply lets go of the message and adds what it claims to the reports.
LEMMA ReplyFrame ==
  ASSUME TypeOK, NEW a \in Actors, NEW S, Reply(a, S)
  PROVE  /\ pc'[a] = "idle" /\ \A b \in Actors \ {a} : pc'[b] = pc[b] /\ op'[b] = op[b]
         /\ S = {} => reported' = reported
         /\ \A s : S = {s} => reported' = reported \cup {<<rows[op[a].id].seq, s>>}
<1>1. pc'[a] = "idle" /\ \A b \in Actors \ {a} : pc'[b] = pc[b] /\ op'[b] = op[b]
  BY DEF Reply, TypeOK
<1>2. reported' = reported \cup {<<rows[op[a].id].seq, s>> : s \in S}
  BY DEF Reply
<1>3. S = {} => reported' = reported
  BY <1>2
<1>4. ASSUME NEW s, S = {s}
      PROVE  reported' = reported \cup {<<rows[op[a].id].seq, s>>}
  BY <1>2, <1>4
<1> QED BY <1>1, <1>3, <1>4

\* Control connections.
LEMMA CtlSettles ==
  ASSUME IInv, IInv', OInv, NEW a \in Conns, CtlStep(a)
  PROVE  OInv'
<1>1. a \in Actors
  BY ActorsKnown
<1>2. CASE CtlLock(a)
  <2>1. /\ phase # "down" /\ ~ Busy(a)
        /\ pc'[a] = "accept" /\ \A b \in Actors \ {a} : pc'[b] = pc[b] /\ op'[b] = op[b]
    BY <1>1, <1>2 DEF CtlLock, Goto, Busy, IInv, TypeOK, Stopped
  <2> QED BY <1>1, <1>2, <2>1, QuietSettles DEF CtlLock, journal
<1>3. CASE CtlAccept(a)
  <2>1. pc[a] = "accept" /\ phase # "down" /\ op[a] \in Messages
    BY <1>1, <1>3 DEF CtlAccept, IInv, Stopped, Ownership
  <2>2. \/ pc' = [pc EXCEPT ![a] = "start"] /\ UNCHANGED <<op, reported>>
        \/ AcceptKnown(op[a]) /\ Reply(a, {rows[op[a].id].state})
        \/ Reply(a, {})
    BY <1>3 DEF CtlAccept, Goto
  <2>3. UNCHANGED <<disowned, reaping, verdict>>
    BY <1>3 DEF CtlAccept
  <2>4. /\ pc'[a] \in {"start", "idle"} /\ \A b \in Actors \ {a} : pc'[b] = pc[b] /\ op'[b] = op[b]
        /\ \/ reported' = reported
           \/ AcceptKnown(op[a]) /\ reported' = reported \cup {<<rows[op[a].id].seq, rows[op[a].id].state>>}
    BY <1>1, <2>2, ReplyFrame DEF IInv, TypeOK
  <2> QED BY <1>1, <1>3, <2>1, <2>3, <2>4, AcceptSettles DEF CtlAccept
<1>4. CASE CtlStart(a)
  <2>1. phase # "down" /\ ~ Busy(a) /\ op[a].id \in Ids
    BY <1>1, <1>4 DEF CtlStart, Busy, IInv, Stopped, Ownership
  <2>2. \/ /\ Transitioned(op[a].id, "pending", "running")
           /\ pc' = [pc EXCEPT ![a] = "apply"] /\ UNCHANGED <<op, reported>>
        \/ NotTransitioned(op[a].id, "pending", "running") /\ Reply(a, {})
    BY <1>4 DEF CtlStart, Goto
  <2>3. UNCHANGED <<disowned, reaping, verdict>>
    BY <1>4 DEF CtlStart
  <2>4. /\ \A b \in Actors \ {a} : pc'[b] = pc[b] /\ op'[b] = op[b]
        /\ pc'[a] \in {"apply", "idle"} /\ (pc'[a] = "apply" => op'[a] = op[a])
        /\ reported' = reported
    BY <1>1, <2>2, ReplyFrame DEF IInv, TypeOK
  <2>5. /\ Transitioned(op[a].id, "pending", "running") \/ NotTransitioned(op[a].id, "pending", "running")
        /\ pc'[a] = "apply" \/ NotTransitioned(op[a].id, "pending", "running")
    BY <1>1, <2>2 DEF IInv, TypeOK
  <2> DEFINE i == op[a].id
  <2>6. i \in Ids /\ (pc'[a] = "apply" => op'[a].id = i)
    BY <2>1, <2>4
  <2> HIDE DEF i
  <2> QED BY <1>1, <2>1, <2>3, <2>4, <2>5, <2>6, PendingSettles DEF i
<1>5. CASE CtlApply(a)
  <2>1. pc[a] = "apply" /\ phase # "down" /\ op[a] \in Messages
    BY <1>1, <1>5 DEF CtlApply, IInv, Stopped, Ownership
  <2>2. PICK v \in States : HandleCtl(a, v)
    BY <1>5 DEF CtlApply
  <2>3. v \in Terminal \cup {"uncertain"} /\ v # "discarded"
    BY <2>2 DEF HandleCtl, ApplyOther, ApplyDesired, Terminal, Applied
  <2>4. /\ pc'[a] = "settle" /\ verdict'[a] = v /\ Ran(op[a].id)
        /\ \A b \in Actors \ {a} : pc'[b] = pc[b] /\ verdict'[b] = verdict[b]
    BY <1>1, <1>5, <2>2 DEF CtlApply, HandleCtl, Goto, IInv, TypeOK
  <2> QED BY <1>1, <1>5, <2>1, <2>3, <2>4, HandlerSettles DEF CtlApply
<1>6. CASE CtlSettle(a)
  <2>1. /\ pc[a] = "settle" /\ phase # "down" /\ op[a].id \in Ids /\ rows[op[a].id].state = "running"
        /\ Settled(a)
        /\ \A b \in Actors : Busy(b) => (op[b].id = op[a].id <=> b = a)
        /\ \A m \in reaping : m.id # op[a].id
    BY <1>1, <1>6 DEF CtlSettle, IInv, Stopped, Ownership, Busy, OInv, Settling
  <2>2. /\ \A b \in Actors \ {a} : pc'[b] = pc[b] /\ op'[b] = op[b]
        /\ pc'[a] = "idle" /\ UNCHANGED <<disowned, reaping, verdict>>
        /\ Transitioned(op[a].id, "running", verdict[a]) \/ NotTransitioned(op[a].id, "running", verdict[a])
        /\ \/ reported' = reported \cup {<<rows[op[a].id].seq, "uncertain">>}
           \/ /\ Transitioned(op[a].id, "running", verdict[a])
              /\ reported' = reported \cup {<<rows[op[a].id].seq, verdict[a]>>}
    BY <1>1, <1>6, ReplyFrame DEF CtlSettle, IInv
  <2> QED BY <1>1, <2>1, <2>2, OutcomeSettles DEF Settled
<1> QED BY <1>2, <1>3, <1>4, <1>5, <1>6 DEF CtlStep

\* Dock connections.
LEMMA DockSettles ==
  ASSUME IInv, IInv', OInv, NEW d \in Docks, DockStep(d)
  PROVE  OInv'
<1>1. d \in Actors
  BY ActorsKnown
<1>2. CASE DockAccept(d)
  <2>1. pc[d] = "accept" /\ phase # "down" /\ op[d] \in Messages
    BY <1>1, <1>2 DEF DockAccept, IInv, Stopped, Ownership
  <2>2. pc'[d] \in {"start", "idle"} /\ \A b \in Actors \ {d} : pc'[b] = pc[b] /\ op'[b] = op[b]
    BY <1>1, <1>2 DEF DockAccept, Goto, Drop, IInv, TypeOK
  <2> QED BY <1>1, <1>2, <2>1, <2>2, AcceptSettles DEF DockAccept
<1>3. CASE DockDiscard(d)
  <2>1. phase # "down" /\ ~ Busy(d) /\ op[d].id \in Ids
    BY <1>1, <1>3 DEF DockDiscard, Busy, IInv, Stopped, Ownership
  <2>2. pc'[d] = "idle" /\ \A b \in Actors \ {d} : pc'[b] = pc[b] /\ op'[b] = op[b]
    BY <1>1, <1>3 DEF DockDiscard, Drop, IInv, TypeOK
  <2> QED BY <1>1, <1>3, <2>1, <2>2, PendingSettles DEF DockDiscard
<1> QED BY <1>2, <1>3 DEF DockStep

\* The input worker.
LEMMA InputSettles ==
  ASSUME IInv, IInv', OInv, InputStep
  PROVE  OInv'
<1> DEFINE a == InputWorker
<1>1. a \in Actors
  BY ActorsKnown
<1>2. CASE InputTake
  <2>1. /\ phase # "down" /\ ~ Busy(a)
        /\ pc'[a] = "accept" /\ \A b \in Actors \ {a} : pc'[b] = pc[b] /\ op'[b] = op[b]
    BY <1>1, <1>2 DEF InputTake, Goto, Busy, IInv, TypeOK, Stopped
  <2> QED BY <1>1, <1>2, <2>1, QuietSettles DEF InputTake, journal
<1>3. CASE InputAccept
  <2>1. pc[a] = "accept" /\ phase # "down" /\ op[a] \in Messages
    BY <1>1, <1>3 DEF InputAccept, IInv, Stopped, Ownership
  <2>2. pc'[a] \in {"start", "idle"} /\ \A b \in Actors \ {a} : pc'[b] = pc[b] /\ op'[b] = op[b]
    BY <1>1, <1>3 DEF InputAccept, Goto, Drop, IInv, TypeOK
  <2> QED BY <1>1, <1>3, <2>1, <2>2, AcceptSettles DEF InputAccept
<1>4. CASE InputStart
  <2>1. phase # "down" /\ ~ Busy(a) /\ op[a].id \in Ids
    BY <1>1, <1>4 DEF InputStart, Busy, IInv, Stopped, Ownership
  <2>2. \/ /\ Transitioned(op[a].id, "pending", "running")
           /\ pc' = [pc EXCEPT ![a] = "apply"] /\ UNCHANGED op
        \/ NotTransitioned(op[a].id, "pending", "running") /\ Drop(a)
    BY <1>4 DEF InputStart, Goto
  <2>3. UNCHANGED <<reported, disowned, reaping, verdict>>
    BY <1>4 DEF InputStart
  <2>4. /\ \A b \in Actors \ {a} : pc'[b] = pc[b] /\ op'[b] = op[b]
        /\ pc'[a] \in {"apply", "idle"} /\ (pc'[a] = "apply" => op'[a] = op[a])
    BY <1>1, <2>2 DEF Drop, IInv, TypeOK
  <2>5. /\ Transitioned(op[a].id, "pending", "running") \/ NotTransitioned(op[a].id, "pending", "running")
        /\ pc'[a] = "apply" \/ NotTransitioned(op[a].id, "pending", "running")
    BY <1>1, <2>2 DEF IInv, TypeOK
  <2> DEFINE i == op[a].id
  <2>6. i \in Ids /\ (pc'[a] = "apply" => op'[a].id = i)
    BY <2>1, <2>4
  <2> HIDE DEF i
  <2> QED BY <1>1, <2>1, <2>3, <2>4, <2>5, <2>6, PendingSettles DEF i
<1>5. CASE InputApply
  <2>1. pc[a] = "apply" /\ phase # "down" /\ op[a] \in Messages /\ rows' = rows /\ next' = next
    BY <1>1, <1>5 DEF InputApply, IInv, Stopped, Ownership
  <2>2. /\ \A b \in Actors \ {a} : pc'[b] = pc[b] /\ op'[b] = op[b] /\ verdict'[b] = verdict[b]
        /\ faulted' = faulted /\ UNCHANGED <<reported, disowned>>
        /\ \/ /\ pc'[a] = "settle" /\ op'[a] = op[a] /\ reaping' = reaping
              /\ UNCHANGED <<execs, execsHere>> /\ verdict'[a] \in {"discarded", "failed"}
           \/ /\ pc'[a] = "settle" /\ op'[a] = op[a] /\ reaping' = reaping
              /\ Ran(op[a].id) /\ verdict'[a] \in {"succeeded", "dispatched", "failed", "uncertain"}
           \/ pc'[a] = "idle" /\ reaping' = reaping \cup {op[a]} /\ Ran(op[a].id)
    BY <1>1, <1>5 DEF InputApply, Goto, Drop, IInv, TypeOK
  <2>3. ~ (Ran(op[a].id) /\ UNCHANGED <<execs, execsHere>>)
    <3>1. op[a].id \in Ids /\ execs \in [Ids -> Nat]
      BY <2>1 DEF IInv, TypeOK
    <3> QED BY <3>1 DEF Ran
  <2>4. pc'[a] = "settle" => /\ verdict'[a] \in Terminal \cup {"uncertain"}
                             /\ Ran(op[a].id) => verdict'[a] # "discarded"
    BY <2>2, <2>3 DEF Terminal, Applied
  <2>5. \/ Ran(op[a].id)
        \/ UNCHANGED <<execs, execsHere>> /\ pc'[a] = "settle" /\ verdict'[a] \notin Applied
    BY <2>2 DEF Applied
  <2> QED BY <1>1, <2>1, <2>2, <2>4, <2>5, HandlerSettles
<1>6. CASE InputSettle
  <2>1. /\ pc[a] = "settle" /\ phase # "down" /\ op[a].id \in Ids /\ rows[op[a].id].state = "running"
        /\ Settled(a)
        /\ \A b \in Actors : Busy(b) => (op[b].id = op[a].id <=> b = a)
        /\ \A m \in reaping : m.id # op[a].id
    BY <1>1, <1>6 DEF InputSettle, IInv, Stopped, Ownership, Busy, OInv, Settling
  <2>2. /\ \A b \in Actors \ {a} : pc'[b] = pc[b] /\ op'[b] = op[b]
        /\ pc'[a] = "idle" /\ UNCHANGED <<disowned, reaping, verdict, reported>>
        /\ Transitioned(op[a].id, "running", verdict[a]) \/ NotTransitioned(op[a].id, "running", verdict[a])
    BY <1>1, <1>6 DEF InputSettle, Drop, IInv, TypeOK
  <2> QED BY <1>1, <2>1, <2>2, OutcomeSettles DEF Settled
<1> QED BY <1>2, <1>3, <1>4, <1>5, <1>6 DEF InputStep

\* A step of nobody's pc: a reaper's, or the operator's.
LEMMA BystanderSettles ==
  ASSUME IInv, IInv', OInv, phase # "down", UNCHANGED <<pc, op, verdict>>, faulted => faulted',
         RowSteps, execs' = execs, \A p \in reported' : ReportStep(p), disowned \subseteq disowned',
         \A j \in Ids : rows[j].state = "running" => rows'[j].req = rows[j].req,
         \A j \in Ids : Kept(j) \/ HonestRow(j)',
         reaping' \subseteq reaping,
         \A j \in Ids : rows'[j].state = "running" =>
            \/ faulted'
            \/ rows[j].state = "running" /\ \A m \in reaping : m.id = j => m \in reaping'
  PROVE  OInv'
<1> DEFINE a == InputWorker
<1>1. a \in Actors
  BY ActorsKnown
<1>2. pc'[a] = "settle" => Settled(a)'
  <2> SUFFICES ASSUME pc[a] = "settle" PROVE Settled(a)'
    OBVIOUS
  <2>1. Settled(a) /\ op[a].id \in Ids /\ rows[op[a].id].state = "running"
    BY <1>1 DEF OInv, Settling, IInv, Ownership, Busy
  <2> QED BY <2>1 DEF Settled
<1>3. \A j \in Ids : rows'[j].state = "running" =>
         \/ faulted'
         \/ pc'[a] \in {"apply", "settle"} /\ op'[a].id = j
         \/ /\ rows[j].state = "running" /\ (Busy(a) => op[a].id # j)
            /\ \A m \in reaping : m.id = j => m \in reaping'
  BY DEF Busy
<1> QED BY <1>1, <1>2, <1>3, OneActorSettles

\* A reaper saves an exit status: its subprocess did run.
LEMMA ReapSettles ==
  ASSUME IInv, IInv', OInv, NEW m \in Messages, Reap(m)
  PROVE  OInv'
<1>1. /\ phase # "down" /\ m \in reaping /\ reaping' = reaping \ {m} /\ m.id \in Ids
      /\ rows[m.id].state = "running" /\ execs[m.id] >= 1
      /\ UNCHANGED <<pc, op, verdict, reported, disowned>>
      /\ \A n \in reaping : n.id = m.id => n = m
  BY DEF Reap, IInv, Stopped, Ownership, OInv, Settling
<1> DEFINE i == m.id
<1>2. PICK v \in {"succeeded", "failed", "uncertain"} :
        Transitioned(i, "running", v) \/ NotTransitioned(i, "running", v)
  BY DEF Reap
<1>3. v \in States /\ CanMove(rows, i, "running", v)
  BY <1>1 DEF States, Terminal, Unresolved, Applied, CanMove, Edges
<1>4. i \in Ids
  BY <1>1
<1> HIDE DEF i
<1>5. /\ RowSteps /\ execs' = execs /\ execsHere' = execsHere /\ (faulted => faulted')
      /\ \A j \in Ids : j # i => rows'[j] = rows[j]
      /\ \/ rows'[i] = rows[i] /\ faulted'
         \/ rows'[i] = [rows[i] EXCEPT !.state = v]
  BY <1>2, <1>3, <1>4, TransitionRows
<1>6. rows'[i].req = rows[i].req /\ ((rows'[i] = rows[i] /\ faulted') \/ rows'[i].state = v)
  <2>1. rows[i] \in Row
    BY <1>4 DEF IInv, TypeOK
  <2>2. [rows[i] EXCEPT !.state = v].state = v /\ [rows[i] EXCEPT !.state = v].req = rows[i].req
    BY <2>1 DEF Row
  <2> QED BY <1>5, <2>2
<1>7. \A j \in Ids : Kept(j) \/ HonestRow(j)'
  <2>1. ASSUME rows'[i].state = v PROVE HonestRow(i)'
    BY <1>1, <1>5, <2>1 DEF HonestRow, i
  <2> QED BY <1>5, <1>6, <2>1 DEF Kept
<1>8. \A j \in Ids : rows'[j].state = "running" =>
         \/ faulted'
         \/ rows[j].state = "running" /\ \A n \in reaping : n.id = j => n \in reaping'
  BY <1>1, <1>5, <1>6 DEF i
<1>9. \A p \in reported' : ReportStep(p)
  BY <1>1 DEF ReportStep
<1> QED BY <1>1, <1>5, <1>6, <1>7, <1>8, <1>9, BystanderSettles

\* The operator's discard: the record remembers that a person did it.
LEMMA ReviewSettles ==
  ASSUME IInv, IInv', OInv, NEW i \in Ids, DiscardReviewed(i)
  PROVE  OInv'
<1>1. /\ phase # "down" /\ Transitioned(i, "uncertain", "discarded")
      /\ UNCHANGED <<pc, op, verdict, reported, reaping>> /\ disowned' = disowned \cup {rows[i].seq}
  BY DEF DiscardReviewed
<1>2. "discarded" \in States
  BY DEF States, Terminal
<1>3. /\ RowSteps /\ execs' = execs /\ execsHere' = execsHere /\ (faulted => faulted')
      /\ \A j \in Ids : j # i => rows'[j] = rows[j]
      /\ rows[i].state = "uncertain" /\ rows'[i].state = "discarded"
  BY <1>1, <1>2, TransitionRows
<1>4. rows'[i].seq = rows[i].seq
  BY <1>3, StatesApart DEF RowSteps, RowStep, Kept, Fresh, Moved, Absent
<1>5. \A j \in Ids : Kept(j) \/ HonestRow(j)'
  BY <1>1, <1>3, <1>4 DEF Kept, HonestRow, Applied
<1>6. \A p \in reported' : ReportStep(p)
  BY <1>1 DEF ReportStep
<1>7. \A j \in Ids : rows'[j].state = "running" => rows[j].state = "running"
  BY <1>3
<1>8. \A j \in Ids : rows[j].state = "running" => rows'[j].req = rows[j].req
  BY <1>3
<1> QED BY <1>1, <1>3, <1>5, <1>6, <1>7, <1>8, BystanderSettles

\* A message arrives.
LEMMA ReceiveSettles ==
  ASSUME IInv, IInv', OInv, NEW a \in Conns \cup Docks, NEW m \in Messages,
         CtlReceive(a, m) \/ DockReceive(a, m)
  PROVE  OInv'
<1>1. a \in Actors /\ phase # "down" /\ pc[a] = "idle"
  BY ActorsKnown DEF CtlReceive, DockReceive
<1>2. \A b \in Actors \ {a} : pc'[b] = pc[b] /\ op'[b] = op[b]
  BY <1>1 DEF CtlReceive, DockReceive, Goto, IInv, TypeOK
<1>3. pc'[a] \in {"idle", "accept", "lock"}
  BY <1>1 DEF CtlReceive, DockReceive, Goto, IInv, TypeOK
<1>4. UNCHANGED journal /\ UNCHANGED <<reported, disowned, reaping, verdict>>
  BY DEF CtlReceive, DockReceive
<1> QED BY <1>1, <1>2, <1>3, <1>4, QuietSettles DEF Busy, journal

\* A crash loses every goroutine and no row.
LEMMA CrashSettles ==
  ASSUME IInv, IInv', OInv, Crash
  PROVE  OInv'
<1>1. /\ UNCHANGED <<rows, next, execs, reported, disowned>> /\ phase' = "down" /\ reaping' = {}
      /\ \A a \in Actors : pc'[a] = "idle"
  BY DEF Crash
<1>2. Sequenced' /\ OutcomeHonest' /\ ReportedOutcomeStands'
  BY <1>1 DEF OInv, Sequenced, OutcomeHonest, ReportedOutcomeStands
<1>3. Settling' /\ NoOrphanedRun'
  BY <1>1 DEF Settling, NoOrphanedRun
<1> QED BY <1>2, <1>3 DEF OInv

\* Recovery by the next bus: nothing is left running, and only what never ran
\* is discarded.
LEMMA OpenSettles ==
  ASSUME IInv, IInv', OInv, Open
  PROVE  OInv'
<1>1. /\ \A a \in Actors : pc'[a] \in {"idle", "list"}
      /\ reaping' = {} /\ UNCHANGED <<reported, disowned>>
  BY DEF Open, Goto, IInv, TypeOK, Stopped
<1>2. rows \in [Ids -> Row] /\ next \in Nat
  BY DEF IInv, TypeOK
<1>3. /\ next' = next /\ execs' = execs
      /\ rows' = Recover(rows) \/ (rows' = rows /\ faulted')
  <2>1. \A j \in Ids : SameRow(Recover(rows), j)
    BY <1>2 DEF SameRow, Recover, Row
  <2> QED BY <1>2, <2>1 DEF Open, Saved, Failed, Commit, IInv, TypeOK
<1>4. ASSUME NEW j \in Ids
      PROVE  /\ rows'[j].seq = rows[j].seq /\ rows'[j].req = rows[j].req
             /\ rows[j].state = Absent => rows'[j] = rows[j]
             /\ \/ rows'[j].state = rows[j].state
                \/ rows[j].state \in Unresolved /\ rows'[j].state \in {"pending", "uncertain"}
                \/ rows[j].state = "pending" /\ rows'[j].state = "discarded"
             /\ rows'[j].state = "running" => faulted'
  <2>1. rows[j] \in Row
    BY <1>2
  <2>2. CASE rows' = rows /\ faulted'
    BY <2>2
  <2>3. CASE rows' = Recover(rows) /\ rows[j].state = Absent
    BY <2>3 DEF Recover, Absent
  <2>4. CASE rows' = Recover(rows) /\ rows[j].state # Absent
    <3>1. rows'[j] = [rows[j] EXCEPT !.state = RecoveredState(rows[j].state, rows[j].req.policy)]
      BY <2>1, <2>4 DEF Recover
    <3>2. /\ rows'[j].seq = rows[j].seq /\ rows'[j].req = rows[j].req
          /\ rows'[j].state = RecoveredState(rows[j].state, rows[j].req.policy)
      BY <2>1, <3>1 DEF Row
    <3> QED BY <2>4, <3>2 DEF RecoveredState, Unresolved
  <2> QED BY <1>3, <2>2, <2>3, <2>4
<1>5. RowSteps
  <2>1. \A j \in Ids : ~ Fresh(j)
    BY <1>2, <1>3 DEF Fresh
  <2>2. ASSUME NEW j \in Ids
        PROVE  rows'[j] = rows[j] \/ Moved(j)
    <3>1. rows[j] \in Row /\ rows'[j] \in Row
      BY DEF IInv, TypeOK
    <3>2. CASE rows'[j].state = rows[j].state
      BY <1>4, <3>1, <3>2 DEF Row
    <3> QED BY <1>4, <3>2 DEF Moved, Unresolved, States, Terminal
  <2>3. \A j \in Ids : rows'[j] = rows[j] /\ execsHere'[j] = execsHere[j] => Kept(j)
    BY <1>3 DEF Kept
  <2>4. execsHere' = execsHere
    <3>1. \A j \in Ids : SameRow(Recover(rows), j)
      BY <1>2 DEF SameRow, Recover, Row
    <3> QED BY <3>1 DEF Open, Saved, Failed, Commit, IInv, TypeOK
  <2> QED BY <1>2, <1>3, <2>1, <2>2, <2>3, <2>4 DEF RowSteps, RowStep
<1>6. \A p \in reported' : ReportStep(p)
  BY <1>1 DEF ReportStep
<1>7. Sequenced' /\ ReportedOutcomeStands'
  BY <1>5, <1>6, SequencedKept, ReportsKept DEF OInv
<1>8. OutcomeHonest'
  <2>1. ASSUME NEW j \in Ids PROVE HonestRow(j)'
    <3>1. HonestRow(j)
      BY DEF OInv, OutcomeHonest, HonestRow
    <3>2. rows[j].state = "pending" /\ rows[j].req.policy # "reconcile" => execs[j] = 0
      BY DEF IInv, JournalOK, Unstarted
    <3> QED BY <1>1, <1>3, <1>4, <3>1, <3>2 DEF HonestRow, Applied
  <2> QED BY <2>1 DEF OutcomeHonest, HonestRow
<1>9. Settling' /\ NoOrphanedRun'
  BY <1>1, <1>4 DEF Settling, NoOrphanedRun
<1> QED BY <1>7, <1>8, <1>9 DEF OInv

\* Recovery after the journal is open.
LEMMA BootSettles ==
  ASSUME IInv, IInv', OInv, BootStep
  PROVE  OInv'
<1> DEFINE a == Boot
<1>1. a \in Actors
  BY ActorsKnown
<1>2. CASE Open
  BY <1>2, OpenSettles
<1>3. CASE BootList
  <2>1. UNCHANGED <<rows, next, execs, execsHere>>
    BY <1>3 DEF BootList, journal, Failed, Commit, SameRow, IInv, JournalOK
  <2>2. faulted => faulted'
    BY <1>3 DEF BootList, journal, Failed
  <2>3. /\ phase # "down" /\ pc[a] = "list" /\ pc'[a] \in {"scan", "idle"}
        /\ \A b \in Actors \ {a} : pc'[b] = pc[b] /\ op'[b] = op[b]
        /\ UNCHANGED <<reported, disowned, reaping, verdict>>
    BY <1>1, <1>3 DEF BootList, Goto, IInv, TypeOK
  <2> QED BY <1>1, <2>1, <2>2, <2>3, QuietSettles DEF Busy
<1>4. ASSUME NEW i \in Ids, BootReconcile(i)
      PROVE  OInv'
  <2>1. phase # "down" /\ pc[a] = "scan" /\ ~ Busy(a) /\ (BootSupersede(i) \/ BootStart(i))
    BY <1>4 DEF BootReconcile, Busy
  <2>2. CASE BootSupersede(i)
    BY <1>1, <2>1, <2>2, PendingSettles DEF BootSupersede
  <2>3. CASE BootStart(i)
    <3>1. \/ /\ Transitioned(i, "pending", "running") /\ pc' = [pc EXCEPT ![a] = "apply"]
             /\ \E m \in Messages : m.id = i /\ op' = [op EXCEPT ![a] = m]
          \/ NotTransitioned(i, "pending", "running") /\ UNCHANGED <<pc, op>>
      BY <2>3 DEF BootStart, Goto
    <3>2. /\ \A b \in Actors \ {a} : pc'[b] = pc[b] /\ op'[b] = op[b]
          /\ pc'[a] \in {"apply", "scan"} /\ (pc'[a] = "apply" => op'[a].id = i)
          /\ pc'[a] = "apply" \/ NotTransitioned(i, "pending", "running")
      BY <1>1, <2>1, <3>1 DEF IInv, TypeOK
    <3>3. UNCHANGED <<reported, disowned, reaping, verdict>>
      BY <2>3 DEF BootStart
    <3> QED BY <1>1, <2>1, <3>1, <3>2, <3>3, PendingSettles
  <2> QED BY <2>1, <2>2, <2>3
<1>5. CASE BootApply
  <2>1. pc[a] = "apply" /\ phase # "down" /\ op[a] \in Messages
    BY <1>1, <1>5 DEF BootApply, IInv, Stopped, Ownership
  <2>2. PICK v \in States : HandleCtl(a, v)
    BY <1>5 DEF BootApply
  <2>3. v \in Terminal \cup {"uncertain"} /\ v # "discarded"
    BY <2>2 DEF HandleCtl, ApplyOther, ApplyDesired, Terminal, Applied
  <2>4. /\ pc'[a] = "settle" /\ verdict'[a] = v /\ Ran(op[a].id)
        /\ \A b \in Actors \ {a} : pc'[b] = pc[b] /\ verdict'[b] = verdict[b]
    BY <1>1, <1>5, <2>2 DEF BootApply, HandleCtl, Goto, IInv, TypeOK
  <2> QED BY <1>1, <1>5, <2>1, <2>3, <2>4, HandlerSettles DEF BootApply
<1>6. CASE BootSettle
  <2>1. /\ pc[a] = "settle" /\ phase # "down" /\ op[a].id \in Ids /\ rows[op[a].id].state = "running"
        /\ Settled(a)
        /\ \A b \in Actors : Busy(b) => (op[b].id = op[a].id <=> b = a)
        /\ \A m \in reaping : m.id # op[a].id
    BY <1>1, <1>6 DEF BootSettle, IInv, Stopped, Ownership, Busy, OInv, Settling
  <2>2. /\ \A b \in Actors \ {a} : pc'[b] = pc[b] /\ op'[b] = op[b]
        /\ pc'[a] = "scan" /\ UNCHANGED <<disowned, reaping, verdict, reported>>
        /\ Transitioned(op[a].id, "running", verdict[a]) \/ NotTransitioned(op[a].id, "running", verdict[a])
    BY <1>1, <1>6 DEF BootSettle, IInv, TypeOK
  <2> QED BY <1>1, <2>1, <2>2, OutcomeSettles DEF Settled
<1>7. CASE BootDone
  <2>1. /\ phase # "down" /\ pc[a] = "scan" /\ pc'[a] = "idle"
        /\ \A b \in Actors \ {a} : pc'[b] = pc[b] /\ op'[b] = op[b]
        /\ UNCHANGED <<reported, disowned, reaping, verdict>> /\ UNCHANGED journal
    BY <1>1, <1>7 DEF BootDone, Goto, IInv, TypeOK
  <2> QED BY <1>1, <2>1, QuietSettles DEF Busy, journal
<1> QED BY <1>2, <1>3, <1>4, <1>5, <1>6, <1>7 DEF BootStep

\* A fresh journal records nothing.
LEMMA InitOInv == Init => OInv
<1> SUFFICES ASSUME Init PROVE OInv
  OBVIOUS
<1>1. \A i \in Ids : rows[i].state = Absent /\ rows[i].seq = 0
  BY DEF Init, EmptyTable, NoRow
<1> QED BY <1>1 DEF Init, OInv, Sequenced, Settling, OutcomeHonest, ReportedOutcomeStands, NoOrphanedRun,
                    Absent, Applied

\* No variable the second invariant reads changes in a stutter.
LEMMA StutterSettles == ASSUME OInv, UNCHANGED vars PROVE OInv'
<1>1. /\ UNCHANGED <<rows, next, execs, faulted>> /\ UNCHANGED <<pc, op, phase, verdict, reaping>>
      /\ UNCHANGED <<reported, disowned>>
  BY DEF vars, journal
<1>2. Sequenced' /\ Settling'
  BY <1>1 DEF OInv, Sequenced, Settling, Settled
<1>3. OutcomeHonest' /\ ReportedOutcomeStands' /\ NoOrphanedRun'
  BY <1>1 DEF OInv, OutcomeHonest, ReportedOutcomeStands, NoOrphanedRun
<1> QED BY <1>2, <1>3 DEF OInv

\* Every step preserves the second invariant where the first one holds.
LEMMA StepOInv == IInv /\ IInv' /\ OInv /\ [Next]_vars => OInv'
<1> SUFFICES ASSUME IInv, IInv', OInv, [Next]_vars PROVE OInv'
  OBVIOUS
<1>1. ASSUME NEW a \in Conns, NEW m \in Messages, CtlReceive(a, m) PROVE OInv'
  BY <1>1, ReceiveSettles
<1>2. ASSUME NEW a \in Conns, CtlStep(a) PROVE OInv'
  BY <1>2, CtlSettles
<1>3. ASSUME NEW i \in Ids, DiscardReviewed(i) PROVE OInv'
  BY <1>3, ReviewSettles
<1>4. ASSUME NEW d \in Docks, NEW m \in Messages, DockReceive(d, m) PROVE OInv'
  BY <1>4, ReceiveSettles
<1>5. ASSUME NEW d \in Docks, DockStep(d) PROVE OInv'
  BY <1>5, DockSettles
<1>6. CASE InputStep
  BY <1>6, InputSettles
<1>7. ASSUME NEW m \in Messages, Reap(m) PROVE OInv'
  BY <1>7, ReapSettles
<1>8. CASE Crash
  BY <1>8, CrashSettles
<1>9. CASE BootStep
  BY <1>9, BootSettles
<1>10. CASE UNCHANGED vars
  BY <1>10, StutterSettles
<1> QED BY <1>1, <1>2, <1>3, <1>4, <1>5, <1>6, <1>7, <1>8, <1>9, <1>10 DEF Next

\* Both invariants hold in every behaviour.
THEOREM OutcomesInductive == Spec => [](IInv /\ OInv)
<1>1. Init => OInv
  BY InitOInv
<1>2. IInv /\ IInv' /\ OInv /\ [Next]_vars => OInv'
  BY StepOInv
<1> QED BY <1>1, <1>2, Inductive, PTL DEF Spec

\* An applied outcome in the journal has a run behind it, and an input recorded
\* as discarded never ran, unless a person discarded it after review
\* (actions.go executeCtl, input.go runAction and reapAction, journal.go Recover).
THEOREM JournalIsHonest == Spec => []OutcomeHonest
<1>1. IInv /\ OInv => OutcomeHonest
  BY DEF OInv
<1> QED BY <1>1, OutcomesInductive, PTL

\* A definite outcome told to a control client is never contradicted: through
\* later writers, retries, recovery and pruning, the row of that sequence keeps
\* the state that was reported (actions.go executeCtl).
THEOREM ReportsStand == Spec => []ReportedOutcomeStands
<1>1. IInv /\ OInv => ReportedOutcomeStands
  BY DEF OInv
<1> QED BY <1>1, OutcomesInductive, PTL

\* As long as the journal calls of a bus succeed, each running row has the
\* goroutine or reaper that will settle it (input.go, actions.go recoverActions).
THEOREM RunsAreOwned == Spec => []NoOrphanedRun
<1>1. IInv /\ OInv => NoOrphanedRun
  BY DEF OInv
<1> QED BY <1>1, OutcomesInductive, PTL

-----------------------------------------------------------------------------
(* Pruning.  What the table as a whole may become in a step.                *)

Inserted == \E m \in Messages : ~ Duplicate(rows, m.id) /\ rows' = Insert(rows, m.id, next, m.req)
MovedOne == \E i \in Ids, from \in States, to \in States :
              CanMove(rows, i, from, to) /\ rows' = Move(rows, i, to)
TableStep == rows' = rows \/ Inserted \/ MovedOne \/ rows' = Recover(rows)

\* Every step is one journal transaction or none.
LEMMA TableSteps ==
  ASSUME IInv, [Next]_vars
  PROVE  TableStep
<1>1. ASSUME NEW i \in Ids, NEW from \in States, NEW to \in States,
             Transitioned(i, from, to) \/ NotTransitioned(i, from, to)
      PROVE  TableStep
  BY <1>1 DEF Transitioned, NotTransitioned, Saved, Failed, Commit, journal, MovedOne, TableStep
<1>2. ASSUME NEW m \in Messages, AcceptFresh(m) \/ AcceptKnown(m) \/ AcceptError(m)
      PROVE  TableStep
  BY <1>2 DEF AcceptFresh, AcceptNew, AcceptPending, AcceptKnown, AcceptError,
              Saved, Failed, Commit, journal, Inserted, TableStep
<1>3. /\ "pending" \in States /\ "running" \in States /\ "uncertain" \in States
      /\ "discarded" \in States /\ "succeeded" \in States /\ "failed" \in States
  BY DEF States, Terminal, Unresolved, Applied
<1>4. /\ \A a \in Actors : pc[a] \in {"accept", "start", "settle"} => op[a] \in Messages /\ op[a].id \in Ids
      /\ \A a \in Actors : verdict[a] \in States
  BY DEF IInv, Ownership, TypeOK
<1>5. ASSUME NEW a \in Conns, CtlStep(a) PROVE TableStep
  <2>1. a \in Actors
    BY ActorsKnown
  <2>2. CASE CtlLock(a) \/ CtlApply(a)
    BY <2>2 DEF CtlLock, CtlApply, journal, TableStep
  <2>3. CASE CtlAccept(a)
    BY <1>2, <1>4, <2>1, <2>3 DEF CtlAccept
  <2>4. CASE CtlStart(a)
    BY <1>1, <1>3, <1>4, <2>1, <2>4 DEF CtlStart
  <2>5. CASE CtlSettle(a)
    BY <1>1, <1>3, <1>4, <2>1, <2>5 DEF CtlSettle
  <2> QED BY <1>5, <2>2, <2>3, <2>4, <2>5 DEF CtlStep
<1>6. ASSUME NEW d \in Docks, DockStep(d) PROVE TableStep
  <2>1. d \in Actors
    BY ActorsKnown
  <2>2. CASE DockAccept(d)
    BY <1>2, <1>4, <2>1, <2>2 DEF DockAccept
  <2>3. CASE DockDiscard(d)
    BY <1>1, <1>3, <1>4, <2>1, <2>3 DEF DockDiscard
  <2> QED BY <1>6, <2>2, <2>3 DEF DockStep
<1>7. CASE InputStep
  <2>1. InputWorker \in Actors
    BY ActorsKnown
  <2>2. CASE InputTake \/ InputApply
    BY <2>2 DEF InputTake, InputApply, journal, TableStep
  <2>3. CASE InputAccept
    BY <1>2, <1>4, <2>1, <2>3 DEF InputAccept
  <2>4. CASE InputStart
    BY <1>1, <1>3, <1>4, <2>1, <2>4 DEF InputStart
  <2>5. CASE InputSettle
    BY <1>1, <1>3, <1>4, <2>1, <2>5 DEF InputSettle
  <2> QED BY <1>7, <2>2, <2>3, <2>4, <2>5 DEF InputStep
<1>8. CASE BootStep
  <2>1. Boot \in Actors
    BY ActorsKnown
  <2>2. CASE Open
    BY <2>2 DEF Open, Saved, Failed, Commit, TableStep
  <2>3. CASE BootList \/ BootApply \/ BootDone
    BY <2>3 DEF BootList, BootApply, BootDone, Failed, Commit, journal, TableStep
  <2>4. CASE BootSettle
    BY <1>1, <1>3, <1>4, <2>1, <2>4 DEF BootSettle
  <2>5. ASSUME NEW i \in Ids, BootReconcile(i) PROVE TableStep
    BY <1>1, <1>3, <2>5 DEF BootReconcile, BootSupersede, BootStart
  <2> QED BY <1>8, <2>2, <2>3, <2>4, <2>5 DEF BootStep
<1>9. ASSUME NEW m \in Messages, Reap(m) PROVE TableStep
  BY <1>1, <1>3, <1>9 DEF Reap
<1>10. ASSUME NEW i \in Ids, DiscardReviewed(i) PROVE TableStep
  BY <1>1, <1>3, <1>10 DEF DiscardReviewed
<1>11. CASE Crash
  BY <1>11 DEF Crash, TableStep
<1>12. ASSUME NEW a, NEW m \in Messages, CtlReceive(a, m) \/ DockReceive(a, m) PROVE TableStep
  BY <1>12 DEF CtlReceive, DockReceive, journal, TableStep
<1>13. CASE UNCHANGED vars
  BY <1>13 DEF vars, journal, TableStep
<1> QED BY <1>5, <1>6, <1>7, <1>8, <1>9, <1>10, <1>11, <1>12, <1>13 DEF Next

\* Among the applied operations of one stream and policy, one is the newest.
LEMMA NewestApplied ==
  ASSUME rows \in [Ids -> Row], next \in Nat, \A i \in Ids : rows[i].seq < next,
         NEW j \in Ids, rows[j].state \in Applied
  PROVE  \E k \in Ids : /\ rows[k].state \in Applied /\ rows[k].seq >= rows[j].seq
                        /\ SameStream(rows[k].req, rows[j].req)
                        /\ rows[k].req.policy = rows[j].req.policy
                        /\ ~ \E n \in Newer(rows, k) :
                               /\ rows[n].state \in Applied
                               /\ SameStream(rows[n].req, rows[k].req)
                               /\ rows[n].req.policy = rows[k].req.policy
<1> DEFINE Peers == {k \in Ids : /\ rows[k].state \in Applied /\ rows[k].seq >= rows[j].seq
                                 /\ SameStream(rows[k].req, rows[j].req)
                                 /\ rows[k].req.policy = rows[j].req.policy}
           Ages == {next - rows[k].seq : k \in Peers}
<1>1. \A k \in Ids : rows[k].seq \in Nat /\ rows[k].seq < next
  BY DEF Row
<1>2. j \in Peers
  BY <1>1 DEF SameStream
<1>3. Ages \subseteq Nat /\ Ages # {}
  BY <1>1, <1>2
<1>4. PICK age \in Ages : \A x \in Ages : ~ (<<x, age>> \in OpToRel(<, Nat))
  BY <1>3, NatLessThanWellFounded, WFMin
<1>5. \A x \in Ages : ~ (x < age)
  BY <1>3, <1>4 DEF OpToRel
<1>6. PICK k \in Peers : age = next - rows[k].seq
  OBVIOUS
<1>7. ASSUME NEW n \in Newer(rows, k), rows[n].state \in Applied,
             SameStream(rows[n].req, rows[k].req), rows[n].req.policy = rows[k].req.policy
      PROVE  FALSE
  <2>1. n \in Ids /\ k \in Ids /\ rows[n].seq > rows[k].seq /\ rows[k].seq >= rows[j].seq
    BY <1>7 DEF Newer, Retained
  <2>2. rows[n].seq >= rows[j].seq
    BY <1>1, <2>1
  <2>3. n \in Peers
    BY <1>6, <1>7, <2>1, <2>2 DEF SameStream
  <2>4. next - rows[n].seq < age
    BY <1>1, <1>6, <2>1
  <2> QED BY <1>5, <2>3, <2>4
<1> QED BY <1>6, <1>7

\* What a step may do to one row of the table.
RowMove(j) ==
  \/ rows'[j] = rows[j]
  \/ rows[j].state \in Terminal /\ rows'[j] = NoRow
  \/ /\ rows[j].state = Absent
     /\ \E m \in Messages : m.id = j /\ rows'[j] = [state |-> "pending", seq |-> next, req |-> m.req]
  \/ /\ rows[j].state \in Unresolved /\ rows'[j].state \in States
     /\ rows'[j].seq = rows[j].seq /\ rows'[j].req = rows[j].req
     /\ rows'[j].state \in {"pending", "running"} => rows[j].state \in {"pending", "running"}

LEMMA RowMoves ==
  ASSUME IInv, TableStep
  PROVE  \A j \in Ids : RowMove(j)
<1>1. rows \in [Ids -> Row]
  BY DEF IInv, TypeOK
<1>2. CASE rows' = rows
  BY <1>2 DEF RowMove
<1>3. CASE MovedOne
  <2>1. PICK i \in Ids, from \in States, to \in States :
           CanMove(rows, i, from, to) /\ rows' = Move(rows, i, to)
    BY <1>3 DEF MovedOne
  <2>2. \A j \in Ids : j # i => rows'[j] = rows[j]
    BY <1>1, <2>1 DEF Move
  <2>3. rows'[i].state = to /\ rows'[i].seq = rows[i].seq /\ rows'[i].req = rows[i].req
    BY <1>1, <2>1 DEF Move, Row
  <2>4. rows[i].state = from /\ from \in Unresolved /\ (to \in {"pending", "running"} => from \in {"pending", "running"})
    BY <2>1 DEF CanMove, Edges, Unresolved
  <2>5. RowMove(i)
    BY <2>1, <2>3, <2>4 DEF RowMove
  <2> QED BY <2>2, <2>5 DEF RowMove
<1>4. CASE rows' = Recover(rows)
  <2> SUFFICES ASSUME NEW j \in Ids PROVE RowMove(j)
    OBVIOUS
  <2>1. rows[j] \in Row
    BY <1>1
  <2>2. CASE rows[j].state \in {"pending", "running"}
    <3>1. rows'[j] = [rows[j] EXCEPT !.state = RecoveredState(rows[j].state, rows[j].req.policy)]
      BY <1>4, <2>2 DEF Recover, Absent
    <3>2. rows'[j].state = RecoveredState(rows[j].state, rows[j].req.policy)
            /\ rows'[j].seq = rows[j].seq /\ rows'[j].req = rows[j].req
      BY <2>1, <3>1 DEF Row
    <3>3. rows'[j].state \in States /\ rows[j].state \in Unresolved
      BY <2>2, <3>2 DEF RecoveredState, States, Unresolved, Terminal
    <3> QED BY <2>2, <3>2, <3>3 DEF RowMove
  <2>3. CASE rows[j].state \notin {"pending", "running"}
    <3>1. RecoveredState(rows[j].state, rows[j].req.policy) = rows[j].state
      BY <2>3 DEF RecoveredState
    <3>2. rows'[j] = rows[j]
      BY <1>4, <2>1, <3>1 DEF Recover, Row
    <3> QED BY <3>2 DEF RowMove
  <2> QED BY <2>2, <2>3
<1>5. CASE Inserted
  <2>1. PICK m \in Messages : ~ Duplicate(rows, m.id) /\ rows' = Insert(rows, m.id, next, m.req)
    BY <1>5 DEF Inserted
  <2>2. rows[m.id].state = Absent /\ rows'[m.id] = [state |-> "pending", seq |-> next, req |-> m.req]
    BY <2>1, <1>1, RowsOfTables DEF Duplicate, Insert
  <2>3. \A j \in Ids : j # m.id => rows'[j] = rows[j] \/ (rows'[j] = NoRow /\ rows[j].state \in Terminal)
    BY <2>1, <1>1, RowsOfTables DEF Insert
  <2> QED BY <2>2, <2>3 DEF RowMove
<1> QED BY <1>2, <1>3, <1>4, <1>5 DEF TableStep

\* Of the applied operations that overtook an unresolved desired state, the
\* newest of each policy stays.
LEMMA ProofKept ==
  ASSUME IInv, Sequenced, TableStep,
         NEW i \in Ids, rows[i].state \in {"pending", "running"}, rows[i].req.policy = "reconcile",
         NEW j \in Ids, rows[j].state \in Applied, rows[j].seq > rows[i].seq,
         SameStream(rows[i].req, rows[j].req)
  PROVE  \E k \in Ids : /\ rows'[k].state \in Applied /\ rows'[k].seq > rows[i].seq
                        /\ SameStream(rows[i].req, rows'[k].req)
                        /\ rows'[k].req.policy = rows[j].req.policy
<1>1. rows \in [Ids -> Row] /\ next \in Nat
  BY DEF IInv, TypeOK
<1>2. \A s \in Applied : s \in Terminal /\ s \in States /\ s \notin Unresolved /\ s # Absent
  BY DEF Applied, Terminal, States, Unresolved, Absent
<1>3. PICK k \in Ids : /\ rows[k].state \in Applied /\ rows[k].seq >= rows[j].seq
                       /\ SameStream(rows[k].req, rows[j].req)
                       /\ rows[k].req.policy = rows[j].req.policy
                       /\ ~ \E n \in Newer(rows, k) :
                              /\ rows[n].state \in Applied
                              /\ SameStream(rows[n].req, rows[k].req)
                              /\ rows[n].req.policy = rows[k].req.policy
  BY <1>1, NewestApplied DEF Sequenced
<1>4. rows[k].seq \in Nat /\ rows[i].seq \in Nat /\ rows[j].seq \in Nat
  BY <1>1 DEF Row
<1>5. rows[k].seq > rows[i].seq /\ rows[i].seq < rows[k].seq
  BY <1>3, <1>4
<1>6. SameStream(rows[i].req, rows[k].req) /\ i \in Retained(rows)
  BY <1>3 DEF SameStream, Retained, Absent
<1>7. ProvesSupersession(rows, k)
  BY <1>3, <1>5, <1>6 DEF ProvesSupersession
<1>8. rows'[k] = rows[k]
  <2>1. CASE Inserted
    <3>1. PICK m \in Messages : ~ Duplicate(rows, m.id) /\ rows' = Insert(rows, m.id, next, m.req)
      BY <2>1 DEF Inserted
    <3>2. k # m.id /\ rows[k].state # Absent
      BY <1>2, <1>3, <3>1 DEF Duplicate
    <3>3. ~ Prunable(rows, k)
      BY <1>7 DEF Prunable
    <3> QED BY <1>1, <3>1, <3>2, <3>3, RowsOfTables DEF Insert, Prune
  <2>2. CASE ~ Inserted
    <3>1. rows' = rows \/ MovedOne \/ rows' = Recover(rows)
      BY <2>2 DEF TableStep
    <3>2. ASSUME NEW l \in Ids, NEW from \in States, NEW to \in States,
                 CanMove(rows, l, from, to), rows' = Move(rows, l, to)
          PROVE  rows'[k] = rows[k]
      <4>1. l # k
        BY <1>3, <3>2 DEF CanMove, Edges, Applied
      <4> QED BY <1>1, <3>2, <4>1 DEF Move
    <3>3. CASE rows' = Recover(rows)
      <4>1. RecoveredState(rows[k].state, rows[k].req.policy) = rows[k].state /\ rows[k].state # Absent
        BY <1>3, <1>2 DEF RecoveredState, Applied
      <4> QED BY <1>1, <3>3, <4>1 DEF Recover, Row
    <3> QED BY <3>1, <3>2, <3>3 DEF MovedOne
  <2> QED BY <2>1, <2>2
<1> QED BY <1>3, <1>5, <1>6, <1>8

\* Pruning keeps unresolved rows, and for every unresolved desired state that
\* has been overtaken, the newest operation that overtook it.
LEMMA PruneSafe ==
  ASSUME IInv, Sequenced, TableStep
  PROVE  \A i \in Ids :
        /\ rows[i].state \in Unresolved => rows'[i].seq = rows[i].seq
        /\ /\ rows[i].state \in {"pending", "running"}
           /\ rows[i].req.policy = "reconcile"
           /\ \E j \in Ids : /\ rows[j].state \in Applied /\ rows[j].seq > rows[i].seq
                             /\ SameStream(rows[i].req, rows[j].req)
           => \E j \in Ids : /\ rows'[j].state \in Applied /\ rows'[j].seq > rows[i].seq
                             /\ SameStream(rows[i].req, rows'[j].req)
<1>1. ASSUME NEW i \in Ids, rows[i].state \in Unresolved PROVE rows'[i].seq = rows[i].seq
  <2>1. RowMove(i) /\ rows[i].state \notin Terminal /\ rows[i].state # Absent
    BY <1>1, RowMoves, StatesApart
  <2> QED BY <2>1 DEF RowMove
<1> QED BY <1>1, ProofKept

\* No acceptance ever deletes unresolved work, nor the last proof that an
\* unresolved desired state was overtaken (journal.go Accept, its DELETE).
THEOREM PruningSafe == Spec => PruningIsSafe
<1>1. IInv /\ OInv /\ [Next]_vars =>
        [ \A i \in Ids :
            /\ rows[i].state \in Unresolved => rows'[i].seq = rows[i].seq
            /\ /\ rows[i].state \in {"pending", "running"}
               /\ rows[i].req.policy = "reconcile"
               /\ \E j \in Ids : /\ rows[j].state \in Applied /\ rows[j].seq > rows[i].seq
                                 /\ SameStream(rows[i].req, rows[j].req)
               => \E j \in Ids : /\ rows'[j].state \in Applied /\ rows'[j].seq > rows[i].seq
                                 /\ SameStream(rows[i].req, rows'[j].req) ]_vars
  BY TableSteps, PruneSafe DEF OInv
<1> QED BY <1>1, OutcomesInductive, PTL DEF Spec, PruningIsSafe

-----------------------------------------------------------------------------
(* Desired states.  A third invariant: a value that is saved and not served *)
(* belongs to a row that says so, and nobody is about to settle that row as *)
(* anything but uncertain.                                                  *)

Behind(k) == live[k] # saved[k] /\ saved[k] \notin disowned

Explained(k) ==
  /\ \E i \in Ids : rows[i].seq = saved[k] /\ rows[i].state \in {"running", "uncertain"}
  /\ \A a \in Actors : Busy(a) /\ rows[op[a].id].seq = saved[k]
                         => pc[a] = "settle" /\ verdict[a] = "uncertain"
  /\ \A m \in reaping : rows[m.id].seq # saved[k]

Diverging == phase # "down" => \A k \in DurableKeys : Behind(k) => Explained(k)

(* A fourth, for recovery: rows carry the requests of their messages, the   *)
(* value of a key comes from a row of that key, the bus that boots is alone *)
(* with the journal and what it has listed is what the journal holds but    *)
(* for the rows it has dealt with.                                          *)

\* Clients name a request by an operation ID of its own (rand.Text), and the
\* kind and source of a request name its desired state (desiredStateKey,
\* durableControl): the source is the verb, and only a view's layout, which
\* has another policy, shares it without the key.
IdsNameRequests == \A m, n \in Messages : m.id = n.id => m.req = n.req
KeysAreStreams ==
  \A m, n \in Messages :
    /\ m.key # NoKey /\ m.key = n.key => SameStream(m.req, n.req)
    /\ SameStream(m.req, n.req) /\ m.req.policy = n.req.policy => m.key = n.key

Requested ==
  \A i \in Ids : rows[i].state # Absent => \E m \in Messages : m.id = i /\ m.req = rows[i].req
Keyed ==
  \A k \in Keys : /\ saved[k] < next
                  /\ \A i \in Ids : rows[i].state # Absent /\ rows[i].seq = saved[k]
                                      => KeyOf(rows[i].req) = k

Alone ==
  /\ phase \in {"down", "boot"} => /\ \A a \in Actors \ {Boot} : pc[a] = "idle"
                                   /\ queue = <<>> /\ reaping = {}
  /\ pc[Boot] # "idle" => phase = "boot"
  /\ pc[Boot] \in {"idle", "list", "scan", "apply", "settle"}

\* The bus still lists row i as the journal holds it, or has dealt with it.
Listed(i) ==
  /\ rows[i].seq = records[i].seq /\ rows[i].req = records[i].req
  /\ records[i].state = "pending" => records[i].req.policy = "reconcile"
  /\ \/ rows[i].state = records[i].state
     \/ records[i].state = "pending" /\ records[i].seq <= cursor

Scanned ==
  /\ pc[Boot] = "list" /\ ~ journalErr =>
       \A i \in Ids : rows[i].state = "pending" => rows[i].req.policy = "reconcile"
  /\ pc[Boot] \in {"scan", "apply", "settle"} => \A i \in Ids : Listed(i)
  /\ pc[Boot] \in {"apply", "settle"} =>
       /\ records[op[Boot].id].state = "pending" /\ records[op[Boot].id].seq = cursor
       /\ ~ Superseded(op[Boot].id)

\* A choice that a client was told is applied leaves, for every older one that
\* is still to run, an applied row that supersedes it.
Told ==
  \A i \in Ids, k \in Keys, s \in Applied :
    /\ rows[i].state \in {"pending", "running"} /\ rows[i].req.policy = "reconcile"
    /\ KeyOf(rows[i].req) = k /\ saved[k] > rows[i].seq /\ <<saved[k], s>> \in reported
    => \E j \in Ids : /\ rows[j].state \in Applied /\ rows[j].seq > rows[i].seq
                      /\ KeyOf(rows[j].req) = k

RInv == Requested /\ Keyed /\ Alone /\ Scanned /\ Told

\* A step that leaves the values alone keeps the divergences explained: what it
\* settles is not behind, and what it starts or hands on was not either.
LEMMA DivergenceKept ==
  ASSUME IInv, OInv, TableStep, Diverging, phase # "down",
         UNCHANGED desired, disowned \subseteq disowned',
         \A j \in Ids : rows[j].state \in {"running", "uncertain"} =>
           \/ rows'[j].state \in {"running", "uncertain"}
           \/ rows[j].seq \in disowned'
           \/ \E b \in Actors : pc[b] = "settle" /\ op[b].id = j /\ verdict[b] # "uncertain"
           \/ \E m \in reaping : m.id = j,
         \A b \in Actors : Busy(b)' =>
           \/ pc[b] = "settle" /\ pc'[b] = "settle" /\ op'[b] = op[b] /\ verdict'[b] = verdict[b]
           \/ pc[b] = "apply" /\ op'[b] = op[b]
           \/ op'[b].id \in Ids /\ rows[op'[b].id].state = "pending",
         \A m \in reaping' : m \in reaping \/ \E b \in Actors : pc[b] = "apply" /\ op[b].id = m.id
  PROVE  Diverging'
<1> SUFFICES ASSUME NEW k \in DurableKeys, Behind(k)' PROVE Explained(k)'
  BY DEF Diverging
<1>1. saved'[k] = saved[k] /\ live'[k] = live[k] /\ Behind(k)
  BY DEF Behind, desired
<1>2. Explained(k)
  BY <1>1 DEF Diverging
<1>3. PICK i \in Ids : rows[i].seq = saved[k] /\ rows[i].state \in {"running", "uncertain"}
  BY <1>2 DEF Explained
<1>4. \A j \in Ids : rows[j].state \in Unresolved => rows'[j].seq = rows[j].seq
  BY PruneSafe DEF OInv
<1>5. \A j \in Ids : rows[j].state # Absent /\ rows[j].seq = saved[k] => j = i
  BY <1>3, StatesApart DEF OInv, Sequenced
<1>6. \A b \in Actors : Busy(b) => op[b].id \in Ids /\ rows[op[b].id].state = "running"
  BY DEF IInv, Ownership, Busy
<1>7. \E j \in Ids : rows'[j].seq = saved'[k] /\ rows'[j].state \in {"running", "uncertain"}
  <2>1. rows'[i].seq = saved'[k]
    BY <1>1, <1>3, <1>4 DEF Unresolved
  <2>2. saved[k] \notin disowned'
    BY <1>1 DEF Behind
  <2>3. ~ \E b \in Actors : pc[b] = "settle" /\ op[b].id = i /\ verdict[b] # "uncertain"
    BY <1>2, <1>3 DEF Explained, Busy
  <2>4. ~ \E m \in reaping : m.id = i
    BY <1>2, <1>3 DEF Explained
  <2> QED BY <1>3, <2>1, <2>2, <2>3, <2>4
<1>8. ASSUME NEW b \in Actors, Busy(b)', rows'[op'[b].id].seq = saved'[k]
      PROVE  pc'[b] = "settle" /\ verdict'[b] = "uncertain"
  <2>1. CASE pc[b] = "settle" /\ pc'[b] = "settle" /\ op'[b] = op[b] /\ verdict'[b] = verdict[b]
    <3>1. Busy(b) /\ rows[op[b].id].seq = saved[k]
      BY <1>1, <1>4, <1>6, <1>8, <2>1 DEF Busy, Unresolved
    <3> QED BY <1>2, <2>1, <3>1 DEF Explained
  <2>2. CASE pc[b] = "apply" /\ op'[b] = op[b]
    <3>1. Busy(b) /\ rows[op[b].id].seq = saved[k]
      BY <1>1, <1>4, <1>6, <1>8, <2>2 DEF Busy, Unresolved
    <3> QED BY <1>2, <2>2, <3>1 DEF Explained
  <2>3. CASE op'[b].id \in Ids /\ rows[op'[b].id].state = "pending"
    <3>1. rows[op'[b].id].seq = saved[k]
      BY <1>1, <1>4, <1>8, <2>3 DEF Unresolved
    <3> QED BY <1>3, <1>5, <2>3, <3>1 DEF Absent
  <2> QED BY <1>8, <2>1, <2>2, <2>3
<1>9. ASSUME NEW m \in reaping' PROVE rows'[m.id].seq # saved'[k]
  <2>1. CASE m \in reaping
    <3>1. m.id \in Ids /\ rows[m.id].state = "running" /\ rows[m.id].seq # saved[k]
      BY <1>2, <2>1 DEF Explained, IInv, TypeOK, Ownership
    <3> QED BY <1>1, <1>4, <3>1 DEF Unresolved
  <2>2. ASSUME NEW b \in Actors, pc[b] = "apply", op[b].id = m.id PROVE rows'[m.id].seq # saved'[k]
    <3>1. m.id \in Ids /\ rows[m.id].state = "running" /\ rows[m.id].seq # saved[k]
      BY <1>2, <1>6, <2>2 DEF Explained, Busy
    <3> QED BY <1>1, <1>4, <3>1 DEF Unresolved
  <2> QED BY <2>1, <2>2
<1> QED BY <1>7, <1>8, <1>9 DEF Explained

\* A handler that changes a value and does not serve it has an uncertain outcome.
LEMMA ApplyDiverges ==
  ASSUME IInv, OInv, Diverging, phase # "down", NEW a \in Actors, NEW v \in States,
         pc[a] = "apply", HandleCtl(a, v), Goto(a, "settle"),
         UNCHANGED <<rows, op, reaping, disowned>>
  PROVE  Diverging'
<1> SUFFICES ASSUME NEW k \in DurableKeys, Behind(k)' PROVE Explained(k)'
  BY DEF Diverging
<1>1. /\ op[a] \in Messages /\ op[a].id \in Ids /\ rows[op[a].id].state = "running" /\ k \in Keys
      /\ Busy(a)
  BY DEF IInv, Ownership, Busy
<1>2. /\ pc'[a] = "settle" /\ verdict'[a] = v
      /\ \A b \in Actors : b # a => pc'[b] = pc[b] /\ verdict'[b] = verdict[b]
  BY DEF HandleCtl, Goto, IInv, TypeOK
<1>3. CASE saved'[k] = saved[k] /\ live'[k] = live[k]
  <2>1. Explained(k)
    BY <1>3 DEF Diverging, Behind
  <2>2. rows[op[a].id].seq # saved[k]
    BY <1>1, <2>1 DEF Explained
  <2> QED BY <1>2, <1>3, <2>1, <2>2 DEF Explained, Busy
<1>4. CASE saved'[k] = rows[op[a].id].seq /\ v = "uncertain"
  <2>1. ASSUME NEW j \in Ids, rows[j].seq = saved'[k] PROVE j = op[a].id
    BY <1>1, <1>4, <2>1, StatesApart DEF OInv, Sequenced, Unresolved
  <2>2. \A b \in Actors : Busy(b) /\ op[b].id = op[a].id => b = a
    BY <1>1 DEF IInv, Ownership
  <2>3. \A m \in reaping : m.id \in Ids /\ m.id # op[a].id
    BY <1>1 DEF IInv, Ownership, TypeOK
  <2>4. \E i \in Ids : rows'[i].seq = saved'[k] /\ rows'[i].state \in {"running", "uncertain"}
    BY <1>1, <1>4
  <2>5. ASSUME NEW b \in Actors, Busy(b)', rows'[op'[b].id].seq = saved'[k]
        PROVE  pc'[b] = "settle" /\ verdict'[b] = "uncertain"
    <3>1. Busy(b)
      BY <1>1, <1>2, <2>5 DEF Busy
    <3>2. op[b].id \in Ids
      BY <3>1 DEF IInv, Ownership, Busy
    <3>3. b = a
      BY <2>1, <2>2, <2>5, <3>1, <3>2
    <3> QED BY <1>2, <1>4, <3>3
  <2>6. \A m \in reaping' : rows'[m.id].seq # saved'[k]
    BY <2>1, <2>3
  <2> QED BY <2>4, <2>5, <2>6 DEF Explained
<1>5. CASE saved'[k] = live'[k]
  BY <1>5 DEF Behind
<1>6. \/ saved'[k] = saved[k] /\ live'[k] = live[k]
      \/ saved'[k] = rows[op[a].id].seq /\ v = "uncertain"
      \/ saved'[k] = live'[k]
  <2>1. ASSUME NEW n, NEW x \in BOOLEAN, Choose(op[a].key, n, x)
        PROVE  \/ saved'[k] = saved[k] /\ live'[k] = live[k]
               \/ saved'[k] = n /\ (x => live'[k] = n)
    BY <1>1, <2>1 DEF Choose, IInv, TypeOK
  <2>2. CASE UNCHANGED desired
    BY <2>2 DEF desired
  <2>3. CASE v = "succeeded" /\ Choose(op[a].key, rows[op[a].id].seq, TRUE)
    BY <2>1, <2>3
  <2>4. ASSUME NEW x \in BOOLEAN, v = "uncertain", Choose(op[a].key, rows[op[a].id].seq, x)
        PROVE  \/ saved'[k] = saved[k] /\ live'[k] = live[k]
               \/ saved'[k] = rows[op[a].id].seq /\ v = "uncertain"
    BY <2>1, <2>4
  <2> QED BY <2>2, <2>3, <2>4 DEF HandleCtl, ApplyOther, ApplyDesired
<1> QED BY <1>3, <1>4, <1>5, <1>6

\* One actor moves: what DivergenceKept asks of the goroutines.
LEMMA OneActorDiverges ==
  ASSUME IInv, OInv, TableStep, Diverging, phase # "down", NEW a \in Actors,
         UNCHANGED desired, disowned \subseteq disowned',
         \A b \in Actors \ {a} : pc'[b] = pc[b] /\ op'[b] = op[b] /\ verdict'[b] = verdict[b],
         \A j \in Ids : rows[j].state \in {"running", "uncertain"} =>
           \/ rows'[j].state \in {"running", "uncertain"}
           \/ rows[j].seq \in disowned'
           \/ pc[a] = "settle" /\ op[a].id = j /\ verdict[a] # "uncertain"
           \/ \E m \in reaping : m.id = j,
         Busy(a)' => \/ pc[a] = "apply" /\ op'[a] = op[a]
                     \/ op'[a].id \in Ids /\ rows[op'[a].id].state = "pending",
         \A m \in reaping' : m \in reaping \/ (pc[a] = "apply" /\ op[a].id = m.id)
  PROVE  Diverging'
<1>1. ASSUME NEW b \in Actors, Busy(b)'
      PROVE  \/ pc[b] = "settle" /\ pc'[b] = "settle" /\ op'[b] = op[b] /\ verdict'[b] = verdict[b]
             \/ pc[b] = "apply" /\ op'[b] = op[b]
             \/ op'[b].id \in Ids /\ rows[op'[b].id].state = "pending"
  BY <1>1 DEF Busy
<1>2. \A j \in Ids : rows[j].state \in {"running", "uncertain"} =>
           \/ rows'[j].state \in {"running", "uncertain"}
           \/ rows[j].seq \in disowned'
           \/ \E b \in Actors : pc[b] = "settle" /\ op[b].id = j /\ verdict[b] # "uncertain"
           \/ \E m \in reaping : m.id = j
  OBVIOUS
<1>3. \A m \in reaping' : m \in reaping \/ \E b \in Actors : pc[b] = "apply" /\ op[b].id = m.id
  OBVIOUS
<1> QED BY <1>1, <1>2, <1>3, DivergenceKept

\* Acceptance leaves running and uncertain rows alone, and a transition moves
\* only the row it is about.
LEMMA RunningKept ==
  ASSUME IInv
  PROVE  /\ \A m \in Messages : AcceptFresh(m) \/ AcceptKnown(m) \/ AcceptError(m) =>
              \A j \in Ids : rows[j].state \in {"running", "uncertain"} => rows'[j].state = rows[j].state
         /\ \A i \in Ids, from \in States, to \in States :
              Transitioned(i, from, to) \/ NotTransitioned(i, from, to) =>
                \A j \in Ids : rows[j].state \in {"running", "uncertain"} =>
                  \/ rows'[j].state = rows[j].state
                  \/ j = i /\ rows[i].state = from /\ rows'[i].state = to
<1>1. ASSUME NEW m \in Messages, AcceptFresh(m) \/ AcceptKnown(m) \/ AcceptError(m),
             NEW j \in Ids, rows[j].state \in {"running", "uncertain"}
      PROVE  rows'[j].state = rows[j].state
  BY <1>1, AcceptCall DEF IInv, Kept, Unresolved
<1>2. ASSUME NEW i \in Ids, NEW from \in States, NEW to \in States,
             Transitioned(i, from, to) \/ NotTransitioned(i, from, to), NEW j \in Ids
      PROVE  \/ rows'[j].state = rows[j].state
             \/ j = i /\ rows[i].state = from /\ rows'[i].state = to
  <2>1. rows[i] \in Row
    BY DEF IInv, TypeOK
  <2>2. /\ j # i => rows'[j] = rows[j]
        /\ \/ rows'[i] = rows[i]
           \/ rows[i].state = from /\ rows'[i] = [rows[i] EXCEPT !.state = to]
    BY <1>2, TransitionRows
  <2> QED BY <2>1, <2>2 DEF Row
<1> QED BY <1>1, <1>2

\* Divergences stay explained.
LEMMA StepDiverging == IInv /\ OInv /\ Diverging /\ [Next]_vars => Diverging'
<1> SUFFICES ASSUME IInv, OInv, Diverging, [Next]_vars PROVE Diverging'
  OBVIOUS
<1>1. TableStep
  BY TableSteps
<1>2. /\ "pending" \in States /\ "running" \in States /\ "uncertain" \in States /\ "discarded" \in States
      /\ "succeeded" \in States /\ "failed" \in States
      /\ \A b \in Actors : verdict[b] \in States
  BY DEF States, Terminal, Unresolved, Applied, IInv, TypeOK
<1>3. \A b \in Actors : pc[b] \in {"accept", "start", "apply", "settle"} =>
        op[b] \in Messages /\ op[b].id \in Ids /\ phase # "down"
  BY DEF IInv, Ownership, Stopped
<1>4. pc \in [Actors -> PcStates] /\ op \in [Actors -> Messages \cup {NoOp}] /\ verdict \in [Actors -> States]
  BY DEF IInv, TypeOK
<1>5. ASSUME NEW a \in Conns, NEW m \in Messages, CtlReceive(a, m) PROVE Diverging'
  <2>1. /\ a \in Actors /\ phase # "down" /\ pc'[a] \in {"accept", "lock"}
        /\ \A b \in Actors \ {a} : pc'[b] = pc[b] /\ op'[b] = op[b] /\ verdict'[b] = verdict[b]
    BY <1>4, <1>5, ActorsKnown DEF CtlReceive, Goto
  <2> QED BY <1>1, <1>5, <2>1, OneActorDiverges DEF CtlReceive, journal, Busy
<1>6. ASSUME NEW d \in Docks, NEW m \in Messages, DockReceive(d, m) PROVE Diverging'
  <2>1. /\ d \in Actors /\ phase # "down" /\ pc[d] = "idle" /\ pc'[d] \in {"idle", "accept"}
        /\ \A b \in Actors \ {d} : pc'[b] = pc[b] /\ op'[b] = op[b] /\ verdict'[b] = verdict[b]
    BY <1>4, <1>6, ActorsKnown DEF DockReceive, Goto
  <2> QED BY <1>1, <1>6, <2>1, OneActorDiverges DEF DockReceive, journal, Busy
<1>7. ASSUME NEW a \in Actors, pc[a] = "accept",
             AcceptFresh(op[a]) \/ AcceptKnown(op[a]) \/ AcceptError(op[a]),
             pc'[a] \in {"start", "idle", "list", "scan"}, UNCHANGED <<desired, disowned, verdict, reaping>>,
             \A b \in Actors \ {a} : pc'[b] = pc[b] /\ op'[b] = op[b]
      PROVE  Diverging'
  <2>1. op[a] \in Messages /\ phase # "down"
    BY <1>3, <1>7
  <2>2. \A j \in Ids : rows[j].state \in {"running", "uncertain"} => rows'[j].state = rows[j].state
    BY <1>7, <2>1, RunningKept
  <2> QED BY <1>1, <1>7, <2>1, <2>2, OneActorDiverges DEF Busy
<1>8. ASSUME NEW a \in Actors, phase # "down", ~ Busy(a), NEW i \in Ids, NEW to \in {"running", "discarded"},
             Transitioned(i, "pending", to) \/ NotTransitioned(i, "pending", to),
             Busy(a)' => op'[a].id = i /\ rows[i].state = "pending",
             UNCHANGED <<desired, disowned, verdict, reaping>>,
             \A b \in Actors \ {a} : pc'[b] = pc[b] /\ op'[b] = op[b]
      PROVE  Diverging'
  <2>1. \A j \in Ids : rows[j].state \in {"running", "uncertain"} => rows'[j].state = rows[j].state
    BY <1>2, <1>8, RunningKept
  <2> QED BY <1>1, <1>8, <2>1, OneActorDiverges DEF Busy
<1>9. ASSUME NEW a \in Actors, pc[a] = "settle",
             Transitioned(op[a].id, "running", verdict[a]) \/ NotTransitioned(op[a].id, "running", verdict[a]),
             pc'[a] \in {"idle", "scan"}, UNCHANGED <<desired, disowned, verdict, reaping>>,
             \A b \in Actors \ {a} : pc'[b] = pc[b] /\ op'[b] = op[b]
      PROVE  Diverging'
  <2>1. \A j \in Ids : rows[j].state \in {"running", "uncertain"} =>
          rows'[j].state = rows[j].state \/ (j = op[a].id /\ rows'[j].state = verdict[a])
    BY <1>2, <1>3, <1>9, RunningKept
  <2>2. \A j \in Ids : rows[j].state \in {"running", "uncertain"} =>
           \/ rows'[j].state \in {"running", "uncertain"}
           \/ pc[a] = "settle" /\ op[a].id = j /\ verdict[a] # "uncertain"
    BY <1>9, <2>1
  <2> QED BY <1>1, <1>3, <1>9, <2>2, OneActorDiverges DEF Busy
<1>10. ASSUME NEW a \in Conns, CtlStep(a) PROVE Diverging'
  <2>1. a \in Actors
    BY ActorsKnown
  <2>2. CASE CtlLock(a)
    <3>1. /\ phase # "down" /\ pc'[a] = "accept"
          /\ \A b \in Actors \ {a} : pc'[b] = pc[b] /\ op'[b] = op[b] /\ verdict'[b] = verdict[b]
      BY <1>4, <2>1, <2>2 DEF CtlLock, Goto, IInv, Stopped
    <3> QED BY <1>1, <2>1, <2>2, <3>1, OneActorDiverges DEF CtlLock, journal, Busy
  <2>3. CASE CtlAccept(a)
    <3>1. \/ AcceptFresh(op[a]) /\ pc' = [pc EXCEPT ![a] = "start"] /\ UNCHANGED op
          \/ AcceptKnown(op[a]) /\ Reply(a, {rows[op[a].id].state})
          \/ AcceptError(op[a]) /\ Reply(a, {})
      BY <2>3 DEF CtlAccept, Goto
    <3>2. /\ AcceptFresh(op[a]) \/ AcceptKnown(op[a]) \/ AcceptError(op[a])
          /\ pc'[a] \in {"start", "idle"} /\ \A b \in Actors \ {a} : pc'[b] = pc[b] /\ op'[b] = op[b]
      BY <1>4, <2>1, <3>1 DEF Reply
    <3> QED BY <1>7, <2>1, <2>3, <3>2 DEF CtlAccept
  <2>4. CASE CtlStart(a)
    <3>1. \/ /\ Transitioned(op[a].id, "pending", "running")
             /\ pc' = [pc EXCEPT ![a] = "apply"] /\ UNCHANGED op
          \/ NotTransitioned(op[a].id, "pending", "running") /\ Reply(a, {})
      BY <2>4 DEF CtlStart, Goto
    <3>2. /\ Transitioned(op[a].id, "pending", "running") \/ NotTransitioned(op[a].id, "pending", "running")
          /\ \A b \in Actors \ {a} : pc'[b] = pc[b] /\ op'[b] = op[b]
          /\ Busy(a)' => op'[a].id = op[a].id /\ rows[op[a].id].state = "pending"
      BY <1>4, <2>1, <3>1 DEF Reply, Busy, Transitioned, CanMove
    <3>3. /\ UNCHANGED <<desired, disowned, verdict, reaping>>
          /\ phase # "down" /\ ~ Busy(a) /\ op[a].id \in Ids
      BY <1>3, <2>1, <2>4 DEF CtlStart, Busy
    <3> QED BY <1>8, <2>1, <3>2, <3>3
  <2>5. CASE CtlApply(a)
    BY <1>3, <2>1, <2>5, ApplyDiverges DEF CtlApply
  <2>6. CASE CtlSettle(a)
    <3>1. /\ Transitioned(op[a].id, "running", verdict[a]) \/ NotTransitioned(op[a].id, "running", verdict[a])
          /\ pc'[a] = "idle" /\ \A b \in Actors \ {a} : pc'[b] = pc[b] /\ op'[b] = op[b]
      BY <1>4, <2>1, <2>6 DEF CtlSettle, Reply
    <3> QED BY <1>9, <2>1, <2>6, <3>1 DEF CtlSettle
  <2> QED BY <1>10, <2>2, <2>3, <2>4, <2>5, <2>6 DEF CtlStep
<1>11. ASSUME NEW i \in Ids, DiscardReviewed(i) PROVE Diverging'
  <2>1. /\ phase # "down" /\ Transitioned(i, "uncertain", "discarded") /\ rows[i].seq \in disowned'
        /\ disowned \subseteq disowned' /\ UNCHANGED <<desired, pc, op, verdict, reaping>>
    BY <1>11 DEF DiscardReviewed
  <2>2. \A j \in Ids : rows[j].state \in {"running", "uncertain"} =>
          rows'[j].state = rows[j].state \/ rows[j].seq \in disowned'
    BY <1>2, <2>1, RunningKept
  <2>3. \A b \in Actors : Busy(b)' =>
           \/ pc[b] = "settle" /\ pc'[b] = "settle" /\ op'[b] = op[b] /\ verdict'[b] = verdict[b]
           \/ pc[b] = "apply" /\ op'[b] = op[b]
    BY <2>1 DEF Busy
  <2> QED BY <1>1, <2>1, <2>2, <2>3, DivergenceKept
<1>12. ASSUME NEW d \in Docks, DockStep(d) PROVE Diverging'
  <2>1. d \in Actors
    BY ActorsKnown
  <2>2. CASE DockAccept(d)
    <3>1. /\ AcceptFresh(op[d]) \/ AcceptKnown(op[d]) \/ AcceptError(op[d])
          /\ pc'[d] \in {"start", "idle"} /\ \A b \in Actors \ {d} : pc'[b] = pc[b] /\ op'[b] = op[b]
      BY <1>4, <2>1, <2>2 DEF DockAccept, Goto, Drop
    <3> QED BY <1>7, <2>1, <2>2, <3>1 DEF DockAccept
  <2>3. CASE DockDiscard(d)
    <3>1. /\ Transitioned(op[d].id, "pending", "discarded") \/ NotTransitioned(op[d].id, "pending", "discarded")
          /\ ~ Busy(d)' /\ \A b \in Actors \ {d} : pc'[b] = pc[b] /\ op'[b] = op[b]
          /\ ~ Busy(d) /\ phase # "down" /\ op[d].id \in Ids
          /\ UNCHANGED <<desired, disowned, verdict, reaping>>
      BY <1>3, <1>4, <2>1, <2>3 DEF DockDiscard, Drop, Busy
    <3> QED BY <1>8, <2>1, <3>1
  <2> QED BY <1>12, <2>2, <2>3 DEF DockStep
<1>13. CASE InputStep
  <2> DEFINE a == InputWorker
  <2>1. a \in Actors
    BY ActorsKnown
  <2>2. CASE InputTake
    <3>1. /\ phase # "down" /\ pc'[a] = "accept"
          /\ \A b \in Actors \ {a} : pc'[b] = pc[b] /\ op'[b] = op[b] /\ verdict'[b] = verdict[b]
      BY <1>4, <2>1, <2>2 DEF InputTake, Goto, IInv, Stopped
    <3> QED BY <1>1, <2>1, <2>2, <3>1, OneActorDiverges DEF InputTake, journal, Busy
  <2>3. CASE InputAccept
    <3>1. /\ AcceptFresh(op[a]) \/ AcceptKnown(op[a]) \/ AcceptError(op[a])
          /\ pc'[a] \in {"start", "idle"} /\ \A b \in Actors \ {a} : pc'[b] = pc[b] /\ op'[b] = op[b]
      BY <1>4, <2>1, <2>3 DEF InputAccept, Goto, Drop
    <3> QED BY <1>7, <2>1, <2>3, <3>1 DEF InputAccept
  <2>4. CASE InputStart
    <3>1. \/ /\ Transitioned(op[a].id, "pending", "running")
             /\ pc' = [pc EXCEPT ![a] = "apply"] /\ UNCHANGED op
          \/ NotTransitioned(op[a].id, "pending", "running") /\ Drop(a)
      BY <2>4 DEF InputStart, Goto
    <3>2. /\ Transitioned(op[a].id, "pending", "running") \/ NotTransitioned(op[a].id, "pending", "running")
          /\ \A b \in Actors \ {a} : pc'[b] = pc[b] /\ op'[b] = op[b]
          /\ Busy(a)' => op'[a].id = op[a].id /\ rows[op[a].id].state = "pending"
      BY <1>4, <2>1, <3>1 DEF Drop, Busy, Transitioned, CanMove
    <3>3. /\ UNCHANGED <<desired, disowned, verdict, reaping>>
          /\ phase # "down" /\ ~ Busy(a) /\ op[a].id \in Ids
      BY <1>3, <2>1, <2>4 DEF InputStart, Busy
    <3> QED BY <1>8, <2>1, <3>2, <3>3
  <2>5. CASE InputApply
    <3>1. /\ pc[a] = "apply" /\ rows' = rows /\ UNCHANGED <<desired, disowned>>
          /\ \/ pc' = [pc EXCEPT ![a] = "settle"] /\ op' = op /\ reaping' = reaping
             \/ Drop(a) /\ reaping' = reaping \cup {op[a]}
          /\ \A b \in Actors \ {a} : verdict'[b] = verdict[b]
      BY <1>4, <2>1, <2>5 DEF InputApply, Goto
    <3>2. /\ \A b \in Actors \ {a} : pc'[b] = pc[b] /\ op'[b] = op[b]
          /\ Busy(a)' => pc[a] = "apply" /\ op'[a] = op[a]
          /\ \A m \in reaping' : m \in reaping \/ (pc[a] = "apply" /\ op[a].id = m.id)
      BY <1>4, <2>1, <3>1 DEF Drop, Busy
    <3> QED BY <1>1, <1>3, <2>1, <3>1, <3>2, OneActorDiverges
  <2>6. CASE InputSettle
    <3>1. /\ Transitioned(op[a].id, "running", verdict[a]) \/ NotTransitioned(op[a].id, "running", verdict[a])
          /\ pc'[a] = "idle" /\ \A b \in Actors \ {a} : pc'[b] = pc[b] /\ op'[b] = op[b]
      BY <1>4, <2>1, <2>6 DEF InputSettle, Drop
    <3> QED BY <1>9, <2>1, <2>6, <3>1 DEF InputSettle
  <2> QED BY <1>13, <2>2, <2>3, <2>4, <2>5, <2>6 DEF InputStep
<1>14. ASSUME NEW m \in Messages, Reap(m) PROVE Diverging'
  <2>1. PICK v \in {"succeeded", "failed", "uncertain"} :
          Transitioned(m.id, "running", v) \/ NotTransitioned(m.id, "running", v)
    BY <1>14 DEF Reap
  <2>2. \A j \in Ids : rows[j].state \in {"running", "uncertain"} => rows'[j].state = rows[j].state \/ j = m.id
    BY <1>2, <2>1, RunningKept
  <2>3. /\ m \in reaping /\ reaping' \subseteq reaping /\ phase # "down"
        /\ UNCHANGED <<desired, disowned, pc, op, verdict>>
    BY <1>14 DEF Reap, IInv, Stopped
  <2>4. \A b \in Actors : Busy(b)' =>
           \/ pc[b] = "settle" /\ pc'[b] = "settle" /\ op'[b] = op[b] /\ verdict'[b] = verdict[b]
           \/ pc[b] = "apply" /\ op'[b] = op[b]
    BY <2>3 DEF Busy
  <2> QED BY <1>1, <2>2, <2>3, <2>4, DivergenceKept
<1>15. CASE Crash
  BY <1>15 DEF Crash, Diverging
<1>16. CASE BootStep
  <2> DEFINE a == Boot
  <2>1. a \in Actors
    BY ActorsKnown
  <2>2. CASE Open
    <3>1. \A k \in DurableKeys : live'[k] = saved'[k]
      BY <2>2 DEF Open
    <3> QED BY <3>1 DEF Diverging, Behind
  <2>3. CASE BootList
    <3>1. /\ rows' = rows /\ phase # "down" /\ pc'[a] \in {"scan", "idle"}
          /\ \A b \in Actors \ {a} : pc'[b] = pc[b] /\ op'[b] = op[b] /\ verdict'[b] = verdict[b]
          /\ UNCHANGED <<desired, disowned, reaping>>
      BY <1>4, <2>1, <2>3 DEF BootList, Goto, journal, Failed, Commit
    <3> QED BY <1>1, <2>1, <3>1, OneActorDiverges DEF Busy
  <2>4. ASSUME NEW i \in Ids, BootReconcile(i) PROVE Diverging'
    <3>1. phase # "down" /\ ~ Busy(a) /\ pc[a] = "scan"
      BY <2>4 DEF BootReconcile, Busy
    <3>2. CASE BootSupersede(i)
      <4>1. /\ ~ Busy(a)' /\ UNCHANGED <<desired, disowned, verdict, reaping, pc, op>>
            /\ Transitioned(i, "pending", "discarded") \/ NotTransitioned(i, "pending", "discarded")
        BY <3>1, <3>2 DEF BootSupersede, Busy
      <4> QED BY <1>8, <2>1, <3>1, <4>1
    <3>3. CASE BootStart(i)
      <4>1. \/ /\ Transitioned(i, "pending", "running") /\ pc' = [pc EXCEPT ![a] = "apply"]
               /\ \E m \in Messages : m.id = i /\ op' = [op EXCEPT ![a] = m]
            \/ NotTransitioned(i, "pending", "running") /\ UNCHANGED <<pc, op>>
        BY <3>3 DEF BootStart, Goto
      <4>2. /\ Transitioned(i, "pending", "running") \/ NotTransitioned(i, "pending", "running")
            /\ \A b \in Actors \ {a} : pc'[b] = pc[b] /\ op'[b] = op[b]
            /\ Busy(a)' => op'[a].id = i /\ rows[i].state = "pending"
        BY <1>4, <2>1, <3>1, <4>1 DEF Busy, Transitioned, CanMove
      <4>3. UNCHANGED <<desired, disowned, verdict, reaping>>
        BY <3>3 DEF BootStart
      <4> QED BY <1>8, <2>1, <3>1, <4>2, <4>3
    <3> QED BY <2>4, <3>2, <3>3 DEF BootReconcile
  <2>5. CASE BootApply
    BY <1>3, <2>1, <2>5, ApplyDiverges DEF BootApply
  <2>6. CASE BootSettle
    <3>1. /\ Transitioned(op[a].id, "running", verdict[a]) \/ NotTransitioned(op[a].id, "running", verdict[a])
          /\ pc'[a] = "scan" /\ \A b \in Actors \ {a} : pc'[b] = pc[b] /\ op'[b] = op[b]
      BY <1>4, <2>1, <2>6 DEF BootSettle
    <3> QED BY <1>9, <2>1, <2>6, <3>1 DEF BootSettle
  <2>7. CASE BootDone
    <3>1. /\ rows' = rows /\ phase # "down" /\ pc'[a] = "idle"
          /\ \A b \in Actors \ {a} : pc'[b] = pc[b] /\ op'[b] = op[b] /\ verdict'[b] = verdict[b]
          /\ UNCHANGED <<desired, disowned, reaping>>
      BY <1>4, <2>1, <2>7 DEF BootDone, Goto, journal
    <3> QED BY <1>1, <2>1, <3>1, OneActorDiverges DEF Busy
  <2> QED BY <1>16, <2>2, <2>3, <2>4, <2>5, <2>6, <2>7 DEF BootStep
<1>17. CASE UNCHANGED vars
  BY <1>17 DEF vars, journal, desired, Diverging, Behind, Explained, Busy
<1> QED BY <1>5, <1>6, <1>10, <1>11, <1>12, <1>13, <1>14, <1>15, <1>16, <1>17 DEF Next

\* When the running bus serves a value other than the one on disk, the newest
\* application is on record as running or uncertain, or a person has dismissed
\* it (theme.go, views.go setLayout, actions.go executeCtl).
THEOREM DivergenceRecorded == Spec => []DivergenceIsRecorded
<1>1. Init => Diverging
  BY DEF Init, Diverging, Behind
<1>2. IInv /\ OInv /\ Diverging /\ [Next]_vars => Diverging'
  BY StepDiverging
<1>3. Diverging => DivergenceIsRecorded
  BY DEF Diverging, Behind, Explained, DivergenceIsRecorded
<1> QED BY <1>1, <1>2, <1>3, OutcomesInductive, PTL DEF Spec

-----------------------------------------------------------------------------
(* Recovery.  First what the journal and the values say of each other.      *)

\* A handler of a control message, which alone changes the saved values.
Applies(a, v) ==
  /\ pc[a] = "apply" /\ HandleCtl(a, v) /\ Goto(a, "settle")
  /\ UNCHANGED <<rows, next, phase, journalErr, op, reaping, queue, recovery, reported>>

LEMMA SavedChanges ==
  ASSUME [Next]_vars
  PROVE  saved' = saved \/ \E a \in Conns \cup {Boot}, v \in States : Applies(a, v)
<1>1. ASSUME NEW a \in Conns, CtlStep(a)
      PROVE  saved' = saved \/ \E v \in States : Applies(a, v)
  <2>1. CASE CtlApply(a)
    BY <2>1 DEF CtlApply, Applies
  <2> QED BY <1>1, <2>1 DEF CtlStep, CtlLock, CtlAccept, CtlStart, CtlSettle, desired
<1>2. CASE BootStep
  <2>1. CASE BootApply
    BY <2>1 DEF BootApply, Applies
  <2> QED BY <1>2, <2>1 DEF BootStep, Open, BootList, BootReconcile, BootSupersede, BootStart, BootSettle,
                            BootDone, desired
<1>3. CASE UNCHANGED vars
  BY <1>3 DEF vars, desired
<1>4. ASSUME NEW a, NEW m, CtlReceive(a, m) \/ DockReceive(a, m) PROVE saved' = saved
  BY <1>4 DEF CtlReceive, DockReceive, desired
<1>5. ASSUME NEW i, DiscardReviewed(i) \/ DockStep(i) \/ Reap(i) PROVE saved' = saved
  BY <1>5 DEF DiscardReviewed, DockStep, DockAccept, DockDiscard, Reap, desired
<1>6. CASE InputStep
  BY <1>6 DEF InputStep, InputTake, InputAccept, InputStart, InputApply, InputSettle, desired
<1>7. CASE Crash
  BY <1>7 DEF Crash
<1> QED BY <1>1, <1>2, <1>3, <1>4, <1>5, <1>6, <1>7 DEF Next

\* Reports are made by control connections, of the row they leave.
LEMMA ReportsMade ==
  ASSUME IInv, [Next]_vars
  PROVE  \A p \in reported' : ReportStep(p)
<1>1. ASSUME reported' = reported PROVE \A p \in reported' : ReportStep(p)
  BY <1>1 DEF ReportStep
<1>2. ASSUME NEW a \in Conns, CtlStep(a) PROVE \A p \in reported' : ReportStep(p)
  <2>1. a \in Actors /\ TypeOK
    BY ActorsKnown DEF IInv
  <2>2. CASE CtlLock(a) \/ CtlApply(a)
    BY <1>1, <2>2 DEF CtlLock, CtlApply
  <2>3. CASE CtlAccept(a)
    <3>1. op[a] \in Messages /\ op[a].id \in Ids /\ rows[op[a].id] \in Row
      BY <2>1, <2>3 DEF CtlAccept, IInv, Ownership, TypeOK
    <3>2. CASE AcceptKnown(op[a]) /\ Reply(a, {rows[op[a].id].state})
      <4>1. reported' = reported \cup {<<rows[op[a].id].seq, rows[op[a].id].state>>}
        BY <2>1, <3>2, ReplyFrame
      <4>2. rows' = rows /\ rows[op[a].id].state \in States
        BY <3>1, <3>2 DEF AcceptKnown, journal, Row
      <4> QED BY <3>1, <4>1, <4>2 DEF ReportStep
    <3>3. CASE UNCHANGED reported \/ Reply(a, {})
      BY <1>1, <2>1, <3>3, ReplyFrame
    <3> QED BY <2>3, <3>2, <3>3 DEF CtlAccept
  <2>4. CASE CtlStart(a)
    <3>1. UNCHANGED reported \/ Reply(a, {})
      BY <2>4 DEF CtlStart
    <3> QED BY <1>1, <2>1, <3>1, ReplyFrame
  <2>5. CASE CtlSettle(a)
    <3>1. op[a].id \in Ids /\ verdict[a] \in States /\ "uncertain" \in States /\ "uncertain" \notin Terminal
      BY <2>1, <2>5 DEF CtlSettle, IInv, Ownership, TypeOK, States, Unresolved, Terminal, Applied
    <3>2. CASE Transitioned(op[a].id, "running", verdict[a]) /\ Reply(a, {verdict[a]})
      <4>1. reported' = reported \cup {<<rows[op[a].id].seq, verdict[a]>>}
        BY <2>1, <3>2, ReplyFrame
      <4>2. rows'[op[a].id].state = verdict[a]
        BY <3>1, <3>2, TransitionRows
      <4> QED BY <3>1, <4>1, <4>2 DEF ReportStep
    <3>3. CASE Reply(a, {"uncertain"})
      <4>1. reported' = reported \cup {<<rows[op[a].id].seq, "uncertain">>}
        BY <2>1, <3>3, ReplyFrame
      <4> QED BY <3>1, <4>1 DEF ReportStep
    <3> QED BY <2>5, <3>2, <3>3 DEF CtlSettle
  <2> QED BY <1>2, <2>2, <2>3, <2>4, <2>5 DEF CtlStep
<1>3. CASE BootStep
  BY <1>1, <1>3 DEF BootStep, Open, BootList, BootReconcile, BootSupersede, BootStart, BootApply, BootSettle,
                    BootDone
<1>4. CASE UNCHANGED vars
  BY <1>1, <1>4 DEF vars
<1>5. ASSUME NEW a, NEW m, CtlReceive(a, m) \/ DockReceive(a, m) PROVE reported' = reported
  BY <1>5 DEF CtlReceive, DockReceive
<1>6. ASSUME NEW i, DiscardReviewed(i) \/ DockStep(i) \/ Reap(i) PROVE reported' = reported
  BY <1>6 DEF DiscardReviewed, DockStep, DockAccept, DockDiscard, Reap
<1>7. CASE InputStep \/ Crash
  BY <1>1, <1>7 DEF InputStep, InputTake, InputAccept, InputStart, InputApply, InputSettle, Crash
<1> QED BY <1>1, <1>2, <1>3, <1>4, <1>5, <1>6, <1>7 DEF Next

LEMMA KeyOfMessage == ASSUME NEW m \in Messages PROVE KeyOf(m.req) = m.key
BY DEF KeyOf

\* Sequences are handed out in order.
LEMMA NextGrows ==
  ASSUME IInv, [Next]_vars
  PROVE  next \in Nat /\ next' \in Nat /\ next <= next'
<1>1. next \in Nat
  BY DEF IInv, TypeOK
<1>2. next' = next \/ next' = next + 1
  <2>1. ASSUME NEW i, NEW from, NEW to, Transitioned(i, from, to) \/ NotTransitioned(i, from, to)
        PROVE  next' = next
    BY <2>1 DEF Transitioned, NotTransitioned, Saved, Failed, Commit, journal
  <2>2. ASSUME NEW m, AcceptFresh(m) \/ AcceptKnown(m) \/ AcceptError(m)
        PROVE  next' = next \/ next' = next + 1
    BY <2>2 DEF AcceptFresh, AcceptNew, AcceptPending, AcceptKnown, AcceptError, Saved, Failed, Commit, journal
  <2>3. ASSUME NEW a \in Conns, CtlStep(a) PROVE next' = next \/ next' = next + 1
    BY <2>1, <2>2, <2>3 DEF CtlStep, CtlLock, CtlAccept, CtlStart, CtlApply, CtlSettle, journal
  <2>4. ASSUME NEW d \in Docks, DockStep(d) PROVE next' = next \/ next' = next + 1
    BY <2>1, <2>2, <2>4 DEF DockStep, DockAccept, DockDiscard
  <2>5. CASE InputStep
    BY <2>1, <2>2, <2>5 DEF InputStep, InputTake, InputAccept, InputStart, InputApply, InputSettle, journal
  <2>6. CASE BootStep
    BY <2>1, <2>6 DEF BootStep, Open, BootList, BootReconcile, BootSupersede, BootStart, BootApply, BootSettle,
                      BootDone, Saved, Failed, Commit, journal
  <2>7. ASSUME NEW m \in Messages, Reap(m) PROVE next' = next
    BY <2>1, <2>7 DEF Reap
  <2>8. ASSUME NEW i \in Ids, DiscardReviewed(i) PROVE next' = next
    BY <2>1, <2>8 DEF DiscardReviewed
  <2>9. CASE Crash \/ UNCHANGED vars
    BY <2>9 DEF Crash, vars, journal
  <2>10. ASSUME NEW a, NEW m, CtlReceive(a, m) \/ DockReceive(a, m) PROVE next' = next
    BY <2>10 DEF CtlReceive, DockReceive, journal
  <2> QED BY <2>3, <2>4, <2>5, <2>6, <2>7, <2>8, <2>9, <2>10 DEF Next
<1> QED BY <1>1, <1>2

\* A row that is there after a step is new, or was there with its request.
LEMMA RowThere ==
  ASSUME NEW i \in Ids, RowMove(i), rows'[i].state # Absent
  PROVE  \/ /\ rows'[i].seq = next
            /\ \E m \in Messages : m.id = i /\ rows'[i].req = m.req
         \/ /\ rows[i].state # Absent /\ rows'[i].seq = rows[i].seq /\ rows'[i].req = rows[i].req
            /\ rows'[i].state \in {"pending", "running"} => rows[i].state \in {"pending", "running"}
<1>1. CASE rows'[i] = rows[i]
  BY <1>1
<1>2. CASE rows'[i] = NoRow
  BY <1>2, StatesApart
<1>3. ASSUME NEW m \in Messages, m.id = i, rows'[i] = [state |-> "pending", seq |-> next, req |-> m.req]
      PROVE  rows'[i].seq = next /\ rows'[i].req = m.req
  BY <1>3
<1>4. CASE /\ rows[i].state \in Unresolved /\ rows'[i].seq = rows[i].seq /\ rows'[i].req = rows[i].req
           /\ rows'[i].state \in {"pending", "running"} => rows[i].state \in {"pending", "running"}
  <2>1. rows[i].state # Absent
    BY <1>4, StatesApart
  <2> QED BY <1>4, <2>1
<1> QED BY <1>1, <1>2, <1>3, <1>4 DEF RowMove

Books == Requested /\ Keyed /\ Told

\* A step that changes no saved value keeps the books.
LEMMA QuietBooks ==
  ASSUME IInv, IInv', OInv, OInv', KeysAreStreams, Books, [Next]_vars, saved' = saved
  PROVE  Books'
<1>1. TableStep /\ \A j \in Ids : RowMove(j)
  BY TableSteps, RowMoves
<1>2. next \in Nat /\ next' \in Nat /\ next <= next' /\ saved \in [Keys -> Nat] /\ rows \in [Ids -> Row]
  BY NextGrows DEF IInv, TypeOK
<1>3. Requested'
  <2> SUFFICES ASSUME NEW i \in Ids, rows'[i].state # Absent
               PROVE  \E m \in Messages : m.id = i /\ m.req = rows'[i].req
    BY DEF Requested
  <2>1. \/ rows[i].state # Absent /\ rows'[i].req = rows[i].req
        \/ \E m \in Messages : m.id = i /\ rows'[i].req = m.req
    BY <1>1, RowThere
  <2> QED BY <2>1 DEF Books, Requested
<1>4. ASSUME NEW i \in Ids, NEW k \in Keys, rows'[i].state # Absent, rows'[i].seq <= saved[k]
      PROVE  /\ rows[i].state # Absent /\ rows'[i].seq = rows[i].seq /\ rows'[i].req = rows[i].req
             /\ rows'[i].state \in {"pending", "running"} => rows[i].state \in {"pending", "running"}
  <2>1. saved[k] \in Nat /\ saved[k] < next
    BY <1>2 DEF Books, Keyed
  <2>2. rows'[i].seq # next
    BY <1>2, <1>4, <2>1
  <2> QED BY <1>1, <1>4, <2>2, RowThere
<1>5. Keyed'
  <2>1. ASSUME NEW k \in Keys PROVE saved'[k] < next'
    <3>1. saved[k] \in Nat /\ saved[k] < next
      BY <1>2 DEF Books, Keyed
    <3> QED BY <1>2, <3>1
  <2>2. ASSUME NEW k \in Keys, NEW i \in Ids, rows'[i].state # Absent, rows'[i].seq = saved'[k]
        PROVE  KeyOf(rows'[i].req) = k
    <3>1. rows'[i].seq <= saved[k]
      BY <1>2, <2>2
    <3>2. rows[i].state # Absent /\ rows[i].seq = saved[k] /\ rows'[i].req = rows[i].req
      BY <1>4, <2>2, <3>1
    <3> QED BY <3>2 DEF Books, Keyed
  <2> QED BY <2>1, <2>2 DEF Keyed
<1>6. Told'
  <2> SUFFICES ASSUME NEW i \in Ids, NEW k \in Keys, NEW s \in Applied,
                      rows'[i].state \in {"pending", "running"}, rows'[i].req.policy = "reconcile",
                      KeyOf(rows'[i].req) = k, saved[k] > rows'[i].seq, <<saved[k], s>> \in reported'
               PROVE  \E j \in Ids : /\ rows'[j].state \in Applied /\ rows'[j].seq > rows'[i].seq
                                     /\ KeyOf(rows'[j].req) = k
    BY DEF Told
  <2>1. rows'[i].seq \in Nat /\ saved[k] \in Nat
    BY <1>2 DEF IInv, TypeOK, Row
  <2>2. /\ rows'[i].seq = rows[i].seq /\ rows'[i].req = rows[i].req
        /\ rows[i].state \in {"pending", "running"} /\ rows[i].state # Absent
    BY <1>4, <2>1 DEF Absent
  <2>3. CASE <<saved[k], s>> \in reported
    <3>1. PICK j \in Ids : /\ rows[j].state \in Applied /\ rows[j].seq > rows[i].seq
                           /\ KeyOf(rows[j].req) = k
      BY <2>2, <2>3 DEF Books, Told
    <3>2. PICK m \in Messages : m.id = i /\ m.req = rows[i].req
      BY <2>2 DEF Books, Requested
    <3>3. PICK n \in Messages : n.id = j /\ n.req = rows[j].req
      BY <3>1, StatesApart DEF Books, Requested, Terminal
    <3>4. m.key = k /\ n.key = k /\ k # NoKey
      BY <2>2, <3>1, <3>2, <3>3, KeyOfMessage
    <3>5. SameStream(rows[i].req, rows[j].req)
      BY <3>2, <3>3, <3>4 DEF KeysAreStreams
    <3>6. PICK l \in Ids : /\ rows'[l].state \in Applied /\ rows'[l].seq > rows[i].seq
                           /\ SameStream(rows[i].req, rows'[l].req)
                           /\ rows'[l].req.policy = rows[j].req.policy
      BY <1>1, <2>2, <3>1, <3>5, ProofKept DEF OInv
    <3>7. PICK o \in Messages : o.id = l /\ o.req = rows'[l].req
      BY <1>3, <3>6, StatesApart DEF Requested, Terminal
    <3>8. SameStream(o.req, n.req) /\ o.req.policy = n.req.policy
      BY <3>3, <3>5, <3>6, <3>7 DEF SameStream
    <3>9. KeyOf(rows'[l].req) = k
      BY <3>4, <3>7, <3>8, KeyOfMessage DEF KeysAreStreams
    <3> QED BY <2>2, <3>6, <3>9
  <2>4. CASE <<saved[k], s>> \notin reported
    <3>1. ReportStep(<<saved[k], s>>) /\ s \in Terminal
      BY ReportsMade DEF Terminal
    <3>2. PICK j \in Ids : saved[k] = rows[j].seq /\ (rows[j].state = Absent \/ rows'[j].state = s)
      BY <2>4, <3>1 DEF ReportStep
    <3>3. rows[j].state # Absent
      <4>1. rows[j].state = Absent => rows[j].seq = 0
        BY DEF IInv, JournalOK
      <4> QED BY <2>1, <3>2, <4>1
    <3>4. rows'[j].state = s /\ s # Absent /\ s # "pending"
      BY <3>1, <3>2, <3>3, StatesApart
    <3>5. rows'[j].seq = rows[j].seq
      BY <1>1, <3>3, <3>4, StatesApart DEF RowMove
    <3>6. KeyOf(rows'[j].req) = k
      BY <1>5, <3>2, <3>4, <3>5 DEF Keyed
    <3> QED BY <3>2, <3>4, <3>5, <3>6
  <2> QED BY <2>3, <2>4
<1> QED BY <1>3, <1>5, <1>6 DEF Books

\* A handler that takes a value takes it from the row of its own operation,
\* whose outcome nobody has been told.
LEMMA ApplyBooks ==
  ASSUME IInv, OInv, IdsNameRequests, Books,
         NEW a \in Conns \cup {Boot}, NEW v \in States, Applies(a, v)
  PROVE  Books'
<1>1. a \in Actors /\ op[a] \in Messages /\ op[a].id \in Ids /\ rows[op[a].id].state = "running"
  BY ActorsKnown DEF Applies, IInv, Ownership, Busy
<1>2. rows' = rows /\ next' = next /\ reported' = reported
  BY DEF Applies
<1>3. rows[op[a].id].req = op[a].req
  <2>1. PICK m \in Messages : m.id = op[a].id /\ m.req = rows[op[a].id].req
    BY <1>1 DEF Books, Requested, Absent
  <2> QED BY <1>1, <2>1 DEF IdsNameRequests
<1>4. ASSUME NEW k \in Keys
      PROVE  \/ saved'[k] = saved[k]
             \/ saved'[k] = rows[op[a].id].seq /\ k = op[a].key
  <2>1. ASSUME NEW n, NEW x \in BOOLEAN, Choose(op[a].key, n, x)
        PROVE  saved'[k] = saved[k] \/ (saved'[k] = n /\ k = op[a].key)
    BY <2>1 DEF Choose, IInv, TypeOK
  <2>2. CASE UNCHANGED desired
    BY <2>2 DEF desired
  <2> QED BY <2>1, <2>2 DEF Applies, HandleCtl, ApplyOther, ApplyDesired
<1>5. Requested'
  BY <1>2 DEF Books, Requested
<1>6. Keyed'
  <2>1. ASSUME NEW k \in Keys PROVE saved'[k] < next'
    BY <1>1, <1>2, <1>4 DEF Books, Keyed, OInv, Sequenced
  <2>2. ASSUME NEW k \in Keys, NEW i \in Ids, rows'[i].state # Absent, rows'[i].seq = saved'[k]
        PROVE  KeyOf(rows'[i].req) = k
    <3>1. CASE saved'[k] = saved[k]
      BY <1>2, <2>2, <3>1 DEF Books, Keyed
    <3>2. CASE saved'[k] = rows[op[a].id].seq /\ k = op[a].key
      <4>1. i = op[a].id
        BY <1>1, <1>2, <2>2, <3>2 DEF OInv, Sequenced
      <4> QED BY <1>1, <1>2, <1>3, <3>2, <4>1, KeyOfMessage
    <3> QED BY <1>4, <3>1, <3>2
  <2> QED BY <2>1, <2>2 DEF Keyed
<1>7. Told'
  <2> SUFFICES ASSUME NEW i \in Ids, NEW k \in Keys, NEW s \in Applied,
                      rows[i].state \in {"pending", "running"}, rows[i].req.policy = "reconcile",
                      KeyOf(rows[i].req) = k, saved'[k] > rows[i].seq, <<saved'[k], s>> \in reported
               PROVE  \E j \in Ids : /\ rows[j].state \in Applied /\ rows[j].seq > rows[i].seq
                                     /\ KeyOf(rows[j].req) = k
    BY <1>2 DEF Told
  <2>1. CASE saved'[k] = saved[k]
    BY <2>1 DEF Books, Told
  <2>2. CASE saved'[k] = rows[op[a].id].seq
    <3>1. s \in Terminal /\ s # "running"
      BY DEF Terminal, Applied
    <3>2. rows[op[a].id].state = s
      BY <1>1, <2>2, <3>1 DEF OInv, ReportedOutcomeStands, Absent
    <3> QED BY <1>1, <3>1, <3>2
  <2> QED BY <1>4, <2>1, <2>2
<1> QED BY <1>5, <1>6, <1>7 DEF Books

\* Whoever serves finds the bus up and leaves it up: while it boots, nobody but
\* the booting goroutine moves.
LEMMA Serving ==
  ASSUME IInv, Alone, [Next]_vars
  PROVE  \/ phase = "up" /\ phase' = "up" /\ pc'[Boot] = pc[Boot]
         \/ Crash \/ BootStep \/ UNCHANGED vars
<1>1. /\ pc \in [Actors -> PcStates] /\ phase \in {"down", "boot", "up"}
      /\ \A a \in Conns \cup Docks \cup {InputWorker} : a \in Actors /\ a # Boot
  BY DEF IInv, TypeOK, Actors
<1>2. ASSUME NEW a \in Conns \cup Docks \cup {InputWorker}, pc[a] # "idle" PROVE phase = "up"
  BY <1>1, <1>2 DEF Alone
<1>3. ASSUME NEW a \in Conns, NEW m, CtlReceive(a, m)
      PROVE  phase = "up" /\ phase' = "up" /\ pc'[Boot] = pc[Boot]
  BY <1>1, <1>3 DEF CtlReceive, Goto
<1>4. ASSUME NEW d \in Docks, NEW m, DockReceive(d, m)
      PROVE  phase = "up" /\ phase' = "up" /\ pc'[Boot] = pc[Boot]
  <2>1. /\ phase = "up" /\ phase' = phase
        /\ pc' = pc \/ pc' = [pc EXCEPT ![d] = "accept"]
    BY <1>4 DEF DockReceive, Goto
  <2>2. d \in Actors /\ d # Boot
    BY <1>1
  <2>3. pc'[Boot] = pc[Boot]
    <3>1. CASE pc' = pc
      BY <3>1
    <3>2. CASE pc' = [pc EXCEPT ![d] = "accept"]
      BY <1>1, <2>2, <3>2
    <3> QED BY <2>1, <3>1, <3>2
  <2> QED BY <2>1, <2>3
<1>5. ASSUME NEW a \in Conns, CtlStep(a)
      PROVE  phase = "up" /\ phase' = "up" /\ pc'[Boot] = pc[Boot]
  <2>1. pc[a] # "idle" /\ phase' = phase
    BY <1>5 DEF CtlStep, CtlLock, CtlAccept, CtlStart, CtlApply, CtlSettle
  <2>2. \E there : pc' = [pc EXCEPT ![a] = there]
    BY <1>5 DEF CtlStep, CtlLock, CtlAccept, CtlStart, CtlApply, CtlSettle, Goto, Reply
  <2> QED BY <1>1, <1>2, <2>1, <2>2
<1>6. ASSUME NEW d \in Docks, DockStep(d)
      PROVE  phase = "up" /\ phase' = "up" /\ pc'[Boot] = pc[Boot]
  <2>1. pc[d] # "idle" /\ phase' = phase /\ \E there : pc' = [pc EXCEPT ![d] = there]
    BY <1>6 DEF DockStep, DockAccept, DockDiscard, Goto, Drop
  <2> QED BY <1>1, <1>2, <2>1
<1>7. CASE InputStep
  <2>1. phase' = phase /\ \E there : pc' = [pc EXCEPT ![InputWorker] = there]
    BY <1>7 DEF InputStep, InputTake, InputAccept, InputStart, InputApply, InputSettle, Goto, Drop
  <2>2. pc[InputWorker] # "idle" \/ queue # <<>>
    BY <1>7 DEF InputStep, InputTake, InputAccept, InputStart, InputApply, InputSettle
  <2> QED BY <1>1, <1>2, <2>1, <2>2 DEF Alone
<1>8. ASSUME NEW m, Reap(m)
      PROVE  phase = "up" /\ phase' = "up" /\ pc'[Boot] = pc[Boot]
  BY <1>1, <1>8 DEF Reap, Alone
<1>9. ASSUME NEW i, DiscardReviewed(i)
      PROVE  phase = "up" /\ phase' = "up" /\ pc'[Boot] = pc[Boot]
  BY <1>9 DEF DiscardReviewed
<1> QED BY <1>3, <1>4, <1>5, <1>6, <1>7, <1>8, <1>9 DEF Next

LEMMA StepAlone ==
  ASSUME IInv, Alone, [Next]_vars
  PROVE  Alone'
<1>1. pc \in [Actors -> PcStates] /\ Boot \in Actors
  BY ActorsKnown DEF IInv, TypeOK
<1>2. CASE phase = "up" /\ phase' = "up" /\ pc'[Boot] = pc[Boot]
  BY <1>2 DEF Alone
<1>3. CASE Crash
  BY <1>1, <1>3 DEF Crash, Alone
<1>4. CASE BootStep
  <2> SUFFICES /\ phase' \in {"boot", "up"}
               /\ \E there \in {"idle", "list", "scan", "apply", "settle"} : pc' = [pc EXCEPT ![Boot] = there]
               /\ pc'[Boot] # "idle" => phase' = "boot"
               /\ phase # "up" /\ queue' = queue /\ reaping' = reaping
    BY <1>1 DEF Alone, IInv, TypeOK
  <2>1. CASE Open
    BY <1>1, <2>1 DEF Open, Goto
  <2>2. CASE BootList
    BY <1>1, <2>2 DEF BootList, Goto
  <2>3. CASE BootApply
    BY <1>1, <2>3 DEF BootApply, Goto, Alone
  <2>4. CASE BootSettle
    BY <1>1, <2>4 DEF BootSettle, Alone
  <2>5. CASE BootDone
    BY <1>1, <2>5 DEF BootDone, Goto
  <2>6. ASSUME NEW i \in Ids, BootReconcile(i) PROVE
               /\ phase' \in {"boot", "up"}
               /\ \E there \in {"idle", "list", "scan", "apply", "settle"} : pc' = [pc EXCEPT ![Boot] = there]
               /\ pc'[Boot] # "idle" => phase' = "boot"
               /\ phase # "up" /\ queue' = queue /\ reaping' = reaping
    <3>1. pc = [pc EXCEPT ![Boot] = "scan"] /\ phase = "boot"
      BY <1>1, <2>6 DEF BootReconcile
    <3>2. CASE BootSupersede(i)
      BY <3>1, <3>2 DEF BootSupersede
    <3>3. CASE BootStart(i)
      BY <3>1, <3>3 DEF BootStart, Goto
    <3> QED BY <2>6, <3>2, <3>3 DEF BootReconcile
  <2> QED BY <1>4, <2>1, <2>2, <2>3, <2>4, <2>5, <2>6 DEF BootStep
<1>5. CASE UNCHANGED vars
  BY <1>5 DEF vars, Alone
<1> QED BY <1>2, <1>3, <1>4, <1>5, Serving

\* Recovery deals with one listed row at a time, oldest first, and touches no
\* other.
LEMMA StepScanned ==
  ASSUME IInv, Alone, Requested, Scanned, [Next]_vars
  PROVE  Scanned'
<1>1. /\ pc \in [Actors -> PcStates] /\ op \in [Actors -> Messages \cup {NoOp}] /\ Boot \in Actors
      /\ rows \in [Ids -> Row] /\ records \in [Ids -> Row] /\ cursor \in Nat
      /\ verdict[Boot] \in States
  BY ActorsKnown DEF IInv, TypeOK
<1>2. /\ "pending" \in States /\ "running" \in States /\ "discarded" \in States
  BY DEF States, Terminal, Unresolved, Applied
<1>3. CASE phase = "up" /\ phase' = "up" /\ pc'[Boot] = pc[Boot]
  <2>1. pc'[Boot] = "idle"
    BY <1>3 DEF Alone
  <2> QED BY <2>1 DEF Scanned
<1>4. CASE Crash
  BY <1>1, <1>4 DEF Crash, Scanned
<1>5. CASE Open
  <2>1. pc'[Boot] = "list"
    BY <1>1, <1>5 DEF Open, Goto
  <2>2. ASSUME NEW i \in Ids, ~ journalErr', rows'[i].state = "pending"
        PROVE  rows'[i].req.policy = "reconcile"
    <3>1. rows' = Recover(rows)
      BY <1>5, <2>2 DEF Open, Saved, Commit
    <3>2. CASE rows[i].state = Absent
      BY <1>1, <2>2, <3>1, <3>2, StatesApart DEF Recover, Absent
    <3>3. CASE rows[i].state # Absent
      <4>1. rows[i].req \in Requests
        BY <3>3 DEF Requested
      <4>2. rows[i].req.policy \in {"discard-on-restart", "reconcile", "review"}
        BY <4>1
      <4>3. /\ rows'[i].req = rows[i].req
            /\ rows'[i].state = RecoveredState(rows[i].state, rows[i].req.policy)
        BY <1>1, <3>1, <3>3 DEF Recover, Row
      <4> QED BY <2>2, <4>2, <4>3 DEF RecoveredState
    <3> QED BY <3>2, <3>3
  <2> QED BY <2>1, <2>2 DEF Scanned
<1>6. CASE BootList
  <2>1. CASE pc'[Boot] = "idle"
    BY <2>1 DEF Scanned
  <2>2. CASE pc'[Boot] # "idle"
    <3>1. /\ pc[Boot] = "list" /\ pc'[Boot] = "scan" /\ ~ journalErr
          /\ records' = rows /\ rows' = rows
      BY <1>1, <1>6, <2>2 DEF BootList, Goto, journal
    <3>2. \A i \in Ids : Listed(i)'
      BY <3>1 DEF Scanned, Listed
    <3> QED BY <3>1, <3>2 DEF Scanned
  <2> QED BY <2>1, <2>2
<1>7. ASSUME NEW i \in Ids, NEW from \in States, NEW to \in States,
             Transitioned(i, from, to) \/ NotTransitioned(i, from, to), records' = records,
             \A j \in Ids : Listed(j), records[i].state = "pending",
             cursor <= records[i].seq, cursor' = records[i].seq
      PROVE  \A j \in Ids : Listed(j)'
  <2> SUFFICES ASSUME NEW j \in Ids PROVE Listed(j)'
    OBVIOUS
  <2>1. /\ j # i => rows'[j] = rows[j]
        /\ rows'[j].seq = rows[j].seq /\ rows'[j].req = rows[j].req
    <3>1. rows[i] \in Row
      BY <1>1
    <3>2. /\ j # i => rows'[j] = rows[j]
          /\ rows'[i] = rows[i] \/ rows'[i] = [rows[i] EXCEPT !.state = to]
      BY <1>7, TransitionRows
    <3>3. rows'[i].seq = rows[i].seq /\ rows'[i].req = rows[i].req
      BY <3>1, <3>2 DEF Row
    <3> QED BY <3>2, <3>3
  <2>2. records[j].seq \in Nat /\ records[i].seq \in Nat
    BY <1>1 DEF Row
  <2>3. Listed(j)
    BY <1>7
  <2> QED BY <1>1, <1>7, <2>1, <2>2, <2>3 DEF Listed
<1>8. ASSUME NEW i \in Ids, BootReconcile(i) PROVE Scanned'
  <2>1. /\ pc[Boot] = "scan" /\ \A j \in Ids : Listed(j)
        /\ records[i].state = "pending" /\ cursor <= records[i].seq
    BY <1>1, <1>8 DEF BootReconcile, NextToReconcile, ToReconcile, Scanned, Row
  <2>2. CASE Superseded(i) /\ BootSupersede(i)
    <3>1. \A j \in Ids : Listed(j)'
      BY <1>2, <1>7, <2>1, <2>2 DEF BootSupersede
    <3>2. pc'[Boot] = "scan"
      BY <2>1, <2>2 DEF BootSupersede
    <3> QED BY <3>1, <3>2 DEF Scanned
  <2>3. CASE ~ Superseded(i) /\ BootStart(i)
    <3>1. (\A j \in Ids : Listed(j)') /\ records' = records /\ cursor' = records[i].seq
      BY <1>2, <1>7, <2>1, <2>3 DEF BootStart
    <3>2. \/ pc'[Boot] = "scan"
          \/ pc'[Boot] = "apply" /\ op'[Boot].id = i
      BY <1>1, <2>1, <2>3 DEF BootStart, Goto
    <3>3. ~ Superseded(i)'
      BY <2>3, <3>1 DEF Superseded, Undecided
    <3> QED BY <2>1, <3>1, <3>2, <3>3 DEF Scanned
  <2> QED BY <1>8, <2>2, <2>3 DEF BootReconcile
<1>9. CASE BootApply
  <2>1. /\ pc[Boot] = "apply" /\ pc'[Boot] = "settle"
        /\ UNCHANGED <<rows, records, cursor, op>>
    BY <1>1, <1>9 DEF BootApply, Goto, recovery
  <2> QED BY <2>1 DEF Scanned, Listed, Superseded, Undecided
<1>10. CASE BootSettle
  <2>1. /\ pc[Boot] = "settle" /\ pc'[Boot] = "scan" /\ op[Boot].id \in Ids
        /\ records' = records /\ cursor' = cursor
    BY <1>1, <1>10 DEF BootSettle, recovery, IInv, Ownership
  <2>2. /\ records[op[Boot].id].state = "pending" /\ records[op[Boot].id].seq = cursor
        /\ \A j \in Ids : Listed(j)
    BY <2>1 DEF Scanned
  <2>3. \A j \in Ids : Listed(j)'
    BY <1>1, <1>2, <1>7, <1>10, <2>1, <2>2 DEF BootSettle
  <2> QED BY <2>1, <2>3 DEF Scanned
<1>11. CASE BootDone
  BY <1>1, <1>11 DEF BootDone, Goto, Scanned
<1>12. CASE UNCHANGED vars
  BY <1>12 DEF vars, journal, recovery, Scanned, Listed, Superseded, Undecided
<1> QED BY <1>3, <1>4, <1>5, <1>6, <1>8, <1>9, <1>10, <1>11, <1>12, Serving DEF BootStep

\* All of it, step by step, where clients and keys behave.
LEMMA StepRInv ==
  ASSUME IInv, IInv', OInv, OInv', IdsNameRequests, KeysAreStreams, RInv, [Next]_vars
  PROVE  RInv'
<1>1. Books'
  <2>1. Books
    BY DEF RInv, Books
  <2> QED BY <2>1, SavedChanges, QuietBooks, ApplyBooks
<1>2. Alone'
  BY StepAlone DEF RInv
<1>3. Scanned'
  BY StepScanned DEF RInv
<1> QED BY <1>1, <1>2, <1>3 DEF RInv, Books

LEMMA InitRInv == Init => RInv
<1> SUFFICES ASSUME Init PROVE RInv
  OBVIOUS
<1>1. /\ \A i \in Ids : rows[i].state = Absent
      /\ \A a \in Actors : pc[a] = "idle"
      /\ phase = "up" /\ next = 1 /\ Boot \in Actors /\ reported = {}
      /\ \A k \in Keys : saved[k] = 0
  BY ActorsKnown DEF Init, EmptyTable, NoRow
<1> QED BY <1>1 DEF RInv, Requested, Keyed, Alone, Scanned, Told

\* A choice that recovery overwrites had failed, or was discarded, or its row
\* is gone, and nobody was told that it is applied.
LEMMA OlderOnlyIfDecided ==
  ASSUME IInv, OInv, IdsNameRequests, RInv, [Next]_vars, phase = "boot",
         NEW k \in Keys, saved'[k] < saved[k]
  PROVE  /\ \A i \in Ids : rows[i].seq = saved[k] => rows[i].state \in {"failed", "discarded"}
         /\ \A s \in Applied : <<saved[k], s>> \notin reported
<1> DEFINE mine == op[Boot].id
<1>1. /\ saved \in [Keys -> Nat] /\ rows \in [Ids -> Row] /\ records \in [Ids -> Row] /\ saved[k] \in Nat
  BY DEF IInv, TypeOK
<1>2. PICK v \in States : Applies(Boot, v)
  <2>1. saved' # saved
    BY <1>1
  <2>2. \A a \in Conns : pc[a] = "idle"
    BY ActorsKnown DEF RInv, Alone
  <2> QED BY <2>1, <2>2, SavedChanges DEF Applies
<1>3. /\ op[Boot] \in Messages /\ mine \in Ids /\ rows[mine].state = "running"
  BY <1>2, ActorsKnown DEF Applies, IInv, Ownership, Busy
<1>4. rows[mine].req = op[Boot].req
  <2>1. PICK m \in Messages : m.id = mine /\ m.req = rows[mine].req
    BY <1>3 DEF RInv, Requested, Absent
  <2> QED BY <1>3, <2>1 DEF IdsNameRequests
<1>5. saved'[k] = rows[mine].seq /\ k = op[Boot].key
  <2>1. ASSUME NEW n, NEW x \in BOOLEAN, Choose(op[Boot].key, n, x)
        PROVE  saved'[k] = saved[k] \/ (saved'[k] = n /\ k = op[Boot].key)
    BY <1>1, <2>1 DEF Choose
  <2>2. UNCHANGED desired => saved'[k] = saved[k]
    BY DEF desired
  <2>3. saved'[k] = saved[k] \/ (saved'[k] = rows[mine].seq /\ k = op[Boot].key)
    BY <1>2, <2>1, <2>2 DEF Applies, HandleCtl, ApplyOther, ApplyDesired
  <2> QED BY <1>1, <2>3
<1>6. KeyOf(rows[mine].req) = k
  BY <1>3, <1>4, <1>5, KeyOfMessage
<1>7. /\ \A j \in Ids : Listed(j)
      /\ records[mine].state = "pending" /\ records[mine].seq = cursor /\ ~ Superseded(mine)
  BY <1>2 DEF Applies, RInv, Scanned
<1>8. /\ records[mine].seq = rows[mine].seq /\ records[mine].req = rows[mine].req
      /\ rows[mine].req.policy = "reconcile"
  BY <1>3, <1>7 DEF Listed
<1>9. ASSUME NEW j \in Ids, rows[j].seq > rows[mine].seq, KeyOf(rows[j].req) = k
      PROVE  rows[j].state \in {Absent, "failed", "discarded"}
  <2>1. Listed(j) /\ records[j].seq \in Nat /\ records[mine].seq \in Nat
    BY <1>1, <1>3, <1>7 DEF Row
  <2>2. records[j].seq = rows[j].seq /\ records[j].req = rows[j].req /\ rows[j].state = records[j].state
    BY <1>7, <1>8, <1>9, <2>1 DEF Listed
  <2>3. ~ Undecided(j)
    BY <1>6, <1>7, <1>8, <1>9, <2>2 DEF Superseded
  <2> QED BY <2>2, <2>3 DEF Undecided
<1>10. ASSUME NEW i \in Ids, rows[i].seq = saved[k] PROVE rows[i].state \in {"failed", "discarded"}
  <2>1. rows[i].seq > rows[mine].seq /\ rows[i].seq # 0
    BY <1>1, <1>3, <1>5, <1>10 DEF Row
  <2>2. rows[i].state # Absent
    BY <2>1 DEF IInv, JournalOK
  <2>3. KeyOf(rows[i].req) = k
    BY <1>10, <2>2 DEF RInv, Keyed
  <2> QED BY <1>9, <2>1, <2>2, <2>3
<1>11. ASSUME NEW s \in Applied, <<saved[k], s>> \in reported PROVE FALSE
  <2>1. saved[k] > rows[mine].seq
    BY <1>1, <1>3, <1>5 DEF Row
  <2>2. PICK j \in Ids : /\ rows[j].state \in Applied /\ rows[j].seq > rows[mine].seq
                         /\ KeyOf(rows[j].req) = k
    BY <1>3, <1>6, <1>8, <1>11, <2>1 DEF RInv, Told
  <2> QED BY <1>9, <2>2 DEF Applied, Absent
<1> QED BY <1>10, <1>11

\* Recovery keeps the newest choice of every key, whatever crashes, journal
\* errors and retries came before: an older value returns only over one whose
\* record failed, was discarded or is gone, and of which no client was told
\* that it is applied (actions.go recoverActions, its latest map).
THEOREM RecoveryKeepsNewest ==
  ASSUME IdsNameRequests, KeysAreStreams
  PROVE  Spec => RecoveryKeepsNewestChoice
<1>1. Init => RInv
  BY InitRInv
<1>2. IInv /\ OInv /\ RInv /\ [Next]_vars /\ (IInv /\ OInv)' => RInv'
  BY StepRInv
<1>3. IInv /\ OInv /\ RInv /\ [Next]_vars =>
        [ phase = "boot" /\ phase' = "boot" =>
            \A k \in Keys : saved'[k] < saved[k] =>
              /\ \A i \in Ids : rows[i].seq = saved[k] => rows[i].state \in {"failed", "discarded"}
              /\ \A s \in Applied : <<saved[k], s>> \notin reported ]_vars
  BY OlderOnlyIfDecided
<1> QED BY <1>1, <1>2, <1>3, OutcomesInductive, PTL DEF Spec, RecoveryKeepsNewestChoice
=============================================================================
