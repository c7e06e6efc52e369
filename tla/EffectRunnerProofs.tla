------------------------- MODULE EffectRunnerProofs -------------------------
(***************************************************************************)
(* The effect runner keeps its order, tells the truth about what it ran    *)
(* and lets no effect of a finished run start, for any number of           *)
(* producers, chains of any length and a queue of any size.                *)
(***************************************************************************)
EXTENDS EffectRunner, SequenceTheorems, TLAPS

USE EffectsAssumption

ProdPcs == {"idle", "boundary", "kill", "stamp", "accept", "send", "await", "discard"}
WorkerPcs == {"idle", "check", "drop", "mark", "start", "fail", "wait", "clear", "done"}
Exits == {"succeeded", "failed", "uncertain"}

Prod == [pc : ProdPcs, todo : Seq(BOOLEAN), mine : Seq(Nat), epoch : Nat, run : Nat, victim : Nat]
Chain == [ops : Seq(Nat), epoch : Nat]

(* The inductive invariant, in six parts.                                   *)

Types ==
  /\ run \in Nat /\ epoch \in Nat /\ closed \in BOOLEAN /\ stopped \in BOOLEAN
  /\ dispatchMu \in Producers \cup {Main, Free}
  /\ prod \in [Producers -> Prod]
  /\ ops \in Seq(Rows)
  /\ queue \in Seq(Chain) /\ Len(queue) <= QueueLimit
  /\ worker \in [pc : WorkerPcs, chain : Seq(Nat), epoch : Nat]
  /\ group \in 0 .. Len(ops)
  /\ child \in [op : Nat, live : BOOLEAN, cut : BOOLEAN, exit : Exits] /\ child.op \in 0 .. Len(ops)
  /\ main \in {"up", "lock", "close", "term", "grace", "join", "down"}
  /\ starts \in Seq(Nat)

\* One goroutine at a time is between a transition and the end of its dispatch.
Locked ==
  /\ \A p \in Producers : prod[p].pc # "idle" => dispatchMu = p
  /\ main = "close" => dispatchMu = Main
  /\ main \in {"term", "grace", "join", "down"} => closed
  /\ \A p \in Producers : prod[p].mine # <<>> => prod[p].pc \in {"send", "await", "discard"}

Numbered(s) == \A k \in 1 .. Len(s) : s[k] \in 1 .. Len(ops)
Sorted(s) == \A j, k \in 1 .. Len(s) : j < k => s[j] < s[k]
Before(s, t) == \A j \in 1 .. Len(s), k \in 1 .. Len(t) : s[j] < t[k]

\* Rows stand in one line: those started, the rest of the worker's chain, the
\* chains of the queue, and the chain a producer is about to send.
Line ==
  /\ Numbered(starts) /\ Sorted(starts)
  /\ Numbered(worker.chain) /\ Sorted(worker.chain)
  /\ \A i \in 1 .. Len(queue) : Numbered(queue[i].ops) /\ Sorted(queue[i].ops)
  /\ \A j \in 1 .. Len(starts), k \in 1 .. Len(worker.chain) :
       \/ starts[j] < worker.chain[k]
       \/ k = 1 /\ starts[j] <= worker.chain[1] /\ worker.pc \in {"wait", "clear"}
  /\ \A i \in 1 .. Len(queue) : Before(starts, queue[i].ops) /\ Before(worker.chain, queue[i].ops)
  /\ \A h, i \in 1 .. Len(queue) : h < i => Before(queue[h].ops, queue[i].ops)
EndOfLine(s) ==
  /\ Numbered(s) /\ Sorted(s) /\ Before(starts, s) /\ Before(worker.chain, s)
  /\ \A i \in 1 .. Len(queue) : Before(queue[i].ops, s)
InLine == Line /\ \A p \in Producers : EndOfLine(prod[p].mine)

\* The worker works on the head of its chain, and a live child is that head's.
Working ==
  /\ worker.pc \in {"idle", "done"} => worker.chain = <<>>
  /\ worker.pc \in {"drop", "mark", "start", "fail", "wait", "clear"} => worker.chain # <<>>
  /\ worker.pc = "drop" => ~ ops[At].final
  /\ worker.pc = "start" => ops[At].state = "running"
  /\ worker.pc \in {"wait", "clear"} => group = At /\ \E s \in 1 .. Len(starts) : starts[s] = At
  /\ worker.pc \notin {"wait", "clear"} => group = 0
  /\ child.live => worker.pc = "wait" /\ child.op = At

\* A chain stamped with the epoch that is, holds rows of the run that is, unless
\* a boundary is on its way.
Quiet == \A p \in Producers : prod[p].pc # "boundary"
OfRun(s) == \A k \in 1 .. Len(s) : ops[s[k]].run = run
Stamped ==
  /\ worker.epoch <= epoch /\ \A i \in 1 .. Len(queue) : queue[i].epoch <= epoch
  /\ \A p \in Producers : prod[p].epoch <= epoch /\ prod[p].run <= run
  /\ \A p \in Producers : prod[p].pc # "idle" => prod[p].run = run
  /\ \A p \in Producers : prod[p].pc \in {"accept", "send", "await"} => prod[p].epoch = epoch
  /\ \A p \in Producers : prod[p].pc \in {"send", "await"} => OfRun(prod[p].mine)
  /\ Quiet => /\ worker.epoch = epoch => OfRun(worker.chain)
              /\ \A i \in 1 .. Len(queue) : queue[i].epoch = epoch => OfRun(queue[i].ops)

\* What a boundary is about to signal is work, never cleanup.
Aimed ==
  \A p \in Producers : prod[p].victim # 0 =>
    prod[p].victim \in 1 .. Len(ops) /\ ~ ops[prod[p].victim].final

Honest ==
  \A i \in 1 .. Len(ops) :
    /\ ops[i].state = "discarded" => ~ ops[i].final /\ \A s \in 1 .. Len(starts) : starts[s] # i
    /\ ops[i].state = "succeeded" => \E s \in 1 .. Len(starts) : starts[s] = i

CleanupSpared == child.live /\ ops[child.op].final /\ child.cut => closed

IInv == /\ Types /\ Locked /\ InLine /\ Working /\ Stamped /\ Aimed /\ Honest
        /\ StaleChildIsCut /\ CleanupSpared

-----------------------------------------------------------------------------
(* Types, taken apart.                                                      *)

\* What the types say of a producer, a chain and a row.
LEMMA TypesApart ==
  ASSUME Types
  PROVE  /\ \A p \in Producers : /\ prod[p] \in Prod /\ prod[p].todo \in Seq(BOOLEAN)
                                 /\ prod[p].mine \in Seq(Nat) /\ prod[p].epoch \in Nat
                                 /\ prod[p].run \in Nat /\ prod[p].victim \in Nat
         /\ \A i \in 1 .. Len(queue) : queue[i].ops \in Seq(Nat) /\ queue[i].epoch \in Nat
         /\ worker.chain \in Seq(Nat) /\ worker.epoch \in Nat /\ worker.pc \in WorkerPcs
         /\ Len(ops) \in Nat /\ \A j \in 1 .. Len(ops) : ops[j] \in Rows
<1>1. \A p \in Producers : prod[p] \in Prod
  BY DEF Types
<1>2. \A i \in 1 .. Len(queue) : queue[i] \in Chain
  BY DEF Types
<1>3. Len(ops) \in Nat /\ \A j \in 1 .. Len(ops) : ops[j] \in Rows
  BY DEF Types
<1>4. worker \in [pc : WorkerPcs, chain : Seq(Nat), epoch : Nat]
  BY DEF Types
<1> QED BY <1>1, <1>2, <1>3, <1>4 DEF Prod, Chain

-----------------------------------------------------------------------------
(* Journal calls: no row goes, and none changes its run or its kind.        *)

RowsKept == /\ Len(ops) <= Len(ops')
            /\ \A j \in 1 .. Len(ops) : ops'[j].final = ops[j].final /\ ops'[j].run = ops[j].run

\* A transition call touches the state of one row at most.
LEMMA AttemptedRow ==
  ASSUME Types, NEW i \in 1 .. Len(ops), NEW from, NEW to \in OpStates, Attempted(i, from, to)
  PROVE  /\ ops' \in Seq(Rows) /\ Len(ops') = Len(ops) /\ RowsKept
         /\ \A j \in 1 .. Len(ops) : j # i => ops'[j] = ops[j]
         /\ ops'[i] = ops[i] \/ ops'[i].state = to
         /\ Moved(i, from, to) => ops'[i].state = to
<1> DEFINE row == [ops[i] EXCEPT !.state = to]
<1>1. ops \in Seq(Rows) /\ Len(ops) \in Nat /\ ops[i] \in Rows
  BY TypesApart DEF Types
<1>2. row \in Rows /\ row.final = ops[i].final /\ row.run = ops[i].run /\ row.state = to
  BY <1>1 DEF Rows
<1>3. CASE ops' = ops
  <2>1. Moved(i, from, to) => ops[i].state = to
    <3> SUFFICES ASSUME ops' = [ops EXCEPT ![i] = row] PROVE ops[i].state = to
      BY DEF Moved
    <3> HIDE DEF row
    <3>1. ops'[i] = row
      BY <1>1, <1>2, ExceptSeq
    <3> QED BY <1>2, <1>3, <3>1
  <2> QED BY <1>1, <1>3, <2>1 DEF RowsKept
<1>4. CASE ops' = [ops EXCEPT ![i] = row]
  <2> HIDE DEF row
  <2>1. /\ ops' \in Seq(Rows) /\ Len(ops') = Len(ops)
        /\ \A j \in 1 .. Len(ops) : ops'[j] = IF j = i THEN row ELSE ops[j]
    BY <1>1, <1>2, <1>4, ExceptSeq
  <2> QED BY <1>1, <1>2, <2>1 DEF RowsKept
<1> QED BY <1>3, <1>4 DEF Attempted, Moved, NotMoved

\* The head of the worker's chain is a row, and the rest of the chain is in line.
LEMMA HeadOfChain ==
  ASSUME Types, Line, worker.chain # <<>>
  PROVE  /\ At = worker.chain[1] /\ At \in 1 .. Len(ops) /\ Len(worker.chain) \in Nat \ {0}
         /\ Tail(worker.chain) \in Seq(Nat) /\ Len(Tail(worker.chain)) = Len(worker.chain) - 1
         /\ \A k \in 1 .. Len(Tail(worker.chain)) : Tail(worker.chain)[k] = worker.chain[k + 1]
<1>1. worker.chain \in Seq(Nat) /\ Len(worker.chain) \in Nat \ {0} /\ 1 \in 1 .. Len(worker.chain)
  BY TypesApart
<1>2. worker.chain[1] \in 1 .. Len(ops)
  BY <1>1 DEF Line, Numbered
<1>3. Head(worker.chain) = worker.chain[1]
  BY <1>1
<1> QED BY <1>1, <1>2, <1>3, HeadTailProperties DEF At

\* A longer journal numbers what a shorter one did.
LEMMA NumberedKept ==
  ASSUME Types, Types', Len(ops) <= Len(ops'), NEW s, Numbered(s)
  PROVE  \A k \in 1 .. Len(s) : s[k] \in 1 .. Len(ops')
<1>1. Len(ops) \in Nat /\ Len(ops') \in Nat
  BY DEF Types
<1>2. \A x \in 1 .. Len(ops) : x \in 1 .. Len(ops')
  BY <1>1
<1> QED BY <1>2 DEF Numbered

\* What a step leaves of the line when it moves none of it.
LEMMA LineKept ==
  ASSUME Types, Types', Line, Len(ops) <= Len(ops'), UNCHANGED <<starts, worker, queue>>
  PROVE  Line'
<1>1. /\ Numbered(starts)' /\ Numbered(worker.chain)'
      /\ \A i \in 1 .. Len(queue) : (\A k \in 1 .. Len(queue[i].ops) : queue[i].ops[k] \in 1 .. Len(ops'))
  BY NumberedKept DEF Line, Numbered
<1> QED BY <1>1 DEF Line, Numbered, Sorted, Before

\* What comes last goes on coming last when nobody moves.
LEMMA EndOfLineKept ==
  ASSUME Types, Types', NEW s, EndOfLine(s), Len(ops) <= Len(ops'), UNCHANGED <<starts, worker, queue>>
  PROVE  /\ \A k \in 1 .. Len(s) : s[k] \in 1 .. Len(ops')
         /\ Sorted(s) /\ Before(starts', s) /\ Before(worker'.chain, s)
         /\ \A i \in 1 .. Len(queue') : Before(queue'[i].ops, s)
BY NumberedKept DEF EndOfLine

\* Nothing comes after an empty chain.
LEMMA EmptyEnds ==
  /\ EndOfLine(<<>>)
  /\ \A k \in 1 .. Len(<<>>) : FALSE
BY DEF EndOfLine, Numbered, Sorted, Before

-----------------------------------------------------------------------------
(* A step of one producer that leaves the chains and the rows where they are. *)

\* The line and the ends of it.
LEMMA ProducerInLine ==
  ASSUME IInv, Types', NEW p \in Producers, \A q \in Producers : q # p => prod'[q] = prod[q],
         Len(ops') = Len(ops), UNCHANGED <<starts, worker, queue>>,
         prod'[p].mine \in {prod[p].mine, <<>>}
  PROVE  InLine'
<1>1. Types /\ Line /\ \A q \in Producers : EndOfLine(prod[q].mine)
  BY DEF IInv, InLine
<1>2. Len(ops) <= Len(ops')
  BY <1>1 DEF Types
<1>3. Line'
  BY <1>1, <1>2, LineKept
<1>4. ASSUME NEW s, EndOfLine(s), NEW q \in Producers, prod'[q].mine = s
      PROVE  EndOfLine(prod[q].mine)'
  <2>1. /\ \A k \in 1 .. Len(s) : s[k] \in 1 .. Len(ops')
        /\ Sorted(s) /\ Before(starts', s) /\ Before(worker'.chain, s)
        /\ \A i \in 1 .. Len(queue') : Before(queue'[i].ops, s)
    BY <1>1, <1>2, <1>4, EndOfLineKept
  <2> QED BY <1>4, <2>1 DEF EndOfLine, Numbered, Sorted, Before
<1>5. \A q \in Producers : EndOfLine(prod[q].mine)'
  BY <1>1, <1>4, EmptyEnds
<1> QED BY <1>3, <1>5 DEF InLine

\* The epochs: what the producer must show of itself.
LEMMA ProducerStamped ==
  ASSUME IInv, Types', NEW p \in Producers, \A q \in Producers : q # p => prod'[q] = prod[q],
         dispatchMu = p \/ dispatchMu = Free,
         ops' = ops, UNCHANGED <<worker, queue, run, epoch>>,
         prod'[p].epoch <= epoch, prod'[p].run <= run,
         prod'[p].pc # "idle" => prod'[p].run = run,
         prod'[p].pc \in {"accept", "send", "await"} => prod'[p].epoch = epoch,
         prod'[p].pc \in {"send", "await"} => OfRun(prod'[p].mine),
         Quiet' => Quiet
  PROVE  Stamped'
<1>1. \A q \in Producers : q # p => prod'[q] = prod[q] /\ prod[q].pc = "idle"
  BY DEF IInv, Locked, Types
<1>2. /\ worker'.epoch <= epoch' /\ \A i \in 1 .. Len(queue') : queue'[i].epoch <= epoch'
      /\ Quiet' => /\ worker'.epoch = epoch' => OfRun(worker.chain)'
                   /\ \A i \in 1 .. Len(queue') : queue'[i].epoch = epoch' => OfRun(queue[i].ops)'
  BY DEF IInv, Stamped, OfRun
<1>3. \A q \in Producers : prod'[q].epoch <= epoch' /\ prod'[q].run <= run'
  BY <1>1 DEF IInv, Stamped
<1>4. /\ \A q \in Producers : prod'[q].pc # "idle" => prod'[q].run = run'
      /\ \A q \in Producers : prod'[q].pc \in {"accept", "send", "await"} => prod'[q].epoch = epoch'
      /\ \A q \in Producers : prod'[q].pc \in {"send", "await"} => OfRun(prod[q].mine)'
  <2>1. \A q \in Producers : prod'[q].pc # "idle" => q = p
    BY <1>1
  <2> QED BY <2>1 DEF OfRun
<1> QED BY <1>2, <1>3, <1>4 DEF Stamped

\* The rest: the worker, the rows and the child are as they were.
LEMMA ProducerRest ==
  ASSUME IInv, NEW p \in Producers, \A q \in Producers : q # p => prod'[q] = prod[q],
         ops' = ops, UNCHANGED <<worker, queue, group, child, starts, closed>>,
         prod'[p].victim \in {0, prod[p].victim}, epoch' = epoch, prod[p].pc # "kill"
  PROVE  Working' /\ Aimed' /\ Honest' /\ CleanupSpared' /\ StaleChildIsCut'
<1>1. Working' /\ Honest' /\ CleanupSpared'
  BY DEF IInv, Working, At, Honest, CleanupSpared
<1>2. \A q \in Producers : prod'[q].victim \in {0, prod[q].victim}
  OBVIOUS
<1>3. Aimed'
  BY <1>2 DEF IInv, Aimed
<1>4. StaleChildIsCut'
  BY DEF IInv, StaleChildIsCut
<1> QED BY <1>1, <1>3, <1>4

\* A producer lets go of the lock.
LEMMA Released ==
  ASSUME IInv, NEW p \in Producers, prod[p].pc # "idle", Release(p)
  PROVE  /\ dispatchMu = p /\ dispatchMu' = Free /\ prod' \in [Producers -> Prod] /\ prod'[p] = Resting
         /\ \A q \in Producers : q # p => prod'[q] = prod[q] /\ prod[q].pc = "idle"
<1>1. Resting \in Prod /\ prod \in [Producers -> Prod]
  <2>1. <<>> \in Seq(BOOLEAN) /\ <<>> \in Seq(Nat)
    OBVIOUS
  <2> QED BY <2>1 DEF Resting, Prod, ProdPcs, IInv, Types
<1> QED BY <1>1 DEF Release, IInv, Locked

\* A transition that is not yet dispatched.
LEMMA TransitionStep ==
  ASSUME IInv, NEW p \in Producers, NEW t \in Transitions, Transition(p, t)
  PROVE  IInv'
<1>1. /\ dispatchMu = Free /\ dispatchMu' = p /\ prod[p].pc = "idle" /\ ~ closed
      /\ run' = IF t.cut THEN run + 1 ELSE run
      /\ prod' = [prod EXCEPT ![p].pc = IF t.cut THEN "boundary" ELSE "stamp",
                              ![p].todo = t.effects, ![p].run = run']
      /\ UNCHANGED <<ops, queue, worker, epoch, group, child, starts, main, stopped, closed>>
  BY DEF Transition, Move, chains, process, ending
<1>2. /\ t.cut \in BOOLEAN /\ t.effects \in Seq(BOOLEAN) /\ run \in Nat /\ run' \in Nat /\ run <= run'
      /\ t.cut \/ run' = run
  BY <1>1 DEF TransitionType, IInv, Types
<1>3. /\ \A q \in Producers : q # p => prod'[q] = prod[q]
      /\ prod' \in [Producers -> Prod]
      /\ prod'[p].pc = (IF t.cut THEN "boundary" ELSE "stamp")
      /\ prod'[p].mine = prod[p].mine /\ prod'[p].epoch = prod[p].epoch /\ prod'[p].run = run'
      /\ prod'[p].victim = prod[p].victim
  <2> DEFINE mine == [prod[p] EXCEPT !.pc = IF t.cut THEN "boundary" ELSE "stamp",
                                     !.todo = t.effects, !.run = run']
  <2>1. prod[p] \in Prod /\ prod \in [Producers -> Prod]
    BY DEF IInv, Types
  <2>2. /\ mine \in Prod /\ mine.pc = (IF t.cut THEN "boundary" ELSE "stamp") /\ mine.run = run'
        /\ mine.mine = prod[p].mine /\ mine.epoch = prod[p].epoch /\ mine.victim = prod[p].victim
    BY <1>2, <2>1 DEF Prod, ProdPcs
  <2>3. prod' = [prod EXCEPT ![p] = mine]
    BY <1>1
  <2> HIDE DEF mine
  <2> QED BY <2>1, <2>2, <2>3
<1>4. Types'
  BY <1>1, <1>2, <1>3 DEF IInv, Types
<1>5. \A q \in Producers : prod[q].pc = "idle" /\ prod[q].mine = <<>>
  BY <1>1 DEF IInv, Locked
<1>6. Locked'
  BY <1>1, <1>3, <1>5 DEF IInv, Locked
<1>7. InLine'
  BY <1>1, <1>3, <1>4, ProducerInLine
<1>8. Working' /\ Aimed' /\ Honest' /\ CleanupSpared' /\ StaleChildIsCut'
  BY <1>1, <1>3, ProducerRest
<1>9. Stamped'
  <2>1. /\ worker'.epoch <= epoch' /\ \A i \in 1 .. Len(queue') : queue'[i].epoch <= epoch'
    BY <1>1 DEF IInv, Stamped
  <2>2. ASSUME NEW q \in Producers
        PROVE  prod'[q].epoch <= epoch' /\ prod'[q].run <= run' /\ (prod'[q].pc # "idle" => q = p)
    <3>1. prod[q].epoch <= epoch /\ prod[q].run <= run /\ prod[q].run \in Nat
      BY TypesApart DEF IInv, Stamped
    <3> QED BY <1>1, <1>2, <1>3, <1>5, <3>1
  <2>3. Quiet' => run' = run /\ Quiet
    BY <1>2, <1>3, <1>5 DEF Quiet
  <2>4. Quiet' => /\ worker'.epoch = epoch' => OfRun(worker.chain)'
                  /\ \A i \in 1 .. Len(queue') : queue'[i].epoch = epoch' => OfRun(queue[i].ops)'
    BY <1>1, <2>3 DEF IInv, Stamped, OfRun
  <2> QED BY <1>1, <1>3, <2>1, <2>2, <2>4 DEF Stamped
<1> QED BY <1>4, <1>6, <1>7, <1>8, <1>9 DEF IInv

\* The boundary: a new epoch, and whom to signal, read together.
LEMMA BoundaryStep ==
  ASSUME IInv, NEW p \in Producers, Boundary(p)
  PROVE  IInv'
<1> DEFINE victim == IF group # 0 /\ ~ ops[group].final THEN group ELSE 0
           mine == [prod[p] EXCEPT !.pc = "kill", !.victim = victim]
<1>1. /\ prod[p].pc = "boundary" /\ epoch' = epoch + 1 /\ prod' = [prod EXCEPT ![p] = mine]
      /\ UNCHANGED <<run, dispatchMu, ops, queue, worker, group, child, starts, main, stopped, closed>>
  BY DEF Boundary, chains, process, ending
<1>2. /\ prod[p] \in Prod /\ prod \in [Producers -> Prod] /\ epoch \in Nat /\ epoch' \in Nat
      /\ group \in 0 .. Len(ops) /\ Len(ops) \in Nat /\ victim \in Nat
  <2>1. group \in 0 .. Len(ops) /\ Len(ops) \in Nat
    BY DEF IInv, Types
  <2>2. victim \in Nat
    BY <2>1
  <2> QED BY <1>1, <2>1, <2>2 DEF IInv, Types
<1>3. /\ mine \in Prod /\ mine.pc = "kill" /\ mine.victim = victim
      /\ mine.mine = prod[p].mine /\ mine.epoch = prod[p].epoch /\ mine.run = prod[p].run
  BY <1>2 DEF Prod, ProdPcs
<1> HIDE DEF mine
<1>4. prod'[p] = mine /\ prod' \in [Producers -> Prod] /\ \A q \in Producers : q # p => prod'[q] = prod[q]
  BY <1>1, <1>2, <1>3
<1>5. Types'
  BY <1>1, <1>2, <1>4 DEF IInv, Types
<1>6. /\ dispatchMu = p /\ prod[p].mine = <<>> /\ prod[p].run = run
      /\ \A q \in Producers : q # p => prod[q].pc = "idle"
  BY <1>1 DEF IInv, Locked, Stamped
<1>7. Locked'
  BY <1>1, <1>3, <1>4, <1>6 DEF IInv, Locked
<1>8. InLine'
  BY <1>1, <1>3, <1>4, <1>5, ProducerInLine
<1>9. Stamped'
  <2>1. worker.epoch < epoch' /\ \A i \in 1 .. Len(queue) : queue[i].epoch < epoch'
    <3>1. worker.epoch <= epoch /\ worker.epoch \in Nat
      BY TypesApart DEF IInv, Stamped
    <3>2. ASSUME NEW i \in 1 .. Len(queue) PROVE queue[i].epoch < epoch'
      <4>1. queue[i].epoch \in Nat /\ queue[i].epoch <= epoch
        BY TypesApart DEF IInv, Stamped
      <4> QED BY <1>1, <1>2, <4>1
    <3> QED BY <1>1, <1>2, <3>1, <3>2
  <2>2. ASSUME NEW q \in Producers
        PROVE  prod'[q].epoch <= epoch' /\ prod'[q].run <= run' /\ (prod'[q].pc # "idle" => q = p)
    <3>1. prod[q].epoch \in Nat /\ prod[q].epoch <= epoch /\ prod[q].run <= run
      BY TypesApart DEF IInv, Stamped
    <3>2. prod'[q].epoch = prod[q].epoch /\ prod'[q].run = prod[q].run
      BY <1>3, <1>4
    <3> QED BY <1>1, <1>2, <1>4, <1>6, <3>1, <3>2
  <2>3. /\ worker'.epoch <= epoch' /\ worker'.epoch # epoch'
        /\ \A i \in 1 .. Len(queue') : queue'[i].epoch <= epoch' /\ queue'[i].epoch # epoch'
    <3>1. worker.epoch \in Nat /\ \A i \in 1 .. Len(queue) : queue[i].epoch \in Nat
      BY TypesApart DEF IInv
    <3> QED BY <1>1, <1>2, <2>1, <3>1
  <2> QED BY <1>1, <1>3, <1>4, <1>6, <2>2, <2>3 DEF Stamped
<1>10. Working' /\ Honest' /\ CleanupSpared'
  BY <1>1 DEF IInv, Working, At, Honest, CleanupSpared
<1>11. Aimed'
  <2>1. victim # 0 => victim \in 1 .. Len(ops) /\ ~ ops[victim].final
    BY <1>2
  <2>2. ASSUME NEW q \in Producers, prod'[q].victim # 0
        PROVE  prod'[q].victim \in 1 .. Len(ops) /\ ~ ops[prod'[q].victim].final
    <3>1. CASE q = p
      BY <1>3, <1>4, <2>1, <2>2, <3>1
    <3>2. CASE q # p
      BY <1>4, <2>2, <3>2 DEF IInv, Aimed
    <3> QED BY <3>1, <3>2
  <2> QED BY <1>1, <2>2 DEF Aimed
<1>12. StaleChildIsCut'
  <2>1. child.live => group = child.op /\ child.op \in 1 .. Len(ops)
    <3>1. ASSUME child.live PROVE group = At /\ child.op = At /\ worker.chain # <<>>
      BY <3>1 DEF IInv, Working
    <3>2. worker.chain # <<>> => At \in 1 .. Len(ops)
      BY HeadOfChain DEF IInv, InLine
    <3> QED BY <3>1, <3>2
  <2>2. child.live /\ ~ ops[child.op].final => victim = child.op
    BY <1>2, <2>1
  <2> QED BY <1>1, <1>3, <1>4, <2>2 DEF StaleChildIsCut
<1> QED BY <1>5, <1>7, <1>8, <1>9, <1>10, <1>11, <1>12 DEF IInv

\* The signal of a boundary reaches work only.
LEMMA BoundaryKillStep ==
  ASSUME IInv, NEW p \in Producers, BoundaryKill(p)
  PROVE  IInv'
<1> DEFINE mine == [prod[p] EXCEPT !.pc = "stamp", !.victim = 0]
<1>1. /\ prod[p].pc = "kill" /\ prod' = [prod EXCEPT ![p] = mine]
      /\ child' = IF child.live /\ child.op = prod[p].victim THEN [child EXCEPT !.cut = TRUE] ELSE child
      /\ UNCHANGED <<run, dispatchMu, ops, queue, worker, epoch, group, starts, main, stopped, closed>>
  BY DEF BoundaryKill, Signal, chains, ending
<1>2. prod[p] \in Prod /\ prod \in [Producers -> Prod]
  BY DEF IInv, Types
<1>3. /\ mine \in Prod /\ mine.pc = "stamp" /\ mine.victim = 0
      /\ mine.mine = prod[p].mine /\ mine.epoch = prod[p].epoch /\ mine.run = prod[p].run
  BY <1>2 DEF Prod, ProdPcs
<1> HIDE DEF mine
<1>4. prod'[p] = mine /\ prod' \in [Producers -> Prod] /\ \A q \in Producers : q # p => prod'[q] = prod[q]
  BY <1>1, <1>2, <1>3
<1>5. /\ child' \in [op : Nat, live : BOOLEAN, cut : BOOLEAN, exit : Exits]
      /\ child'.op = child.op /\ child'.live = child.live
      /\ child.cut => child'.cut
      /\ child.live /\ child.op = prod[p].victim => child'.cut
      /\ child'.cut => child.cut \/ (child.live /\ child.op = prod[p].victim)
  <2>1. child \in [op : Nat, live : BOOLEAN, cut : BOOLEAN, exit : Exits]
    BY DEF IInv, Types
  <2> QED BY <1>1, <2>1
<1>6. Types'
  BY <1>1, <1>4, <1>5 DEF IInv, Types
<1>7. /\ dispatchMu = p /\ prod[p].mine = <<>> /\ prod[p].run = run
      /\ \A q \in Producers : q # p => prod[q].pc = "idle"
  BY <1>1 DEF IInv, Locked, Stamped
<1>8. Locked'
  BY <1>1, <1>3, <1>4, <1>7 DEF IInv, Locked
<1>9. InLine'
  BY <1>1, <1>3, <1>4, <1>6, ProducerInLine
<1>10. Stamped'
  <2>1. prod'[p].epoch <= epoch /\ prod'[p].run <= run /\ prod'[p].run = run
    BY <1>3, <1>4, <1>7 DEF IInv, Stamped
  <2>2. Quiet
    BY <1>1, <1>7 DEF Quiet
  <2> QED BY <1>1, <1>3, <1>4, <1>6, <1>7, <2>1, <2>2, ProducerStamped
<1>11. Working' /\ Honest'
  BY <1>1, <1>5 DEF IInv, Working, At, Honest
<1>12. Aimed'
  BY <1>1, <1>3, <1>4 DEF IInv, Aimed
<1>13. CleanupSpared'
  <2>1. prod[p].victim # 0 => ~ ops[prod[p].victim].final
    BY DEF IInv, Aimed
  <2>2. child.live => child.op # 0
    <3>1. ASSUME child.live PROVE child.op = At /\ worker.chain # <<>>
      BY <3>1 DEF IInv, Working
    <3>2. worker.chain # <<>> => At \in 1 .. Len(ops)
      BY HeadOfChain DEF IInv, InLine
    <3> QED BY <3>1, <3>2
  <2> QED BY <1>1, <1>5, <2>1, <2>2 DEF IInv, CleanupSpared
<1>14. StaleChildIsCut'
  <2>1. ASSUME NEW q \in Producers, prod[q].pc = "kill", prod[q].victim = child.op, child.live
        PROVE  child'.cut
    BY <1>5, <1>7, <2>1
  <2> QED BY <1>1, <1>5, <2>1 DEF IInv, StaleChildIsCut
<1> QED BY <1>6, <1>8, <1>9, <1>10, <1>11, <1>12, <1>13, <1>14 DEF IInv

\* A producer that releases the lock and leaves everything else alone.
LEMMA ReleaseOnly ==
  ASSUME IInv, NEW p \in Producers, prod[p].pc \notin {"idle", "boundary", "kill"}, Release(p),
         UNCHANGED <<run, ops, queue, worker, epoch, group, child, starts, main, stopped, closed>>
  PROVE  IInv'
<1>1. /\ dispatchMu = p /\ dispatchMu' = Free /\ prod' \in [Producers -> Prod] /\ prod'[p] = Resting
      /\ \A q \in Producers : q # p => prod'[q] = prod[q] /\ prod[q].pc = "idle"
  BY Released
<1>2. Types'
  BY <1>1 DEF IInv, Types
<1>3. Locked'
  BY <1>1 DEF IInv, Locked, Resting
<1>4. InLine'
  BY <1>1, <1>2, ProducerInLine DEF Resting
<1>5. Stamped'
  <2>1. Quiet
    BY <1>1 DEF Quiet
  <2>2. 0 <= epoch /\ 0 <= run
    BY DEF IInv, Types
  <2> QED BY <1>1, <1>2, <2>1, <2>2, ProducerStamped DEF Resting
<1>6. Working' /\ Aimed' /\ Honest' /\ CleanupSpared' /\ StaleChildIsCut'
  BY <1>1, ProducerRest DEF Resting
<1> QED BY <1>2, <1>3, <1>4, <1>5, <1>6 DEF IInv

\* A chain takes the epoch that is.
LEMMA StampChainStep ==
  ASSUME IInv, NEW p \in Producers, StampChain(p)
  PROVE  IInv'
<1> DEFINE mine == [prod[p] EXCEPT !.pc = "accept", !.epoch = epoch]
<1>1. /\ prod[p].pc = "stamp"
      /\ UNCHANGED <<run, ops, queue, worker, epoch, group, child, starts, main, stopped, closed>>
      /\ Release(p) \/ (prod' = [prod EXCEPT ![p] = mine] /\ UNCHANGED dispatchMu)
  BY DEF StampChain, chains, process, ending
<1>2. CASE Release(p)
  BY <1>1, <1>2, ReleaseOnly
<1>3. CASE prod' = [prod EXCEPT ![p] = mine] /\ UNCHANGED dispatchMu
  <2>1. prod[p] \in Prod /\ prod \in [Producers -> Prod] /\ epoch \in Nat
    BY DEF IInv, Types
  <2>2. /\ mine \in Prod /\ mine.pc = "accept" /\ mine.victim = prod[p].victim
        /\ mine.mine = prod[p].mine /\ mine.epoch = epoch /\ mine.run = prod[p].run
    BY <2>1 DEF Prod, ProdPcs
  <2> HIDE DEF mine
  <2>3. prod'[p] = mine /\ prod' \in [Producers -> Prod] /\ \A q \in Producers : q # p => prod'[q] = prod[q]
    BY <1>3, <2>1, <2>2
  <2>4. Types'
    BY <1>1, <1>3, <2>3 DEF IInv, Types
  <2>5. /\ dispatchMu = p /\ prod[p].mine = <<>> /\ prod[p].run = run
        /\ \A q \in Producers : q # p => prod[q].pc = "idle"
    BY <1>1 DEF IInv, Locked, Stamped
  <2>6. Locked'
    BY <1>1, <1>3, <2>2, <2>3, <2>5 DEF IInv, Locked
  <2>7. InLine'
    BY <1>1, <2>2, <2>3, <2>4, ProducerInLine
  <2>8. Stamped'
    <3>1. Quiet
      BY <1>1, <2>5 DEF Quiet
    <3>2. epoch <= epoch /\ run <= run
      BY DEF IInv, Types
    <3> QED BY <1>1, <2>2, <2>3, <2>4, <2>5, <3>1, <3>2, ProducerStamped
  <2>9. Working' /\ Aimed' /\ Honest' /\ CleanupSpared' /\ StaleChildIsCut'
    BY <1>1, <2>2, <2>3, ProducerRest
  <2> QED BY <2>4, <2>6, <2>7, <2>8, <2>9 DEF IInv
<1> QED BY <1>1, <1>2, <1>3

\* Rows are added behind all others, pending; a chain that was cut short keeps
\* the numbers of the rows it knows to be in.
LEMMA AcceptChainStep ==
  ASSUME IInv, NEW p \in Producers, AcceptChain(p)
  PROVE  IInv'
<1>1. /\ prod[p].pc = "accept" /\ prod[p] \in Prod /\ prod \in [Producers -> Prod]
      /\ UNCHANGED <<run, dispatchMu, queue, worker, epoch, group, child, starts, main, stopped, closed>>
      /\ ops \in Seq(Rows) /\ Len(ops) \in Nat /\ prod[p].todo \in Seq(BOOLEAN) /\ prod[p].run \in Nat
  BY TypesApart DEF AcceptChain, chains, process, ending, IInv, Types
<1>2. RowsOf(p) \in Seq(Rows) /\ Len(RowsOf(p)) = Len(prod[p].todo)
      /\ \A k \in 1 .. Len(prod[p].todo) : RowsOf(p)[k].state = "pending" /\ RowsOf(p)[k].run = prod[p].run
  <2>1. /\ DOMAIN prod[p].todo = 1 .. Len(prod[p].todo) /\ Len(prod[p].todo) \in Nat
        /\ \A k \in 1 .. Len(prod[p].todo) : prod[p].todo[k] \in BOOLEAN
    BY <1>1
  <2>2. \A k \in 1 .. Len(prod[p].todo) : Row(prod[p].run, prod[p].todo[k]) \in Rows
    BY <1>1, <2>1 DEF Row, Rows, OpStates
  <2>3. RowsOf(p) = [k \in 1 .. Len(prod[p].todo) |-> Row(prod[p].run, prod[p].todo[k])]
    BY <2>1 DEF RowsOf
  <2> QED BY <2>1, <2>2, <2>3 DEF Row
<1>3. PICK added \in Seq(Rows), n \in Nat, there \in {"send", "discard"} :
        /\ ops' = ops \o added /\ n <= Len(added)
        /\ \A k \in 1 .. Len(added) : added[k].state = "pending" /\ added[k].run = prod[p].run
        /\ prod' = [prod EXCEPT ![p] = [prod[p] EXCEPT !.pc = there, !.todo = <<>>, !.mine = Numbers(n)]]
  <2>1. CASE /\ ops' = ops \o RowsOf(p)
             /\ prod' = [prod EXCEPT ![p].pc = "send", ![p].todo = <<>>,
                                     ![p].mine = Numbers(Len(prod[p].todo))]
    <3>1. Len(prod[p].todo) \in Nat /\ Len(prod[p].todo) <= Len(RowsOf(p))
      BY <1>1, <1>2
    <3> QED BY <1>2, <2>1, <3>1
  <2>2. ASSUME NEW k \in 0 .. Len(prod[p].todo) - 1, NEW late \in 0 .. 1,
               ops' = ops \o SubSeq(RowsOf(p), 1, k + late),
               prod' = [prod EXCEPT ![p].pc = "discard", ![p].todo = <<>>, ![p].mine = Numbers(k)]
        PROVE  \E added \in Seq(Rows), n \in Nat, there \in {"send", "discard"} :
                 /\ ops' = ops \o added /\ n <= Len(added)
                 /\ \A j \in 1 .. Len(added) : added[j].state = "pending" /\ added[j].run = prod[p].run
                 /\ prod' = [prod EXCEPT ![p] = [prod[p] EXCEPT !.pc = there, !.todo = <<>>, !.mine = Numbers(n)]]
    <3> DEFINE added == SubSeq(RowsOf(p), 1, k + late)
    <3>1. k \in Nat /\ k + late \in Nat /\ k <= k + late /\ k + late <= Len(prod[p].todo) /\ Len(prod[p].todo) \in Nat
      BY <1>1
    <3>2. \A j \in 1 .. k + late : j \in 1 .. Len(prod[p].todo) /\ RowsOf(p)[j] \in Rows
      BY <1>2, <3>1
    <3>3. /\ added \in Seq(Rows) /\ Len(added) = k + late
          /\ \A j \in 1 .. k + late : added[j] = RowsOf(p)[j]
      <4> HIDE DEF added
      <4>1. /\ added \in Seq(Rows) /\ Len(added) = IF 1 <= k + late THEN k + late - 1 + 1 ELSE 0
            /\ \A j \in 1 .. k + late - 1 + 1 : added[j] = RowsOf(p)[1 + j - 1]
        BY <3>1, <3>2, SubSeqProperties DEF added
      <4> QED BY <3>1, <4>1
    <3> HIDE DEF added
    <3>4. ops' = ops \o added /\ k <= Len(added)
          /\ \A j \in 1 .. Len(added) : added[j].state = "pending" /\ added[j].run = prod[p].run
      BY <1>2, <2>2, <3>1, <3>2, <3>3 DEF added
    <3>5. prod' = [prod EXCEPT ![p] = [prod[p] EXCEPT !.pc = "discard", !.todo = <<>>, !.mine = Numbers(k)]]
      BY <2>2
    <3> QED BY <3>1, <3>3, <3>4, <3>5
  <2> QED BY <2>1, <2>2 DEF AcceptChain
<1> DEFINE mine == [prod[p] EXCEPT !.pc = there, !.todo = <<>>, !.mine = Numbers(n)]
<1>4. /\ Len(added) \in Nat /\ ops' \in Seq(Rows) /\ Len(ops') = Len(ops) + Len(added)
      /\ \A j \in 1 .. Len(ops) : ops'[j] = ops[j]
      /\ \A k \in 1 .. Len(added) : ops'[Len(ops) + k] = added[k]
  <2>1. Len(added) \in Nat
    OBVIOUS
  <2>2. /\ ops' \in Seq(Rows) /\ Len(ops') = Len(ops) + Len(added)
        /\ \A i \in 1 .. Len(ops) + Len(added) : ops'[i] = IF i <= Len(ops) THEN ops[i] ELSE added[i - Len(ops)]
    BY <1>1, <1>3, ConcatProperties
  <2>3. \A k \in 1 .. Len(added) : /\ Len(ops) + k \in 1 .. Len(ops) + Len(added)
                                   /\ ~ (Len(ops) + k <= Len(ops)) /\ (Len(ops) + k) - Len(ops) = k
    BY <1>1, <2>1
  <2> QED BY <1>1, <2>1, <2>2, <2>3
<1>5. Numbers(n) \in Seq(Nat) /\ Len(Numbers(n)) = n /\ \A k \in 1 .. n : Numbers(n)[k] = Len(ops) + k
  BY <1>1 DEF Numbers
<1>6. /\ mine \in Prod /\ mine.pc = there /\ mine.victim = prod[p].victim
      /\ mine.mine = Numbers(n) /\ mine.epoch = prod[p].epoch /\ mine.run = prod[p].run
  <2>1. <<>> \in Seq(BOOLEAN)
    OBVIOUS
  <2> QED BY <1>1, <1>5, <2>1 DEF Prod, ProdPcs
<1> HIDE DEF mine
<1>7. prod'[p] = mine /\ prod' \in [Producers -> Prod] /\ \A q \in Producers : q # p => prod'[q] = prod[q]
  BY <1>1, <1>3, <1>6 DEF mine
<1>8. Types'
  <2>1. \A x \in 0 .. Len(ops) : x \in 0 .. Len(ops')
    BY <1>1, <1>4
  <2> QED BY <1>1, <1>4, <1>7, <2>1 DEF IInv, Types
<1>9. /\ dispatchMu = p /\ prod[p].run = run /\ prod[p].epoch = epoch
      /\ \A q \in Producers : q # p => prod[q].pc = "idle" /\ prod[q].mine = <<>>
  BY <1>1 DEF IInv, Locked, Stamped
<1>10. Locked'
  BY <1>1, <1>6, <1>7, <1>9 DEF IInv, Locked
<1>11. InLine'
  <2>1. Types /\ Line /\ Len(ops) <= Len(ops')
    BY <1>1, <1>4 DEF IInv, InLine
  <2>2. Line'
    BY <1>1, <1>8, <2>1, LineKept
  <2>3. EndOfLine(prod[p].mine)'
    <3>1. \A k \in 1 .. Len(mine.mine) : /\ mine.mine[k] \in 1 .. Len(ops')
                                         /\ \A x \in 1 .. Len(ops) : x < mine.mine[k]
      BY <1>1, <1>3, <1>4, <1>5, <1>6
    <3>2. Sorted(mine.mine)
      BY <1>1, <1>5, <1>6 DEF Sorted
    <3>3. \A s : Numbered(s) => Before(s, mine.mine)
      BY <3>1 DEF Numbered, Before
    <3>4. /\ Before(starts, mine.mine) /\ Before(worker.chain, mine.mine)
          /\ \A i \in 1 .. Len(queue) : Before(queue[i].ops, mine.mine)
      BY <2>1, <3>3 DEF Line
    <3> QED BY <1>1, <1>7, <3>1, <3>2, <3>4 DEF EndOfLine, Numbered, Sorted, Before
  <2>4. ASSUME NEW q \in Producers, q # p PROVE EndOfLine(prod[q].mine)'
    <3>1. prod'[q].mine = <<>>
      BY <1>7, <1>9, <2>4
    <3> QED BY <3>1, EmptyEnds DEF EndOfLine, Numbered, Sorted, Before
  <2> QED BY <2>2, <2>3, <2>4 DEF InLine
<1>12. /\ \A j \in 1 .. Len(worker.chain) : ops'[worker.chain[j]] = ops[worker.chain[j]]
       /\ \A i \in 1 .. Len(queue) : \A j \in 1 .. Len(queue[i].ops) :
            ops'[queue[i].ops[j]] = ops[queue[i].ops[j]]
  BY <1>4 DEF IInv, InLine, Line, Numbered
<1>13. worker.chain # <<>> => At \in 1 .. Len(ops) /\ ops'[At] = ops[At]
  BY <1>4, HeadOfChain DEF IInv, InLine
<1>14. Stamped'
  <2>1. Quiet
    BY <1>1, <1>9 DEF Quiet
  <2>2. /\ worker'.epoch <= epoch' /\ \A i \in 1 .. Len(queue') : queue'[i].epoch <= epoch'
        /\ worker'.epoch = epoch' => OfRun(worker.chain)'
        /\ \A i \in 1 .. Len(queue') : queue'[i].epoch = epoch' => OfRun(queue[i].ops)'
    <3>1. OfRun(worker.chain) => OfRun(worker.chain)'
      BY <1>1, <1>12 DEF OfRun
    <3>2. \A i \in 1 .. Len(queue) : OfRun(queue[i].ops) => OfRun(queue[i].ops)'
      BY <1>1, <1>12 DEF OfRun
    <3> QED BY <1>1, <2>1, <3>1, <3>2 DEF IInv, Stamped
  <2>3. OfRun(prod[p].mine)'
    <3>1. \A k \in 1 .. n : ops'[Len(ops) + k].run = run
      BY <1>3, <1>4, <1>9
    <3>2. prod'[p].mine = Numbers(n)
      BY <1>6, <1>7
    <3>3. \A k \in 1 .. Len(Numbers(n)) : ops'[Numbers(n)[k]].run = run
      BY <1>5, <3>1
    <3> QED BY <1>1, <3>2, <3>3 DEF OfRun
  <2>4. \A q \in Producers : prod'[q].epoch <= epoch' /\ prod'[q].run <= run' /\ (prod'[q].pc # "idle" => q = p)
    BY <1>1, <1>6, <1>7, <1>9 DEF IInv, Stamped
  <2> QED BY <1>1, <1>6, <1>7, <1>9, <2>2, <2>3, <2>4 DEF Stamped
<1>15. Working'
  BY <1>1, <1>13 DEF IInv, Working, At
<1>16. Aimed'
  <2>1. \A q \in Producers : prod'[q].victim = prod[q].victim
    BY <1>6, <1>7
  <2>2. \A x \in 1 .. Len(ops) : x \in 1 .. Len(ops')
    BY <1>1, <1>4
  <2> QED BY <1>4, <2>1, <2>2 DEF IInv, Aimed
<1>17. Honest'
  <2>1. ASSUME NEW i \in 1 .. Len(ops') PROVE i \in 1 .. Len(ops) \/ ops'[i].state = "pending"
    <3>1. CASE i <= Len(ops)
      BY <1>1, <1>4, <3>1
    <3>2. CASE i > Len(ops)
      <4>1. i - Len(ops) \in 1 .. Len(added) /\ i = Len(ops) + (i - Len(ops))
        BY <1>1, <1>4, <3>2
      <4> QED BY <1>3, <1>4, <4>1
    <3> QED BY <1>1, <3>1, <3>2
  <2> QED BY <1>1, <1>4, <2>1 DEF IInv, Honest
<1>18. CleanupSpared' /\ StaleChildIsCut'
  <2>1. child.live => child.op \in 1 .. Len(ops)
    BY <1>13 DEF IInv, Working
  <2>2. child.live => ops'[child.op] = ops[child.op]
    BY <1>4, <2>1
  <2>3. \A q \in Producers : prod[q].pc = "kill" => prod'[q] = prod[q]
    BY <1>1, <1>7
  <2> QED BY <1>1, <2>2, <2>3 DEF IInv, CleanupSpared, StaleChildIsCut
<1> QED BY <1>8, <1>10, <1>11, <1>14, <1>15, <1>16, <1>17, <1>18 DEF IInv

\* The chain joins the line at its end.
LEMMA Enqueued ==
  ASSUME IInv, NEW p \in Producers, prod[p].pc \in {"send", "await"}, Len(queue) < QueueLimit,
         queue' = Append(queue, ChainOf(p)), Release(p),
         UNCHANGED <<run, ops, worker, epoch, group, child, starts, main, stopped, closed>>
  PROVE  IInv'
<1>1. /\ dispatchMu = p /\ dispatchMu' = Free /\ prod' \in [Producers -> Prod] /\ prod'[p] = Resting
      /\ \A q \in Producers : q # p => prod'[q] = prod[q] /\ prod[q].pc = "idle"
  BY Released
<1> DEFINE c == ChainOf(p)
<1>2. /\ c \in Chain /\ c.ops = prod[p].mine /\ c.epoch = epoch /\ OfRun(c.ops) /\ EndOfLine(c.ops)
  <2>1. prod[p].mine \in Seq(Nat) /\ prod[p].epoch \in Nat
    BY TypesApart DEF IInv
  <2> QED BY <2>1 DEF ChainOf, Chain, IInv, Stamped, InLine
<1> HIDE DEF c
<1>3. /\ queue' \in Seq(Chain) /\ Len(queue') = Len(queue) + 1 /\ Len(queue) \in Nat
      /\ \A i \in 1 .. Len(queue) : queue'[i] = queue[i]
      /\ queue'[Len(queue) + 1] = c
  <2>1. queue \in Seq(Chain) /\ queue' = Append(queue, c)
    BY DEF IInv, Types, c
  <2> QED BY <1>2, <2>1, AppendProperties
<1>4. \A i \in 1 .. Len(queue') : (i \in 1 .. Len(queue) /\ queue'[i] = queue[i]) \/ (i = Len(queue) + 1 /\ queue'[i] = c)
  BY <1>3
<1>5. Types'
  <2>1. Len(queue') <= QueueLimit
    BY <1>3
  <2> QED BY <1>1, <1>3, <2>1 DEF IInv, Types
<1>6. Locked'
  BY <1>1 DEF IInv, Locked, Resting
<1>7. \A q \in Producers : prod'[q].mine = <<>>
  BY <1>1 DEF Resting, IInv, Locked
<1>8. Line'
  <2>1. /\ \A i \in 1 .. Len(queue') : Numbered(queue'[i].ops) /\ Sorted(queue'[i].ops)
        /\ \A i \in 1 .. Len(queue') : Before(starts, queue'[i].ops) /\ Before(worker.chain, queue'[i].ops)
    BY <1>2, <1>4 DEF IInv, InLine, Line, EndOfLine
  <2>2. ASSUME NEW h \in 1 .. Len(queue'), NEW i \in 1 .. Len(queue'), h < i
        PROVE  Before(queue'[h].ops, queue'[i].ops)
    <3>1. h \in 1 .. Len(queue) /\ queue'[h] = queue[h]
      BY <1>3, <2>2
    <3>2. CASE i \in 1 .. Len(queue) /\ queue'[i] = queue[i]
      BY <2>2, <3>1, <3>2 DEF IInv, InLine, Line
    <3>3. CASE queue'[i] = c
      BY <1>2, <3>1, <3>3 DEF EndOfLine
    <3> QED BY <1>4, <3>2, <3>3
  <2> QED BY <2>1, <2>2 DEF IInv, InLine, Line, Numbered, Sorted, Before
<1>9. InLine'
  <2>1. Len(<<>>) = 0
    OBVIOUS
  <2> QED BY <1>7, <1>8, <2>1 DEF InLine, EndOfLine, Numbered, Sorted, Before
<1>10. Stamped'
  <2>1. Quiet /\ epoch \in Nat /\ run \in Nat
    BY <1>1 DEF Quiet, IInv, Types
  <2>2. \A i \in 1 .. Len(queue') : queue'[i].epoch <= epoch
    BY <1>2, <1>4, <2>1 DEF IInv, Stamped
  <2>3. worker.epoch <= epoch /\ (worker.epoch = epoch => OfRun(worker.chain)')
    BY <2>1 DEF IInv, Stamped, OfRun
  <2>4. ASSUME NEW i \in 1 .. Len(queue'), queue'[i].epoch = epoch
        PROVE  OfRun(queue[i].ops)'
    <3>1. OfRun(queue'[i].ops)
      BY <1>2, <1>4, <2>1, <2>4 DEF IInv, Stamped
    <3> QED BY <3>1 DEF OfRun
  <2>5. \A q \in Producers : prod'[q].epoch <= epoch /\ prod'[q].run <= run /\ prod'[q].pc = "idle"
    BY <1>1, <2>1 DEF IInv, Stamped, Resting
  <2> QED BY <2>2, <2>3, <2>4, <2>5 DEF Stamped
<1>11. Working' /\ Honest' /\ CleanupSpared'
  BY DEF IInv, Working, At, Honest, CleanupSpared
<1>12. Aimed' /\ StaleChildIsCut'
  BY <1>1 DEF IInv, Aimed, StaleChildIsCut, Resting
<1> QED BY <1>5, <1>6, <1>9, <1>10, <1>11, <1>12 DEF IInv

\* A producer that finds no room waits, or gives its chain up.
LEMMA NoRoom ==
  ASSUME IInv, NEW p \in Producers, prod[p].pc \in {"send", "await"}, NEW there \in {"await", "discard"},
         prod' = [prod EXCEPT ![p].pc = there],
         UNCHANGED <<run, dispatchMu, ops, queue, worker, epoch, group, child, starts, main, stopped, closed>>
  PROVE  IInv'
<1> DEFINE mine == [prod[p] EXCEPT !.pc = there]
<1>1. prod[p] \in Prod /\ prod \in [Producers -> Prod] /\ prod' = [prod EXCEPT ![p] = mine]
  BY DEF IInv, Types
<1>2. /\ mine \in Prod /\ mine.pc = there /\ mine.victim = prod[p].victim
      /\ mine.mine = prod[p].mine /\ mine.epoch = prod[p].epoch /\ mine.run = prod[p].run
  BY <1>1 DEF Prod, ProdPcs
<1> HIDE DEF mine
<1>3. prod'[p] = mine /\ prod' \in [Producers -> Prod] /\ \A q \in Producers : q # p => prod'[q] = prod[q]
  BY <1>1, <1>2
<1>4. Types'
  BY <1>3 DEF IInv, Types
<1>5. /\ dispatchMu = p /\ prod[p].run = run /\ prod[p].epoch = epoch /\ OfRun(prod[p].mine)
      /\ \A q \in Producers : q # p => prod[q].pc = "idle"
  BY DEF IInv, Locked, Stamped
<1>6. Locked'
  BY <1>2, <1>3, <1>5 DEF IInv, Locked
<1>7. InLine'
  BY <1>2, <1>3, <1>4, ProducerInLine
<1>8. Stamped'
  <2>1. Quiet
    BY <1>5 DEF Quiet
  <2>2. prod'[p].epoch <= epoch /\ prod'[p].run <= run
    BY <1>2, <1>3 DEF IInv, Stamped
  <2> QED BY <1>2, <1>3, <1>4, <1>5, <2>1, <2>2, ProducerStamped
<1>9. Working' /\ Aimed' /\ Honest' /\ CleanupSpared' /\ StaleChildIsCut'
  BY <1>2, <1>3, ProducerRest
<1> QED BY <1>4, <1>6, <1>7, <1>8, <1>9 DEF IInv

\* The send, with room or without.
LEMMA SendStep ==
  ASSUME IInv, NEW p \in Producers, Send(p) \/ AwaitRoom(p)
  PROVE  IInv'
<1>1. /\ prod[p].pc \in {"send", "await"}
      /\ UNCHANGED <<run, ops, worker, epoch, group, child, starts, main, stopped, closed>>
  BY DEF Send, AwaitRoom, process, ending
<1>2. \/ Len(queue) < QueueLimit /\ queue' = Append(queue, ChainOf(p)) /\ Release(p)
      \/ \E there \in {"await", "discard"} : prod' = [prod EXCEPT ![p].pc = there] /\ UNCHANGED <<queue, dispatchMu>>
  BY DEF Send, AwaitRoom
<1> QED BY <1>1, <1>2, Enqueued, NoRoom

\* The rows of a chain that is given up: none of them was started.
LEMMA DiscardChainStep ==
  ASSUME IInv, NEW p \in Producers, DiscardChain(p)
  PROVE  IInv'
<1> DEFINE own == {prod[p].mine[k] : k \in DOMAIN prod[p].mine}
<1>1. /\ prod[p].pc = "discard" /\ Release(p)
      /\ UNCHANGED <<run, queue, worker, epoch, group, child, starts, main, stopped, closed>>
  BY DEF DiscardChain, chains, process, ending
<1>2. PICK gone \in SUBSET own :
        ops' = [i \in DOMAIN ops |-> IF i \in gone THEN [ops[i] EXCEPT !.state = Dropped(i)] ELSE ops[i]]
  BY DEF DiscardChain
<1>3. /\ dispatchMu = p /\ dispatchMu' = Free /\ prod' \in [Producers -> Prod] /\ prod'[p] = Resting
      /\ \A q \in Producers : q # p => prod'[q] = prod[q] /\ prod[q].pc = "idle"
  BY <1>1, Released
<1>4. /\ ops \in Seq(Rows) /\ Len(ops) \in Nat /\ DOMAIN ops = 1 .. Len(ops)
      /\ \A i \in 1 .. Len(ops) : ops[i] \in Rows /\ Dropped(i) \in OpStates
  BY TypesApart DEF IInv, Types, Dropped, OpStates
<1>5. ASSUME NEW i \in 1 .. Len(ops)
      PROVE  /\ ops'[i] \in Rows /\ ops'[i].final = ops[i].final /\ ops'[i].run = ops[i].run
             /\ i \notin gone => ops'[i] = ops[i]
             /\ i \in gone => ops'[i].state = Dropped(i)
  BY <1>2, <1>4 DEF Rows
<1>6. ops' \in Seq(Rows) /\ Len(ops') = Len(ops)
  BY <1>2, <1>4, <1>5
<1>7. \A i \in gone : \E k \in 1 .. Len(prod[p].mine) : i = prod[p].mine[k]
  BY TypesApart DEF IInv
<1>8. /\ EndOfLine(prod[p].mine) /\ prod[p].mine \in Seq(Nat)
      /\ Numbered(starts) /\ Numbered(worker.chain)
  BY TypesApart DEF IInv, InLine, Line
<1>9. /\ \A s \in 1 .. Len(starts) : starts[s] \notin gone
      /\ \A k \in 1 .. Len(worker.chain) : worker.chain[k] \notin gone
  <2>1. \A x \in 1 .. Len(ops) : ~ (x < x)
    BY <1>4
  <2> QED BY <1>7, <1>8, <2>1 DEF EndOfLine, Before, Numbered
<1>10. Types'
  BY <1>1, <1>3, <1>6 DEF IInv, Types
<1>11. Locked'
  BY <1>1, <1>3 DEF IInv, Locked, Resting
<1>12. InLine'
  BY <1>1, <1>3, <1>6, <1>10, ProducerInLine DEF Resting
<1>13. worker.chain # <<>> => At \in 1 .. Len(ops) /\ ops'[At] = ops[At]
  <2>1. worker.chain # <<>> => At \in 1 .. Len(ops) /\ At = worker.chain[1] /\ 1 \in 1 .. Len(worker.chain)
    BY HeadOfChain DEF IInv, InLine
  <2> QED BY <1>5, <1>9, <2>1
<1>14. Working'
  BY <1>1, <1>13 DEF IInv, Working, At
<1>15. Stamped'
  <2>1. Quiet /\ epoch \in Nat /\ run \in Nat
    BY <1>1, <1>3 DEF Quiet, IInv, Types
  <2>2. ASSUME NEW s, Numbered(s), OfRun(s)
        PROVE  \A k \in 1 .. Len(s) : ops'[s[k]].run = run'
    BY <1>1, <1>5, <2>2 DEF Numbered, OfRun
  <2>3. worker.epoch <= epoch /\ (worker.epoch = epoch => OfRun(worker.chain)')
    BY <1>1, <1>8, <2>1, <2>2 DEF IInv, Stamped, OfRun
  <2>4. ASSUME NEW i \in 1 .. Len(queue)
        PROVE  queue[i].epoch <= epoch /\ (queue[i].epoch = epoch => OfRun(queue[i].ops)')
    <3>1. Numbered(queue[i].ops) /\ queue[i].epoch <= epoch /\ (queue[i].epoch = epoch => OfRun(queue[i].ops))
      BY <2>1 DEF IInv, InLine, Line, Stamped
    <3> QED BY <1>1, <2>2, <3>1 DEF OfRun
  <2>5. \A q \in Producers : prod'[q].epoch <= epoch /\ prod'[q].run <= run /\ prod'[q].pc = "idle"
    BY <1>3, <2>1 DEF IInv, Stamped, Resting
  <2> QED BY <1>1, <2>3, <2>4, <2>5 DEF Stamped
<1>16. Aimed'
  BY <1>3, <1>5, <1>6 DEF IInv, Aimed, Resting
<1>17. Honest'
  BY <1>1, <1>5, <1>6, <1>9 DEF IInv, Honest, Dropped
<1>18. CleanupSpared' /\ StaleChildIsCut'
  <2>1. child.live => child.op \in 1 .. Len(ops) /\ ops'[child.op] = ops[child.op]
    BY <1>13 DEF IInv, Working
  <2> QED BY <1>1, <1>3, <2>1 DEF IInv, CleanupSpared, StaleChildIsCut, Resting
<1> QED BY <1>10, <1>11, <1>12, <1>14, <1>15, <1>16, <1>17, <1>18 DEF IInv

-----------------------------------------------------------------------------
(* Steps of the worker.                                                     *)

\* The line when the worker stays where it is, or goes on to its next row.
LEMMA WorkerInLine ==
  ASSUME IInv, Types', Len(ops') = Len(ops), UNCHANGED <<prod, queue, starts>>,
         \/ worker'.chain = worker.chain /\ (worker.pc \in {"wait", "clear"} => worker'.pc \in {"wait", "clear"})
         \/ worker.chain # <<>> /\ worker'.chain = Tail(worker.chain)
  PROVE  InLine'
<1>1. Types /\ Line /\ \A q \in Producers : EndOfLine(prod[q].mine)
  BY DEF IInv, InLine
<1>2. CASE worker'.chain = worker.chain /\ (worker.pc \in {"wait", "clear"} => worker'.pc \in {"wait", "clear"})
  BY <1>1, <1>2 DEF InLine, Line, EndOfLine, Numbered, Sorted, Before
<1>3. CASE worker.chain # <<>> /\ worker'.chain = Tail(worker.chain)
  <2> DEFINE rest == worker'.chain
  <2>1. /\ Len(worker.chain) \in Nat \ {0} /\ Len(rest) = Len(worker.chain) - 1
        /\ \A k \in 1 .. Len(rest) : rest[k] = worker.chain[k + 1]
    BY <1>1, <1>3, HeadOfChain
  <2> HIDE DEF rest
  <2>2. \A k \in 1 .. Len(rest) : k \in Nat /\ k + 1 \in 1 .. Len(worker.chain) /\ k + 1 # 1
    BY <2>1
  <2>3. Numbered(rest) /\ \A s : Before(worker.chain, s) => Before(rest, s)
    BY <1>1, <2>1, <2>2 DEF Line, Numbered, Before
  <2>4. Sorted(rest)
    <3>1. \A j, k \in 1 .. Len(rest) : j < k => j + 1 < k + 1
      BY <2>2
    <3> QED BY <1>1, <2>1, <2>2, <3>1 DEF Line, Sorted
  <2>5. \A j \in 1 .. Len(starts), k \in 1 .. Len(rest) : starts[j] < rest[k]
    BY <1>1, <2>1, <2>2 DEF Line
  <2>6. Line'
    BY <1>1, <2>3, <2>4, <2>5 DEF Line, Numbered, Sorted, Before, rest
  <2>7. \A q \in Producers : EndOfLine(prod[q].mine)'
    BY <1>1, <2>3 DEF EndOfLine, Numbered, Sorted, Before, rest
  <2> QED BY <2>6, <2>7 DEF InLine
<1> QED BY <1>2, <1>3

\* The epochs when the worker stays where it is, or goes on.
LEMMA WorkerStamped ==
  ASSUME IInv, RowsKept, UNCHANGED <<prod, queue, run, epoch>>, worker'.epoch = worker.epoch,
         \/ worker'.chain = worker.chain
         \/ worker.chain # <<>> /\ worker'.chain = Tail(worker.chain)
  PROVE  Stamped'
<1>1. ASSUME NEW s, Numbered(s), OfRun(s) PROVE \A k \in 1 .. Len(s) : ops'[s[k]].run = run'
  BY <1>1 DEF Numbered, OfRun, RowsKept
<1>2. worker'.epoch <= epoch' /\ \A i \in 1 .. Len(queue') : queue'[i].epoch <= epoch'
  BY DEF IInv, Stamped
<1>3. ASSUME Quiet', worker'.epoch = epoch' PROVE OfRun(worker.chain)'
  <2>1. Numbered(worker.chain) /\ OfRun(worker.chain)
    BY <1>3 DEF IInv, InLine, Line, Stamped, Quiet
  <2>2. \A k \in 1 .. Len(worker.chain) : ops'[worker.chain[k]].run = run'
    BY <1>1, <2>1
  <2>3. CASE worker.chain # <<>> /\ worker'.chain = Tail(worker.chain)
    <3>1. /\ Len(worker.chain) \in Nat \ {0} /\ Len(worker'.chain) = Len(worker.chain) - 1
          /\ \A k \in 1 .. Len(worker'.chain) : worker'.chain[k] = worker.chain[k + 1]
      BY <2>3, HeadOfChain DEF IInv, InLine
    <3>2. \A k \in 1 .. Len(worker'.chain) : k + 1 \in 1 .. Len(worker.chain)
      BY <3>1
    <3> QED BY <2>2, <3>1, <3>2 DEF OfRun
  <2> QED BY <2>2, <2>3 DEF OfRun
<1>4. ASSUME Quiet', NEW i \in 1 .. Len(queue'), queue'[i].epoch = epoch' PROVE OfRun(queue[i].ops)'
  <2>1. Numbered(queue[i].ops) /\ OfRun(queue[i].ops)
    BY <1>4 DEF IInv, InLine, Line, Stamped, Quiet
  <2> QED BY <1>1, <2>1 DEF OfRun
<1>5. ASSUME NEW q \in Producers, prod'[q].pc \in {"send", "await"} PROVE OfRun(prod[q].mine)'
  <2>1. Numbered(prod[q].mine) /\ OfRun(prod[q].mine)
    BY <1>5 DEF IInv, InLine, EndOfLine, Stamped
  <2> QED BY <1>1, <2>1 DEF OfRun
<1> QED BY <1>2, <1>3, <1>4, <1>5 DEF IInv, Stamped

\* A step of the worker that takes nothing from the queue and starts nothing.
LEMMA WorkerFrame ==
  ASSUME IInv, Types', RowsKept, Len(ops') = Len(ops), worker'.epoch = worker.epoch,
         UNCHANGED <<run, dispatchMu, prod, queue, epoch, child, starts, main, stopped, closed>>,
         \/ worker'.chain = worker.chain /\ (worker.pc \in {"wait", "clear"} => worker'.pc \in {"wait", "clear"})
         \/ worker.chain # <<>> /\ worker'.chain = Tail(worker.chain)
  PROVE  Locked' /\ InLine' /\ Stamped' /\ Aimed' /\ CleanupSpared' /\ StaleChildIsCut'
<1>1. Locked' /\ InLine' /\ Stamped'
  BY WorkerInLine, WorkerStamped DEF IInv, Locked
<1>2. Aimed'
  BY DEF IInv, Aimed, RowsKept
<1>3. child.live => child.op \in 1 .. Len(ops)
  BY HeadOfChain DEF IInv, InLine, Working
<1> QED BY <1>1, <1>2, <1>3 DEF IInv, CleanupSpared, StaleChildIsCut, RowsKept

\* The worker goes on to the next row of its chain.
LEMMA Advanced ==
  ASSUME IInv, worker.chain # <<>>, NextEffect
  PROVE  /\ worker' \in [pc : WorkerPcs, chain : Seq(Nat), epoch : Nat]
         /\ worker'.pc = "check" /\ worker'.chain = Tail(worker.chain) /\ worker'.epoch = worker.epoch
<1>1. Tail(worker.chain) \in Seq(Nat)
  BY HeadOfChain DEF IInv, InLine
<1> QED BY <1>1 DEF NextEffect, IInv, Types, WorkerPcs

\* The worker takes a step of its own.
LEMMA Turned ==
  ASSUME IInv, NEW there \in WorkerPcs, worker' = [worker EXCEPT !.pc = there]
  PROVE  /\ worker' \in [pc : WorkerPcs, chain : Seq(Nat), epoch : Nat]
         /\ worker'.pc = there /\ worker'.chain = worker.chain /\ worker'.epoch = worker.epoch
BY DEF IInv, Types

\* The worker takes the first chain of the queue.
LEMMA WorkerTakeStep ==
  ASSUME IInv, WorkerTake
  PROVE  IInv'
<1>1. /\ worker.pc = "idle" /\ queue # <<>> /\ queue' = Tail(queue)
      /\ worker' = [pc |-> "check", chain |-> Head(queue).ops, epoch |-> Head(queue).epoch]
      /\ UNCHANGED <<run, dispatchMu, prod, ops, epoch, group, child, starts, main, stopped, closed>>
  BY DEF WorkerTake, process, ending
<1>2. /\ queue \in Seq(Chain) /\ Len(queue) \in Nat \ {0} /\ Head(queue) = queue[1]
      /\ 1 \in 1 .. Len(queue) /\ queue[1].ops \in Seq(Nat) /\ queue[1].epoch \in Nat
  <2>1. queue \in Seq(Chain) /\ Len(queue) \in Nat \ {0} /\ 1 \in 1 .. Len(queue)
    BY <1>1 DEF IInv, Types
  <2> QED BY <2>1, TypesApart DEF IInv
<1>3. worker'.pc = "check" /\ worker'.chain = queue[1].ops /\ worker'.epoch = queue[1].epoch
  BY <1>1, <1>2
<1>4. /\ queue' \in Seq(Chain) /\ Len(queue') = Len(queue) - 1
      /\ \A i \in 1 .. Len(queue') : /\ queue'[i] = queue[i + 1] /\ i + 1 \in 1 .. Len(queue) /\ 1 < i + 1
  <2>1. queue' \in Seq(Chain) /\ Len(queue') = Len(queue) - 1
        /\ \A i \in 1 .. Len(queue') : queue'[i] = queue[i + 1]
    BY <1>1, <1>2, HeadTailProperties
  <2> QED BY <1>2, <2>1
<1>5. Types'
  <2>1. Len(queue') <= QueueLimit
    BY <1>2, <1>4 DEF IInv, Types
  <2>2. worker' \in [pc : WorkerPcs, chain : Seq(Nat), epoch : Nat]
    BY <1>1, <1>2 DEF WorkerPcs
  <2> QED BY <1>1, <1>4, <2>1, <2>2 DEF IInv, Types
<1>6. Locked'
  BY <1>1 DEF IInv, Locked
<1>7. Types /\ Line /\ \A q \in Producers : EndOfLine(prod[q].mine)
  BY DEF IInv, InLine
<1>8. Line'
  <2>1. Numbered(worker'.chain) /\ Sorted(worker'.chain) /\ Before(starts, worker'.chain)
    BY <1>2, <1>3, <1>7 DEF Line
  <2>2. \A i \in 1 .. Len(queue') : /\ Numbered(queue'[i].ops) /\ Sorted(queue'[i].ops)
                                    /\ Before(starts, queue'[i].ops) /\ Before(worker'.chain, queue'[i].ops)
    BY <1>2, <1>3, <1>4, <1>7 DEF Line
  <2>3. \A h, i \in 1 .. Len(queue') : h < i => Before(queue'[h].ops, queue'[i].ops)
    <3>1. \A h, i \in 1 .. Len(queue') : h < i => h + 1 < i + 1
      BY <1>4
    <3> QED BY <1>4, <1>7, <3>1 DEF Line
  <2> QED BY <1>1, <1>7, <2>1, <2>2, <2>3 DEF Line, Numbered, Sorted, Before
<1>9. \A q \in Producers : EndOfLine(prod[q].mine)'
  <2>1. ASSUME NEW s, EndOfLine(s)
        PROVE  Before(worker'.chain, s) /\ \A i \in 1 .. Len(queue') : Before(queue'[i].ops, s)
    BY <1>2, <1>3, <1>4, <2>1 DEF EndOfLine
  <2> QED BY <1>1, <1>7, <2>1 DEF EndOfLine, Numbered, Sorted, Before
<1>10. InLine'
  BY <1>8, <1>9 DEF InLine
<1>11. Working'
  BY <1>1, <1>3 DEF IInv, Working
<1>12. Stamped'
  <2>1. /\ worker'.epoch <= epoch' /\ \A i \in 1 .. Len(queue') : queue'[i].epoch <= epoch'
    BY <1>1, <1>2, <1>3, <1>4 DEF IInv, Stamped
  <2>2. ASSUME Quiet' PROVE /\ worker'.epoch = epoch' => OfRun(worker.chain)'
                            /\ \A i \in 1 .. Len(queue') : queue'[i].epoch = epoch' => OfRun(queue[i].ops)'
    <3>1. Quiet
      BY <1>1, <2>2 DEF Quiet
    <3> QED BY <1>1, <1>2, <1>3, <1>4, <3>1 DEF IInv, Stamped, OfRun
  <2> QED BY <1>1, <2>1, <2>2 DEF IInv, Stamped, OfRun
<1>13. Aimed' /\ Honest' /\ CleanupSpared'
  BY <1>1 DEF IInv, Aimed, Honest, CleanupSpared
<1>14. StaleChildIsCut'
  BY <1>1 DEF IInv, Working, StaleChildIsCut
<1> QED BY <1>5, <1>6, <1>10, <1>11, <1>12, <1>13, <1>14 DEF IInv

\* The worker leaves, or looks at the head of its chain.
LEMMA WorkerLookStep ==
  ASSUME IInv, WorkerExit \/ WorkerCheck
  PROVE  IInv'
<1>1. /\ worker.pc \in {"idle", "check"} /\ ops' = ops
      /\ UNCHANGED <<run, dispatchMu, prod, queue, epoch, group, child, starts, main, stopped, closed>>
  BY DEF WorkerExit, WorkerCheck, process, ending
<1>2. PICK there \in WorkerPcs :
        /\ worker' = [worker EXCEPT !.pc = there]
        /\ there \in {"idle", "done"} => worker.chain = <<>>
        /\ there \in {"drop", "mark"} => worker.chain # <<>>
        /\ there = "drop" => ~ ops[At].final
        /\ there \in {"idle", "done", "drop", "mark"}
  <2>1. CASE WorkerExit
    BY <2>1 DEF WorkerExit, WorkerPcs, IInv, Working
  <2>2. CASE WorkerCheck
    BY <2>2 DEF WorkerCheck, WorkerPcs
  <2> QED BY <2>1, <2>2
<1>3. /\ worker' \in [pc : WorkerPcs, chain : Seq(Nat), epoch : Nat]
      /\ worker'.pc = there /\ worker'.chain = worker.chain /\ worker'.epoch = worker.epoch
  BY <1>2, Turned
<1>4. Types' /\ RowsKept
  BY <1>1, <1>3 DEF IInv, Types, RowsKept
<1>5. Locked' /\ InLine' /\ Stamped' /\ Aimed' /\ CleanupSpared' /\ StaleChildIsCut'
  BY <1>1, <1>3, <1>4, WorkerFrame
<1>6. Working' /\ Honest'
  BY <1>1, <1>2, <1>3 DEF IInv, Working, Honest, At
<1> QED BY <1>4, <1>5, <1>6 DEF IInv

\* The worker records a row dropped or failed, finds it already settled, or
\* gives up on it: it goes on to the next.
LEMMA WorkerSettlesStep ==
  ASSUME IInv, worker.chain # <<>>, NEW from, NEW to \in OpStates \ {"succeeded"}, Attempted(At, from, to),
         NextEffect, worker.pc \in {"drop", "mark", "start", "fail"},
         to = "discarded" => worker.pc = "drop",
         UNCHANGED <<run, dispatchMu, prod, queue, epoch, group, child, starts, main, stopped, closed>>
  PROVE  IInv'
<1>1. At \in 1 .. Len(ops) /\ Len(worker.chain) \in Nat \ {0} /\ At = worker.chain[1]
  BY HeadOfChain DEF IInv, InLine
<1>2. /\ ops' \in Seq(Rows) /\ Len(ops') = Len(ops) /\ RowsKept
      /\ \A j \in 1 .. Len(ops) : j # At => ops'[j] = ops[j]
      /\ ops'[At] = ops[At] \/ ops'[At].state = to
  BY <1>1, AttemptedRow DEF IInv
<1>3. /\ worker' \in [pc : WorkerPcs, chain : Seq(Nat), epoch : Nat]
      /\ worker'.pc = "check" /\ worker'.chain = Tail(worker.chain) /\ worker'.epoch = worker.epoch
  BY Advanced
<1>4. Types'
  BY <1>2, <1>3 DEF IInv, Types
<1>5. Locked' /\ InLine' /\ Stamped' /\ Aimed' /\ CleanupSpared' /\ StaleChildIsCut'
  BY <1>2, <1>3, <1>4, WorkerFrame
<1>6. Working'
  BY <1>3 DEF IInv, Working
<1>7. Honest'
  <2>1. worker.pc = "drop" => ~ ops[At].final
    BY DEF IInv, Working
  <2>2. \A s \in 1 .. Len(starts) : starts[s] # At
    <3>1. \A s \in 1 .. Len(starts) : starts[s] < At /\ starts[s] \in 1 .. Len(ops)
      BY <1>1 DEF IInv, InLine, Line, Numbered
    <3>2. \A x \in 1 .. Len(ops) : ~ (x < x)
      BY <1>1 DEF IInv, Types
    <3> QED BY <1>1, <3>1, <3>2
  <2>3. ASSUME NEW i \in 1 .. Len(ops'), i = At, ops'[At] # ops[At]
        PROVE  /\ ops'[i].state = "discarded" => ~ ops'[i].final /\ \A s \in 1 .. Len(starts') : starts'[s] # i
               /\ ops'[i].state # "succeeded"
    BY <1>1, <1>2, <2>1, <2>2, <2>3 DEF RowsKept
  <2> QED BY <1>1, <1>2, <2>3 DEF IInv, Honest
<1> QED BY <1>4, <1>5, <1>6, <1>7 DEF IInv

\* A row is dropped, or the record of its start failed, or its child was not
\* started.
LEMMA WorkerDropFailStep ==
  ASSUME IInv, WorkerDrop \/ WorkerFail
  PROVE  IInv'
<1>1. /\ NextEffect /\ worker.pc \in {"drop", "fail"} /\ worker.chain # <<>>
      /\ UNCHANGED <<run, dispatchMu, prod, queue, epoch, group, child, starts, main, stopped, closed>>
  BY DEF WorkerDrop, WorkerFail, process, ending, IInv, Working
<1>2. CASE WorkerDrop
  <2>1. worker.pc = "drop" /\ Attempted(At, "pending", "discarded") /\ "discarded" \in OpStates \ {"succeeded"}
    BY <1>2 DEF WorkerDrop, OpStates
  <2> QED BY <1>1, <2>1, WorkerSettlesStep
<1>3. CASE WorkerFail
  <2>1. Attempted(At, "running", "failed") /\ "failed" \in OpStates \ {"succeeded"}
    BY <1>3 DEF WorkerFail, OpStates
  <2> QED BY <1>1, <2>1, WorkerSettlesStep
<1> QED BY <1>2, <1>3

\* A row is marked running before its child is started.
LEMMA WorkerMarkStep ==
  ASSUME IInv, WorkerMark
  PROVE  IInv'
<1>1. /\ worker.pc = "mark" /\ worker.chain # <<>>
      /\ UNCHANGED <<run, dispatchMu, prod, queue, epoch, group, child, starts, main, stopped, closed>>
  BY DEF WorkerMark, process, ending, IInv, Working
<1>2. "running" \in OpStates \ {"succeeded"} /\ "start" \in WorkerPcs
  BY DEF OpStates, WorkerPcs
<1>3. CASE NotMoved(At, "pending", "running") /\ NextEffect
  BY <1>1, <1>2, <1>3, WorkerSettlesStep DEF Attempted
<1>4. CASE Moved(At, "pending", "running") /\ worker' = [worker EXCEPT !.pc = "start"]
  <2>1. At \in 1 .. Len(ops) /\ At = worker.chain[1]
    BY <1>1, HeadOfChain DEF IInv, InLine
  <2>2. /\ ops' \in Seq(Rows) /\ Len(ops') = Len(ops) /\ RowsKept
        /\ \A j \in 1 .. Len(ops) : j # At => ops'[j] = ops[j]
        /\ ops'[At].state = "running"
    BY <1>2, <1>4, <2>1, AttemptedRow DEF IInv, Attempted
  <2>3. /\ worker' \in [pc : WorkerPcs, chain : Seq(Nat), epoch : Nat]
        /\ worker'.pc = "start" /\ worker'.chain = worker.chain /\ worker'.epoch = worker.epoch
    BY <1>2, <1>4, Turned
  <2>4. Types'
    BY <1>1, <2>2, <2>3 DEF IInv, Types
  <2>5. Locked' /\ InLine' /\ Stamped' /\ Aimed' /\ CleanupSpared' /\ StaleChildIsCut'
    BY <1>1, <2>2, <2>3, <2>4, WorkerFrame
  <2>6. Working'
    BY <1>1, <2>2, <2>3 DEF IInv, Working, At
  <2>7. Honest'
    BY <1>1, <2>2 DEF IInv, Honest
  <2> QED BY <2>4, <2>5, <2>6, <2>7 DEF IInv
<1> QED BY <1>3, <1>4 DEF WorkerMark

\* The child of the head of the chain is started: it comes last of all that
\* started, and it is of an epoch that is not over, or cleanup.
LEMMA WorkerStartStep ==
  ASSUME IInv, WorkerStart
  PROVE  IInv'
<1>1. /\ worker.pc = "start" /\ worker.chain # <<>> /\ ops' = ops
      /\ UNCHANGED <<run, dispatchMu, prod, queue, epoch, main, stopped, closed>>
  BY DEF WorkerStart, ending, IInv, Working
<1>2. /\ At \in 1 .. Len(ops) /\ At = worker.chain[1] /\ 1 \in 1 .. Len(worker.chain)
      /\ Len(worker.chain) \in Nat /\ Len(ops) \in Nat
  BY <1>1, HeadOfChain DEF IInv, InLine, Types
<1>3. {"wait", "fail"} \subseteq WorkerPcs /\ RowsKept
  BY <1>1, <1>2 DEF WorkerPcs, RowsKept
<1>4. CASE UNCHANGED process /\ worker' = [worker EXCEPT !.pc = "fail"]
  <2>1. /\ worker' \in [pc : WorkerPcs, chain : Seq(Nat), epoch : Nat]
        /\ worker'.pc = "fail" /\ worker'.chain = worker.chain /\ worker'.epoch = worker.epoch
    BY <1>3, <1>4, Turned
  <2>2. UNCHANGED <<group, child, starts>>
    BY <1>4 DEF process
  <2>3. Types'
    BY <1>1, <2>1, <2>2 DEF IInv, Types
  <2>4. Locked' /\ InLine' /\ Stamped' /\ Aimed' /\ CleanupSpared' /\ StaleChildIsCut'
    BY <1>1, <1>3, <2>1, <2>2, <2>3, WorkerFrame
  <2>5. Working' /\ Honest'
    BY <1>1, <2>1, <2>2 DEF IInv, Working, Honest
  <2> QED BY <2>3, <2>4, <2>5 DEF IInv
<1>5. CASE MayStart(At) /\ Spawn(At) /\ worker' = [worker EXCEPT !.pc = "wait"]
  <2>1. /\ worker' \in [pc : WorkerPcs, chain : Seq(Nat), epoch : Nat]
        /\ worker'.pc = "wait" /\ worker'.chain = worker.chain /\ worker'.epoch = worker.epoch
    BY <1>3, <1>5, Turned
  <2>2. /\ group' = At /\ child'.op = At /\ child'.live /\ child'.cut = FALSE
        /\ child' \in [op : Nat, live : BOOLEAN, cut : BOOLEAN, exit : Exits]
    BY <1>2, <1>5 DEF Spawn, Exits
  <2>3. /\ starts' \in Seq(Nat) /\ Len(starts') = Len(starts) + 1 /\ Len(starts) \in Nat
        /\ \A s \in 1 .. Len(starts) : starts'[s] = starts[s]
        /\ starts'[Len(starts) + 1] = At
    <3>1. starts \in Seq(Nat) /\ At \in Nat /\ starts' = Append(starts, At)
      BY <1>2, <1>5 DEF IInv, Types, Spawn
    <3> QED BY <3>1, AppendProperties
  <2>4. \A s \in 1 .. Len(starts') : \/ s \in 1 .. Len(starts) /\ starts'[s] = starts[s]
                                     \/ s = Len(starts) + 1 /\ starts'[s] = At
    BY <2>3
  <2>5. /\ \A s \in 1 .. Len(starts) : starts[s] < At /\ starts[s] \in 1 .. Len(ops)
        /\ \A k \in 1 .. Len(worker.chain) : k # 1 => At < worker.chain[k]
    <3>1. \A k \in 1 .. Len(worker.chain) : k # 1 => 1 < k
      BY <1>2
    <3> QED BY <1>1, <1>2, <3>1 DEF IInv, InLine, Line, Numbered, Sorted
  <2>6. Types'
    <3>1. At \in 0 .. Len(ops)
      BY <1>2
    <3> QED BY <1>1, <2>1, <2>2, <2>3, <3>1 DEF IInv, Types
  <2>7. Locked'
    BY <1>1 DEF IInv, Locked
  <2>8. InLine'
    <3>1. /\ Numbered(starts')
          /\ \A s : Before(starts, s) /\ Before(worker.chain, s) => Before(starts', s)
      BY <1>2, <2>4, <2>5 DEF Numbered, Before
    <3>2. Sorted(starts')
      <4> SUFFICES ASSUME NEW j \in 1 .. Len(starts'), NEW k \in 1 .. Len(starts'), j < k
                   PROVE  starts'[j] < starts'[k]
        BY DEF Sorted
      <4>1. j \in 1 .. Len(starts) /\ starts'[j] = starts[j]
        BY <2>3
      <4> QED BY <2>4, <2>5, <4>1 DEF IInv, InLine, Line, Sorted
    <3>3. ASSUME NEW j \in 1 .. Len(starts'), NEW k \in 1 .. Len(worker.chain)
          PROVE  \/ starts'[j] < worker.chain[k]
                 \/ k = 1 /\ starts'[j] <= worker.chain[1]
      <4>1. CASE starts'[j] = At
        BY <1>2, <2>5, <4>1
      <4>2. CASE j \in 1 .. Len(starts) /\ starts'[j] = starts[j]
        BY <1>1, <4>2 DEF IInv, InLine, Line
      <4> QED BY <2>4, <4>1, <4>2
    <3>4. Line'
      BY <1>1, <2>1, <3>1, <3>2, <3>3 DEF IInv, InLine, Line, Numbered, Sorted, Before
    <3>5. \A q \in Producers : EndOfLine(prod[q].mine)'
      BY <1>1, <2>1, <3>1 DEF IInv, InLine, EndOfLine, Numbered, Sorted, Before
    <3> QED BY <3>4, <3>5 DEF InLine
  <2>9. Working'
    <3>1. Len(starts) + 1 \in 1 .. Len(starts')
      BY <2>3
    <3> QED BY <1>1, <2>1, <2>2, <2>3, <3>1 DEF Working, At
  <2>10. Stamped'
    BY <1>1, <1>3, <2>1, WorkerStamped
  <2>11. Aimed' /\ CleanupSpared'
    BY <1>1, <2>2 DEF IInv, Aimed, CleanupSpared
  <2>12. Honest'
    <3>1. ops[At].state = "running"
      BY <1>1 DEF IInv, Working
    <3>2. \A i \in 1 .. Len(ops) : ops[i].state = "discarded" => At # i
      BY <3>1
    <3>3. \A i : (\E s \in 1 .. Len(starts) : starts[s] = i) => \E s \in 1 .. Len(starts') : starts'[s] = i
      BY <2>3
    <3>4. ASSUME NEW i \in 1 .. Len(ops), ops[i].state = "discarded", NEW s \in 1 .. Len(starts')
          PROVE  ~ ops[i].final /\ starts'[s] # i
      BY <2>4, <3>2, <3>4 DEF IInv, Honest
    <3>5. ASSUME NEW i \in 1 .. Len(ops), ops[i].state = "succeeded"
          PROVE  \E s \in 1 .. Len(starts') : starts'[s] = i
      BY <3>3, <3>5 DEF IInv, Honest
    <3>6. ASSUME NEW i \in 1 .. Len(ops')
          PROVE  /\ ops'[i].state = "discarded" => ~ ops'[i].final /\ \A s \in 1 .. Len(starts') : starts'[s] # i
                 /\ ops'[i].state = "succeeded" => \E s \in 1 .. Len(starts') : starts'[s] = i
      <4>1. i \in 1 .. Len(ops) /\ ops'[i] = ops[i]
        BY <1>1
      <4>2. ASSUME ops[i].state = "discarded" PROVE ~ ops[i].final
        BY <4>1, <4>2 DEF IInv, Honest
      <4> QED BY <3>4, <3>5, <4>1, <4>2
    <3> QED BY <3>6 DEF Honest
  <2>13. StaleChildIsCut'
    BY <1>1, <1>5, <2>1, <2>2 DEF MayStart, Stale, StaleChildIsCut
  <2> QED BY <2>6, <2>7, <2>8, <2>9, <2>10, <2>11, <2>12, <2>13 DEF IInv
<1> QED BY <1>4, <1>5 DEF WorkerStart

\* The outcome of a child that has ended is recorded; the row did start.
LEMMA WorkerReapStep ==
  ASSUME IInv, WorkerReap
  PROVE  IInv'
<1>1. /\ worker.pc = "wait" /\ worker.chain # <<>> /\ ~ child.live
      /\ Attempted(At, "running", child.exit) /\ worker' = [worker EXCEPT !.pc = "clear"]
      /\ UNCHANGED <<run, dispatchMu, prod, queue, epoch, group, child, starts, main, stopped, closed>>
  BY DEF WorkerReap, process, ending, IInv, Working
<1>2. At \in 1 .. Len(ops) /\ child.exit \in OpStates \ {"discarded"} /\ "clear" \in WorkerPcs
  BY <1>1, HeadOfChain DEF IInv, InLine, Types, OpStates, Exits, WorkerPcs
<1>3. /\ ops' \in Seq(Rows) /\ Len(ops') = Len(ops) /\ RowsKept
      /\ \A j \in 1 .. Len(ops) : j # At => ops'[j] = ops[j]
      /\ ops'[At] = ops[At] \/ ops'[At].state = child.exit
  BY <1>1, <1>2, AttemptedRow DEF IInv
<1>4. /\ worker' \in [pc : WorkerPcs, chain : Seq(Nat), epoch : Nat]
      /\ worker'.pc = "clear" /\ worker'.chain = worker.chain /\ worker'.epoch = worker.epoch
  BY <1>1, <1>2, Turned
<1>5. Types'
  BY <1>1, <1>3, <1>4 DEF IInv, Types
<1>6. Locked' /\ InLine' /\ Stamped' /\ Aimed' /\ CleanupSpared' /\ StaleChildIsCut'
  BY <1>1, <1>3, <1>4, <1>5, WorkerFrame
<1>7. Working'
  BY <1>1, <1>4 DEF IInv, Working, At
<1>8. Honest'
  <2>1. \E s \in 1 .. Len(starts) : starts[s] = At
    BY <1>1 DEF IInv, Working
  <2> QED BY <1>1, <1>2, <1>3, <2>1 DEF IInv, Honest
<1> QED BY <1>5, <1>6, <1>7, <1>8 DEF IInv

\* The group is forgotten once its child is gone.
LEMMA WorkerClearStep ==
  ASSUME IInv, WorkerClear
  PROVE  IInv'
<1>1. /\ worker.pc = "clear" /\ worker.chain # <<>> /\ group' = 0 /\ NextEffect /\ ops' = ops
      /\ UNCHANGED <<run, dispatchMu, prod, queue, epoch, child, starts, main, stopped, closed>>
  BY DEF WorkerClear, ending, IInv, Working
<1>2. /\ worker' \in [pc : WorkerPcs, chain : Seq(Nat), epoch : Nat]
      /\ worker'.pc = "check" /\ worker'.chain = Tail(worker.chain) /\ worker'.epoch = worker.epoch
  BY <1>1, Advanced
<1>3. Types' /\ RowsKept
  <2>1. Len(ops) \in Nat /\ 0 \in 0 .. Len(ops)
    BY DEF IInv, Types
  <2> QED BY <1>1, <1>2, <2>1 DEF IInv, Types, RowsKept
<1>4. Locked' /\ InLine' /\ Stamped' /\ Aimed' /\ CleanupSpared' /\ StaleChildIsCut'
  BY <1>1, <1>2, <1>3, WorkerFrame
<1>5. Working' /\ Honest'
  BY <1>1, <1>2 DEF IInv, Working, Honest
<1> QED BY <1>3, <1>4, <1>5 DEF IInv

-----------------------------------------------------------------------------
(* The child, and shutdown.                                                 *)

\* What a step keeps that moves neither rows, chains nor producers, and starts
\* no child.
LEMMA AsideStep ==
  ASSUME IInv, UNCHANGED <<run, prod, ops, queue, worker, epoch, group, starts>>, Types',
         closed => closed', child'.op = child.op, child'.live => child.live, child.cut => child'.cut
  PROVE  InLine' /\ Working' /\ Stamped' /\ Aimed' /\ Honest' /\ StaleChildIsCut'
<1>1. InLine'
  BY DEF IInv, InLine, Line, EndOfLine, Numbered, Sorted, Before
<1>2. Working'
  BY DEF IInv, Working, At
<1>3. Stamped'
  BY DEF IInv, Stamped, OfRun, Quiet
<1>4. Aimed' /\ Honest' /\ StaleChildIsCut'
  BY DEF IInv, Aimed, Honest, StaleChildIsCut
<1> QED BY <1>1, <1>2, <1>3, <1>4

\* The child ends.
LEMMA ChildExitStep ==
  ASSUME IInv, ChildExit
  PROVE  IInv'
<1>1. /\ child.live
      /\ UNCHANGED <<run, dispatchMu, prod, ops, queue, worker, epoch, group, starts, main, stopped, closed>>
      /\ \E s \in Exits : child' = [child EXCEPT !.live = FALSE, !.exit = s]
  BY DEF ChildExit, chains, ending, Exits
<1>2. /\ child' \in [op : Nat, live : BOOLEAN, cut : BOOLEAN, exit : Exits]
      /\ child'.op = child.op /\ ~ child'.live /\ child'.cut = child.cut
  BY <1>1 DEF IInv, Types
<1>3. Types'
  BY <1>1, <1>2 DEF IInv, Types
<1>4. Locked'
  BY <1>1 DEF IInv, Locked
<1>5. CleanupSpared'
  BY <1>2 DEF CleanupSpared
<1> QED BY <1>1, <1>2, <1>3, <1>4, <1>5, AsideStep DEF IInv

\* Shutdown is asked for, takes the dispatch lock and closes the runner: the
\* producers are out of the way while it does.
LEMMA ShutdownCloseStep ==
  ASSUME IInv, ShutdownAsked \/ ShutdownLock \/ ShutdownClose \/ ShutdownDone
  PROVE  IInv'
<1>1. /\ UNCHANGED <<run, prod, ops, queue, worker, epoch, group, child, starts, stopped>>
      /\ closed => closed'
  BY DEF ShutdownAsked, ShutdownLock, ShutdownClose, ShutdownDone, chains, process
<1>2. Types'
  BY <1>1 DEF ShutdownAsked, ShutdownLock, ShutdownClose, ShutdownDone, IInv, Types
<1>3. Locked'
  <2>1. CASE ShutdownAsked
    BY <1>1, <2>1 DEF ShutdownAsked, IInv, Locked
  <2>2. CASE ShutdownLock
    BY <1>1, <2>2 DEF ShutdownLock, IInv, Locked
  <2>3. CASE ShutdownClose
    BY <1>1, <2>3 DEF ShutdownClose, IInv, Locked
  <2>4. CASE ShutdownDone
    BY <1>1, <2>4 DEF ShutdownDone, IInv, Locked
  <2> QED BY <2>1, <2>2, <2>3, <2>4
<1>4. CleanupSpared'
  BY <1>1 DEF IInv, CleanupSpared
<1> QED BY <1>1, <1>2, <1>3, <1>4, AsideStep DEF IInv

\* Shutdown signals the live group, and kills what has not gone by itself: by
\* now the runner is closed.
LEMMA ShutdownKillStep ==
  ASSUME IInv, ShutdownTerm \/ ShutdownSweep
  PROVE  IInv'
<1>1. /\ UNCHANGED <<run, dispatchMu, prod, ops, queue, worker, epoch, group, starts, closed>>
      /\ main \in {"term", "grace"} /\ main' \in {"grace", "join"} /\ stopped' \in BOOLEAN
  BY DEF ShutdownTerm, ShutdownSweep, chains, IInv, Types
<1>2. /\ child' \in [op : Nat, live : BOOLEAN, cut : BOOLEAN, exit : Exits]
      /\ child'.op = child.op /\ (child'.live => child.live) /\ (child.cut => child'.cut)
  <2>1. child \in [op : Nat, live : BOOLEAN, cut : BOOLEAN, exit : Exits]
    BY DEF IInv, Types
  <2>2. CASE ShutdownTerm
    BY <2>1, <2>2 DEF ShutdownTerm, Signal
  <2>3. CASE ShutdownSweep
    BY <2>1, <2>3 DEF ShutdownSweep, Exits
  <2> QED BY <2>2, <2>3
<1>3. Types'
  BY <1>1, <1>2 DEF IInv, Types
<1>4. Locked' /\ CleanupSpared'
  BY <1>1 DEF IInv, Locked, CleanupSpared
<1> QED BY <1>1, <1>2, <1>3, <1>4, AsideStep DEF IInv

-----------------------------------------------------------------------------
(* The invariant of the specification.                                      *)

\* The runner starts out with nothing to do.
LEMMA InitIInv == Init => IInv
<1> SUFFICES ASSUME Init PROVE IInv
  OBVIOUS
<1>1. <<>> \in Seq(BOOLEAN) /\ <<>> \in Seq(Nat) /\ <<>> \in Seq(Rows) /\ <<>> \in Seq(Chain) /\ Len(<<>>) = 0
  OBVIOUS
<1>2. Types
  <2>1. Resting \in Prod /\ NoChild \in [op : Nat, live : BOOLEAN, cut : BOOLEAN, exit : Exits] /\ NoChild.op = 0
    BY <1>1 DEF Resting, Prod, ProdPcs, NoChild, Exits
  <2>2. worker \in [pc : WorkerPcs, chain : Seq(Nat), epoch : Nat]
    BY <1>1 DEF Init, WorkerPcs
  <2>3. ops = <<>> /\ queue = <<>> /\ starts = <<>> /\ group = 0 /\ child = NoChild
    BY DEF Init
  <2>4. Len(queue) <= QueueLimit /\ group \in 0 .. Len(ops) /\ child.op \in 0 .. Len(ops)
    BY <1>1, <2>1, <2>3
  <2>5. prod \in [Producers -> Prod]
    BY <2>1 DEF Init
  <2> QED BY <1>1, <2>1, <2>2, <2>3, <2>4, <2>5 DEF Init, Types
<1>3. Locked /\ Aimed
  BY DEF Init, Resting, Locked, Aimed
<1>4. InLine
  BY <1>1 DEF Init, Resting, InLine, Line, EndOfLine, Numbered, Sorted, Before
<1>5. Working /\ Honest /\ StaleChildIsCut /\ CleanupSpared
  BY <1>1 DEF Init, NoChild, Working, Honest, StaleChildIsCut, CleanupSpared
<1>6. Stamped
  BY <1>1 DEF Init, Resting, Stamped, OfRun
<1> QED BY <1>2, <1>3, <1>4, <1>5, <1>6 DEF IInv

\* Every step keeps the invariant.
LEMMA StepIInv == IInv /\ [Next]_vars => IInv'
<1> SUFFICES ASSUME IInv, [Next]_vars PROVE IInv'
  OBVIOUS
<1>1. CASE \E p \in Producers, t \in Transitions : Transition(p, t)
  BY <1>1, TransitionStep
<1>2. CASE \E p \in Producers : Dispatch(p)
  BY <1>2, BoundaryStep, BoundaryKillStep, StampChainStep, AcceptChainStep, SendStep, DiscardChainStep DEF Dispatch
<1>3. CASE Work
  BY <1>3, WorkerTakeStep, WorkerLookStep, WorkerDropFailStep, WorkerMarkStep, WorkerStartStep,
     WorkerReapStep, WorkerClearStep DEF Work
<1>4. CASE ChildExit
  BY <1>4, ChildExitStep
<1>5. CASE ShutdownAsked \/ ShutdownLock \/ Shutdown
  BY <1>5, ShutdownCloseStep, ShutdownKillStep DEF Shutdown
<1>6. CASE UNCHANGED vars
  <2>1. UNCHANGED <<run, dispatchMu, prod, ops, queue, worker, epoch, group, child, starts, main, stopped, closed>>
    BY <1>6 DEF vars, chains, process, ending
  <2>2. Types' /\ Locked' /\ CleanupSpared'
    BY <2>1 DEF IInv, Types, Locked, CleanupSpared
  <2> QED BY <2>1, <2>2, AsideStep DEF IInv
<1> QED BY <1>1, <1>2, <1>3, <1>4, <1>5, <1>6 DEF Next

\* The invariant holds of every behaviour.
THEOREM Inductive == Spec => []IInv
BY InitIInv, StepIInv, PTL DEF Spec

-----------------------------------------------------------------------------
(* What it says.                                                            *)

\* Rows, chains and starts agree whatever order producers, the worker, a
\* boundary and shutdown take: effects start in the order they were accepted,
\* each once, what the journal calls discarded never started and what it calls
\* succeeded did (effects.go "order is the contract").
THEOREM EffectsSafeAlways == Spec => []EffectsSafe
<1>1. ASSUME IInv PROVE EffectsSafe
  <2>1. /\ ops \in Seq(Rows) /\ Len(ops) \in Nat /\ DOMAIN ops = 1 .. Len(ops)
        /\ starts \in Seq(Nat) /\ Len(starts) \in Nat /\ DOMAIN starts = 1 .. Len(starts)
        /\ queue \in Seq(Chain) /\ DOMAIN queue = 1 .. Len(queue)
    BY <1>1 DEF IInv, Types
  <2>2. ASSUME NEW s \in Seq(Nat), Numbered(s) PROVE s \in Seq(DOMAIN ops)
    <3>1. DOMAIN s = 1 .. Len(s) /\ Len(s) \in Nat /\ s = [k \in 1 .. Len(s) |-> s[k]]
      BY <2>2
    <3>2. \A k \in 1 .. Len(s) : s[k] \in DOMAIN ops
      BY <2>1, <2>2 DEF Numbered
    <3> QED BY <3>1, <3>2
  <2>3. \A e \in Nat : e <= epoch => e \in 0 .. epoch
    BY <1>1 DEF IInv, Types
  <2>4. \A e \in Nat : e <= run => e \in 0 .. run
    BY <1>1 DEF IInv, Types
  <2>5. worker.chain \in Seq(DOMAIN ops) /\ worker.epoch \in 0 .. epoch
    BY <1>1, <2>2, <2>3, TypesApart DEF IInv, InLine, Line, Stamped
  <2>6. \A i \in DOMAIN queue : ChainType(queue[i])
    BY <1>1, <2>1, <2>2, <2>3, TypesApart DEF IInv, InLine, Line, Stamped, ChainType
  <2>7. \A p \in Producers : /\ prod[p].pc \in ProdPcs /\ prod[p].todo \in Seq(BOOLEAN)
                             /\ prod[p].mine \in Seq(DOMAIN ops)
                             /\ prod[p].epoch \in 0 .. epoch /\ prod[p].run \in 0 .. run
    <3>1. \A p \in Producers : prod[p].pc \in ProdPcs
      BY <1>1, TypesApart DEF IInv, Prod
    <3> QED BY <1>1, <2>2, <2>3, <2>4, <3>1, TypesApart DEF IInv, InLine, EndOfLine, Stamped
  <2>8. TypeOK
    BY <1>1, <2>1, <2>5, <2>6, <2>7 DEF IInv, Types, TypeOK, ProdPcs, WorkerPcs
  <2>9. EffectsHonest
    BY <1>1, <2>1 DEF IInv, Honest, EffectsHonest
  <2>10. StartsInOrder
    <3>1. \A i \in 1 .. Len(starts) - 1 : i \in 1 .. Len(starts) /\ i + 1 \in 1 .. Len(starts) /\ i < i + 1
      BY <2>1
    <3> QED BY <1>1, <3>1 DEF IInv, InLine, Line, Sorted, StartsInOrder
  <2> QED BY <2>8, <2>9, <2>10 DEF EffectsSafe
<1> QED BY <1>1, Inductive, PTL

\* A child ends when it should and not before: one of a finished run has been
\* signalled or is about to be, and cleanup is neither signalled before
\* shutdown nor recorded as discarded (effects.go "It IS the cleanup a boundary
\* must not cancel").
THEOREM ChildrenEndAlways == Spec => []ChildrenEnd
<1>1. ASSUME IInv PROVE ChildrenEnd
  BY <1>1 DEF IInv, Types, Honest, StaleChildIsCut, CleanupSpared, CleanupSurvives, ChildrenEnd
<1> QED BY <1>1, Inductive, PTL

\* No work of a finished run starts: a child that is not cleanup starts for the
\* run the module is in, or a boundary is on its way (effects.go "run A's
\* queued chains must not execute into run B").
THEOREM NoStaleStartAlways == Spec => NoStaleStart
<1> DEFINE Fresh ==
      Len(starts') > Len(starts) =>
        LET i == starts'[Len(starts')] IN
          ops[i].final \/ ops[i].run = run \/ \E p \in Producers : prod[p].pc = "boundary"
<1>1. ASSUME IInv, [Next]_vars PROVE [Fresh]_vars
  <2>1. CASE starts' = starts
    <3>1. ~ (Len(starts') > Len(starts))
      BY <1>1, <2>1 DEF IInv, Types
    <3> QED BY <3>1
  <2>2. CASE WorkerStart /\ MayStart(At) /\ Spawn(At)
    <3>1. worker.chain # <<>> /\ At = worker.chain[1] /\ 1 \in 1 .. Len(worker.chain)
      <4>1. worker.chain # <<>>
        BY <1>1, <2>2 DEF WorkerStart, IInv, Working
      <4> QED BY <1>1, <4>1, HeadOfChain DEF IInv, InLine
    <3>2. starts'[Len(starts')] = At
      <4>1. starts \in Seq(Nat) /\ At \in Nat /\ starts' = Append(starts, At)
        BY <1>1, <2>2, <3>1, HeadOfChain DEF IInv, InLine, Types, Spawn
      <4>2. Len(starts') = Len(starts) + 1 /\ starts'[Len(starts) + 1] = At
        BY <4>1, AppendProperties
      <4> QED BY <4>2
    <3>3. ASSUME ~ ops[At].final, Quiet PROVE ops[At].run = run
      <4>1. worker.epoch = epoch
        BY <2>2, <3>3 DEF MayStart, Stale
      <4> QED BY <1>1, <3>1, <3>3, <4>1 DEF IInv, Stamped, OfRun
    <3> QED BY <3>2, <3>3 DEF Quiet
  <2>3. starts' = starts \/ (WorkerStart /\ MayStart(At) /\ Spawn(At))
    <3>1. CASE UNCHANGED vars
      BY <3>1 DEF vars, process
    <3>2. CASE Work
      BY <3>2 DEF Work, WorkerTake, WorkerExit, WorkerCheck, WorkerDrop, WorkerMark, WorkerStart, WorkerFail,
         WorkerReap, WorkerClear, process
    <3>3. CASE \E p \in Producers : Dispatch(p)
      BY <3>3 DEF Dispatch, Boundary, BoundaryKill, StampChain, AcceptChain, Send, AwaitRoom, DiscardChain, process
    <3>4. CASE \E p \in Producers, t \in Transitions : Transition(p, t)
      BY <3>4 DEF Transition, Move, process
    <3>5. CASE ChildExit \/ ShutdownAsked \/ ShutdownLock \/ Shutdown
      BY <3>5 DEF ChildExit, ShutdownAsked, ShutdownLock, Shutdown, ShutdownClose, ShutdownTerm, ShutdownSweep,
         ShutdownDone, process
    <3> QED BY <1>1, <3>1, <3>2, <3>3, <3>4, <3>5 DEF Next
  <2> QED BY <2>1, <2>2, <2>3
<1>2. Spec => [][Fresh]_vars
  BY <1>1, Inductive, PTL DEF Spec
<1> QED BY <1>2 DEF NoStaleStart
=============================================================================
