---------------------------- MODULE EffectRunner ----------------------------
(***************************************************************************)
(* The ordered effect executor of the bus and of the Reno owner            *)
(* (internal/effectrun/effects.go).  Producers run a module transition and *)
(* dispatch its effects as one unit; one worker executes chains in order;  *)
(* a run boundary cuts what an earlier run left, except cleanup; shutdown  *)
(* ends everything.  Steps are the critical sections of dispatchMu and of  *)
(* r.mu and the journal transactions between them.                         *)
(***************************************************************************)
EXTENDS Integers, Sequences

CONSTANTS
  Producers,      \* goroutines that run transitions: input worker, control connections
  Main,           \* the goroutine that shuts the runner down
  Free,           \* dispatchMu is not held
  Transitions,    \* what a transition may return: see TransitionType
  QueueLimit,     \* cap(r.queue), 16 in the code
  MaxMoves,       \* bound: transitions in a behaviour
  MaxFaults,      \* bound: journal errors in a behaviour
  MaxEvents       \* bound: both together

\* cut: the effects open with module.Boundary(); effects: the Final flag of each.
TransitionType(t) == t.cut \in BOOLEAN /\ t.effects \in Seq(BOOLEAN)

\* For TLC: a step fires an action, a stop releases the rig and stops the recording.
Fires == [cut |-> FALSE, effects |-> <<FALSE>>]
Stops == [cut |-> TRUE, effects |-> <<FALSE, TRUE>>]
StepsAndStops == {Fires, Stops}

ASSUME EffectsAssumption ==
  /\ \A t \in Transitions : TransitionType(t)
  /\ QueueLimit \in Nat \ {0} /\ {MaxMoves, MaxFaults, MaxEvents} \subseteq Nat
  /\ Main \notin Producers /\ Free \notin Producers \cup {Main}

VARIABLES
  run,        \* the module's run generation
  dispatchMu, \* holder of the dispatch lock
  prod,       \* per producer: where it stands and what it dispatches
  ops,        \* the effect rows of the journal, in acceptance order
  queue,      \* r.queue: chains of row numbers with their epoch
  worker,     \* the worker: where it stands, rest of its chain, its epoch
  epoch, closed,
  group,      \* row whose child is the live process group, 0 if none
  child,      \* the child process
  main,       \* progress of shutdown
  stopped,    \* stopCh is closed
  starts,     \* history: rows whose child was started, in order
  moves, faults

chains == <<queue, worker>>
process == <<group, child, starts>>
ending == <<main, stopped, closed>>
vars == <<run, dispatchMu, prod, ops, chains, epoch, process, ending, moves, faults>>

Resting == [pc |-> "idle", todo |-> <<>>, mine |-> <<>>, epoch |-> 0, run |-> 0, victim |-> 0]
NoChild == [op |-> 0, live |-> FALSE, cut |-> FALSE, exit |-> "failed"]

Init ==
  /\ run = 0 /\ dispatchMu = Free /\ prod = [p \in Producers |-> Resting]
  /\ ops = <<>> /\ queue = <<>> /\ worker = [pc |-> "idle", chain |-> <<>>, epoch |-> 0]
  /\ epoch = 0 /\ closed = FALSE /\ group = 0 /\ child = NoChild
  /\ main = "up" /\ stopped = FALSE /\ starts = <<>> /\ moves = 0 /\ faults = 0

-----------------------------------------------------------------------------
(* Journal calls of the hooks.  An error may follow the commit.             *)

Row(r, final) == [run |-> r, final |-> final, state |-> "pending"]

Budget == moves + faults < MaxEvents

Fault == Budget /\ faults < MaxFaults /\ faults' = faults + 1

\* A transition that returns nil, and one that returns an error.
Moved(i, from, to) ==
  ops[i].state = from /\ ops' = [ops EXCEPT ![i].state = to] /\ UNCHANGED faults
NotMoved(i, from, to) ==
  \/ ops[i].state # from /\ UNCHANGED <<ops, faults>>
  \/ /\ Fault
        /\ \/ UNCHANGED ops
           \/ ops[i].state = from /\ ops' = [ops EXCEPT ![i].state = to]
Attempted(i, from, to) == Moved(i, from, to) \/ NotMoved(i, from, to)

-----------------------------------------------------------------------------
(* dispatchTransitionFor.                                                   *)

Move(p, t) ==
  /\ prod[p].pc = "idle" /\ Budget /\ moves < MaxMoves /\ moves' = moves + 1 /\ ~ closed
  /\ run' = IF t.cut THEN run + 1 ELSE run
  /\ prod' = [prod EXCEPT ![p].pc = IF t.cut THEN "boundary" ELSE "stamp",
                          ![p].todo = t.effects, ![p].run = run']
  /\ UNCHANGED <<ops, chains, epoch, process, ending, faults>>

\* Seeded fault: the transition is not serialised with its dispatch.

\* The lock, the look at closed, and fn(): the module moves to its next run
\* when its effects open with a boundary.
Transition(p, t) == dispatchMu = Free /\ dispatchMu' = p /\ Move(p, t)

\* Seeded fault: the live child is spared unless it is cleanup.
FaultBoundary(p) ==
  /\ prod[p].pc = "boundary"
  /\ epoch' = epoch + 1
  /\ prod' = [prod EXCEPT ![p].pc = "kill", ![p].victim = group]
  /\ UNCHANGED <<run, dispatchMu, ops, chains, process, ending, moves, faults>>

\* boundary: the epoch and the victim are one critical section.
Boundary(p) ==
  /\ prod[p].pc = "boundary"
  /\ epoch' = epoch + 1
  /\ prod' = [prod EXCEPT ![p].pc = "kill",
                          ![p].victim = IF group # 0 /\ ~ ops[group].final THEN group ELSE 0]
  /\ UNCHANGED <<run, dispatchMu, ops, chains, process, ending, moves, faults>>

Signal(i) ==
  child' = IF child.live /\ child.op = i THEN [child EXCEPT !.cut = TRUE] ELSE child

BoundaryKill(p) ==
  /\ prod[p].pc = "kill" /\ Signal(prod[p].victim)
  /\ prod' = [prod EXCEPT ![p].pc = "stamp", ![p].victim = 0]
  /\ UNCHANGED <<run, dispatchMu, ops, chains, epoch, group, starts, ending, moves, faults>>

Release(p) == dispatchMu' = Free /\ prod' = [prod EXCEPT ![p] = Resting]

\* dispatchEffectsFor reads closed and the epoch once for the chain.
StampChain(p) ==
  /\ prod[p].pc = "stamp"
  /\ IF prod[p].todo = <<>> \/ closed
     THEN Release(p)
     ELSE /\ prod' = [prod EXCEPT ![p].pc = "accept", ![p].epoch = epoch]
          /\ UNCHANGED dispatchMu
  /\ UNCHANGED <<run, ops, chains, epoch, process, ending, moves, faults>>

RowsOf(p) == [k \in DOMAIN prod[p].todo |-> Row(prod[p].run, prod[p].todo[k])]
Numbers(n) == [k \in 1 .. n |-> Len(ops) + k]

\* Seeded fault: each row is taken for its successor.

\* Effects are accepted one by one; an error, which may follow the commit of its
\* row, abandons the chain.  Nobody reads these rows before the chain is sent.
AcceptChain(p) ==
  /\ prod[p].pc = "accept"
  /\ \/ /\ ops' = ops \o RowsOf(p) /\ UNCHANGED faults
        /\ prod' = [prod EXCEPT ![p].pc = "send", ![p].todo = <<>>,
                                ![p].mine = Numbers(Len(prod[p].todo))]
     \/ /\ Fault
        /\ \E k \in 0 .. Len(prod[p].todo) - 1, late \in 0 .. 1 :
             /\ ops' = ops \o SubSeq(RowsOf(p), 1, k + late)
             /\ prod' = [prod EXCEPT ![p].pc = "discard", ![p].todo = <<>>, ![p].mine = Numbers(k)]
  /\ UNCHANGED <<run, dispatchMu, chains, epoch, process, ending, moves>>

ChainOf(p) == [ops |-> prod[p].mine, epoch |-> prod[p].epoch]
HasFinal(p) == \E i \in DOMAIN prod[p].mine : ops[prod[p].mine[i]].final

\* Seeded fault: the rows of a chain that found no room are forgotten.

\* The non-blocking send; a full queue drops the chain, but a chain with
\* cleanup waits for room until finalEnqueueWait expires.
Send(p) ==
  /\ prod[p].pc = "send"
  /\ IF Len(queue) < QueueLimit
     THEN queue' = Append(queue, ChainOf(p)) /\ Release(p)
     ELSE /\ prod' = [prod EXCEPT ![p].pc = IF HasFinal(p) THEN "await" ELSE "discard"]
          /\ UNCHANGED <<queue, dispatchMu>>
  /\ UNCHANGED <<run, ops, worker, epoch, process, ending, moves, faults>>

\* Seeded fault: no deadline on the wait for room.
FaultAwaitRoom(p) ==
  /\ prod[p].pc = "await" /\ Len(queue) < QueueLimit
  /\ queue' = Append(queue, ChainOf(p)) /\ Release(p)
  /\ UNCHANGED <<run, ops, worker, epoch, process, ending, moves, faults>>

AwaitRoom(p) ==
  /\ prod[p].pc = "await"
  /\ \/ Len(queue) < QueueLimit /\ queue' = Append(queue, ChainOf(p)) /\ Release(p)
     \/ /\ prod' = [prod EXCEPT ![p].pc = "discard"] /\ UNCHANGED <<queue, dispatchMu>>
  /\ UNCHANGED <<run, ops, worker, epoch, process, ending, moves, faults>>

\* discard: cleanup that was dropped needs review, the rest did not run.
Dropped(i) == IF ops[i].final THEN "uncertain" ELSE "discarded"

DiscardChain(p) ==
  /\ prod[p].pc = "discard" /\ Release(p)
  /\ LET mine == {prod[p].mine[k] : k \in DOMAIN prod[p].mine} IN
     \E lost \in SUBSET mine :
       /\ IF lost = {} THEN UNCHANGED faults ELSE Fault
       /\ ops' = [i \in DOMAIN ops |-> IF i \in mine \ lost
                                       THEN [ops[i] EXCEPT !.state = Dropped(i)] ELSE ops[i]]
  /\ UNCHANGED <<run, chains, epoch, process, ending, moves>>

-----------------------------------------------------------------------------
(* runEffects: the worker.                                                  *)

At == Head(worker.chain)
NextEffect == worker' = [worker EXCEPT !.pc = "check", !.chain = Tail(@)]

WorkerTake ==
  /\ worker.pc = "idle" /\ queue # <<>>
  /\ worker' = [pc |-> "check", chain |-> Head(queue).ops, epoch |-> Head(queue).epoch]
  /\ queue' = Tail(queue)
  /\ UNCHANGED <<run, dispatchMu, prod, ops, epoch, process, ending, moves, faults>>

\* A select over two ready channels takes either.
WorkerExit ==
  /\ worker.pc = "idle" /\ stopped
  /\ worker' = [worker EXCEPT !.pc = "done"]
  /\ UNCHANGED <<run, dispatchMu, prod, ops, queue, epoch, process, ending, moves, faults>>

Stale == worker.epoch # epoch

\* The epoch is read again for every effect; a repeat within the debounce
\* window is dropped too, which the unique key of cleanup rules out for it.
WorkerCheck ==
  /\ worker.pc = "check"
  /\ \/ worker.chain = <<>> /\ worker' = [worker EXCEPT !.pc = "idle"]
     \/ /\ worker.chain # <<>> /\ ~ ops[At].final
        /\ worker' = [worker EXCEPT !.pc = "drop"]
     \/ /\ worker.chain # <<>> /\ (Stale => ops[At].final)
        /\ worker' = [worker EXCEPT !.pc = "mark"]
  /\ UNCHANGED <<run, dispatchMu, prod, ops, queue, epoch, process, ending, moves, faults>>

WorkerDrop ==
  /\ worker.pc = "drop" /\ Attempted(At, "pending", "discarded") /\ NextEffect
  /\ UNCHANGED <<run, dispatchMu, prod, queue, epoch, process, ending, moves>>

WorkerMark ==
  /\ worker.pc = "mark"
  /\ \/ Moved(At, "pending", "running") /\ worker' = [worker EXCEPT !.pc = "start"]
     \/ NotMoved(At, "pending", "running") /\ NextEffect
  /\ UNCHANGED <<run, dispatchMu, prod, queue, epoch, process, ending, moves>>

\* Seeded fault: admission trusts the check made before the row was marked.
FaultMayStart(i) == ~ closed
MayStart(i) == ~ closed /\ (ops[i].final \/ ~ Stale)

\* Seeded fault: the group is registered by whoever waits for the child.

Spawn(i) ==
  /\ child' = [op |-> i, live |-> TRUE, cut |-> FALSE, exit |-> "failed"]
  /\ group' = i /\ starts' = Append(starts, i)

\* startEffectAt: admission, fork and registration of the group in one
\* critical section.
WorkerStart ==
  /\ worker.pc = "start"
  /\ \/ MayStart(At) /\ Spawn(At) /\ worker' = [worker EXCEPT !.pc = "wait"]
     \/ UNCHANGED process /\ worker' = [worker EXCEPT !.pc = "fail"]  \* refused, or the fork failed
  /\ UNCHANGED <<run, dispatchMu, prod, ops, queue, epoch, ending, moves, faults>>

\* Seeded fault: the error of the start is shadowed.
FaultWorkerFail ==
  /\ worker.pc = "fail" /\ Attempted(At, "running", "succeeded") /\ NextEffect
  /\ UNCHANGED <<run, dispatchMu, prod, queue, epoch, process, ending, moves>>

WorkerFail ==
  /\ worker.pc = "fail" /\ Attempted(At, "running", "failed") /\ NextEffect
  /\ UNCHANGED <<run, dispatchMu, prod, queue, epoch, process, ending, moves>>

WorkerReap ==
  /\ worker.pc = "wait" /\ ~ child.live
  /\ Attempted(At, "running", child.exit)
  /\ worker' = [worker EXCEPT !.pc = "clear"]
  /\ UNCHANGED <<run, dispatchMu, prod, queue, epoch, process, ending, moves>>

WorkerClear ==
  /\ worker.pc = "clear" /\ group' = 0 /\ NextEffect
  /\ UNCHANGED <<run, dispatchMu, prod, ops, queue, epoch, child, starts, ending, moves, faults>>

\* The verb ends on its own or by the signal it was sent.
ChildExit ==
  /\ child.live
  /\ \E s \in {"succeeded", "failed"} \cup (IF child.cut THEN {"uncertain"} ELSE {}) :
       child' = [child EXCEPT !.live = FALSE, !.exit = s]
  /\ UNCHANGED <<run, dispatchMu, prod, ops, chains, epoch, group, starts, ending, moves, faults>>

-----------------------------------------------------------------------------
(* shutdown.                                                                *)

ShutdownAsked ==
  /\ main = "up" /\ main' = "lock"
  /\ UNCHANGED <<run, dispatchMu, prod, ops, chains, epoch, process, stopped, closed, moves, faults>>

ShutdownLock ==
  /\ main = "lock" /\ dispatchMu = Free /\ dispatchMu' = Main /\ main' = "close"
  /\ UNCHANGED <<run, prod, ops, chains, epoch, process, stopped, closed, moves, faults>>

ShutdownClose ==
  /\ main = "close" /\ closed' = TRUE /\ dispatchMu' = Free /\ main' = "term"
  /\ UNCHANGED <<run, prod, ops, chains, epoch, process, stopped, moves, faults>>

\* The group was read when closed was set: nothing starts any more.
ShutdownTerm ==
  /\ main = "term" /\ Signal(group) /\ stopped' = TRUE /\ main' = "grace"
  /\ UNCHANGED <<run, dispatchMu, prod, ops, chains, epoch, group, starts, closed, moves, faults>>

\* The grace period may expire whether or not the child is about to exit.
ShutdownSweep ==
  /\ main = "grace" /\ main' = "join"
  /\ child' = IF group # 0 /\ child.live
              THEN [child EXCEPT !.live = FALSE, !.cut = TRUE, !.exit = "uncertain"] ELSE child
  /\ UNCHANGED <<run, dispatchMu, prod, ops, chains, epoch, group, starts, stopped, closed, moves, faults>>

ShutdownDone ==
  /\ main \in {"grace", "join"} /\ worker.pc = "done" /\ main' = "down"
  /\ UNCHANGED <<run, dispatchMu, prod, ops, chains, epoch, process, stopped, closed, moves, faults>>

-----------------------------------------------------------------------------
Dispatch(p) == Boundary(p) \/ BoundaryKill(p) \/ StampChain(p) \/ AcceptChain(p)
               \/ Send(p) \/ AwaitRoom(p) \/ DiscardChain(p)
Work == WorkerTake \/ WorkerExit \/ WorkerCheck \/ WorkerDrop \/ WorkerMark \/ WorkerStart
        \/ WorkerFail \/ WorkerReap \/ WorkerClear
Shutdown == ShutdownClose \/ ShutdownTerm \/ ShutdownSweep \/ ShutdownDone

Next ==
  \/ \E p \in Producers, t \in Transitions : Transition(p, t)
  \/ \E p \in Producers : Dispatch(p)
  \/ Work \/ ChildExit
  \/ ShutdownAsked \/ ShutdownLock \/ Shutdown

Spec == Init /\ [][Next]_vars

-----------------------------------------------------------------------------
(* Properties.                                                              *)

OpStates == {"pending", "running", "succeeded", "failed", "discarded", "uncertain"}
Rows == [run : Nat, final : BOOLEAN, state : OpStates]
ChainType(c) == c.ops \in Seq(DOMAIN ops) /\ c.epoch \in 0 .. epoch

\* Chains name rows of the journal and epochs that have been.
TypeOK ==
  /\ run \in Nat /\ epoch \in Nat /\ closed \in BOOLEAN /\ stopped \in BOOLEAN
  /\ dispatchMu \in Producers \cup {Main, Free}
  /\ \A p \in Producers :
       /\ prod[p].pc \in {"idle", "boundary", "kill", "stamp", "accept", "send", "await", "discard"}
       /\ prod[p].todo \in Seq(BOOLEAN) /\ prod[p].mine \in Seq(DOMAIN ops)
       /\ prod[p].epoch \in 0 .. epoch /\ prod[p].run \in 0 .. run
  /\ ops \in Seq(Rows)
  /\ Len(queue) <= QueueLimit /\ \A i \in DOMAIN queue : ChainType(queue[i])
  /\ worker.pc \in {"idle", "check", "drop", "mark", "start", "fail", "wait", "clear", "done"}
  /\ worker.chain \in Seq(DOMAIN ops) /\ worker.epoch \in 0 .. epoch
  /\ group \in 0 .. Len(ops) /\ child.op \in 0 .. Len(ops)
  /\ main \in {"up", "lock", "close", "term", "grace", "join", "down"}

\* No action of a finished run reaches the machine: a child that is not
\* cleanup starts only for the run the module is in, save for the moment
\* between the transition that ends the run and the boundary it dispatches
\* (effects.go "run A's queued chains must not execute into run B").
NoStaleStart ==
  [][ Len(starts') > Len(starts) =>
        LET i == starts'[Len(starts')] IN
          ops[i].final \/ ops[i].run = run \/ \E p \in Producers : prod[p].pc = "boundary" ]_vars

\* A child of a finished run does not outlive the boundary: it has been
\* signalled, or the producer that cut the run is about to signal it.
StaleChildIsCut ==
  child.live /\ ~ ops[child.op].final /\ worker.epoch # epoch =>
    child.cut \/ \E p \in Producers : prod[p].pc = "kill" /\ prod[p].victim = child.op

\* Cleanup survives run boundaries: before shutdown its child is never
\* signalled, and its row is never recorded as discarded (effects.go "It IS the
\* cleanup a boundary must not cancel").
CleanupSurvives ==
  /\ child.live /\ ops[child.op].final /\ child.cut => closed
  /\ \A i \in DOMAIN ops : ops[i].final => ops[i].state # "discarded"

\* Effects reach the machine in the order they were accepted, each once, across
\* producers, drops and boundaries ("order is the contract").
StartsInOrder == \A i \in 1 .. Len(starts) - 1 : starts[i] < starts[i + 1]

\* The journal tells the truth: what it calls discarded never started, what it
\* calls succeeded did.
EffectsHonest ==
  \A i \in DOMAIN ops :
    /\ ops[i].state = "discarded" => \A s \in DOMAIN starts : starts[s] # i
    /\ ops[i].state = "succeeded" => \E s \in DOMAIN starts : starts[s] = i

\* The three together: rows, chains and starts agree whatever order producers, the worker, a
\* boundary and shutdown take (effects.go).
EffectsSafe == TypeOK /\ EffectsHonest /\ StartsInOrder

\* A child ends when it should and not before: work at a boundary, cleanup by itself
\* (effects.go).
ChildrenEnd == StaleChildIsCut /\ CleanupSurvives

-----------------------------------------------------------------------------
(* Fairness: goroutines run, timers expire, and Go's mutex hands itself to   *)
(* a waiter that starves.  No effect is assumed to end by itself.            *)

Fairness ==
  /\ \A p \in Producers : WF_vars(Dispatch(p))
  /\ WF_vars(Work) /\ SF_vars(ShutdownLock) /\ WF_vars(Shutdown)

FairSpec == Spec /\ Fairness

\* Shutdown returns even if no effect ever ends by itself: nothing starts that
\* its one SIGKILL cannot reach, and no producer keeps the dispatch lock.
ShutdownReturns == main = "lock" ~> main = "down"

\* Every accepted effect is settled while the runner is open, if effects keep
\* the deadlines of their verbs and the journal does not fail.
Settled == \A i \in DOMAIN ops : ops[i].state \notin {"pending", "running"}
EffectsSettle == ([]<> ~ child.live) => []<>(closed \/ faults > 0 \/ Settled)

\* Neither a shutdown nor an accepted effect waits for ever (effects.go).
EffectsProgress == ShutdownReturns /\ EffectsSettle
=============================================================================
