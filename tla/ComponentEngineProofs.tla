------------------------ MODULE ComponentEngineProofs ------------------------
(***************************************************************************)
(* A component runs an operation at most once, its journal says truly what *)
(* ran, nothing is admitted that a change of visibility has retired, and a *)
(* process that ends in order has settled what it began: for any number of *)
(* operations, changes of visibility, journal errors, crashes and starts,  *)
(* and for a queue and a journal of any size.                              *)
(***************************************************************************)
EXTENDS ComponentEngine, FiniteSetTheorems, SequenceTheorems, TLAPS

USE JournalAssumption, ComponentAssumption

(* The inductive invariant, in parts.                                       *)

Sub == [pc : SubStates, argv : Argvs \cup {{}}, gen : Nat]
LoopState == [pc : LoopStates, op : Ids \cup {0}, got : SUBSET Argvs, err : BOOLEAN, ver : Nat, tick : BOOLEAN]

Shape ==
  /\ rows \in [Ids -> Row] /\ next \in Nat \ {0} /\ execs \in [Ids -> Nat] /\ disowned \subseteq Ids
  /\ visible \in BOOLEAN /\ token \in BOOLEAN /\ closed \in BOOLEAN /\ cancelled \in BOOLEAN
  /\ up \in BOOLEAN /\ demand \in BOOLEAN /\ timer \in BOOLEAN
  /\ ui \in {"idle", "bump", "signal"} /\ version \in Nat /\ applied \in Nat
  /\ loop \in LoopState /\ current \in Answers /\ offered \subseteq Argvs
  /\ sub \in [Ids -> Sub] /\ commands \in Seq(Ids)
  /\ stale \in [ops : SUBSET Ids, data : BOOLEAN, poll : BOOLEAN]
  /\ changes \in Nat /\ faults \in Nat /\ starts \in Nat

\* A version is a change of visibility; nobody holds one of the future.
Versions ==
  /\ changes <= MaxChanges /\ version <= changes
  /\ ui = "bump" => version < changes
  /\ applied <= version /\ loop.ver <= version /\ current.gen <= version
  /\ \A i \in Ids : sub[i].gen <= version

\* What is gone with the process.
WhenDown ==
  ~ up => /\ ~ closed /\ ~ cancelled /\ ui = "idle" /\ loop.pc = "start" /\ commands = <<>>
          /\ \A i \in Ids : sub[i].pc \in {"none", "over"}

\* Every operation handed over is in one place: in the queue, or in the loop's hands.
Acting == {"see", "check", "refuse", "mark", "run", "busy"}
Line ==
  /\ Len(commands) <= QueueLimit
  /\ \A k, l \in 1 .. Len(commands) : commands[k] = commands[l] => k = l
  /\ \A k \in 1 .. Len(commands) : sub[commands[k]].pc = "queued"
  /\ loop.pc \in Acting =>
       /\ loop.op \in Ids /\ sub[loop.op].pc = "queued"
       /\ \A k \in 1 .. Len(commands) : commands[k] # loop.op

\* What is older than the last change carries an older version.
Retired ==
  /\ \A i \in stale.ops : sub[i].pc = "over" \/ (sub[i].pc # "none" /\ sub[i].gen < version)
  /\ stale.data => current.gen < version
  /\ loop.pc \in {"polling", "compare"} /\ loop.ver = version => ~ stale.poll

\* Rows are of one kind and numbered in order.
Rowed ==
  /\ \A i \in Ids : rows[i].state # Absent => rows[i].req = Request /\ rows[i].seq \in 1 .. next - 1
  /\ \A i, j \in Ids : rows[i].state # Absent /\ rows[j].state # Absent /\ rows[i].seq = rows[j].seq => i = j

\* An operation not yet accepted is nowhere.
Unmade ==
  \A i \in Ids : sub[i].pc \in {"none", "accept"} => rows[i].state = Absent /\ execs[i] = 0 /\ i \notin disowned

\* What the loop runs is marked running; while the journal works and the process is
\* up, nothing that ran is marked so but what it runs now.
Underway ==
  /\ loop.pc \in {"run", "busy"} => rows[loop.op].state = "running"
  /\ loop.pc = "run" => execs[loop.op] = 0
  /\ loop.pc = "busy" => execs[loop.op] = 1
Saved ==
  up => \A i \in Ids : execs[i] > 0 /\ rows[i].state = "running" => faults > 0 \/ (loop.pc = "busy" /\ loop.op = i)

Recorded == Rowed /\ Unmade /\ Underway /\ OutcomeHonest /\ Saved
IInv == Shape /\ Versions /\ WhenDown /\ Line /\ Retired /\ Recorded

-----------------------------------------------------------------------------
(* The loop, submissions and rows.                                          *)

\* The loop goes to a step of its own.
LEMMA GotoOf ==
  ASSUME Shape, NEW pc \in LoopStates, Goto(pc)
  PROVE  /\ loop' \in LoopState /\ loop'.pc = pc /\ loop'.op = loop.op /\ loop'.ver = loop.ver
         /\ loop'.got = loop.got /\ loop'.err = loop.err
BY DEF Shape, Goto, LoopState

\* The loop is back at select, or begins a poll of its own.
LEMMA BackTo ==
  ASSUME Shape
  PROVE  /\ [Starting EXCEPT !.pc = "select", !.tick = visible] \in LoopState
         /\ [Starting EXCEPT !.pc = "select", !.tick = visible].pc = "select"
         /\ [Starting EXCEPT !.pc = "select", !.tick = visible].ver = 0
         /\ [Starting EXCEPT !.pc = "poll"] \in LoopState
         /\ [Starting EXCEPT !.pc = "poll"].pc = "poll"
         /\ [Starting EXCEPT !.pc = "poll"].ver = 0
         /\ Starting \in LoopState /\ Starting.pc = "start" /\ Starting.ver = 0
BY DEF Shape, Starting, LoopState, LoopStates

\* What the type of a submission says of it.
LEMMA SubsApart ==
  ASSUME Shape
  PROVE  /\ \A i \in Ids : /\ sub[i] \in Sub /\ sub[i].pc \in SubStates
                           /\ sub[i].gen \in Nat /\ sub[i].argv \in Argvs \cup {{}}
         /\ Over \in Sub /\ Over.pc = "over" /\ Over.gen = 0
         /\ NoSubmission \in Sub /\ NoSubmission.pc = "none" /\ NoSubmission.gen = 0
<1>1. \A i \in Ids : sub[i] \in Sub
  BY DEF Shape
<1>2. NoSubmission \in Sub /\ NoSubmission.pc = "none" /\ NoSubmission.gen = 0
  BY DEF NoSubmission, Sub, SubStates
<1>3. Over \in Sub /\ Over.pc = "over" /\ Over.gen = 0
  BY <1>2 DEF Over, Sub, SubStates, NoSubmission
<1> QED BY <1>1, <1>2, <1>3 DEF Sub

\* A submission goes on to its next step.
LEMMA SubGoes ==
  ASSUME Shape, NEW i \in Ids, NEW pc \in SubStates, sub' = [sub EXCEPT ![i].pc = pc]
  PROVE  /\ sub' \in [Ids -> Sub] /\ sub'[i].pc = pc /\ sub'[i].gen = sub[i].gen
         /\ \A j \in Ids : j # i => sub'[j] = sub[j]
<1> DEFINE new == [sub[i] EXCEPT !.pc = pc]
<1>1. sub \in [Ids -> Sub] /\ sub[i] \in Sub /\ sub' = [sub EXCEPT ![i] = new]
  BY DEF Shape
<1>2. new \in Sub /\ new.pc = pc /\ new.gen = sub[i].gen
  BY <1>1 DEF Sub
<1> HIDE DEF new
<1> QED BY <1>1, <1>2

\* A submission is over.
LEMMA SubEnds ==
  ASSUME Shape, NEW i \in Ids, sub' = [sub EXCEPT ![i] = Over]
  PROVE  /\ sub' \in [Ids -> Sub] /\ sub'[i].pc = "over" /\ sub'[i].gen = 0
         /\ \A j \in Ids : j # i => sub'[j] = sub[j]
<1>1. sub \in [Ids -> Sub] /\ Over \in Sub /\ Over.pc = "over" /\ Over.gen = 0
  BY SubsApart DEF Shape
<1> HIDE DEF Over
<1> QED BY <1>1

\* The states of a row.
LEMMA StatesApart ==
  /\ Absent \notin States
  /\ {"pending", "running", "uncertain", "discarded", "failed", "succeeded", "dispatched"} \subseteq States
  /\ Applied = {"succeeded", "dispatched"} /\ Terminal = {"succeeded", "dispatched", "failed", "discarded"}
  /\ NoRow \in Row /\ NoRow.state = Absent /\ Outcomes \subseteq States
BY DEF Absent, States, Terminal, Unresolved, Applied, NoRow, Row, Outcomes

\* A transition of the journal changes the state of its row.
LEMMA MovedRow ==
  ASSUME Shape, NEW i \in Ids, NEW to \in States, rows' = Move(rows, i, to)
  PROVE  /\ rows' \in [Ids -> Row] /\ rows'[i].state = to
         /\ rows'[i].req = rows[i].req /\ rows'[i].seq = rows[i].seq
         /\ \A j \in Ids : j # i => rows'[j] = rows[j]
<1> DEFINE row == [rows[i] EXCEPT !.state = to]
<1>1. rows \in [Ids -> Row] /\ rows' = [rows EXCEPT ![i] = row] /\ rows[i] \in Row
  BY DEF Shape, Move
<1>2. row \in Row /\ row.state = to /\ row.req = rows[i].req /\ row.seq = rows[i].seq
  BY <1>1 DEF Row
<1> HIDE DEF row
<1> QED BY <1>1, <1>2

\* A call to move a row moves it or leaves it, and an error is counted unless the
\* engine is cancelled.
LEMMA AttemptOf ==
  ASSUME Shape, Rowed, NEW i \in Ids, NEW from \in States, NEW to \in States, next' = next,
         Attempted(i, from, to, Refused) \/ Attempted(i, from, to, Fault)
  PROVE  /\ rows' \in [Ids -> Row] /\ Rowed'
         /\ rows' = rows \/ (CanMove(rows, i, from, to) /\ rows'[i].state = to)
         /\ \A j \in Ids : j # i => rows'[j] = rows[j]
         /\ faults' \in Nat /\ faults' >= faults
<1>1. rows' = rows \/ (CanMove(rows, i, from, to) /\ rows' = Move(rows, i, to))
  BY DEF Attempted, Moved, NotMoved
<1>2. faults' \in Nat /\ faults' >= faults
  BY DEF Attempted, Moved, NotMoved, Refused, Fault, Shape
<1>3. CASE rows' = rows
  BY <1>2, <1>3 DEF Rowed, Shape
<1>4. CASE CanMove(rows, i, from, to) /\ rows' = Move(rows, i, to)
  <2>1. /\ rows' \in [Ids -> Row] /\ rows'[i].state = to
        /\ rows'[i].req = rows[i].req /\ rows'[i].seq = rows[i].seq
        /\ \A j \in Ids : j # i => rows'[j] = rows[j]
    BY <1>4, MovedRow
  <2>2. rows[i].state # Absent
    BY <1>4, StatesApart DEF CanMove
  <2>3. Rowed'
    BY <2>1, <2>2 DEF Rowed
  <2> QED BY <1>2, <1>4, <2>1, <2>3
<1> QED BY <1>1, <1>3, <1>4

\* There are no more rows than numbers given out.
LEMMA NewerThanNothing ==
  ASSUME Shape, Rowed, NEW i \in Ids
  PROVE  Cardinality(Newer(rows, i)) \in Nat /\ Cardinality(Newer(rows, i)) <= next - 1
<1> DEFINE S == Newer(rows, i)
           f == [j \in S |-> rows[j].seq]
<1>1. \A j \in S : j \in Ids /\ rows[j].state # Absent
  BY DEF Newer, Retained
<1>2. f \in [S -> 1 .. next - 1]
  BY <1>1 DEF Rowed
<1>3. \A j, k \in S : f[j] = f[k] => j = k
  BY <1>1 DEF Rowed
<1>4. f \in Injection(S, 1 .. next - 1)
  BY <1>2, <1>3 DEF Injection, IsInjective
<1>5. next - 1 \in Nat /\ next - 1 \in Int /\ 1 \in Int
  BY DEF Shape
<1>6. IsFiniteSet(1 .. next - 1) /\ Cardinality(1 .. next - 1) = next - 1
  BY <1>5, FS_Interval
<1>7. IsFiniteSet(S) /\ Cardinality(S) <= Cardinality(1 .. next - 1)
  BY <1>4, <1>6, FS_Injection
<1> QED BY <1>6, <1>7, FS_CardinalityType

\* A new row is pending; what pruning takes away was over, and no longer recent.
LEMMA InsertedRow ==
  ASSUME Shape, Rowed, NEW i \in Ids, rows[i].state = Absent,
         rows' = Insert(rows, i, next, Request), next' = next + 1
  PROVE  /\ rows' \in [Ids -> Row] /\ Rowed' /\ rows'[i].state = "pending"
         /\ \A j \in Ids : j # i =>
              \/ rows'[j] = rows[j]
              \/ rows'[j].state = Absent /\ rows[j].state \in Terminal /\ RecentHistory < next' - 1
<1> DEFINE new == [state |-> "pending", seq |-> next, req |-> Request]
<1>1. new \in Row /\ new.state = "pending" /\ new.seq = next /\ new.req = Request
  BY StatesApart DEF Row, Shape
<1>2. ASSUME NEW j \in Ids
      PROVE  /\ Prune(rows)[j] \in Row
             /\ \/ Prune(rows)[j] = rows[j]
                \/ Prune(rows)[j] = NoRow /\ rows[j].state \in Terminal /\ RecentHistory < next' - 1
  <2>1. CASE ~ Prunable(rows, j)
    BY <2>1 DEF Prune, Shape
  <2>2. CASE Prunable(rows, j)
    <3>1. ~ Recent(rows, j) /\ rows[j].state \in Terminal /\ Prune(rows)[j] = NoRow
      BY <2>2 DEF Prunable, Prune
    <3>2. Cardinality(Newer(rows, j)) \in Nat /\ Cardinality(Newer(rows, j)) <= next - 1
      BY NewerThanNothing
    <3>3. RecentHistory <= next - 1
      BY <3>1, <3>2 DEF Recent, Shape
    <3> QED BY <3>1, <3>3, StatesApart DEF Shape
  <2> QED BY <2>1, <2>2
<1>3. Prune(rows) \in [Ids -> Row]
  <2>1. Prune(rows) = [j \in Ids |-> Prune(rows)[j]]
    BY DEF Prune
  <2> QED BY <1>2, <2>1
<1>4. rows' = [Prune(rows) EXCEPT ![i] = new]
  BY DEF Insert
<1> HIDE DEF new
<1>5. rows' \in [Ids -> Row] /\ rows'[i] = new /\ \A j \in Ids : j # i => rows'[j] = Prune(rows)[j]
  BY <1>1, <1>3, <1>4
<1>6. \A j \in Ids : j # i =>
        \/ rows'[j] = rows[j]
        \/ rows'[j].state = Absent /\ rows[j].state \in Terminal /\ RecentHistory < next' - 1
  BY <1>2, <1>5, StatesApart
<1>7. Rowed'
  <2>1. \A j \in Ids : j # i /\ rows'[j].state # Absent => rows'[j] = rows[j]
    BY <1>6
  <2>2. ASSUME NEW j \in Ids, rows'[j].state # Absent
        PROVE  rows'[j].req = Request /\ rows'[j].seq \in 1 .. next' - 1
    <3>1. next \in Nat \ {0} /\ next' = next + 1 /\ next \in 1 .. next' - 1
      BY DEF Shape
    <3>2. CASE j = i
      BY <1>1, <1>5, <3>1, <3>2
    <3>3. CASE j # i
      <4>1. rows[j].state # Absent /\ rows'[j] = rows[j]
        BY <2>1, <2>2, <3>3
      <4>2. rows[j].req = Request /\ rows[j].seq \in 1 .. next - 1
        BY <4>1 DEF Rowed
      <4> QED BY <3>1, <4>1, <4>2
    <3> QED BY <3>2, <3>3
  <2>3. \A j, k \in Ids : rows'[j].state # Absent /\ rows'[k].state # Absent /\ rows'[j].seq = rows'[k].seq => j = k
    BY <1>1, <1>5, <2>1 DEF Rowed, Shape
  <2> QED BY <2>2, <2>3 DEF Rowed
<1> QED BY <1>1, <1>5, <1>6, <1>7

-----------------------------------------------------------------------------
(* What a part of the invariant does not depend on.                         *)

\* Steps that leave the journal alone.
LEMMA RecordedKept ==
  ASSUME Shape, Recorded, UNCHANGED <<rows, next, execs, disowned>>, faults' = faults,
         \A i \in Ids : sub'[i].pc \in {"none", "accept"} => sub[i].pc \in {"none", "accept"},
         loop'.pc \in {"run", "busy"} => loop'.pc = loop.pc /\ loop'.op = loop.op,
         up' => up /\ (loop.pc = "busy" => loop'.pc = "busy" /\ loop'.op = loop.op)
  PROVE  Recorded'
<1>1. Rowed' /\ OutcomeHonest'
  BY DEF Recorded, Rowed, OutcomeHonest
<1>2. Unmade'
  BY DEF Recorded, Unmade
<1>3. Underway'
  BY DEF Recorded, Underway
<1>4. Saved'
  BY DEF Recorded, Saved
<1> QED BY <1>1, <1>2, <1>3, <1>4 DEF Recorded

\* Steps that leave the queue alone.
LEMMA LineKept ==
  ASSUME Shape, Line, commands' = commands,
         \A i \in Ids : sub[i].pc = "queued" => sub'[i].pc = "queued",
         loop'.pc \in Acting => loop.pc \in Acting /\ loop'.op = loop.op
  PROVE  Line'
<1>1. \A k \in 1 .. Len(commands) : commands[k] \in Ids
  BY DEF Shape
<1> QED BY <1>1 DEF Line

\* Steps that change no version.
LEMMA RetiredKept ==
  ASSUME Shape, Retired, version' = version, stale' = stale, current'.gen = current.gen,
         \A i \in Ids : sub'[i].gen = sub[i].gen \/ sub'[i].pc = "over" \/ sub[i].pc = "none",
         \A i \in Ids : sub[i].pc = "over" => sub'[i].pc = "over",
         \A i \in Ids : sub[i].pc # "none" => sub'[i].pc # "none",
         loop'.pc \in {"polling", "compare"} => loop.pc \in {"polling", "compare"} /\ loop'.ver = loop.ver
  PROVE  Retired'
<1>1. stale.ops \subseteq Ids
  BY DEF Shape
<1> QED BY <1>1 DEF Retired

-----------------------------------------------------------------------------
(* The terminal and the ends of the engine.                                 *)

\* The terminal is hidden or shown, the version moves, a token is left; the engine
\* is told to end.
LEMMA TerminalStep ==
  ASSUME IInv, SetVisible \/ Bump \/ Signal \/ Interrupt \/ Close
  PROVE  IInv'
<1>1. /\ Shape /\ UNCHANGED <<rows, next, faults, execs, disowned, up, loop, sub, commands, current, applied>>
      /\ UNCHANGED <<demand, timer, offered, starts>>
  BY DEF IInv, SetVisible, Bump, Signal, Interrupt, Close, journal, life, upkeep, submissions, visibility
<1>2. Shape'
  <2>1. /\ visible' \in BOOLEAN /\ token' \in BOOLEAN /\ closed' \in BOOLEAN /\ cancelled' \in BOOLEAN
        /\ ui' \in {"idle", "bump", "signal"} /\ version' \in Nat /\ changes' \in Nat
    <3>1. CASE SetVisible
      <4>1. changes' \in Nat /\ ui' = "bump" /\ version' = version
        BY <1>1, <3>1 DEF Shape, SetVisible
      <4>2. visible' = ~ visible /\ token' = token /\ closed' = closed /\ cancelled' = cancelled
        BY <3>1 DEF SetVisible, life
      <4> QED BY <1>1, <4>1, <4>2 DEF Shape
    <3>2. CASE Bump
      BY <1>1, <3>2 DEF Shape, Bump, life
    <3>3. CASE Signal
      BY <1>1, <3>3 DEF Shape, Signal, life
    <3>4. CASE Interrupt \/ Close
      BY <1>1, <3>4 DEF Shape, Interrupt, Close, visibility
    <3> QED BY <3>1, <3>2, <3>3, <3>4
  <2>2. stale' \in [ops : SUBSET Ids, data : BOOLEAN, poll : BOOLEAN]
    <3>1. CASE Bump
      <4>1. Waiting \in SUBSET Ids
        BY DEF Waiting
      <4>2. stale' = [ops |-> Waiting, data |-> TRUE, poll |-> TRUE]
        BY <3>1 DEF Bump
      <4> HIDE DEF Waiting
      <4> QED BY <4>1, <4>2
    <3>2. CASE stale' = stale
      BY <1>1, <3>2 DEF Shape
    <3> QED BY <3>1, <3>2 DEF SetVisible, Signal, Interrupt, Close
  <2> QED BY <1>1, <2>1, <2>2 DEF Shape
<1>3. Versions'
  <2>1. CASE SetVisible
    <3>1. /\ version' = version /\ ui = "idle" /\ ui' = "bump" /\ changes' = changes + 1 /\ changes < MaxChanges
          /\ MaxChanges \in Nat /\ changes \in Nat /\ version \in Nat
      BY <1>1, <2>1 DEF SetVisible, Shape
    <3> QED BY <1>1, <3>1 DEF Versions, IInv
  <2>2. CASE Bump
    <3>1. version' = version + 1 /\ version < changes /\ ui' = "signal" /\ changes' = changes /\ changes \in Nat /\ version \in Nat
      BY <1>1, <2>2 DEF Bump, Shape, Versions, IInv
    <3>2. \A n \in Nat : n <= version => n <= version + 1
      BY <3>1
    <3>3. applied \in Nat /\ loop.ver \in Nat /\ current.gen \in Nat /\ \A i \in Ids : sub[i].gen \in Nat
      BY <1>1, SubsApart DEF Shape, LoopState, Answers
    <3> QED BY <1>1, <3>1, <3>2, <3>3 DEF Versions, IInv
  <2>3. CASE Signal \/ Interrupt \/ Close
    <3>1. version' = version /\ changes' = changes /\ (ui' = ui \/ ui' = "idle")
      BY <2>3 DEF Signal, Interrupt, Close, visibility
    <3> QED BY <1>1, <3>1 DEF Versions, IInv
  <2> QED BY <2>1, <2>2, <2>3
<1>4. WhenDown'
  BY <1>1 DEF IInv, WhenDown, SetVisible, Bump, Signal, Interrupt, Close
<1>5. Line' /\ Recorded'
  BY <1>1, LineKept, RecordedKept DEF IInv
<1>6. Retired'
  <2>1. CASE Bump
    <3>1. version' = version + 1 /\ version \in Nat /\ stale' = [ops |-> Waiting, data |-> TRUE, poll |-> TRUE]
      BY <1>1, <2>1 DEF Bump, Shape
    <3>2. \A i \in Waiting : i \in Ids /\ sub[i].pc # "none" /\ sub[i].gen \in Nat /\ sub[i].gen <= version
      BY <1>1, SubsApart DEF Waiting, IInv, Versions
    <3>3. current.gen \in Nat /\ current.gen <= version /\ loop.ver \in Nat /\ loop.ver <= version
      BY <1>1 DEF IInv, Versions, Shape, Answers, LoopState
    <3>4. \A n \in Nat : n <= version => n < version + 1 /\ n # version + 1
      BY <3>1
    <3> QED BY <1>1, <3>1, <3>2, <3>3, <3>4 DEF Retired
  <2>2. CASE ~ Bump
    <3>1. version' = version /\ stale' = stale
      BY <2>2 DEF SetVisible, Signal, Interrupt, Close, visibility
    <3> QED BY <1>1, <3>1, RetiredKept DEF IInv
  <2> QED BY <2>1, <2>2
<1> QED BY <1>2, <1>3, <1>4, <1>5, <1>6 DEF IInv

-----------------------------------------------------------------------------
(* Submissions.                                                             *)

\* A tap begins a submission of the current version.
LEMMA SubmitStep ==
  ASSUME IInv, NEW i \in Ids, NEW a \in Argvs, Submit(i, a)
  PROVE  IInv'
<1>1. /\ Shape /\ up /\ sub[i].pc = "none"
      /\ sub' = [sub EXCEPT ![i] = [pc |-> "accept", argv |-> a, gen |-> version]]
      /\ UNCHANGED <<rows, next, faults, visible, version, token, ui, changes, closed, cancelled, up, starts,
                     demand, applied, timer, current, offered, loop, commands, execs, stale, disowned>>
  BY DEF IInv, Submit, journal, visibility, life, upkeep
<1>2. /\ sub' \in [Ids -> Sub] /\ sub'[i].pc = "accept" /\ sub'[i].gen = version
      /\ \A j \in Ids : j # i => sub'[j] = sub[j]
  <2> DEFINE new == [pc |-> "accept", argv |-> a, gen |-> version]
  <2>1. new \in Sub /\ new.pc = "accept" /\ new.gen = version
    BY <1>1 DEF Shape, Sub, SubStates
  <2>2. sub \in [Ids -> Sub] /\ sub' = [sub EXCEPT ![i] = new]
    BY <1>1 DEF Shape
  <2> HIDE DEF new
  <2> QED BY <2>1, <2>2
<1>3. Shape' /\ Versions' /\ WhenDown'
  BY <1>1, <1>2 DEF IInv, Shape, Versions, WhenDown
<1>4. Line'
  BY <1>1, <1>2, LineKept DEF IInv
<1>5. Retired'
  BY <1>1, <1>2, RetiredKept DEF IInv
<1>6. Recorded'
  BY <1>1, <1>2, RecordedKept DEF IInv
<1> QED BY <1>3, <1>4, <1>5, <1>6 DEF IInv

\* The operation is recorded, or the submission ends.
LEMMA AcceptStep ==
  ASSUME IInv, NEW i \in Ids, SubmitAccept(i)
  PROVE  IInv'
<1>1. /\ Shape /\ sub[i].pc = "accept" /\ Rowed /\ rows[i].state = Absent /\ execs[i] = 0 /\ i \notin disowned
      /\ UNCHANGED <<visible, version, token, ui, changes, closed, cancelled, up, starts,
                     demand, applied, timer, current, offered, loop, commands, execs, stale, disowned>>
  BY DEF IInv, SubmitAccept, visibility, life, upkeep, Recorded, Unmade
<1>2. PICK pc \in {"send", "over"} :
        /\ sub' \in [Ids -> Sub] /\ sub'[i].pc = pc /\ (pc # "over" => sub'[i].gen = sub[i].gen)
        /\ sub'[i].gen \in {0, sub[i].gen}
        /\ \A j \in Ids : j # i => sub'[j] = sub[j]
  <2>1. CASE sub' = [sub EXCEPT ![i].pc = "send"]
    BY <1>1, <2>1, SubGoes DEF SubStates
  <2>2. CASE sub' = [sub EXCEPT ![i] = Over]
    BY <1>1, <2>2, SubEnds
  <2> QED BY <2>1, <2>2 DEF SubmitAccept
<1>3. /\ faults' \in Nat /\ faults' >= faults
      /\ \/ rows' = rows /\ next' = next
         \/ rows' = Insert(rows, i, next, Request) /\ next' = next + 1
  BY <1>1 DEF SubmitAccept, Refused, Fault, journal, Shape
<1>4. /\ rows' \in [Ids -> Row] /\ Rowed' /\ next' \in Nat \ {0} /\ next' >= next
      /\ rows'[i].state \in {Absent, "pending"}
      /\ \A j \in Ids : j # i =>
           \/ rows'[j] = rows[j]
           \/ rows'[j].state = Absent /\ rows[j].state \in Terminal /\ RecentHistory < next' - 1
  <2>1. CASE rows' = rows /\ next' = next
    BY <1>1, <2>1 DEF Rowed, Shape
  <2>2. CASE rows' = Insert(rows, i, next, Request) /\ next' = next + 1
    BY <1>1, <2>2, InsertedRow DEF Shape
  <2> QED BY <1>3, <2>1, <2>2
<1>5. Shape'
  BY <1>1, <1>2, <1>3, <1>4 DEF Shape
<1>6. Versions' /\ WhenDown'
  BY <1>1, <1>2 DEF IInv, Versions, WhenDown, Shape
<1>7. Line'
  BY <1>1, <1>2, LineKept DEF IInv
<1>8. Retired'
  BY <1>1, <1>2, RetiredKept DEF IInv
<1>9. Recorded'
  <2>1. Unmade'
    BY <1>1, <1>2, <1>4, StatesApart DEF IInv, Recorded, Unmade
  <2>2. Underway'
    <3>1. loop.pc \in {"run", "busy"} => loop.op \in Ids /\ loop.op # i /\ rows[loop.op].state = "running"
      BY <1>1 DEF IInv, Line, Acting, Recorded, Underway
    <3>2. loop.pc \in {"run", "busy"} => rows'[loop.op] = rows[loop.op]
      BY <1>4, <3>1, StatesApart
    <3> QED BY <1>1, <3>1, <3>2 DEF IInv, Recorded, Underway
  <2>3. OutcomeHonest'
    <3> SUFFICES ASSUME NEW j \in Ids
                 PROVE  /\ execs[j] <= 1
                        /\ rows'[j].state \in Applied => execs[j] = 1
                        /\ rows'[j].state = "pending" => execs[j] = 0
                        /\ rows'[j].state = Absent /\ next' - 1 <= RecentHistory => execs[j] = 0
                        /\ rows'[j].state = "discarded" /\ j \notin disowned => execs[j] = 0
      BY <1>1 DEF OutcomeHonest
    <3>1. /\ next \in Nat /\ next' \in Nat /\ next' >= next /\ RecentHistory \in Nat
          /\ next' - 1 <= RecentHistory => next - 1 <= RecentHistory
          /\ RecentHistory < next' - 1 => ~ (next' - 1 <= RecentHistory)
      <4>1. next \in Nat /\ next' \in Nat /\ next' >= next /\ RecentHistory \in Nat
        BY <1>1, <1>4 DEF Shape
      <4>2. \A m, n, h \in Nat : n >= m => (n - 1 <= h => m - 1 <= h) /\ (h < n - 1 => ~ (n - 1 <= h))
        OBVIOUS
      <4> QED BY <4>1, <4>2
    <3>2. CASE j = i
      <4>1. execs[j] = 0 /\ rows'[j].state \notin Applied /\ rows'[j].state # "discarded"
        BY <1>1, <1>4, <3>2, StatesApart DEF Absent
      <4> QED BY <4>1
    <3>3. CASE rows'[j] = rows[j]
      BY <3>1, <3>3 DEF IInv, Recorded, OutcomeHonest
    <3>4. CASE rows'[j].state = Absent /\ RecentHistory < next' - 1
      <4>1. rows'[j].state \notin Applied /\ rows'[j].state # "discarded" /\ rows'[j].state # "pending"
        BY <3>4, StatesApart DEF Absent
      <4> QED BY <3>1, <3>4, <4>1 DEF IInv, Recorded, OutcomeHonest
    <3> QED BY <1>4, <3>2, <3>3, <3>4
  <2>4. Saved'
    <3>1. \A j \in Ids : rows'[j].state = "running" => rows[j].state = "running"
      BY <1>4 DEF Absent
    <3> QED BY <1>1, <1>3, <3>1 DEF IInv, Recorded, Saved, Shape
  <2> QED BY <1>4, <2>1, <2>2, <2>3, <2>4 DEF Recorded
<1> QED BY <1>5, <1>6, <1>7, <1>8, <1>9 DEF IInv

\* What a call on the journal keeps of the records when it leaves alone whatever the
\* loop runs, and changes only a pending row or a row it does not deny.
LEMMA MoveRecorded ==
  ASSUME Shape, Recorded, NEW i \in Ids, Rowed', faults' \in Nat, faults' >= faults,
         UNCHANGED <<next, execs, disowned, up>>,
         rows' = rows \/ (rows[i].state = "pending" /\ rows'[i].state \in {"running", "discarded"}),
         \A j \in Ids : j # i => rows'[j] = rows[j],
         \A j \in Ids : sub'[j].pc \in {"none", "accept"} => sub[j].pc \in {"none", "accept"},
         sub[i].pc \notin {"none", "accept"},
         loop'.pc # "busy", loop.pc # "busy",
         loop'.pc = "run" => /\ loop'.op \in Ids /\ rows'[loop'.op].state = "running" /\ execs[loop'.op] = 0
  PROVE  Recorded'
<1>1. Unmade'
  BY DEF Recorded, Unmade
<1>2. Underway'
  BY DEF Underway
<1>3. rows[i].state = "pending" => execs[i] = 0
  BY DEF Recorded, OutcomeHonest
<1>4. OutcomeHonest'
  <2> SUFFICES ASSUME NEW j \in Ids
               PROVE  /\ execs[j] <= 1
                      /\ rows'[j].state \in Applied => execs[j] = 1
                      /\ rows'[j].state = "pending" => execs[j] = 0
                      /\ rows'[j].state = Absent /\ next - 1 <= RecentHistory => execs[j] = 0
                      /\ rows'[j].state = "discarded" /\ j \notin disowned => execs[j] = 0
    BY DEF OutcomeHonest
  <2>1. CASE rows'[j] = rows[j]
    BY <2>1 DEF Recorded, OutcomeHonest
  <2>2. CASE j = i /\ rows[i].state = "pending" /\ rows'[i].state \in {"running", "discarded"}
    BY <1>3, <2>2, StatesApart DEF Absent
  <2> QED BY <2>1, <2>2
<1>5. Saved'
  BY <1>3 DEF Recorded, Saved, Shape
<1> QED BY <1>1, <1>2, <1>4, <1>5 DEF Recorded

\* The operation is queued, discarded for want of room, or left by a cancelled engine.
LEMMA SendStep ==
  ASSUME IInv, NEW i \in Ids, SubmitSend(i)
  PROVE  IInv'
<1>1. /\ Shape /\ sub[i].pc = "send" /\ Rowed
      /\ UNCHANGED <<next, visible, version, token, ui, changes, closed, cancelled, up, starts,
                     demand, applied, timer, current, offered, loop, execs, stale, disowned>>
      /\ loop.pc \in Acting => loop.op # i
  BY DEF IInv, SubmitSend, visibility, life, upkeep, Recorded, Line
<1>2. /\ sub' \in [Ids -> Sub] /\ sub'[i].pc \in {"queued", "over"} /\ sub'[i].gen \in {0, sub[i].gen}
      /\ sub'[i].pc = "queued" => sub'[i].gen = sub[i].gen
      /\ \A j \in Ids : j # i => sub'[j] = sub[j]
  <2>1. CASE sub' = [sub EXCEPT ![i].pc = "queued"]
    BY <1>1, <2>1, SubGoes DEF SubStates
  <2>2. CASE sub' = [sub EXCEPT ![i] = Over]
    BY <1>1, <2>2, SubEnds
  <2> QED BY <2>1, <2>2 DEF SubmitSend, HandedOver
<1>3. /\ rows' \in [Ids -> Row] /\ Rowed' /\ faults' \in Nat /\ faults' >= faults
      /\ rows' = rows \/ (rows[i].state = "pending" /\ rows'[i].state = "discarded")
      /\ \A j \in Ids : j # i => rows'[j] = rows[j]
  <2>1. CASE UNCHANGED <<rows, faults>>
    BY <1>1, <2>1 DEF Rowed, Shape
  <2>2. CASE RefuseFull(i)
    BY <1>1, <2>2, AttemptOf, StatesApart DEF RefuseFull, CanMove
  <2> QED BY <2>1, <2>2 DEF SubmitSend
<1>4. \/ commands' = commands
      \/ commands' = Append(commands, i) /\ Len(commands) < QueueLimit /\ sub'[i].pc = "queued"
  BY <1>1, SubGoes DEF SubmitSend, Room, HandedOver, SubStates
<1>5. Shape'
  <2>1. commands' \in Seq(Ids)
    BY <1>1, <1>4, AppendProperties DEF Shape
  <2> QED BY <1>1, <1>2, <1>3, <2>1 DEF Shape
<1>6. Versions'
  BY <1>1, <1>2 DEF IInv, Versions, Shape
<1>7. WhenDown'
  <2>1. up
    BY <1>1 DEF IInv, WhenDown
  <2> QED BY <1>1, <2>1 DEF WhenDown
<1>8. Line'
  <2>1. CASE commands' = commands
    BY <1>1, <1>2, <2>1, LineKept DEF IInv
  <2>2. CASE commands' = Append(commands, i) /\ Len(commands) < QueueLimit /\ sub'[i].pc = "queued"
    <3>1. /\ commands \in Seq(Ids) /\ Len(commands) \in Nat /\ Len(commands') = Len(commands) + 1
          /\ commands'[Len(commands) + 1] = i /\ \A k \in 1 .. Len(commands) : commands'[k] = commands[k]
      BY <1>1, <2>2, AppendProperties, LenProperties DEF Shape
    <3>2. \A k \in 1 .. Len(commands) : commands[k] \in Ids /\ commands[k] # i /\ sub[commands[k]].pc = "queued"
      BY <1>1, <3>1 DEF IInv, Line
    <3>3. \A k \in 1 .. Len(commands') : k \in 1 .. Len(commands) \/ k = Len(commands) + 1
      BY <3>1
    <3>4. Len(commands') <= QueueLimit
      BY <2>2, <3>1
    <3>5. \A k, l \in 1 .. Len(commands') : commands'[k] = commands'[l] => k = l
      BY <3>1, <3>2, <3>3 DEF IInv, Line
    <3>6. \A k \in 1 .. Len(commands') : sub'[commands'[k]].pc = "queued"
      BY <1>2, <2>2, <3>1, <3>2, <3>3
    <3>7. loop.pc \in Acting => /\ loop.op \in Ids /\ sub'[loop.op].pc = "queued"
                                /\ \A k \in 1 .. Len(commands') : commands'[k] # loop.op
      BY <1>1, <1>2, <3>1, <3>3 DEF IInv, Line
    <3> QED BY <1>1, <3>4, <3>5, <3>6, <3>7 DEF Line
  <2> QED BY <1>4, <2>1, <2>2
<1>9. Retired'
  BY <1>1, <1>2, RetiredKept DEF IInv
<1>10. Recorded'
  <2>1. CASE rows' = rows /\ faults' = faults
    BY <1>1, <1>2, <2>1, RecordedKept DEF IInv
  <2>2. CASE RefuseFull(i)
    <3>1. Unmade'
      BY <1>1, <1>2, <1>3 DEF IInv, Recorded, Unmade
    <3>2. loop.pc \in {"run", "busy"} => loop.op \in Ids /\ loop.op # i
      BY <1>1 DEF IInv, Line, Acting
    <3>3. Underway'
      BY <1>1, <1>3, <3>2 DEF IInv, Recorded, Underway
    <3>4. rows[i].state = "pending" => execs[i] = 0
      BY DEF IInv, Recorded, OutcomeHonest
    <3>5. OutcomeHonest'
      BY <1>1, <1>3, <3>4, StatesApart DEF IInv, Recorded, OutcomeHonest, Absent
    <3>6. Saved'
      BY <1>1, <1>3, <3>4 DEF IInv, Recorded, Saved, Shape
    <3> QED BY <1>3, <3>1, <3>3, <3>5, <3>6 DEF Recorded
  <2> QED BY <2>1, <2>2 DEF SubmitSend
<1> QED BY <1>5, <1>6, <1>7, <1>8, <1>9, <1>10 DEF IInv

-----------------------------------------------------------------------------
(* The loop: start, select, visibility and polls.                           *)

Quiet == LoopStart \/ LoopApplied \/ TakeToken \/ Tick \/ TakeStop \/ TokenVersion \/ TokenDemand \/ LoopStop \/ Poll

\* Such a step keeps the journal, the submissions and the queue.
LEMMA QuietKeeps ==
  ASSUME IInv, Quiet
  PROVE  /\ UNCHANGED <<rows, next, faults, execs, disowned, sub, commands>>
         /\ UNCHANGED <<visible, version, ui, changes, closed, cancelled, up, starts>>
         /\ loop.pc \notin Acting
<1>1. UNCHANGED <<rows, next, faults, execs, disowned, sub, commands>>
  BY DEF Quiet, Poll, LoopStart, LoopApplied, TakeToken, Tick, TakeStop, TokenVersion, TokenDemand, LoopStop,
         PollBegin, PollReturn, PollCompare, LoopKeeps, journal
<1>2. UNCHANGED <<visible, version, ui, changes, closed, cancelled, up, starts>>
  BY DEF Quiet, Poll, LoopStart, LoopApplied, TakeToken, Tick, TakeStop, TokenVersion, TokenDemand, LoopStop,
         PollBegin, PollReturn, PollCompare, LoopKeeps, life
<1>3. loop.pc \notin Acting
  BY DEF Quiet, Poll, LoopStart, LoopApplied, TakeToken, Tick, TakeStop, TokenVersion, TokenDemand, LoopStop,
         PollBegin, PollReturn, PollCompare, Acting
<1> QED BY <1>1, <1>2, <1>3

\* The loop is at one of its steps, with a version that is not of the future.
LEMMA QuietLoop ==
  ASSUME IInv, Quiet
  PROVE  /\ loop' \in LoopState /\ loop'.pc \notin Acting /\ loop'.ver <= version
         /\ ~ Poll => loop'.pc \notin {"polling", "compare"}
<1> DEFINE back == [Starting EXCEPT !.pc = "select", !.tick = visible]
<1>1. Shape /\ version \in Nat /\ loop.ver <= version /\ loop \in LoopState
  BY DEF IInv, Shape, Versions
<1>2. back \in LoopState /\ back.pc = "select" /\ back.ver = 0
  BY <1>1, BackTo
<1> HIDE DEF back
<1>3. CASE loop' = back
  BY <1>1, <1>2, <1>3 DEF Acting
<1>4. ASSUME NEW pc \in {"applied", "poll", "stop", "token", "demand", "done"}, Goto(pc)
      PROVE  /\ loop' \in LoopState /\ loop'.pc \notin Acting /\ loop'.ver <= version
             /\ loop'.pc \notin {"polling", "compare"}
  <2>1. pc \in LoopStates /\ pc \notin Acting /\ pc \notin {"polling", "compare"}
    BY DEF LoopStates, Acting
  <2> QED BY <1>1, <1>4, <2>1, GotoOf
<1>5. CASE PollBegin
  <2>1. CASE loop' = [loop EXCEPT !.pc = "polling", !.ver = version]
    <3>1. loop'.pc = "polling" /\ loop'.ver = version /\ loop' \in LoopState
      BY <1>1, <2>1 DEF LoopState, LoopStates
    <3> QED BY <1>1, <1>5, <3>1 DEF Acting, Poll
  <2> QED BY <1>3, <1>5, <2>1 DEF PollBegin, Select, back
<1>6. CASE PollReturn
  <2>1. CASE \E d \in SUBSET Argvs : loop' = [loop EXCEPT !.pc = "compare", !.got = d]
    BY <1>1, <1>6, <2>1 DEF LoopState, LoopStates, Acting, Poll
  <2>2. CASE loop' = [loop EXCEPT !.pc = "compare", !.err = TRUE]
    BY <1>1, <1>6, <2>2 DEF LoopState, LoopStates, Acting, Poll
  <2> QED BY <1>3, <1>6, <2>1, <2>2 DEF PollReturn, Select, back
<1>7. CASE PollCompare
  BY <1>3, <1>7 DEF PollCompare, Select, back
<1>8. CASE LoopStart \/ LoopApplied \/ TakeToken \/ Tick \/ TakeStop \/ LoopStop
  BY <1>4, <1>8 DEF LoopStart, LoopApplied, TakeToken, Tick, TakeStop, LoopStop
<1>9. CASE TokenVersion \/ TokenDemand
  BY <1>3, <1>4, <1>9 DEF TokenVersion, TokenDemand, back
<1> QED BY <1>5, <1>6, <1>7, <1>8, <1>9 DEF Quiet, Poll

\* What the loop keeps for itself stays of its type and of no later version.
LEMMA QuietUpkeep ==
  ASSUME IInv, Quiet
  PROVE  /\ token' \in BOOLEAN /\ demand' \in BOOLEAN /\ timer' \in BOOLEAN
         /\ applied' \in Nat /\ applied' <= version
         /\ current' \in Answers /\ current'.gen <= version /\ offered' \subseteq Argvs
         /\ stale' \in [ops : SUBSET Ids, data : BOOLEAN, poll : BOOLEAN]
<1>1. Shape /\ version \in Nat /\ version <= version /\ applied <= version
  BY DEF IInv, Shape, Versions
<1>2. token' \in BOOLEAN
  <2>1. token' = token \/ token' = FALSE
    BY DEF Quiet, Poll, LoopStart, LoopApplied, TakeToken, Tick, TakeStop, TokenVersion, TokenDemand, LoopStop,
           PollBegin, PollReturn, PollCompare
  <2> QED BY <1>1, <2>1 DEF Shape
<1>3. demand' \in BOOLEAN
  <2>1. demand' = demand \/ demand' = TRUE \/ demand' = FALSE \/ demand' = visible
    BY DEF Quiet, Poll, LoopStart, LoopApplied, TakeToken, Tick, TakeStop, TokenVersion, TokenDemand, LoopStop,
           PollBegin, PollReturn, PollCompare, upkeep
  <2> QED BY <1>1, <2>1 DEF Shape
<1>4. timer' \in BOOLEAN
  <2>1. timer' = timer \/ timer' = TRUE \/ timer' = FALSE
    BY DEF Quiet, Poll, LoopStart, LoopApplied, TakeToken, Tick, TakeStop, TokenVersion, TokenDemand, LoopStop,
           PollBegin, PollReturn, PollCompare, Select, upkeep
  <2> QED BY <1>1, <2>1 DEF Shape
<1>5. applied' \in Nat /\ applied' <= version
  <2>1. applied' = applied \/ applied' = version
    BY DEF Quiet, Poll, LoopStart, LoopApplied, TakeToken, Tick, TakeStop, TokenVersion, TokenDemand, LoopStop,
           PollBegin, PollReturn, PollCompare, upkeep
  <2> QED BY <1>1, <2>1 DEF Shape
<1>6. Answer \in Answers /\ Answer.gen <= version /\ Answer.data \subseteq Argvs
  <2>1. /\ current \in Answers /\ loop.got \in SUBSET Argvs /\ loop.ver \in Nat
        /\ current.gen <= version /\ loop.ver <= version
    BY <1>1 DEF Shape, LoopState, IInv, Versions
  <2>2. CASE loop.err
    BY <2>1, <2>2 DEF Answer, Answers
  <2>3. CASE ~ loop.err
    BY <2>1, <2>3 DEF Answer, Answers
  <2> QED BY <2>2, <2>3
<1>7. current' \in Answers /\ current'.gen <= version /\ offered' \subseteq Argvs
  <2>1. \/ current' = current /\ offered' = offered
        \/ current' = Answer /\ offered' = offered \cup Answer.data
    BY DEF Quiet, Poll, LoopStart, LoopApplied, TakeToken, Tick, TakeStop, TokenVersion, TokenDemand, LoopStop,
           PollBegin, PollReturn, PollCompare, upkeep
  <2>2. current \in Answers /\ current.gen <= version /\ offered \subseteq Argvs
    BY <1>1 DEF Shape, IInv, Versions
  <2> QED BY <1>6, <2>1, <2>2
<1>8. stale' \in [ops : SUBSET Ids, data : BOOLEAN, poll : BOOLEAN]
  <2>1. \/ stale' = stale
        \/ stale' = [stale EXCEPT !.poll = FALSE]
        \/ stale' = [stale EXCEPT !.data = stale.poll]
    BY DEF Quiet, Poll, LoopStart, LoopApplied, TakeToken, Tick, TakeStop, TokenVersion, TokenDemand, LoopStop,
           PollBegin, PollReturn, PollCompare, upkeep
  <2>2. stale \in [ops : SUBSET Ids, data : BOOLEAN, poll : BOOLEAN]
    BY <1>1 DEF Shape
  <2> QED BY <2>1, <2>2
<1> QED BY <1>2, <1>3, <1>4, <1>5, <1>7, <1>8

\* Only a poll that began after the last change makes the data fresh.
LEMMA QuietRetired ==
  ASSUME IInv, Quiet
  PROVE  Retired'
<1>1. /\ Shape /\ Retired /\ UNCHANGED <<sub, version>> /\ version \in Nat
      /\ stale \in [ops : SUBSET Ids, data : BOOLEAN, poll : BOOLEAN]
      /\ current.gen <= version /\ current.gen \in Nat
  BY QuietKeeps DEF IInv, Shape, Versions, Answers
<1>2. CASE ~ Poll
  <2>1. stale' = stale /\ current' = current
    BY <1>2 DEF Quiet, LoopStart, LoopApplied, TakeToken, Tick, TakeStop, TokenVersion, TokenDemand, LoopStop, upkeep
  <2> QED BY <1>1, <1>2, <2>1, QuietLoop, RetiredKept
<1>3. ASSUME Select PROVE loop'.pc = "select"
  BY <1>1, <1>3, BackTo DEF Select
<1>4. CASE PollBegin
  <2>1. CASE Select /\ stale' = stale
    BY <1>1, <1>3, <1>4, <2>1, RetiredKept DEF PollBegin
  <2>2. CASE stale' = [stale EXCEPT !.poll = FALSE]
    <3>1. stale'.ops = stale.ops /\ stale'.data = stale.data /\ ~ stale'.poll /\ current' = current
      BY <1>1, <1>4, <2>2 DEF PollBegin
    <3> QED BY <1>1, <3>1 DEF Retired
  <2> QED BY <1>4, <2>1, <2>2 DEF PollBegin
<1>5. CASE PollReturn
  <2>1. stale' = stale /\ current' = current /\ loop.pc = "polling"
    BY <1>5 DEF PollReturn
  <2>2. loop'.pc \in {"polling", "compare"} => loop'.ver = loop.ver
    <3>1. loop \in LoopState
      BY <1>1 DEF Shape
    <3> QED BY <1>3, <1>5, <3>1 DEF PollReturn, LoopState
  <2> QED BY <1>1, <2>1, <2>2, RetiredKept
<1>6. CASE PollCompare
  <2>1. loop'.pc = "select" /\ loop.pc = "compare"
    BY <1>3, <1>6 DEF PollCompare
  <2>2. CASE stale' = stale /\ current'.gen = current.gen
    BY <1>1, <2>1, <2>2, RetiredKept
  <2>3. CASE version = loop.ver /\ ~ loop.err
    <3>1. ~ stale.poll
      BY <1>1, <2>1, <2>3 DEF Retired
    <3>2. stale' = [stale EXCEPT !.data = stale.poll]
      BY <1>6, <2>3 DEF PollCompare
    <3>3. stale'.ops = stale.ops /\ ~ stale'.data
      BY <1>1, <3>1, <3>2
    <3> QED BY <1>1, <2>1, <3>3 DEF Retired
  <2>4. CASE version = loop.ver /\ loop.err
    <3>1. stale' = stale /\ current' = [current EXCEPT !.err = TRUE] /\ current \in Answers
      BY <1>1, <1>6, <2>4 DEF PollCompare, Answer, Shape
    <3>2. current'.gen = current.gen
      BY <3>1 DEF Answers
    <3> QED BY <2>2, <3>1, <3>2
  <2>5. CASE version # loop.ver
    BY <1>6, <2>2, <2>5 DEF PollCompare
  <2> QED BY <2>3, <2>4, <2>5
<1> QED BY <1>2, <1>4, <1>5, <1>6 DEF Poll

\* Starting, ticking, reading the visibility, polling and stopping.
LEMMA QuietStep ==
  ASSUME IInv, up, Quiet
  PROVE  IInv'
<1>1. Shape'
  BY QuietKeeps, QuietLoop, QuietUpkeep DEF IInv, Shape
<1>2. Versions'
  BY QuietKeeps, QuietLoop, QuietUpkeep DEF IInv, Versions
<1>3. WhenDown'
  BY QuietKeeps DEF WhenDown
<1>4. Line'
  BY QuietKeeps, QuietLoop, LineKept DEF IInv
<1>5. Recorded'
  BY QuietKeeps, QuietLoop, RecordedKept DEF IInv, Acting
<1> QED BY <1>1, <1>2, <1>3, <1>4, <1>5, QuietRetired DEF IInv

-----------------------------------------------------------------------------
(* The loop: commands.                                                      *)

\* The loop takes the first command, or drops it when the engine is cancelled.
LEMMA TakeStep ==
  ASSUME IInv, up, TakeCommand
  PROVE  IInv'
<1>1. /\ Shape /\ loop.pc = "select" /\ commands \in Seq(Ids) /\ commands # <<>> /\ commands' = Tail(commands)
      /\ UNCHANGED <<rows, next, faults, execs, disowned, sub, visible, version, ui, changes,
                     closed, cancelled, up, starts, token, demand, applied, timer, current, offered, stale>>
  BY DEF IInv, Shape, TakeCommand, LoopKeeps, life, journal, upkeep
<1>2. /\ Len(commands) \in Nat /\ Len(commands) > 0 /\ commands' \in Seq(Ids) /\ Len(commands') = Len(commands) - 1
      /\ Head(commands) = commands[1] /\ commands[1] \in Ids
      /\ \A k \in 1 .. Len(commands') : commands'[k] = commands[k + 1]
  BY <1>1, HeadTailProperties, LenProperties, ElementOfSeq, EmptySeq
<1>3. /\ loop' \in LoopState /\ loop'.ver = loop.ver
      /\ \/ loop'.pc = "stop"
         \/ loop'.pc = "see" /\ loop'.op = commands[1]
  <2>1. CASE Goto("stop")
    BY <1>1, <2>1, GotoOf DEF LoopStates
  <2>2. CASE loop' = [loop EXCEPT !.pc = "see", !.op = Head(commands)]
    BY <1>1, <1>2, <2>2 DEF Shape, LoopState, LoopStates
  <2> QED BY <2>1, <2>2 DEF TakeCommand
<1>4. Shape' /\ Versions' /\ WhenDown'
  BY <1>1, <1>2, <1>3 DEF IInv, Shape, Versions, WhenDown
<1>5. Line'
  <2>1. \A k \in 1 .. Len(commands') : k + 1 \in 1 .. Len(commands) /\ k + 1 # 1 /\ commands'[k] = commands[k + 1]
    BY <1>2
  <2>2. 1 \in 1 .. Len(commands)
    BY <1>2
  <2>3. Len(commands') <= QueueLimit
    BY <1>2 DEF IInv, Line
  <2>4. ASSUME NEW k \in 1 .. Len(commands'), NEW l \in 1 .. Len(commands'), commands'[k] = commands'[l]
        PROVE  k = l
    <3>1. k + 1 = l + 1
      BY <2>1, <2>4 DEF IInv, Line
    <3> QED BY <3>1
  <2>5. \A k \in 1 .. Len(commands') : sub'[commands'[k]].pc = "queued" /\ commands'[k] # commands[1]
    BY <1>1, <2>1, <2>2 DEF IInv, Line
  <2>6. sub'[commands[1]].pc = "queued"
    BY <1>1, <2>2 DEF IInv, Line
  <2> QED BY <1>2, <1>3, <2>3, <2>4, <2>5, <2>6 DEF Line, Acting
<1>6. Retired'
  BY <1>1, <1>3, RetiredKept DEF IInv
<1>7. Recorded'
  BY <1>1, <1>3, RecordedKept DEF IInv
<1> QED BY <1>4, <1>5, <1>6, <1>7 DEF IInv

\* What a step of an action leaves alone.
LEMMA ActKept ==
  ASSUME ActKeeps
  PROVE  UNCHANGED <<next, disowned, commands, visible, version, ui, changes, closed, cancelled, up, starts,
                     token, demand, applied, timer, current, offered>>
BY DEF ActKeeps, LoopKeeps, life, upkeep

\* What the loop has in hand.
LEMMA InHand ==
  ASSUME IInv, loop.pc \in Acting
  PROVE  /\ Shape /\ Rowed /\ loop.op \in Ids /\ sub[loop.op].pc = "queued"
         /\ \A k \in 1 .. Len(commands) : commands[k] # loop.op
BY DEF IInv, Line, Recorded

\* The operation is looked at, and checked.
LEMMA CheckStep ==
  ASSUME IInv, up, ActSee \/ ActCheck
  PROVE  IInv'
<1>1. /\ Shape /\ loop.pc \in Acting \ {"run", "busy", "mark"} /\ ActKeeps /\ UNCHANGED <<rows, faults, execs, sub, stale>>
      /\ Goto("check") \/ Goto("mark") \/ Goto("refuse")
  BY DEF IInv, ActSee, ActCheck, Acting
<1>2. UNCHANGED <<next, disowned, commands, visible, version, ui, changes, closed, cancelled, up, starts,
                  token, demand, applied, timer, current, offered>>
  BY <1>1, ActKept
<1>3. loop' \in LoopState /\ loop'.pc \in {"check", "mark", "refuse"} /\ loop'.op = loop.op /\ loop'.ver = loop.ver
  BY <1>1, GotoOf DEF LoopStates
<1>4. Shape' /\ Versions' /\ WhenDown'
  BY <1>1, <1>2, <1>3 DEF IInv, Shape, Versions, WhenDown
<1>5. Line' /\ Retired' /\ Recorded'
  BY <1>1, <1>2, <1>3, LineKept, RetiredKept, RecordedKept DEF IInv, Acting
<1> QED BY <1>4, <1>5 DEF IInv

\* An action that is over leaves the loop to poll, and its submission is over.
LEMMA EndedOf ==
  ASSUME IInv, up, loop.pc \in Acting, ActKeeps, Ended
  PROVE  /\ loop' \in LoopState /\ loop'.pc = "poll" /\ loop'.ver = 0
         /\ sub' \in [Ids -> Sub] /\ sub'[loop.op].pc = "over" /\ \A j \in Ids : j # loop.op => sub'[j] = sub[j]
         /\ Versions' /\ WhenDown' /\ Line' /\ Retired'
         /\ rows' \in [Ids -> Row] /\ faults' \in Nat /\ execs' = execs => Shape'
<1>1. UNCHANGED <<next, disowned, commands, visible, version, ui, changes, closed, cancelled, up, starts,
                  token, demand, applied, timer, current, offered>>
  BY ActKept
<1>2. Shape /\ loop.op \in Ids /\ sub[loop.op].pc = "queued" /\ \A k \in 1 .. Len(commands) : commands[k] # loop.op
  BY InHand
<1>3. loop' \in LoopState /\ loop'.pc = "poll" /\ loop'.ver = 0
  <2>1. loop' = [Starting EXCEPT !.pc = "poll"]
    BY DEF Ended
  <2> QED BY <1>2, <2>1, BackTo
<1>4. /\ sub' \in [Ids -> Sub] /\ sub'[loop.op].pc = "over" /\ sub'[loop.op].gen = 0
      /\ \A j \in Ids : j # loop.op => sub'[j] = sub[j]
  BY <1>2, SubEnds DEF Ended
<1>5. /\ stale' \in [ops : SUBSET Ids, data : BOOLEAN, poll : BOOLEAN]
      /\ stale'.ops = stale.ops \ {loop.op} /\ stale'.data = stale.data /\ stale'.poll = stale.poll
  <2>1. stale' = [stale EXCEPT !.ops = @ \ {loop.op}] /\ stale \in [ops : SUBSET Ids, data : BOOLEAN, poll : BOOLEAN]
    BY <1>2 DEF Ended, Shape
  <2> QED BY <2>1
<1>6. Versions' /\ WhenDown'
  BY <1>1, <1>2, <1>3, <1>4 DEF IInv, Versions, WhenDown, Shape
<1>7. Line'
  <2>1. \A k \in 1 .. Len(commands) : commands[k] \in Ids /\ commands[k] # loop.op
    BY <1>2 DEF Shape
  <2> QED BY <1>1, <1>3, <1>4, <2>1 DEF IInv, Line, Acting
<1>8. Retired'
  <2>1. \A i \in stale'.ops : i \in Ids /\ i \in stale.ops /\ i # loop.op
    BY <1>5
  <2> QED BY <1>1, <1>3, <1>4, <1>5, <2>1 DEF IInv, Retired
<1> QED BY <1>1, <1>2, <1>3, <1>4, <1>5, <1>6, <1>7, <1>8 DEF Shape

\* An operation that is not admitted is discarded.
LEMMA RefuseStep ==
  ASSUME IInv, up, ActRefuse
  PROVE  IInv'
<1> DEFINE i == loop.op
<1>1. /\ loop.pc = "refuse" /\ loop.pc \in Acting /\ ActKeeps /\ Ended /\ execs' = execs
      /\ Attempted(i, "pending", "discarded", Refused)
  BY DEF ActRefuse, Acting
<1>2. /\ Shape /\ Rowed /\ i \in Ids /\ sub[i].pc = "queued"
      /\ UNCHANGED <<next, disowned, up>>
  BY <1>1, InHand, ActKept
<1>3. /\ rows' \in [Ids -> Row] /\ Rowed' /\ faults' \in Nat /\ faults' >= faults
      /\ rows' = rows \/ (rows[i].state = "pending" /\ rows'[i].state = "discarded")
      /\ \A j \in Ids : j # i => rows'[j] = rows[j]
  <2>1. "pending" \in States /\ "discarded" \in States
    BY StatesApart
  <2>2. /\ rows' \in [Ids -> Row] /\ Rowed' /\ faults' \in Nat /\ faults' >= faults
        /\ rows' = rows \/ (CanMove(rows, i, "pending", "discarded") /\ rows'[i].state = "discarded")
        /\ \A j \in Ids : j # i => rows'[j] = rows[j]
    BY <1>1, <1>2, <2>1, AttemptOf
  <2> QED BY <2>2 DEF CanMove
<1>4. loop'.pc = "poll" /\ Shape' /\ Versions' /\ WhenDown' /\ Line' /\ Retired'
      /\ sub'[i].pc = "over" /\ \A j \in Ids : j # i => sub'[j] = sub[j]
  BY <1>1, <1>3, EndedOf
<1>5. Recorded
  BY DEF IInv
<1>6. Recorded'
  BY <1>1, <1>2, <1>3, <1>4, <1>5, MoveRecorded
<1> QED BY <1>4, <1>6 DEF IInv

\* The start is recorded, or nothing is run.
LEMMA MarkStep ==
  ASSUME IInv, up, ActMark
  PROVE  IInv'
<1> DEFINE i == loop.op
<1>1. loop.pc = "mark" /\ loop.pc \in Acting /\ ActKeeps /\ execs' = execs
  BY DEF ActMark, Acting
<1>2. /\ Shape /\ Rowed /\ Recorded /\ i \in Ids /\ sub[i].pc = "queued"
      /\ UNCHANGED <<next, disowned, commands, visible, version, ui, changes, closed, cancelled, up, starts,
                     token, demand, applied, timer, current, offered>>
  BY <1>1, InHand, ActKept DEF IInv
<1>3. CASE Moved(i, "pending", "running") /\ Goto("run") /\ UNCHANGED <<sub, stale>>
  <2>1. CanMove(rows, i, "pending", "running") /\ rows' = Move(rows, i, "running") /\ faults' = faults
    BY <1>3 DEF Moved
  <2>2. /\ rows' \in [Ids -> Row] /\ Rowed' /\ rows'[i].state = "running" /\ rows[i].state = "pending"
        /\ \A j \in Ids : j # i => rows'[j] = rows[j]
    <3>1. Attempted(i, "pending", "running", Refused)
      BY <1>3 DEF Attempted
    <3> QED BY <1>2, <2>1, <3>1, AttemptOf, MovedRow, StatesApart DEF CanMove
  <2>3. loop' \in LoopState /\ loop'.pc = "run" /\ loop'.op = i /\ loop'.ver = loop.ver
    BY <1>2, <1>3, GotoOf DEF LoopStates
  <2>4. Shape' /\ Versions' /\ WhenDown'
    BY <1>1, <1>2, <1>3, <2>1, <2>2, <2>3 DEF IInv, Shape, Versions, WhenDown
  <2>5. Line' /\ Retired'
    BY <1>1, <1>2, <1>3, <2>3, LineKept, RetiredKept DEF IInv
  <2>6. execs[i] = 0
    BY <1>2, <2>2 DEF Recorded, OutcomeHonest
  <2>7. faults' \in Nat /\ faults' >= faults
    BY <1>2, <2>1 DEF Shape
  <2>8. Recorded'
    BY <1>1, <1>2, <1>3, <2>2, <2>3, <2>6, <2>7, MoveRecorded
  <2> QED BY <2>4, <2>5, <2>8 DEF IInv
<1>4. CASE NotMoved(i, "pending", "running", Refused) /\ Ended
  <2>1. /\ rows' \in [Ids -> Row] /\ Rowed' /\ faults' \in Nat /\ faults' >= faults
        /\ rows' = rows \/ (rows[i].state = "pending" /\ rows'[i].state = "running")
        /\ \A j \in Ids : j # i => rows'[j] = rows[j]
    <3>1. Attempted(i, "pending", "running", Refused)
      BY <1>4 DEF Attempted
    <3>2. "pending" \in States /\ "running" \in States
      BY StatesApart
    <3>3. /\ rows' \in [Ids -> Row] /\ Rowed' /\ faults' \in Nat /\ faults' >= faults
          /\ rows' = rows \/ (CanMove(rows, i, "pending", "running") /\ rows'[i].state = "running")
          /\ \A j \in Ids : j # i => rows'[j] = rows[j]
      BY <1>2, <3>1, <3>2, AttemptOf
    <3> QED BY <3>3 DEF CanMove
  <2>2. loop'.pc = "poll" /\ Shape' /\ Versions' /\ WhenDown' /\ Line' /\ Retired'
        /\ sub'[i].pc = "over" /\ \A j \in Ids : j # i => sub'[j] = sub[j]
    BY <1>1, <1>4, <2>1, EndedOf
  <2>3. Recorded'
    BY <1>1, <1>2, <2>1, <2>2, MoveRecorded
  <2> QED BY <2>2, <2>3 DEF IInv
<1> QED BY <1>3, <1>4 DEF ActMark

\* The operation runs, once.
LEMMA RunStep ==
  ASSUME IInv, up, ActRun
  PROVE  IInv'
<1> DEFINE i == loop.op
<1>1. /\ loop.pc = "run" /\ loop.pc \in Acting /\ ActKeeps /\ UNCHANGED <<sub, stale, rows, faults>> /\ Goto("busy")
      /\ execs' = [execs EXCEPT ![i] = execs[i] + 1]
  BY DEF ActRun, Acting
<1>2. /\ Shape /\ Recorded /\ i \in Ids /\ sub[i].pc = "queued"
      /\ UNCHANGED <<next, disowned, commands, visible, version, ui, changes, closed, cancelled, up, starts,
                     token, demand, applied, timer, current, offered>>
  BY <1>1, InHand, ActKept DEF IInv
<1>3. loop' \in LoopState /\ loop'.pc = "busy" /\ loop'.op = i /\ loop'.ver = loop.ver
  BY <1>1, <1>2, GotoOf DEF LoopStates
<1>4. /\ rows[i].state = "running" /\ execs[i] = 0 /\ execs' \in [Ids -> Nat] /\ execs'[i] = 1
      /\ \A j \in Ids : j # i => execs'[j] = execs[j]
  BY <1>1, <1>2 DEF Recorded, Underway, Shape
<1>5. Shape' /\ Versions' /\ WhenDown'
  BY <1>1, <1>2, <1>3, <1>4 DEF IInv, Shape, Versions, WhenDown
<1>6. Line' /\ Retired'
  BY <1>1, <1>2, <1>3, LineKept, RetiredKept DEF IInv
<1>7. Recorded'
  <2>1. Rowed' /\ Unmade' /\ Underway'
    BY <1>1, <1>2, <1>3, <1>4 DEF Recorded, Rowed, Unmade, Underway
  <2>2. OutcomeHonest'
    BY <1>1, <1>2, <1>4, StatesApart DEF Recorded, OutcomeHonest, Absent
  <2>3. Saved'
    BY <1>1, <1>2, <1>3, <1>4 DEF Recorded, Saved
  <2> QED BY <2>1, <2>2, <2>3 DEF Recorded
<1> QED BY <1>5, <1>6, <1>7 DEF IInv

\* What became of the operation is recorded, unless the journal fails.
LEMMA SaveStep ==
  ASSUME IInv, up, ActSave
  PROVE  IInv'
<1> DEFINE i == loop.op
<1>1. loop.pc = "busy" /\ loop.pc \in Acting /\ ActKeeps /\ Ended /\ execs' = execs
  BY DEF ActSave, Acting
<1>2. /\ Shape /\ Rowed /\ Recorded /\ i \in Ids /\ sub[i].pc = "queued" /\ UNCHANGED <<next, disowned, up>>
      /\ rows[i].state = "running" /\ execs[i] = 1
  BY <1>1, InHand, ActKept DEF IInv, Recorded, Underway
<1>3. PICK s \in Outcomes : Attempted(i, "running", s, Fault)
  BY DEF ActSave
<1>4. /\ rows' \in [Ids -> Row] /\ Rowed' /\ faults' \in Nat /\ faults' >= faults
      /\ rows' = rows \/ rows'[i].state = s
      /\ \A j \in Ids : j # i => rows'[j] = rows[j]
  <2>1. "running" \in States /\ s \in States
    BY StatesApart
  <2> QED BY <1>2, <1>3, <2>1, AttemptOf
<1>5. rows' = rows => faults' > 0
  <2>1. CanMove(rows, i, "running", s)
    BY <1>2 DEF CanMove, Edges, Outcomes
  <2>2. Move(rows, i, s)[i].state = s /\ s # "running"
    BY <1>2 DEF Move, Shape, Row, Outcomes
  <2>3. rows' = rows => Fault
    BY <1>2, <1>3, <2>1, <2>2 DEF Attempted, Moved, NotMoved
  <2> QED BY <1>2, <2>3 DEF Fault, Shape
<1>6. loop'.pc = "poll" /\ Shape' /\ Versions' /\ WhenDown' /\ Line' /\ Retired'
      /\ sub'[i].pc = "over" /\ \A j \in Ids : j # i => sub'[j] = sub[j]
  BY <1>1, <1>4, EndedOf
<1>7. Recorded'
  <2>1. Unmade'
    BY <1>1, <1>2, <1>4, <1>6 DEF Recorded, Unmade
  <2>2. Underway'
    BY <1>6 DEF Underway
  <2>3. OutcomeHonest'
    <3>1. s # "pending" /\ s # "discarded" /\ s # Absent
      BY DEF Outcomes, Absent
    <3> QED BY <1>1, <1>2, <1>4, <3>1 DEF Recorded, OutcomeHonest
  <2>4. Saved'
    <3>1. s # "running"
      BY DEF Outcomes
    <3> QED BY <1>1, <1>2, <1>4, <1>5, <3>1 DEF Recorded, Saved, Shape
  <2> QED BY <1>4, <2>1, <2>2, <2>3, <2>4 DEF Recorded
<1> QED BY <1>6, <1>7 DEF IInv

-----------------------------------------------------------------------------
(* The process, and whoever stands beside it.                               *)

\* The process ends; its rows stay as they are.
LEMMA GoneStep ==
  ASSUME IInv, Gone
  PROVE  IInv'
<1>1. /\ Shape /\ UNCHANGED <<rows, next, faults, changes, starts, execs, disowned>>
      /\ up' = FALSE /\ loop' = Starting /\ current' = NoUpdate /\ commands' = <<>> /\ stale' = Fresh
      /\ version' = 0 /\ applied' = 0 /\ ui' = "idle" /\ offered' = {}
      /\ visible' = TRUE /\ token' = FALSE /\ closed' = FALSE /\ cancelled' = FALSE /\ demand' = FALSE /\ timer' = FALSE
      /\ sub' = [i \in Ids |-> IF sub[i].pc = "none" THEN NoSubmission ELSE Over]
  BY DEF IInv, Gone, journal
<1>2. /\ sub' \in [Ids -> Sub] /\ \A i \in Ids : sub'[i].gen = 0 /\ sub'[i].pc \in {"none", "over"}
      /\ \A i \in Ids : sub'[i].pc = "none" => sub[i].pc = "none"
  BY <1>1, SubsApart
<1>3. loop' \in LoopState /\ loop'.pc = "start" /\ loop'.ver = 0
  BY <1>1, BackTo
<1>4. current' \in Answers /\ current'.gen = 0
  BY <1>1 DEF NoUpdate, Answers
<1>5. stale' \in [ops : SUBSET Ids, data : BOOLEAN, poll : BOOLEAN] /\ stale'.ops = {} /\ ~ stale'.data
  BY <1>1 DEF Fresh
<1>6. commands' \in Seq(Ids) /\ Len(commands') = 0
  BY <1>1
<1>7. Shape'
  BY <1>1, <1>2, <1>3, <1>4, <1>5, <1>6 DEF Shape
<1>8. Versions' /\ WhenDown'
  BY <1>1, <1>2, <1>3, <1>4 DEF Shape, IInv, Versions, WhenDown
<1>9. Line' /\ Retired'
  BY <1>3, <1>5, <1>6 DEF Line, Retired, Acting
<1>10. Recorded'
  BY <1>1, <1>2, <1>3, RecordedKept DEF IInv
<1> QED BY <1>7, <1>8, <1>9, <1>10 DEF IInv

\* The next process recovers the journal: what ran and was not settled is uncertain,
\* what had not started is discarded.
LEMMA StartStep ==
  ASSUME IInv, Start
  PROVE  IInv'
<1>1. /\ Shape /\ Recorded /\ ~ up /\ up' = TRUE /\ rows' = Recover(rows) /\ starts' = starts + 1
      /\ UNCHANGED <<next, faults, visible, version, token, ui, changes, closed, cancelled, demand, applied, timer,
                     current, offered, loop, sub, commands, execs, stale, disowned>>
  BY DEF IInv, Start, visibility, upkeep, submissions
<1>2. ASSUME NEW i \in Ids
      PROVE  /\ rows'[i] \in Row /\ rows'[i].req = rows[i].req /\ rows'[i].seq = rows[i].seq
             /\ \/ (rows'[i].state = rows[i].state /\ rows[i].state \notin {"pending", "running"})
                \/ (rows[i].state = "pending" /\ rows'[i].state = "discarded")
                \/ (rows[i].state = "running" /\ rows'[i].state = "uncertain")
  <2>1. CASE rows[i].state = Absent
    BY <1>1, <2>1 DEF Shape, Recover, Absent
  <2>2. CASE rows[i].state # Absent
    <3>1. rows[i] \in Row /\ rows[i].req = Request
      BY <1>1, <2>2 DEF Shape, Recorded, Rowed
    <3>2. rows'[i] = [rows[i] EXCEPT !.state = RecoveredState(rows[i].state, "discard-on-restart")]
      BY <1>1, <2>2, <3>1 DEF Recover
    <3>3. RecoveredState(rows[i].state, "discard-on-restart") =
            IF rows[i].state = "running" THEN "uncertain"
            ELSE IF rows[i].state = "pending" THEN "discarded" ELSE rows[i].state
      BY DEF RecoveredState
    <3>4. RecoveredState(rows[i].state, "discard-on-restart") \in States
      BY <2>2, <3>1, <3>3, StatesApart DEF Row
    <3> QED BY <3>1, <3>2, <3>3, <3>4 DEF Row
  <2> QED BY <2>1, <2>2
<1>3. rows' \in [Ids -> Row]
  <2>1. rows' = [i \in Ids |-> rows'[i]]
    BY <1>1 DEF Recover
  <2> QED BY <1>2, <2>1
<1>4. Shape'
  BY <1>1, <1>3 DEF Shape
<1>5. Versions' /\ WhenDown'
  BY <1>1 DEF IInv, Versions, WhenDown
<1>6. Line' /\ Retired'
  BY <1>1, LineKept, RetiredKept DEF IInv
<1>7. Recorded'
  <2>1. \A i \in Ids : rows'[i].state = Absent <=> rows[i].state = Absent
    BY <1>2, StatesApart DEF Absent
  <2>2. Rowed'
    BY <1>1, <1>2, <2>1 DEF Recorded, Rowed
  <2>3. Unmade'
    BY <1>1, <2>1 DEF Recorded, Unmade
  <2>4. Underway'
    BY <1>1 DEF IInv, WhenDown, Underway
  <2>5. OutcomeHonest'
    <3> SUFFICES ASSUME NEW i \in Ids
                 PROVE  /\ execs[i] <= 1
                        /\ rows'[i].state \in Applied => execs[i] = 1
                        /\ rows'[i].state = "pending" => execs[i] = 0
                        /\ rows'[i].state = Absent /\ next - 1 <= RecentHistory => execs[i] = 0
                        /\ rows'[i].state = "discarded" /\ i \notin disowned => execs[i] = 0
      BY <1>1 DEF OutcomeHonest
    <3>1. CASE rows'[i].state = rows[i].state
      BY <1>1, <3>1 DEF Recorded, OutcomeHonest
    <3>2. CASE rows[i].state = "pending" /\ rows'[i].state = "discarded"
      <4>1. execs[i] = 0
        BY <1>1, <3>2 DEF Recorded, OutcomeHonest
      <4> QED BY <3>2, <4>1, StatesApart DEF Absent
    <3>3. CASE rows[i].state = "running" /\ rows'[i].state = "uncertain"
      BY <1>1, <3>3, StatesApart DEF Absent, Recorded, OutcomeHonest
    <3> QED BY <1>2, <3>1, <3>2, <3>3
  <2>6. Saved'
    BY <1>2 DEF Saved
  <2> QED BY <2>2, <2>3, <2>4, <2>5, <2>6 DEF Recorded
<1> QED BY <1>4, <1>5, <1>6, <1>7 DEF IInv

\* A user discards from the command line what is uncertain.
LEMMA CliStep ==
  ASSUME IInv, NEW i \in Ids, CliDiscard(i)
  PROVE  IInv'
<1>1. /\ Shape /\ Recorded /\ rows[i].state = "uncertain" /\ rows' = Move(rows, i, "discarded")
      /\ disowned' = disowned \cup {i}
      /\ UNCHANGED <<next, faults, visible, version, token, ui, changes, closed, cancelled, up, starts,
                     demand, applied, timer, current, offered, loop, sub, commands, execs, stale>>
  BY DEF IInv, CliDiscard, CanMove, visibility, life, upkeep, submissions
<1>2. /\ rows' \in [Ids -> Row] /\ rows'[i].state = "discarded"
      /\ rows'[i].req = rows[i].req /\ rows'[i].seq = rows[i].seq
      /\ \A j \in Ids : j # i => rows'[j] = rows[j]
  BY <1>1, MovedRow, StatesApart
<1>3. Shape'
  BY <1>1, <1>2 DEF Shape
<1>4. Versions' /\ WhenDown'
  BY <1>1 DEF IInv, Versions, WhenDown
<1>5. Line' /\ Retired'
  BY <1>1, LineKept, RetiredKept DEF IInv
<1>6. Recorded'
  <2>1. Rowed'
    BY <1>1, <1>2 DEF Recorded, Rowed, Absent
  <2>2. Unmade'
    BY <1>1, <1>2 DEF Recorded, Unmade, Absent
  <2>3. Underway'
    <3>1. loop.pc \in {"run", "busy"} => loop.op \in Ids /\ rows[loop.op].state = "running"
      BY <1>1 DEF IInv, Line, Acting, Recorded, Underway
    <3> QED BY <1>1, <1>2, <3>1 DEF Recorded, Underway
  <2>4. OutcomeHonest'
    BY <1>1, <1>2, StatesApart DEF Recorded, OutcomeHonest, Absent
  <2>5. Saved'
    BY <1>1, <1>2 DEF Recorded, Saved
  <2> QED BY <2>1, <2>2, <2>3, <2>4, <2>5 DEF Recorded
<1> QED BY <1>3, <1>4, <1>5, <1>6 DEF IInv

-----------------------------------------------------------------------------
(* The invariant of the specification, and what follows.                    *)

\* A component that is started for the first time has done nothing.
LEMMA InitIInv == Init => IInv
<1> SUFFICES ASSUME Init PROVE IInv
  OBVIOUS
<1>1. /\ \A i \in Ids : rows[i].state = Absent /\ sub[i].pc = "none" /\ sub[i].gen = 0 /\ execs[i] = 0
      /\ rows \in [Ids -> Row] /\ sub \in [Ids -> Sub] /\ execs \in [Ids -> Nat] /\ next = 1
  BY StatesApart DEF Init, EmptyTable, NoSubmission, Sub, SubStates
<1>2. loop \in LoopState /\ loop.pc = "start" /\ loop.ver = 0
  BY DEF Init, Starting, LoopState, LoopStates
<1>3. current \in Answers /\ current.gen = 0
  BY DEF Init, NoUpdate, Answers
<1>4. stale \in [ops : SUBSET Ids, data : BOOLEAN, poll : BOOLEAN] /\ stale.ops = {} /\ ~ stale.data
  BY DEF Init, Fresh
<1>5. commands \in Seq(Ids) /\ Len(commands) = 0
  BY DEF Init
<1>6. Shape
  <2>1. /\ visible \in BOOLEAN /\ token \in BOOLEAN /\ closed \in BOOLEAN /\ cancelled \in BOOLEAN
        /\ up \in BOOLEAN /\ demand \in BOOLEAN /\ timer \in BOOLEAN
    BY DEF Init
  <2>2. /\ ui = "idle" /\ version = 0 /\ applied = 0 /\ changes = 0 /\ faults = 0 /\ starts = 0
        /\ offered = {} /\ disowned = {}
    BY DEF Init
  <2> QED BY <1>1, <1>2, <1>3, <1>4, <1>5, <2>1, <2>2 DEF Shape
<1>7. Versions /\ WhenDown /\ Line /\ Retired
  BY <1>1, <1>2, <1>3, <1>4, <1>5 DEF Init, Versions, WhenDown, Line, Retired, Acting
<1>8. Recorded
  BY <1>1, <1>2, StatesApart DEF Init, Recorded, Rowed, Unmade, Underway, OutcomeHonest, Saved, Absent
<1> QED BY <1>6, <1>7, <1>8 DEF IInv

\* Every step keeps it.
LEMMA StepIInv == IInv /\ [Next]_vars => IInv'
<1> SUFFICES ASSUME IInv, [Next]_vars PROVE IInv'
  OBVIOUS
<1>1. CASE SetVisible \/ Setting \/ Interrupt \/ Close
  BY <1>1, TerminalStep DEF Setting
<1>2. CASE \E i \in Ids, a \in Argvs : Submit(i, a)
  BY <1>2, SubmitStep
<1>3. CASE \E i \in Ids : Submitting(i) \/ CliDiscard(i)
  BY <1>3, AcceptStep, SendStep, CliStep DEF Submitting
<1>4. CASE up /\ Loop
  BY <1>4, QuietStep, TakeStep, CheckStep, RefuseStep, MarkStep, RunStep, SaveStep DEF Loop, Quiet, Act
<1>5. CASE Exit \/ Crash
  BY <1>5, GoneStep DEF Exit, Crash
<1>6. CASE Start
  BY <1>6, StartStep
<1>7. CASE UNCHANGED vars
  BY <1>7 DEF vars, journal, visibility, life, upkeep, submissions, IInv, Shape, Versions, WhenDown, Line, Retired,
              Recorded, Rowed, Unmade, Underway, OutcomeHonest, Saved
<1> QED BY <1>1, <1>2, <1>3, <1>4, <1>5, <1>6, <1>7 DEF Next

\* The invariant holds of every behaviour.
THEOREM Inductive == Spec => []IInv
BY InitIInv, StepIInv, PTL DEF Spec

\* An operation runs at most once whatever crashes, answers of the journal that are
\* lost and starts come between, and its row never denies it (action.go, engine.go).
THEOREM OutcomesAreHonest == Spec => []OutcomesHonest
<1>1. ASSUME IInv PROVE TypeOK
  <2>1. Shape /\ Versions /\ Line
    BY <1>1 DEF IInv
  <2>2. rows \in [Ids -> Row] /\ next \in Nat /\ ui \in {"idle", "bump", "signal"} /\ disowned \subseteq Ids
    BY <2>1 DEF Shape
  <2>3. {visible, token, closed, cancelled, up, demand, timer} \subseteq BOOLEAN
    BY <2>1 DEF Shape
  <2>4. version \in 0 .. MaxChanges /\ applied \in 0 .. version
    BY <2>1 DEF Shape, Versions
  <2>5. loop.pc \in LoopStates /\ loop.ver \in 0 .. version
    BY <2>1 DEF Shape, Versions, LoopState
  <2>6. current \in Answers /\ current.gen <= version
    BY <2>1 DEF Shape, Versions
  <2>7. \A i \in Ids : sub[i].pc \in SubStates /\ sub[i].gen \in 0 .. version
    BY <2>1, SubsApart DEF Shape, Versions
  <2>8. Len(commands) <= QueueLimit /\ \A k \in DOMAIN commands : sub[commands[k]].pc = "queued"
    <3>1. commands \in Seq(Ids)
      BY <2>1 DEF Shape
    <3> QED BY <2>1, <3>1 DEF Line
  <2>9. stale.ops \subseteq Ids
    BY <2>1 DEF Shape
  <2> QED BY <2>2, <2>3, <2>4, <2>5, <2>6, <2>7, <2>8, <2>9 DEF TypeOK
<1>2. IInv => OutcomesHonest
  BY <1>1 DEF IInv, Recorded, OutcomesHonest
<1> QED BY <1>2, Inductive, PTL

\* The step by which an action is admitted admits what the last change of visibility
\* has not retired, on data of a poll that began after it (engine.go's allows).
LEMMA AdmittedStep ==
  ASSUME IInv, [Next]_vars, loop.pc = "check", loop'.pc = "mark"
  PROVE  loop.op \notin stale.ops /\ ~ stale.data
<1>1. Shape /\ Versions /\ Line /\ Retired /\ loop.op \in Ids /\ sub[loop.op].pc = "queued" /\ loop \in LoopState
  BY DEF IInv, Line, Acting, Shape
<1>2. loop' # loop /\ loop' # Starting
  BY <1>1, BackTo
<1>3. up /\ Loop
  BY <1>2 DEF Next, vars, SetVisible, Setting, Bump, Signal, Submit, Submitting, SubmitAccept, SubmitSend, CliDiscard,
             Interrupt, Close, Exit, Crash, Gone, Start
<1>4. ActCheck
  BY <1>3 DEF Loop, Poll, Act, LoopStart, LoopApplied, TakeCommand, TakeToken, Tick, TakeStop, TokenVersion,
             TokenDemand, LoopStop, PollBegin, PollReturn, PollCompare, ActSee, ActRefuse, ActMark, ActRun, ActSave
<1>5. Admitted(loop.op)
  <2>1. Goto("refuse") => loop'.pc = "refuse"
    BY <1>1, GotoOf DEF LoopStates
  <2> QED BY <1>4, <2>1 DEF ActCheck
<1>6. sub[loop.op].gen = version /\ current.gen = version /\ version \in Nat
  BY <1>1, <1>5 DEF Admitted, Shape
<1> QED BY <1>1, <1>6 DEF Retired

\* The step by which a process ends in order has nothing at work and nothing that
\* ran and was not settled, unless the journal failed (engine.go's close).
LEMMA ExitStep ==
  ASSUME IInv, Exit, NEW i \in Ids
  PROVE  /\ sub[i].pc \notin {"accept", "send"}
         /\ execs[i] > 0 /\ rows[i].state = "running" => faults > 0
<1>1. up
  BY DEF Exit, IInv, WhenDown
<1> QED BY <1>1 DEF Exit, Joined, IInv, Recorded, Saved

\* Nothing is admitted that was retired, and no process ends before its submissions
\* and its outcomes, however the terminal, the taps, the loop and the end interleave.
THEOREM StepsAreInOrder == Spec => StepsInOrder
<1>1. IInv /\ [Next]_vars =>
        [loop.pc = "check" /\ loop'.pc = "mark" => loop.op \notin stale.ops /\ ~ stale.data]_vars
  BY AdmittedStep
<1>2. IInv /\ [Next]_vars =>
        [Exit => \A i \in Ids : /\ sub[i].pc \notin {"accept", "send"}
                                /\ execs[i] > 0 /\ rows[i].state = "running" => faults > 0]_vars
  BY ExitStep
<1> QED BY <1>1, <1>2, Inductive, PTL DEF Spec, StepsInOrder, AdmittedIsCurrent, EndsInOrder
=============================================================================
