------------------------------ MODULE BusProofs ------------------------------
(***************************************************************************)
(* The parts of the bus are safe whatever their constants: the supervisor  *)
(* of the caffeinate child, by an induction of its own, and what MCBus     *)
(* checks of its parts, each from the theorems of its component.           *)
(***************************************************************************)
EXTENDS MCBus, TLAPS

(* The caffeinate child, for any pids, buses, changes and failures: Power!IInv is inductive.  *)

LEMMA PowerInit == Power!PowerAssumption /\ Power!Init => Power!IInv
<1> SUFFICES ASSUME Power!PowerAssumption, Power!Init PROVE Power!IInv
  OBVIOUS
<1>1. Power!Free \in Power!Process /\ [Power!Free EXCEPT !.is = "ours"] \in Power!Process
  BY DEF Power!Free, Power!Process
<1>2. \A p \in Pids : /\ procs[p] \in Power!Process /\ procs[p].of = 0 /\ ~procs[p].guard
                      /\ procs[p].is = IF p = file THEN "ours" ELSE "free"
  BY <1>1 DEF Power!Init, Power!Free
<1>3. procs \in [Pids -> Power!Process]
  BY <1>1 DEF Power!Init
<1>4. Power!Shape
  BY <1>3 DEF Power!Init, Power!Shape, Power!Loops, Power!PowerAssumption
<1> QED BY <1>2, <1>4 DEF Power!Init, Power!IInv, Power!Past, Power!Left, Power!Leftover, Power!Aimed, Power!Mine,
      Power!Places, Power!Covered, Power!Watched, Power!Quiet, Power!Active, Power!NothingElseKilled

\* The bus comes and goes.
LEMMA PowerLifeKeeps ==
  ASSUME Power!PowerAssumption, Power!IInv, (\E on \in BOOLEAN : Power!Start(on)) \/ Power!Shutdown \/ Power!End \/ Power!Killed
  PROVE  Power!IInv'
<1>1. CASE \E on \in BOOLEAN : Power!Start(on)
  <2>1. PICK on \in BOOLEAN : Power!Start(on)
    BY <1>1
  <2>2. Power!Shape'
    BY <2>1 DEF Power!Start, Power!Fresh, Power!IInv, Power!Shape, Power!Loops
  <2>3. \A p \in Pids : procs[p].of \in Nat
    BY DEF Power!IInv, Power!Shape, Power!Process
  <2>4. Power!Past' /\ Power!Mine'
    BY <2>1, <2>3 DEF Power!Start, Power!IInv, Power!Past, Power!Mine, Power!Shape
  <2>5. Power!Left' /\ Power!Aimed' /\ Power!Places' /\ Power!Covered' /\ Power!NothingElseKilled'
    BY <2>1 DEF Power!Start, Power!Fresh, Power!IInv, Power!Left, Power!Leftover, Power!Aimed, Power!Places,
          Power!Covered, Power!NothingElseKilled
  <2>6. Power!Watched'
    BY <2>1 DEF Power!Start, Power!Watched
  <2> QED BY <2>2, <2>4, <2>5, <2>6 DEF Power!IInv
<1>2. CASE Power!Shutdown \/ Power!End
  <2>1. Power!Shape'
    BY <1>2 DEF Power!Shutdown, Power!End, Power!wish, Power!child, Power!IInv, Power!Shape
  <2>2. /\ UNCHANGED <<procs, file, bus, loop, Power!child, target, harmed>> /\ run # "down"
        /\ run' \in {"down", "stopping"} /\ (run' = "down" => loop = "over")
    BY <1>2 DEF Power!Shutdown, Power!End
  <2> QED BY <2>1, <2>2 DEF Power!child, Power!IInv, Power!Past, Power!Left, Power!Leftover, Power!Aimed, Power!Mine,
        Power!Places, Power!Covered, Power!Watched, Power!Quiet, Power!NothingElseKilled
<1>3. CASE Power!Killed
  <2>1. Power!Shape'
    BY <1>3 DEF Power!Killed, Power!Unlucky, Power!Fresh, Power!IInv, Power!Shape, Power!Loops
  <2>2. /\ UNCHANGED <<procs, file, bus, harmed>> /\ run' = "down" /\ loop' = "over" /\ proc' = None /\ pid' = None
    BY <1>3 DEF Power!Killed, Power!Fresh
  <2> QED BY <2>1, <2>2 DEF Power!IInv, Power!Past, Power!Left, Power!Leftover, Power!Aimed, Power!Mine, Power!Places,
        Power!Covered, Power!Watched, Power!Quiet, Power!NothingElseKilled
<1> QED BY <1>1, <1>2, <1>3

\* A change of the wish is owed until its kick, and a kick until the loop
\* looks again.
LEMMA PowerWishKeeps ==
  ASSUME Power!PowerAssumption, Power!IInv, (\E x \in BOOLEAN : Power!Set(x) \/ Power!SetAvailable(x)) \/ Power!Kick \/ Power!Lapse
  PROVE  Power!IInv'
<1>1. Power!Shape'
  <2>1. CASE \E x \in BOOLEAN : Power!Set(x) \/ Power!SetAvailable(x)
    BY <2>1 DEF Power!Set, Power!SetAvailable, Power!child, Power!IInv, Power!Shape, Power!PowerAssumption
  <2>2. CASE Power!Kick
    BY <2>2 DEF Power!Kick, Power!Kicked, Power!child, Power!IInv, Power!Shape
  <2>3. CASE Power!Lapse
    BY <2>3 DEF Power!Lapse, Power!wish, Power!IInv, Power!Shape
  <2> QED BY <2>1, <2>2, <2>3
<1>2. UNCHANGED <<procs, file, bus, run, loop, proc, died, pid, timer, unwritten, target, harmed>>
  BY DEF Power!Set, Power!SetAvailable, Power!Kick, Power!Lapse, Power!child
<1>3. owed' > 0 \/ kick' \/ (UNCHANGED Power!wish /\ UNCHANGED kick)
  BY DEF Power!Set, Power!SetAvailable, Power!Kick, Power!Kicked, Power!Lapse, Power!IInv, Power!Shape
<1> QED BY <1>1, <1>2, <1>3 DEF Power!wish, Power!IInv, Power!Past, Power!Left, Power!Leftover, Power!Aimed,
      Power!Mine, Power!Places, Power!Covered, Power!Watched, Power!Quiet, Power!Active, Power!NothingElseKilled

\* Recovery of the pidfile: only a caffeinate is signalled, and the one that
\* was left behind is, before the loop goes on.
LEMMA PowerReapKeeps ==
  ASSUME Power!PowerAssumption, Power!IInv, Power!Reap \/ Power!ReapKill
  PROVE  Power!IInv'
<1>1. CASE Power!Reap
  <2>1. Power!Shape'
    BY <1>1 DEF Power!Reap, Power!To, Power!DropPid, Power!Lucky, Power!Unlucky, Power!wish, Power!child, Power!IInv,
          Power!Shape, Power!Loops
  <2>2. /\ loop = "reap" /\ run # "down" /\ UNCHANGED <<procs, bus, run, proc, died, pid, unwritten, harmed>>
        /\ loop' \in {"over", "reap", "kill", "check"}
    BY <1>1 DEF Power!Reap, Power!To, Power!child, Power!IInv, Power!Shape, Power!Places
  <2>3. loop' = "kill" => target' = file /\ file \in Pids /\ Power!IsCaff(file) /\ file' = file
    BY <1>1, <2>2 DEF Power!Reap, Power!To
  <2>4. loop' \in {"over", "reap"} => file' = file
    BY <1>1, <2>2 DEF Power!Reap, Power!To
  <2>5. loop' = "check" => file \notin Pids \/ ~Power!IsCaff(file)
    BY <1>1, <2>2 DEF Power!Reap, Power!To, Power!PowerAssumption
  <2>6. Power!Left'
    BY <2>2, <2>3, <2>4, <2>5 DEF Power!IInv, Power!Left, Power!Leftover, Power!IsCaff
  <2>7. Power!Aimed' /\ Power!Places' /\ Power!Covered' /\ Power!Watched'
    BY <2>2, <2>3 DEF Power!IInv, Power!Aimed, Power!Places, Power!Covered, Power!Watched, Power!IsCaff, Power!Shape
  <2> QED BY <2>1, <2>2, <2>6, <2>7 DEF Power!IInv, Power!Past, Power!Mine, Power!NothingElseKilled
<1>2. CASE Power!ReapKill
  <2>1. /\ loop = "kill" /\ target' = None /\ target \in Pids /\ target = file
        /\ procs[target].is \in {"free", "ours", "users"} /\ procs[target] \in Power!Process
        /\ UNCHANGED <<bus, run, Power!wish, kick, Power!child>>
    BY <1>2 DEF Power!ReapKill, Power!IInv, Power!Aimed, Power!Shape, Power!Process
  <2>2. CASE procs[target].is = "free"
    <3>1. loop' = "reap" /\ UNCHANGED <<procs, file, harmed, trouble>>
      BY <1>2, <2>2 DEF Power!ReapKill, Power!To, Power!Lucky
    <3>2. Power!Shape'
      BY <2>1, <3>1 DEF Power!wish, Power!child, Power!IInv, Power!Shape, Power!Loops
    <3> QED BY <2>1, <3>1, <3>2 DEF Power!child, Power!IInv, Power!Past, Power!Left, Power!Leftover, Power!Aimed,
          Power!Mine, Power!Places, Power!Covered, Power!Watched, Power!NothingElseKilled
  <2>3. CASE procs[target].is # "free"
    <3>1. /\ procs' = [procs EXCEPT ![target].term = TRUE] /\ loop' = "check" /\ Power!DropPid
          /\ harmed' = (harmed \/ procs[target].is = "other")
      BY <1>2, <2>3 DEF Power!ReapKill, Power!To
    <3>2. /\ procs'[target] = [procs[target] EXCEPT !.term = TRUE] /\ procs' \in [Pids -> Power!Process]
          /\ \A p \in Pids : p # target => procs'[p] = procs[p]
      BY <2>1, <3>1 DEF Power!IInv, Power!Shape, Power!Process
    <3>3. /\ procs'[target].term /\ procs'[target].is = procs[target].is /\ procs'[target].of = procs[target].of
      BY <2>1, <3>2 DEF Power!Process
    <3>4. Power!Shape'
      BY <2>1, <3>1, <3>2 DEF Power!DropPid, Power!Lucky, Power!Unlucky, Power!wish, Power!child, Power!IInv,
            Power!Shape, Power!Loops
    <3>5. Power!Past' /\ Power!Mine'
      <4>1. \A p \in Pids : procs'[p].is = procs[p].is /\ procs'[p].of = procs[p].of
        BY <3>2, <3>3
      <4> QED BY <2>1, <4>1 DEF Power!child, Power!IInv, Power!Past, Power!Mine
    <3>6. Power!Left'
      BY <2>1, <3>2, <3>3 DEF Power!IInv, Power!Left, Power!Leftover
    <3>7. Power!NothingElseKilled'
      BY <2>1, <3>1 DEF Power!IInv, Power!NothingElseKilled
    <3>8. Power!Aimed' /\ Power!Places' /\ Power!Covered' /\ Power!Watched'
      BY <2>1, <3>1 DEF Power!child, Power!IInv, Power!Aimed, Power!Places, Power!Covered, Power!Watched
    <3> QED BY <3>4, <3>5, <3>6, <3>7, <3>8 DEF Power!IInv
  <2> QED BY <2>2, <2>3
<1> QED BY <1>1, <1>2

\* The rounds of the loop.
LEMMA PowerRoundKeeps ==
  ASSUME Power!PowerAssumption, Power!IInv, Power!Check \/ Power!SpawnFails \/ Power!SetPid \/ Power!Arm \/ Power!WritePid
  PROVE  Power!IInv'
<1>1. CASE Power!Check
  <2>1. Power!Shape'
    BY <1>1 DEF Power!Check, Power!To, Power!Ending, Power!wish, Power!IInv, Power!Shape, Power!Loops
  <2>2. /\ loop = "check" /\ loop' \in {"over", "stop", "arm"}
        /\ loop' = "over" => proc = None
        /\ loop' = "stop" => proc # None
        /\ loop' = "arm" => Power!Active \/ proc = None
        /\ UNCHANGED <<procs, file, bus, run, Power!wish, kick, proc, died, pid, unwritten, target, harmed>>
    BY <1>1 DEF Power!Check, Power!To, Power!Ending
  <2> QED BY <2>1, <2>2 DEF Power!wish, Power!IInv, Power!Past, Power!Left, Power!Leftover, Power!Aimed, Power!Mine,
        Power!Places, Power!Covered, Power!Watched, Power!Quiet, Power!Active, Power!NothingElseKilled
<1>2. CASE Power!SpawnFails
  <2>1. Power!Shape'
    BY <1>2 DEF Power!SpawnFails, Power!To, Power!Unlucky, Power!wish, Power!IInv, Power!Shape, Power!Loops
  <2>2. /\ loop = "check" /\ loop' = "arm" /\ proc = None
        /\ UNCHANGED <<procs, file, bus, run, Power!wish, kick, proc, died, pid, unwritten, target, harmed>>
    BY <1>2 DEF Power!SpawnFails, Power!To
  <2> QED BY <2>1, <2>2 DEF Power!wish, Power!IInv, Power!Past, Power!Left, Power!Leftover, Power!Aimed, Power!Mine,
        Power!Places, Power!Covered, Power!Watched, Power!Quiet, Power!Active, Power!NothingElseKilled
<1>3. CASE Power!WritePid
  <2>1. Power!Shape'
    BY <1>3 DEF Power!WritePid, Power!To, Power!Lucky, Power!Unlucky, Power!wish, Power!IInv, Power!Shape, Power!Loops
  <2>2. /\ loop = "write" /\ loop' = "show" /\ (file' = proc \/ unwritten')
        /\ UNCHANGED <<procs, bus, run, Power!wish, kick, proc, died, pid, target, harmed>>
    BY <1>3 DEF Power!WritePid, Power!To
  <2> QED BY <2>1, <2>2 DEF Power!wish, Power!IInv, Power!Past, Power!Left, Power!Leftover, Power!Aimed, Power!Mine,
        Power!Places, Power!Covered, Power!Watched, Power!Quiet, Power!Active, Power!NothingElseKilled
<1>4. CASE Power!SetPid
  <2>1. Power!Shape'
    BY <1>4 DEF Power!SetPid, Power!To, Power!wish, Power!IInv, Power!Shape, Power!Loops
  <2>2. /\ loop = "show" /\ loop' = "arm" /\ pid' = proc
        /\ UNCHANGED <<procs, file, bus, run, Power!wish, kick, proc, died, unwritten, target, harmed>>
    BY <1>4 DEF Power!SetPid, Power!To
  <2> QED BY <2>1, <2>2 DEF Power!wish, Power!IInv, Power!Past, Power!Left, Power!Leftover, Power!Aimed, Power!Mine,
        Power!Places, Power!Covered, Power!Watched, Power!Quiet, Power!Active, Power!NothingElseKilled
<1>5. CASE Power!Arm
  <2>1. Power!Shape'
    BY <1>5 DEF Power!Arm, Power!To, Power!Active, Power!wish, Power!IInv, Power!Shape, Power!Loops
  <2>2. /\ loop = "arm" /\ loop' = "wait" /\ timer' = (Power!Active /\ proc = None)
        /\ UNCHANGED <<procs, file, bus, run, Power!wish, kick, proc, died, pid, unwritten, target, harmed>>
    BY <1>5 DEF Power!Arm, Power!To
  <2> QED BY <2>1, <2>2 DEF Power!wish, Power!IInv, Power!Past, Power!Left, Power!Leftover, Power!Aimed, Power!Mine,
        Power!Places, Power!Covered, Power!Watched, Power!Quiet, Power!Active, Power!NothingElseKilled
<1> QED BY <1>1, <1>2, <1>3, <1>4, <1>5

\* The child: born when the loop holds none, given up when it is gone.
LEMMA PowerChildKeeps ==
  ASSUME Power!PowerAssumption, Power!IInv, (\E p \in Pids : Power!Spawn(p)) \/ Power!Stop \/ Power!Wake
  PROVE  Power!IInv'
<1>1. CASE \E p \in Pids : Power!Spawn(p)
  <2>1. PICK p \in Pids : Power!Spawn(p)
    BY <1>1
  <2> DEFINE born == [is |-> "ours", of |-> bus, guard |-> TRUE, term |-> FALSE]
  <2>2. /\ loop = "check" /\ run = "up" /\ Power!Active /\ proc = None /\ loop' = "write" /\ proc' = p /\ died' = FALSE
        /\ procs' = [procs EXCEPT ![p] = born]
        /\ UNCHANGED <<file, bus, run, Power!wish, kick, pid, cool, timer, target, unwritten, harmed, trouble>>
    BY <2>1 DEF Power!Spawn, Power!To
  <2>3. born \in Power!Process
    BY DEF Power!Process, Power!IInv, Power!Shape
  <2>4. /\ procs'[p] = born /\ procs' \in [Pids -> Power!Process] /\ \A q \in Pids : q # p => procs'[q] = procs[q]
    BY <2>2, <2>3 DEF Power!IInv, Power!Shape
  <2>5. Power!Shape'
    BY <2>2, <2>4 DEF Power!wish, Power!IInv, Power!Shape, Power!Loops
  <2>6. Power!Past' /\ Power!Left' /\ Power!Mine'
    BY <2>2, <2>4 DEF Power!IInv, Power!Past, Power!Left, Power!Leftover, Power!Mine, Power!PowerAssumption,
          Power!Shape
  <2>7. Power!Aimed' /\ Power!Places' /\ Power!Covered' /\ Power!Watched' /\ Power!NothingElseKilled'
    BY <2>2 DEF Power!wish, Power!IInv, Power!Aimed, Power!Places, Power!Covered, Power!Watched, Power!Active,
          Power!NothingElseKilled, Power!PowerAssumption
  <2> QED BY <2>5, <2>6, <2>7 DEF Power!IInv
<1>2. CASE Power!Stop
  <2>1. /\ loop = "stop" /\ Power!Gone(proc) /\ proc' = None /\ died' = FALSE /\ pid' = None /\ Power!DropPid
        /\ loop' = (IF run = "stopping" THEN "over" ELSE "arm") /\ run # "down" /\ proc \in Pids
        /\ UNCHANGED <<bus, run, Power!wish, kick, timer, target, harmed>>
    BY <1>2 DEF Power!Stop, Power!To, Power!IInv, Power!Places, Power!Shape
  <2>2. /\ procs' \in [Pids -> Power!Process]
        /\ \A p \in Pids : (procs'[p] = procs[p] /\ (p = proc => died)) \/ procs'[p] = Power!Free
    BY <2>1 DEF Power!Gone, Power!Free, Power!Process, Power!IInv, Power!Shape
  <2>3. Power!Shape'
    BY <1>2, <2>1, <2>2 DEF Power!Stop, Power!DropPid, Power!Lucky, Power!Unlucky, Power!wish, Power!IInv,
          Power!Shape, Power!Loops
  <2>4. Power!Past' /\ Power!Left' /\ Power!Mine'
    BY <2>1, <2>2 DEF Power!IInv, Power!Past, Power!Left, Power!Leftover, Power!Mine, Power!Free, Power!Shape
  <2>5. Power!Aimed' /\ Power!Places' /\ Power!Covered' /\ Power!Watched' /\ Power!NothingElseKilled'
    BY <2>1 DEF Power!IInv, Power!Aimed, Power!Places, Power!Covered, Power!Watched, Power!NothingElseKilled
  <2> QED BY <2>3, <2>4, <2>5 DEF Power!IInv
<1>3. CASE Power!Wake
  <2>1. /\ loop = "wait" /\ UNCHANGED <<procs, bus, run, Power!wish, target, harmed>> /\ loop' \in {"over", "stop", "check"}
        /\ \/ died /\ proc' = None /\ died' = FALSE /\ pid' = None /\ loop' = "check"
           \/ UNCHANGED <<file, proc, died, pid, unwritten>>
        /\ loop' = "over" => proc' = None
        /\ loop' = "stop" => proc' # None
    BY <1>3 DEF Power!Wake, Power!To, Power!Ending
  <2>2. Power!Shape'
    BY <1>3 DEF Power!Wake, Power!To, Power!Ending, Power!DropPid, Power!Lucky, Power!Unlucky, Power!wish, Power!IInv,
          Power!Shape, Power!Loops
  <2>3. Power!Places' /\ Power!Covered' /\ Power!Watched'
    BY <2>1 DEF Power!IInv, Power!Places, Power!Covered, Power!Watched
  <2> QED BY <2>1, <2>2, <2>3 DEF Power!IInv, Power!Past, Power!Left, Power!Leftover, Power!Aimed, Power!Mine,
        Power!NothingElseKilled
<1> QED BY <1>1, <1>2, <1>3

\* Processes come and go around it.
LEMMA PowerSystemKeeps ==
  ASSUME Power!PowerAssumption, Power!IInv, NEW p \in Pids, Power!Exit(p) \/ \E is \in {"other", "users"} : Power!Other(p, is)
  PROVE  Power!IInv'
<1>1. CASE Power!Exit(p)
  <2>1. /\ procs' = [procs EXCEPT ![p] = Power!Free] /\ died' = (died \/ p = proc)
        /\ UNCHANGED <<file, bus, run, Power!wish, kick, loop, proc, pid, timer, unwritten, target, harmed>>
    BY <1>1 DEF Power!Exit
  <2>2. procs' \in [Pids -> Power!Process] /\ procs'[p] = Power!Free /\ \A q \in Pids : q # p => procs'[q] = procs[q]
    BY <2>1 DEF Power!IInv, Power!Shape, Power!Free, Power!Process
  <2>3. Power!Shape'
    BY <1>1, <2>1, <2>2 DEF Power!Exit, Power!Lucky, Power!Unlucky, Power!wish, Power!IInv, Power!Shape
  <2>4. Power!Past' /\ Power!Left' /\ Power!Aimed'
    BY <2>1, <2>2 DEF Power!IInv, Power!Past, Power!Left, Power!Leftover, Power!Aimed, Power!Free, Power!Shape
  <2>5. Power!Mine'
    <3>1. died' => died \/ p = proc
      BY <2>1
    <3>2. Power!Free.is # "ours"
      BY DEF Power!Free
    <3> QED BY <2>1, <2>2, <3>1, <3>2 DEF Power!IInv, Power!Mine
  <2> QED BY <2>1, <2>3, <2>4, <2>5 DEF Power!wish, Power!IInv, Power!Places, Power!Covered, Power!Watched,
        Power!Quiet, Power!Active, Power!NothingElseKilled
<1>2. ASSUME NEW is \in {"other", "users"}, Power!Other(p, is) PROVE Power!IInv'
  <2>1. /\ procs' = [procs EXCEPT ![p] = [Power!Free EXCEPT !.is = is]] /\ loop # "kill" /\ procs[p].is = "free"
        /\ UNCHANGED <<file, bus, run, Power!wish, kick, loop, Power!child, target, harmed, trouble>>
    BY <1>2 DEF Power!Other
  <2>2. /\ procs' \in [Pids -> Power!Process] /\ procs'[p].is = is /\ procs'[p].of = 0
        /\ \A q \in Pids : q # p => procs'[q] = procs[q]
    BY <2>1 DEF Power!IInv, Power!Shape, Power!Free, Power!Process
  <2>3. Power!Shape'
    BY <2>1, <2>2 DEF Power!wish, Power!child, Power!IInv, Power!Shape
  <2>4. Power!Past' /\ Power!Left' /\ Power!Mine' /\ Power!Aimed'
    BY <2>1, <2>2 DEF Power!child, Power!IInv, Power!Past, Power!Left, Power!Leftover, Power!Mine, Power!Aimed,
          Power!Shape
  <2> QED BY <2>1, <2>3, <2>4 DEF Power!wish, Power!child, Power!IInv, Power!Places, Power!Covered, Power!Watched,
        Power!Quiet, Power!Active, Power!NothingElseKilled
<1> QED BY <1>1, <1>2

LEMMA PowerStep == Power!PowerAssumption /\ Power!IInv /\ [Power!Next]_(Power!vars) => Power!IInv'
<1> SUFFICES ASSUME Power!PowerAssumption, Power!IInv, [Power!Next]_(Power!vars) PROVE Power!IInv'
  OBVIOUS
<1>1. CASE UNCHANGED Power!vars
  BY <1>1 DEF Power!vars, Power!IInv, Power!Shape, Power!Past, Power!Left, Power!Leftover, Power!Aimed, Power!Mine,
        Power!Places, Power!Covered, Power!Watched, Power!Quiet, Power!Active, Power!NothingElseKilled
<1> QED BY <1>1, PowerLifeKeeps, PowerWishKeeps, PowerReapKeeps, PowerRoundKeeps, PowerChildKeeps, PowerSystemKeeps DEF
      Power!Next

(* What the invariant says.                                                 *)
LEMMA PowerTypes == Power!PowerAssumption /\ Power!IInv => Power!TypeOK
BY DEF Power!IInv, Power!Shape, Power!TypeOK, Power!Loops, Power!Process, Power!PowerAssumption

LEMMA PowerAlone == Power!PowerAssumption /\ Power!IInv => Power!OneAssertion
<1> SUFFICES ASSUME Power!PowerAssumption, Power!IInv, NEW p \in Pids, NEW q \in Pids, Power!Holds(p), Power!Holds(q)
             PROVE  p = q
  BY DEF Power!OneAssertion
<1>1. ASSUME NEW r \in {p, q}
      PROVE  \/ file = r /\ proc = None
             \/ r = proc /\ procs[r].guard
  BY DEF Power!IInv, Power!Holds, Power!Left, Power!Leftover, Power!Mine, Power!Places
<1> QED BY <1>1 DEF Power!PowerAssumption

LEMMA PowerRecovers == Power!IInv => Power!NothingElseKilled /\ Power!StatusIsCovered
BY DEF Power!IInv, Power!StatusIsCovered, Power!State, Power!Covered

LEMMA PowerFollows ==
  Power!PowerAssumption /\ Power!IInv => Power!NothingSleptThrough /\ Power!LeavesNothing
<1>1. Power!IInv => Power!NothingSleptThrough
  BY DEF Power!IInv, Power!NothingSleptThrough, Power!Watched, Power!Quiet
<1>2. Power!PowerAssumption /\ Power!IInv => Power!LeavesNothing
  BY DEF Power!IInv, Power!LeavesNothing, Power!Mine, Power!Places, Power!Past, Power!Shape, Power!PowerAssumption
<1> QED BY <1>1, <1>2

-----------------------------------------------------------------------------
(* The suite: a behaviour is one of its part, and the variables of the other *)
(* parts do not change.                                                      *)

LEMMA PowerRuns == MCSpec /\ part = "power" => [](part = "power") /\ Power!Spec
<1>1. MCInit => Power!Init
  BY DEF MCInit
<1>2. part = "power" /\ [MCNext]_mcVars => (part = "power")' /\ [Power!Next]_(Power!vars)
  BY DEF MCNext, mcVars, Acts, Stamped, Comes, Decides, Powers, powerVars, Power!vars
<1> QED BY <1>1, <1>2, PTL DEF MCSpec, Power!Spec

LEMMA PowerRests == MCSpec /\ part # "power" => [](part # "power")
<1>1. part # "power" /\ [MCNext]_mcVars => (part # "power")'
  BY DEF MCNext, mcVars, Acts, Stamped, Comes, Decides, Powers
<1> QED BY <1>1, PTL DEF MCSpec

\* One power assertion at a time and none of a stranger's processes signalled, a status of on
\* that recovery finds, no wish slept through and nothing left behind, whatever dies, fails or
\* is killed (caffeinate.go reapOrphan, run, spawn, writePid, stop).
THEOREM PowerIsSafe == MCSpec => []PowerSafe
<1>1. Power!IInv => PowerSafe
  BY PowerInstance, PowerTypes, PowerAlone, PowerRecovers, PowerFollows DEF PowerSafe
<1>2. MCSpec /\ part = "power" => []PowerSafe
  BY <1>1, PowerRuns, PowerInit, PowerStep, PowerInstance, PTL DEF Power!Spec
<1>3. part # "power" => PowerSafe
  BY DEF PowerSafe
<1>4. part = "power" \/ part # "power"
  OBVIOUS
<1> QED BY <1>2, <1>3, <1>4, PowerRests, PTL

\* The instances of the views and of the actions meet the assumptions of their components.
LEMMA StampsInstance == Stamps!ViewAssumption
BY ViewAssumption

LEMMA ActionsInstance == Actions!JournalAssumption /\ Actions!ActionsAssumption
BY DEF Themes, Theme, Asks, Actions!Actors

LEMMA ActionsStreams == Actions!IdsNameRequests /\ Actions!KeysAreStreams
BY DEF Themes, Theme, Asks, Actions!IdsNameRequests, Actions!KeysAreStreams, Actions!SameStream

LEMMA PartsRun ==
  /\ MCSpec /\ part = "session" => [](part = "session") /\ Spec
  /\ MCSpec /\ part = "stamps" => [](part = "stamps") /\ Stamps!Spec
  /\ MCSpec /\ part = "panel" => [](part = "panel") /\ Panel!Spec
  /\ MCSpec /\ part = "actions" => [](part = "actions") /\ Actions!Spec
<1>1. MCSpec /\ part = "session" => [](part = "session") /\ Spec
  <2>1. MCInit /\ part = "session" => Init
    BY DEF MCInit
  <2>2. part = "session" /\ [MCNext]_mcVars => (part = "session")' /\ [Next]_vars
    BY DEF MCNext, mcVars, Acts, Stamped, Comes, Decides, Powers
  <2> QED BY <2>1, <2>2, PTL DEF MCSpec, Spec
<1>2. MCSpec /\ part = "stamps" => [](part = "stamps") /\ Stamps!Spec
  <2>1. MCInit /\ part = "stamps" => Stamps!Init
    BY DEF MCInit, Init, Stamps!Init, Idle, Stamps!Idle, NoView, Stamps!NoView
  <2>2. part = "stamps" /\ [MCNext]_mcVars => (part = "stamps")' /\ [Stamps!Next]_(Stamps!vars)
    BY DEF MCNext, mcVars, Acts, Stamped, Comes, Decides, Powers, vars, Stamps!vars, busVars, Stamps!busVars,
           goVars, Stamps!goVars, netVars, Stamps!netVars, counts, Stamps!counts
  <2> QED BY <2>1, <2>2, PTL DEF MCSpec, Stamps!Spec
<1>3. MCSpec /\ part = "panel" => [](part = "panel") /\ Panel!Spec
  <2>1. MCInit /\ part = "panel" => Panel!Init
    BY DEF MCInit
  <2>2. part = "panel" /\ [MCNext]_mcVars => (part = "panel")' /\ [Panel!Next]_(Panel!vars)
    BY DEF MCNext, mcVars, Acts, Stamped, Comes, Decides, Powers, vars, Panel!vars, busVars, Panel!busVars,
           goVars, Panel!goVars, netVars, Panel!netVars, counts, Panel!counts
  <2> QED BY <2>1, <2>2, PTL DEF MCSpec, Panel!Spec
<1>4. MCSpec /\ part = "actions" => [](part = "actions") /\ Actions!Spec
  <2>1. MCInit /\ part = "actions" => Actions!Init
    BY DEF MCInit
  <2>2. part = "actions" /\ [MCNext]_mcVars => (part = "actions")' /\ [Actions!Next]_(Actions!vars)
    BY DEF MCNext, mcVars, Acts, Stamped, Comes, Decides, Powers, actionVars, Actions!vars, Actions!journal,
           Actions!desired, Actions!recovery
  <2> QED BY <2>1, <2>2, PTL DEF MCSpec, Actions!Spec
<1> QED BY <1>1, <1>2, <1>3, <1>4

\* Whatever the clients, configurations, layouts and faults: the books the bus keeps of its
\* views agree with each other and with what each client was told, the holder of the panel is
\* registered, and a desired state that is saved and not served is on record (bus.go, views.go,
\* theme.go).
THEOREM ViewsAreSafe == ASSUME EveryViewDraws PROVE MCSpec => []ViewsSafe
<1>1. MCSpec /\ part = "session" => []ViewsSafe
  <2>1. part = "session" /\ TypeOK /\ MirrorsAgree => ViewsSafe
    BY DEF ViewsSafe
  <2> QED BY <2>1, PartsRun, PanelHolder, ClientsMirrorTheirView, PTL
<1>2. MCSpec /\ part = "stamps" => []ViewsSafe
  <2>1. Stamps!EveryViewDraws
    BY DEF EveryViewDraws, Stamps!EveryViewDraws
  <2>2. Stamps!Spec => []Stamps!MirrorsAgree /\ [](Stamps!TypeOK /\ Stamps!PanelHolderIsKnown)
    BY <2>1, StampsInstance, Stamps!ClientsMirrorTheirView, Stamps!PanelHolder
  <2>3. part = "stamps" /\ Stamps!TypeOK /\ Stamps!MirrorsAgree => ViewsSafe
    BY DEF ViewsSafe, TypeOK, Stamps!TypeOK, MirrorsAgree, Stamps!MirrorsAgree, ViewType, Stamps!ViewType,
           HasView, Stamps!HasView, Places, Stamps!Places, ClientType, Stamps!ClientType
  <2> QED BY <2>2, <2>3, PartsRun, PTL
<1>3. MCSpec /\ part = "panel" => []ViewsSafe
  <2>1. Panel!Spec => [](Panel!TypeOK /\ Panel!PanelHolderIsKnown)
    BY PanelInstance, Panel!PanelHolder
  <2>2. part = "panel" /\ Panel!TypeOK /\ Panel!PanelHolderIsKnown => ViewsSafe
    BY DEF ViewsSafe
  <2> QED BY <2>1, <2>2, PartsRun, PTL
<1>4. MCSpec /\ part = "actions" => []ViewsSafe
  <2>1. Actions!Spec => []Actions!TypeOK /\ []Actions!DivergenceIsRecorded
    BY ActionsInstance, Actions!TypeCorrect, Actions!DivergenceRecorded
  <2>2. part = "actions" /\ Actions!TypeOK /\ Actions!DivergenceIsRecorded => ViewsSafe
    BY DEF ViewsSafe
  <2> QED BY <2>1, <2>2, PartsRun, PTL
<1>5. MCSpec /\ part = "power" => []ViewsSafe
  <2>1. part = "power" => ViewsSafe
    BY DEF ViewsSafe
  <2> QED BY <2>1, PowerRuns, PTL
<1>6. MCSpec => part \in {"session", "stamps", "panel", "actions", "power"}
  BY DEF MCSpec, MCInit
<1> QED BY <1>1, <1>2, <1>3, <1>4, <1>5, <1>6

\* What no step may do, whatever the constants: run an action whose view was retired since,
\* recover to an older choice than the newest that stands, prune unresolved work or the witness
\* of a newer choice (bindViewAction, recoverActions, Accept's DELETE).
THEOREM BusStepsHold == ASSUME EveryViewDraws PROVE MCSpec => BusSteps
<1>1. MCSpec => part \in {"session", "stamps", "panel", "actions", "power"}
  BY DEF MCSpec, MCInit
<1>2. MCSpec => RetiredActionsNeverRun
  <2>1. MCSpec /\ part = "session" => RetiredActionsNeverRun
    BY PartsRun, RetiredNeverRun
  <2>2. MCSpec /\ part = "stamps" => RetiredActionsNeverRun
    <3>1. Stamps!EveryViewDraws
      BY DEF EveryViewDraws, Stamps!EveryViewDraws
    <3>2. Stamps!Spec => Stamps!RetiredActionsNeverRun
      BY <3>1, StampsInstance, Stamps!RetiredNeverRun
    <3>3. Stamps!RetiredActionsNeverRun => RetiredActionsNeverRun
      BY DEF Stamps!RetiredActionsNeverRun, RetiredActionsNeverRun, Stamps!Dispatch, Dispatch, vars, Stamps!vars, busVars,
             Stamps!busVars, goVars, Stamps!goVars, netVars, Stamps!netVars, counts, Stamps!counts
    <3> QED BY <3>2, <3>3, PartsRun
  <2>3. MCSpec /\ part = "panel" => RetiredActionsNeverRun
    <3>1. Panel!EveryViewDraws
      BY DEF Panel!EveryViewDraws, MCConns, MCLayouts
    <3>2. Panel!Spec => Panel!RetiredActionsNeverRun
      BY <3>1, PanelInstance, Panel!RetiredNeverRun
    <3>3. Panel!RetiredActionsNeverRun => RetiredActionsNeverRun
      BY DEF Panel!RetiredActionsNeverRun, RetiredActionsNeverRun, Panel!Dispatch, Dispatch, vars, Panel!vars, busVars,
             Panel!busVars, goVars, Panel!goVars, netVars, Panel!netVars, counts, Panel!counts
    <3> QED BY <3>2, <3>3, PartsRun
  <2>4. part \in {"actions", "power"} /\ [MCNext]_mcVars => (part \in {"actions", "power"})' /\ UNCHANGED vars
    BY DEF MCNext, mcVars, Acts, Stamped, Comes, Decides, Powers
  <2>5. MCSpec /\ part \in {"actions", "power"} => RetiredActionsNeverRun
    BY <2>4, PTL DEF MCSpec, RetiredActionsNeverRun
  <2> QED BY <1>1, <2>1, <2>2, <2>3, <2>5
<1>3. MCSpec => Actions!RecoveryKeepsNewestChoice /\ Actions!PruningIsSafe
  <2>1. Actions!Spec => Actions!RecoveryKeepsNewestChoice /\ Actions!PruningIsSafe
    BY ActionsInstance, ActionsStreams, Actions!RecoveryKeepsNewest, Actions!PruningSafe
  <2>2. MCSpec /\ part = "actions" => Actions!RecoveryKeepsNewestChoice /\ Actions!PruningIsSafe
    BY <2>1, PartsRun
  <2>3. part # "actions" /\ [MCNext]_mcVars => (part # "actions")' /\ UNCHANGED Actions!vars
    BY DEF MCNext, mcVars, Acts, Stamped, Comes, Decides, Powers, actionVars, Actions!vars, Actions!journal,
           Actions!desired, Actions!recovery
  <2>4. MCSpec /\ part # "actions" => Actions!RecoveryKeepsNewestChoice /\ Actions!PruningIsSafe
    BY <2>3, PTL DEF MCSpec, Actions!RecoveryKeepsNewestChoice, Actions!PruningIsSafe
  <2> QED BY <2>2, <2>4
<1> QED BY <1>2, <1>3 DEF BusSteps
=============================================================================
