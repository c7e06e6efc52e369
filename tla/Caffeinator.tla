---------------------------- MODULE Caffeinator ----------------------------
(***************************************************************************)
(* The supervisor of the caffeinate child (internal/bus/caffeinate.go).    *)
(* One loop owns spawn and kill and converges the process onto the wanted  *)
(* state, which the verbs and the views change under a lock and tell with  *)
(* a one-slot kick. A bus that was killed leaves its child behind: the     *)
(* next one finds it by its pidfile, which may also hold anything else.    *)
(* Pids are handed out again, but never between the look of ps and the     *)
(* signal, an assumption about the system. Durations are left out: a back- *)
(* off is over when Lapse says so.                                         *)
(***************************************************************************)
EXTENDS Integers

CONSTANTS Pids, None,
          Garbled,      \* a pidfile that holds no pid
          MaxBuses,     \* buses started
          MaxSets,      \* changes of the wish, of a view or of the user
          MaxTrouble    \* children that die; spawns, ps, reads, writes and removals that fail

\* No pid is "none" or unreadable; the bounds are numbers.
PowerAssumption == /\ None \notin Pids /\ Garbled \notin Pids /\ Garbled # None
                   /\ MaxBuses \in Nat /\ MaxSets \in Nat /\ MaxTrouble \in Nat

VARIABLES
  procs,     \* per pid: what runs under it; ours is a caffeinate of a bus
  file,      \* caffeinate.pid
  bus,       \* the number of the bus, and whether it runs or shuts down
  run,
  want, paused, owed, kick,   \* owed: kicks of verbs that have set their wish
  loop,      \* where the loop is
  proc, died, pid, cool, timer,
  target,    \* the pid reapOrphan has verified
  unwritten, \* the pidfile of the present child could not be written
  harmed,    \* a process that is no caffeinate was signalled
  sets, trouble
vars == <<procs, file, bus, run, want, paused, owed, kick, loop, proc, died, pid, cool, timer,
          target, unwritten, harmed, sets, trouble>>
wish == <<want, paused, owed, sets>>
child == <<proc, died, pid, cool, timer, unwritten>>

Free == [is |-> "free", of |-> 0, guard |-> FALSE, term |-> FALSE]
Active == want /\ ~paused
Unlucky == trouble < MaxTrouble /\ trouble' = trouble + 1
Lucky == UNCHANGED trouble
Fresh == /\ owed' = 0 /\ kick' = FALSE /\ proc' = None /\ died' = FALSE /\ pid' = None
         /\ cool' = FALSE /\ timer' = FALSE /\ target' = None /\ unwritten' = FALSE

\* A child of an older build, without -w, may have been left by a bus that
\* was killed.
Init == /\ file \in Pids \cup {None, Garbled}
        /\ procs = [p \in Pids |-> IF p = file THEN [Free EXCEPT !.is = "ours"] ELSE Free]
        /\ bus = 0 /\ run = "down" /\ want \in BOOLEAN /\ paused = TRUE /\ owed = 0 /\ kick = FALSE
        /\ loop = "over" /\ proc = None /\ died = FALSE /\ pid = None /\ cool = FALSE /\ timer = FALSE
        /\ target = None /\ unwritten = FALSE /\ harmed = FALSE /\ sets = 0 /\ trouble = 0

---------------------------------------------------------------------------
\* The bus starts with the wish of its configuration and without a view, is
\* told to stop, ends, or is killed.
Start(on) == /\ run = "down" /\ bus < MaxBuses /\ bus' = bus + 1 /\ run' = "up"
             /\ want' = on /\ paused' = TRUE /\ loop' = "reap" /\ Fresh
             /\ UNCHANGED <<procs, file, harmed, sets, trouble>>
Shutdown == /\ run = "up" /\ run' = "stopping"
            /\ UNCHANGED <<procs, file, bus, wish, kick, loop, child, target, harmed, trouble>>
End == /\ run = "stopping" /\ loop = "over" /\ run' = "down"
       /\ UNCHANGED <<procs, file, bus, wish, kick, loop, child, target, harmed, trouble>>
Killed == /\ run # "down" /\ Unlucky /\ run' = "down" /\ loop' = "over" /\ Fresh
          /\ UNCHANGED <<procs, file, bus, want, paused, harmed, sets>>

\* Set and SetAvailable: the wish under the lock, the kick after it; a kick
\* that is pending already stands for this one.
Set(on) == /\ run # "down" /\ sets < MaxSets /\ sets' = sets + 1 /\ want' = on /\ owed' = owed + 1
           /\ UNCHANGED <<procs, file, bus, run, paused, kick, loop, child, target, harmed, trouble>>
SetAvailable(yes) == /\ run # "down" /\ sets < MaxSets /\ sets' = sets + 1 /\ paused' = ~yes /\ owed' = owed + 1
                     /\ UNCHANGED <<procs, file, bus, run, want, kick, loop, child, target, harmed, trouble>>
FaultKicked == kick \/ loop = "wait"
Kicked == TRUE
Kick == /\ owed > 0 /\ owed' = owed - 1 /\ kick' = Kicked
        /\ UNCHANGED <<procs, file, bus, run, want, paused, loop, child, target, harmed, sets, trouble>>

---------------------------------------------------------------------------
\* reapOrphan: only a caffeinate is told to go; what cannot be verified is
\* tried again, before anything is spawned.
To(at) == loop' = at
IsCaff(p) == procs[p].is \in {"ours", "users"}
\* dropPid: a pidfile that cannot be removed stays, for the next bus to verify
DropPid == \/ file' = None /\ Lucky
           \/ Unlucky /\ UNCHANGED file
Reap ==
  /\ loop = "reap"
  /\ \/ run = "stopping" /\ To("over") /\ Lucky /\ UNCHANGED <<file, target>>
     \/ run = "up" /\ Unlucky /\ To("reap") /\ UNCHANGED <<file, target>>     \* the read or ps failed
     \/ run = "up" /\ file = Garbled /\ To("reap") /\ Lucky /\ UNCHANGED <<file, target>>
     \/ run = "up" /\ file = None /\ To("check") /\ Lucky /\ UNCHANGED <<file, target>>
     \/ /\ run = "up" /\ file \in Pids
        /\ \/ IsCaff(file) /\ To("kill") /\ target' = file /\ Lucky /\ UNCHANGED file
           \/ ~IsCaff(file) /\ To("check") /\ DropPid /\ UNCHANGED target
  /\ UNCHANGED <<procs, bus, run, wish, kick, child, harmed>>
ReapKill ==
  /\ loop = "kill" /\ target' = None
  /\ IF procs[target].is = "free" THEN To("reap") /\ Lucky /\ UNCHANGED <<procs, file, harmed>>   \* no such process
     ELSE /\ procs' = [procs EXCEPT ![target].term = TRUE] /\ DropPid /\ To("check")
          /\ harmed' = (harmed \/ procs[target].is = "other")
  /\ UNCHANGED <<bus, run, wish, kick, child>>

\* One round of run. Its look at the context and at the wish: the shutdown, a
\* stop, or nothing to do.
Ending == IF proc = None THEN "over" ELSE "stop"
Check ==
  /\ loop = "check"
  /\ \/ run = "stopping" /\ To(Ending) /\ UNCHANGED cool
     \/ run = "up" /\ ~Active /\ To(IF proc = None THEN "arm" ELSE "stop") /\ cool' = FALSE
     \/ run = "up" /\ Active /\ (proc # None \/ cool) /\ To("arm") /\ UNCHANGED cool
  /\ UNCHANGED <<procs, file, bus, run, wish, kick, proc, died, pid, timer, unwritten, target, harmed, trouble>>
Spawn(p) ==
  /\ loop = "check" /\ run = "up" /\ Active /\ proc = None /\ ~cool
  /\ procs[p].is = "free"
  /\ procs' = [procs EXCEPT ![p] = [is |-> "ours", of |-> bus, guard |-> TRUE, term |-> FALSE]]
  /\ proc' = p /\ died' = FALSE /\ To("write")
  /\ UNCHANGED <<file, bus, run, wish, kick, pid, cool, timer, target, unwritten, harmed, trouble>>
SpawnFails ==
  /\ loop = "check" /\ run = "up" /\ Active /\ proc = None /\ ~cool
  /\ Unlucky /\ cool' = TRUE /\ To("arm")
  /\ UNCHANGED <<procs, file, bus, run, wish, kick, proc, died, pid, timer, target, unwritten, harmed>>
\* writePid before setPid: a status of on is covered by the recovery
WritePid == /\ loop = "write" /\ To("show")
            /\ \/ file' = proc /\ unwritten' = FALSE /\ Lucky
               \/ Unlucky /\ unwritten' = TRUE /\ UNCHANGED file
            /\ UNCHANGED <<procs, bus, run, wish, kick, proc, died, pid, cool, timer, target, harmed>>
SetPid == /\ loop = "show" /\ To("arm") /\ pid' = proc
          /\ UNCHANGED <<procs, file, bus, run, wish, kick, proc, died, cool, timer, unwritten, target, harmed, trouble>>
\* stop: the kill, the wait for the end, the pidfile
Gone(p) == procs' = IF ~died THEN [procs EXCEPT ![p] = Free] ELSE procs
Stop == /\ loop = "stop" /\ Gone(proc)
        /\ proc' = None /\ died' = FALSE /\ pid' = None /\ unwritten' = FALSE /\ DropPid
        /\ To(IF run = "stopping" THEN "over" ELSE "arm")
        /\ UNCHANGED <<bus, run, wish, kick, cool, timer, target, harmed>>
\* the timer is armed only while a spawn is wanted, on a second look
Arm == /\ loop = "arm" /\ To("wait") /\ timer' = (Active /\ proc = None)
       /\ UNCHANGED <<procs, file, bus, run, wish, kick, proc, died, pid, cool, unwritten, target, harmed, trouble>>
\* the select, of whatever is ready
Wake == /\ loop = "wait" /\ timer' = FALSE
        /\ \/ /\ run = "stopping" /\ To(Ending) /\ Lucky
              /\ UNCHANGED <<file, kick, proc, died, pid, cool, unwritten>>
           \/ /\ died /\ To("check") /\ proc' = None /\ died' = FALSE /\ pid' = None
              /\ DropPid /\ cool' = TRUE /\ unwritten' = FALSE /\ UNCHANGED kick
           \/ kick /\ kick' = FALSE /\ To("check") /\ Lucky /\ UNCHANGED <<file, proc, died, pid, cool, unwritten>>
           \/ timer /\ ~cool /\ To("check") /\ Lucky /\ UNCHANGED <<file, kick, proc, died, pid, cool, unwritten>>
        /\ UNCHANGED <<procs, bus, run, wish, target, harmed>>
Lapse == /\ cool /\ cool' = FALSE
         /\ UNCHANGED <<procs, file, bus, run, wish, kick, loop, proc, died, pid, timer, unwritten, target, harmed, trouble>>

---------------------------------------------------------------------------
\* The system: a caffeinate exits when it is told to, when -w sees that its
\* bus is gone, or by itself; other processes come and go.
Exit(p) == /\ procs[p].is # "free"
           /\ \/ procs[p].term /\ Lucky
              \/ procs[p].guard /\ (procs[p].of # bus \/ run = "down") /\ Lucky
              \/ procs[p].is # "ours" /\ Lucky
              \/ procs[p].is = "ours" /\ Unlucky
           /\ procs' = [procs EXCEPT ![p] = Free]
           /\ died' = (died \/ p = proc)
           /\ UNCHANGED <<file, bus, run, wish, kick, loop, proc, pid, cool, timer, unwritten, target, harmed>>
Other(p, is) == /\ procs[p].is = "free" /\ loop # "kill"
                /\ procs' = [procs EXCEPT ![p] = [Free EXCEPT !.is = is]]
                /\ UNCHANGED <<file, bus, run, wish, kick, loop, child, target, harmed, trouble>>

Next == \/ \E x \in BOOLEAN : Start(x) \/ Set(x) \/ SetAvailable(x)
        \/ Shutdown \/ End \/ Killed \/ Kick
        \/ Reap \/ ReapKill \/ Check \/ SpawnFails \/ WritePid \/ SetPid \/ Stop \/ Arm \/ Wake \/ Lapse
        \/ \E p \in Pids : Spawn(p) \/ Exit(p) \/ Other(p, "other") \/ Other(p, "users")

Spec == Init /\ [][Next]_vars

---------------------------------------------------------------------------
TypeOK == /\ file \in Pids \cup {None, Garbled} /\ proc \in Pids \cup {None} /\ pid \in Pids \cup {None} /\ target \in Pids \cup {None}
          /\ loop \in {"reap", "kill", "check", "write", "show", "stop", "arm", "wait", "over"}
          /\ run \in {"down", "up", "stopping"} /\ owed \in 0..MaxSets
          /\ \A p \in Pids : procs[p].is \in {"free", "ours", "users", "other"}

\* At most one assertion is held: of the caffeinates of the buses, at most one
\* is neither told to go nor about to follow its bus.
Holds(p) == procs[p].is = "ours" /\ ~procs[p].term /\ (~procs[p].guard \/ (procs[p].of = bus /\ run # "down"))
OneAssertion == \A p, q \in Pids : Holds(p) /\ Holds(q) => p = q
\* A status of on names a child the next bus would find, unless its pidfile
\* could not be written (writePid before setPid, State).
State == CASE ~want -> "off"
           [] want /\ paused -> "waiting"
           [] want /\ ~paused /\ pid # None -> "on"
           [] OTHER -> "starting"
StatusIsCovered == State = "on" => pid = proc /\ (file = pid \/ unwritten)
\* The pidfile of an older bus never makes a bus signal anything else.
NothingElseKilled == ~harmed
\* No change of the wish is slept through: a loop that waits, with nothing to
\* come, has the process the wish asks for or the timer of its spawn.
NothingSleptThrough == loop = "wait" /\ owed = 0 /\ ~kick /\ ~died /\ run = "up" =>
                         IF Active THEN proc # None \/ timer ELSE proc = None
\* A bus that ended by itself leaves no child and no pidfile of one.
LeavesNothing == run = "stopping" /\ loop = "over" =>
                   /\ ~\E p \in Pids : procs[p].is = "ours" /\ procs[p].of = bus
                   /\ file \in Pids => procs[file].of # bus

---------------------------------------------------------------------------
(* Proofs, for any pids, buses, changes and failures.  A caffeinate that    *)
(* does not follow its bus is the one the pidfile named from the start; one *)
(* of this bus is the child the loop holds; and where the loop is settles   *)
(* whether it may hold one.                                                 *)
Process == [is : {"free", "ours", "users", "other"}, of : Nat, guard : BOOLEAN, term : BOOLEAN]
Loops == {"reap", "kill", "check", "write", "show", "stop", "arm", "wait", "over"}
Shape == /\ procs \in [Pids -> Process] /\ file \in Pids \cup {None, Garbled} /\ bus \in Nat
         /\ run \in {"down", "up", "stopping"}
         /\ owed \in Nat /\ sets \in Nat /\ owed <= sets /\ sets <= MaxSets
         /\ loop \in Loops /\ proc \in Pids \cup {None} /\ pid \in Pids \cup {None}
         /\ target \in Pids \cup {None}

\* Every caffeinate is of a bus that has started; a stranger is of none.
Past == /\ \A p \in Pids : procs[p].of <= bus /\ (procs[p].is # "ours" => procs[p].of = 0)
        /\ run # "down" => bus > 0

\* One that holds on without its bus: recovery has yet to come to it.
Leftover(p) == procs[p].is = "ours" /\ ~procs[p].guard /\ ~procs[p].term
Left == \A p \in Pids : Leftover(p) => file = p /\ loop \in {"reap", "kill", "over"}
Aimed == loop = "kill" => target \in Pids /\ target = file /\ procs[target].is # "other"
Mine == \A p \in Pids : procs[p].is = "ours" /\ procs[p].of = bus /\ run # "down" => p = proc /\ ~died

Places == /\ loop \in {"reap", "kill", "over"} => proc = None
          /\ loop \in {"write", "show", "stop"} => proc # None
          /\ loop \in {"write", "show"} => pid = None
          /\ run = "down" => loop = "over"
Covered == /\ pid # None => pid = proc
           /\ pid # None \/ loop = "show" => file = proc \/ unwritten
Quiet == run = "up" /\ owed = 0 /\ ~kick /\ ~died
Watched == Quiet => /\ loop \in {"write", "show"} => Active
                    /\ loop = "arm" /\ ~Active => proc = None
                    /\ loop = "wait" => IF Active THEN proc # None \/ timer ELSE proc = None
IInv == Shape /\ Past /\ Left /\ Aimed /\ Mine /\ Places /\ Covered /\ Watched /\ NothingElseKilled
=============================================================================
