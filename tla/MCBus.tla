------------------------------- MODULE MCBus -------------------------------
(***************************************************************************)
(* Three parts of the bus on small instances, side by side: its views,     *)
(* twice with a client that acts and once with clients that come and go,   *)
(* its desired states, and the caffeinate child.  A behaviour picks its    *)
(* part and the others keep their initial state.                           *)
(***************************************************************************)
EXTENDS ViewSessions

CONSTANTS ca, cb, home, keys, g1, g2, w,
          Pids, None, Garbled, MaxBuses, MaxSets, MaxTrouble   \* the caffeinate child

MCOne == {ca}
MCConns == {ca, cb}
MCLayouts == {home, keys}
MCConfigs == {g1, g2}
MCWidgets == {w}
MCShows == [l \in MCLayouts |-> MCWidgets]
MCDrops == [g \in MCConfigs |-> IF g = g1 THEN MCLayouts ELSE {home}]
MCOneAll == [c \in MCOne |-> MCLayouts]

VARIABLES
  part,
  rows, next, saved, live, phase, journalErr, pc, op, verdict, desiredMu, input, reaping, cursor, records,
  execs, execsHere, reported, disowned, sends, faults, crashes, faulted,                         \* actions
  procs, file, bus, run, want, paused, owed, kick, loop, proc, died, pid, cool, timer, target, unwritten, harmed,
  sets, trouble                                                                                  \* power

actionVars == <<rows, next, saved, live, phase, journalErr, pc, op, verdict, desiredMu, input, reaping, cursor,
                records, execs, execsHere, reported, disowned, sends, faults, crashes, faulted>>
powerVars == <<procs, file, bus, run, want, paused, owed, kick, loop, proc, died, pid, cool, timer, target,
               unwritten, harmed, sets, trouble>>
mcVars == <<part, vars, actionVars, powerVars>>

\* Two Edge clients and a renderer that is replaced.
Panel == INSTANCE ViewSessions WITH
  Conns <- MCConns, Edge <- MCConns, Configs <- {g1}, Defines <- [g \in {g1} |-> MCLayouts],
  Supports <- [c \in MCConns |-> MCLayouts], MaxActs <- 0, MaxFlips <- 0, MaxGlobal <- 0, MaxRenderers <- 1,
  MaxNotices <- 0

\* A client that acts while statuses and notices cross its actions and the renderer is replaced.
Stamps == INSTANCE ViewSessions WITH MaxFlips <- 0, MaxGlobal <- 0, MaxRenderers <- 1, MaxNotices <- 1

\* Desired states that overtake one another.
Asks(policy, payload) == [kind |-> "ctl", source |-> "theme", policy |-> policy, payload |-> payload]
Theme(id, payload) == [id |-> id, key |-> "theme", req |-> Asks("reconcile", payload)]
Themes == {Theme(1, "day"), Theme(2, "night"), Theme(3, "day")}
Actions == INSTANCE BusActionsProofs WITH
  Ids <- {1, 2, 3}, Requests <- {m.req : m \in Themes}, NoRequest <- Asks("none", "none"),
  MaxRecords <- 3, RecentHistory <- 0, Conns <- {"c1"}, Docks <- {}, InputWorker <- "input", Boot <- "boot",
  Free <- "free", NoOp <- Theme(0, "none"), Messages <- Themes, Keys <- {"theme"}, NoKey <- "none",
  DurableKeys <- {"theme"}, QueueLimit <- 1, MaxSends <- 3, MaxFaults <- 2, MaxCrashes <- 2, MaxEvents <- 5, queue <- input

Power == INSTANCE Caffeinator

\* What the parts ask of these instances.
ASSUME PanelInstance == Panel!ViewAssumption
ASSUME PowerInstance == Power!PowerAssumption

\* Each part's initial states; a part that is not running keeps one of them.
MCInit ==
  /\ part \in {"session", "stamps", "panel", "actions", "power"}
  /\ IF part = "panel" THEN Panel!Init ELSE Init /\ (part \notin {"session", "stamps"} => cfgLayout = home)
  /\ Actions!Init
  /\ Power!Init /\ (part # "power" => file = None /\ ~want)

Acts    == part = "session" /\ Next /\ UNCHANGED <<part, actionVars, powerVars>>
Stamped == part = "stamps" /\ Stamps!Next /\ UNCHANGED <<part, actionVars, powerVars>>
Comes   == part = "panel" /\ Panel!Next /\ UNCHANGED <<part, actionVars, powerVars>>
Decides == part = "actions" /\ Actions!Next /\ UNCHANGED <<part, vars, powerVars>>
Powers  == part = "power" /\ Power!Next /\ UNCHANGED <<part, vars, actionVars>>
MCNext == Acts \/ Stamped \/ Comes \/ Decides \/ Powers
MCSpec == MCInit /\ [][MCNext]_mcVars

(***************************************************************************)
(* Properties: those of the parts.                                         *)
(***************************************************************************)
\* The books the bus keeps of its views agree with each other and with what each client was
\* told (bus.go, views.go), and the panel is held by a dock that is still registered; a desired
\* state that is saved and not served has a record in the journal that says so (theme.go).
ViewsSafe ==
  /\ part \in {"session", "stamps"} => TypeOK /\ MirrorsAgree
  /\ part = "panel" => Panel!TypeOK /\ Panel!PanelHolderIsKnown
  /\ part = "actions" => Actions!TypeOK /\ Actions!DivergenceIsRecorded

\* One power assertion at a time, of this bus and no stranger's process; asleep only when the
\* user let it, and nothing left behind (caffeinate.go).
PowerSafe ==
  part = "power" => /\ Power!TypeOK /\ Power!OneAssertion /\ Power!StatusIsCovered /\ Power!NothingElseKilled
                    /\ Power!NothingSleptThrough /\ Power!LeavesNothing

\* What no step may do: run an action whose view was retired, recover to an older choice than
\* the newest, prune the witness of a newer one.
BusSteps == /\ RetiredActionsNeverRun /\ Actions!RecoveryKeepsNewestChoice /\ Actions!PruningIsSafe
=============================================================================
