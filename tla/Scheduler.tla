----------------------------- MODULE Scheduler -----------------------------
(***************************************************************************)
(* The widget scheduler of the bus (internal/bus/scheduler.go) with the    *)
(* supervisor of widget windows (registry.go) and the lifecycle of the     *)
(* private renderer (renderer.go).  One goroutine ticks; window calls,     *)
(* polls and the adoption of leftover windows run in others, and their     *)
(* results come back by channel after anything may have changed: what the  *)
(* views show, the configuration, the renderer, the window itself.         *)
(***************************************************************************)
EXTENDS Integers, FiniteSets

CONSTANTS
  Exec, Native,   \* widgets by render kind
  Configs, FirstConfig, \* configurations, and the one the bus starts with
  Defines,        \* [Configs -> SUBSET Widgets]
  Modes,          \* subset of BOOLEAN: does the bus launch its own renderer?
  Leftover,       \* widgets of which a previous bus left a window (not managed)
  None,           \* no configuration is pending; nothing has been shown
  MaxWindows,     \* bound: windows opened in one renderer
  MaxRenderers,   \* bound: renderers launched
  MaxChanges,     \* bound: changes of what views show
  MaxReloads,     \* bound: reload requests
  MaxResults,     \* bound: results of one widget on their way to the loop
  MaxFaults       \* bound: windows and renderers that end by themselves, and calls
                  \* that fail although their target is there

Widgets == Exec \cup Native

ASSUME SchedulerAssumption ==
  /\ Exec \cap Native = {} /\ FirstConfig \in Configs /\ None \notin Configs
  /\ Defines \in [Configs -> SUBSET Widgets]
  /\ Modes \subseteq BOOLEAN /\ Leftover \subseteq Exec /\ IsFiniteSet(Leftover)
  /\ {MaxWindows, MaxRenderers, MaxChanges, MaxReloads, MaxResults, MaxFaults} \subseteq Nat

VARIABLES
  managed,    \* b.renderer # nil
  \* the renderer (kitty) and its windows [id, home, widget]; ids restart with it
  windows, opened,
  renderer,   \* serial of the live renderer process, 0 if none
  launched,   \* serial last launched
  exited,     \* the process ended before its demand
  held,       \* the retry delay is running
  \* the bus
  cfg, pending,
  reg, nreg,  \* identity of the exec and of the native states of the registry
  bind,       \* [Exec -> Nat]: WindowID, 0 if not materialized
  socket,     \* serial of the renderer the bus talks to, 0 if none
  needAdopt,
  visible,    \* widgets some view shows
  \* the scheduler goroutine
  sched,      \* where the loop is, and rendererQuiescing
  errPending,
  \* the other goroutines
  call,       \* per widget: its single-flight call, "reply" once busyDone is sent
  adopt,      \* the adoption in flight and the windows it has yet to walk
  results,    \* polls on their way to the scheduler
  \* history
  shown,      \* per widget: what its last published result was taken from
  lost,       \* windows whose launch or close went wrong without the bus knowing
  closing,    \* ctx is done
  changes, reloads, faults

kitty == <<managed, windows, opened, renderer, launched, exited, held>>
bus == <<cfg, pending, reg, nreg, bind, socket, needAdopt, visible>>
loop == <<sched, errPending>>
gofuncs == <<call, adopt, results>>
history == <<shown, lost>>
counts == <<changes, reloads, faults>>
vars == <<kitty, bus, loop, gofuncs, history, closing, counts>>

NoCall == [pc |-> "none", win |-> 0, reg |-> 0]
NoAdopt == [pc |-> "none", tree |-> {}]
NoBinding == [w \in Exec |-> 0]

Init ==
  /\ managed \in Modes
  /\ \E f \in [Leftover -> 1 .. Cardinality(Leftover)] :
       /\ \A v, w \in Leftover : f[v] = f[w] => v = w
       /\ windows = IF managed THEN {} ELSE {[id |-> f[w], home |-> 0, widget |-> w] : w \in Leftover}
  /\ opened = (IF managed THEN 0 ELSE Cardinality(Leftover)) /\ renderer = 0 /\ launched = 0 /\ exited = FALSE /\ held = FALSE
  /\ cfg = FirstConfig /\ pending = None /\ reg = 1 /\ nreg = 1 /\ bind = NoBinding
  /\ socket = 0 /\ needAdopt = ~ managed /\ visible = {}
  /\ sched = [pc |-> "select", quiescing |-> FALSE] /\ errPending = {}
  /\ call = [w \in Widgets |-> NoCall] /\ adopt = NoAdopt /\ results = {}
  /\ shown = [w \in Widgets |-> None] /\ lost = {} /\ closing = FALSE
  /\ changes = 0 /\ reloads = 0 /\ faults = 0

-----------------------------------------------------------------------------
(* The world.                                                               *)

Fault == faults < MaxFaults /\ faults' = faults + 1

\* Views connect, leave, hide, show and navigate, as long as the bus serves them.
Look(vs) ==
  /\ ~ closing /\ changes < MaxChanges /\ changes' = changes + 1 /\ vs # visible
  /\ vs \subseteq Defines[cfg] /\ visible' = vs
  /\ UNCHANGED <<kitty, cfg, pending, reg, nreg, bind, socket, needAdopt, loop, gofuncs,
                 history, closing, reloads, faults>>

\* The reload verb; a newer configuration replaces one that still waits.
Reload(g) ==
  /\ ~ closing /\ reloads < MaxReloads /\ reloads' = reloads + 1 /\ pending' = g
  /\ UNCHANGED <<kitty, cfg, reg, nreg, bind, socket, needAdopt, visible, loop, gofuncs,
                 history, closing, changes, faults>>

WindowEnds(x) ==
  /\ Fault /\ windows' = windows \ {x}
  /\ UNCHANGED <<managed, opened, renderer, launched, exited, held, bus, loop, gofuncs,
                 history, closing, changes, reloads>>

RendererEnds ==
  /\ renderer # 0 /\ Fault
  /\ renderer' = 0 /\ exited' = TRUE /\ windows' = {}
  /\ UNCHANGED <<managed, opened, launched, held, bus, loop, gofuncs, history, closing,
                 changes, reloads>>

DelayEnds ==
  /\ held /\ held' = FALSE
  /\ UNCHANGED <<managed, windows, opened, renderer, launched, exited, bus, loop, gofuncs,
                 history, closing, counts>>

Stop ==
  /\ ~ closing /\ closing' = TRUE
  /\ UNCHANGED <<kitty, bus, loop, gofuncs, history, counts>>

-----------------------------------------------------------------------------
(* Calls to the renderer.  One fails if nobody answers on the socket, or by  *)
(* a lost request or answer, which Fault counts.                             *)

Reachable == managed => renderer = socket /\ socket # 0
Live(win) == Reachable /\ \E x \in windows : x.id = win /\ x.home = socket
WindowOf(win) == {x \in windows : x.id = win /\ x.home = socket}
Refused == IF Reachable THEN Fault ELSE UNCHANGED faults

\* A write to a WidgetState; one of a replaced registry is out of sight.
Bind(w, win) == bind' = IF call[w].reg = reg THEN [bind EXCEPT ![w] = win] ELSE bind

Reply(w) == call' = [call EXCEPT ![w] = [NoCall EXCEPT !.pc = "reply"]]
InCall(w, pc) == call[w].pc = pc
CallKeeps == UNCHANGED <<managed, renderer, launched, exited, held, cfg, pending, reg, nreg,
                         socket, needAdopt, visible, loop, adopt, shown, closing, changes,
                         reloads>>

\* Ensure up to rc.Launch.  The answer of a launch may be lost.
EnsureLaunch(w) ==
  /\ InCall(w, "launch") /\ CallKeeps /\ UNCHANGED <<bind, results>>
  /\ LET window == [id |-> opened + 1, home |-> socket, widget |-> w]
         created == opened < MaxWindows /\ Reachable /\ opened' = opened + 1
                    /\ windows' = windows \cup {window}
         nothing == UNCHANGED <<windows, opened>>
     IN \/ /\ bind[w] = 0 /\ created
           /\ call' = [call EXCEPT ![w].pc = "finish", ![w].win = window.id]
           /\ UNCHANGED <<lost, faults>>
        \/ /\ bind[w] = 0 /\ created /\ Fault /\ lost' = lost \cup {window} /\ Reply(w)
        \/ nothing /\ Refused /\ UNCHANGED lost /\ Reply(w)
        \/ /\ closing \/ bind[w] # 0 \/ opened = MaxWindows
           /\ nothing /\ UNCHANGED <<lost, faults>> /\ Reply(w)

\* finishEnsure: bind, hide, size; on failure close and roll back.
EnsureFinish(w) ==
  /\ InCall(w, "finish") /\ CallKeeps /\ UNCHANGED <<opened, results>> /\ Reply(w)
  /\ \/ Live(call[w].win) /\ Bind(w, call[w].win) /\ UNCHANGED <<windows, lost, faults>>
     \/ /\ IF Live(call[w].win) THEN Fault ELSE UNCHANGED faults
        /\ Bind(w, 0)
        /\ \/ windows' = windows \ WindowOf(call[w].win) /\ UNCHANGED lost
           \/ UNCHANGED windows /\ lost' = lost \cup WindowOf(call[w].win)

\* The check of a binding after a failed scrape.
Verify(w) ==
  /\ InCall(w, "verify") /\ CallKeeps /\ UNCHANGED <<windows, opened, results, lost>> /\ Reply(w)
  /\ \/ /\ Reachable /\ UNCHANGED faults
        /\ IF Live(call[w].win) THEN UNCHANGED bind ELSE Bind(w, 0)
     \/ Refused /\ UNCHANGED bind

\* Release: a close that fails counts as done when the window is gone.
CloseWindow(w) ==
  /\ InCall(w, "release") /\ CallKeeps /\ UNCHANGED <<opened, results, lost>> /\ Reply(w)
  /\ \/ /\ Reachable /\ windows' = windows \ WindowOf(call[w].win) /\ Bind(w, 0) /\ UNCHANGED faults
     \/ /\ Refused /\ UNCHANGED bind
        /\ windows' \in {windows, windows \ WindowOf(call[w].win)}

Result(w, ok) == [widget |-> w, win |-> call[w].win, reg |-> call[w].reg, ok |-> ok,
                  home |-> socket, cfg |-> cfg]

\* The text poller and the module poll send busyDone, then the result, which
\* nobody takes once the loop has left.
Report(r) ==
  IF sched.pc \in {"select", "render", "pass"}
  THEN Cardinality({q \in results : q.widget = r.widget}) < MaxResults /\ results' = results \cup {r}
  ELSE UNCHANGED results

Scrape(w) ==
  /\ InCall(w, "scrape") /\ CallKeeps /\ UNCHANGED <<windows, opened, bind, lost>> /\ Reply(w)
  /\ \/ Live(call[w].win) /\ Report(Result(w, TRUE)) /\ UNCHANGED faults
     \/ /\ IF Live(call[w].win) THEN Fault ELSE UNCHANGED faults
        /\ Report(Result(w, FALSE))

PollNative(w) ==
  /\ InCall(w, "poll") /\ CallKeeps /\ UNCHANGED <<windows, opened, bind, lost, faults>> /\ Reply(w)
  /\ Report(Result(w, TRUE))

Call(w) == EnsureLaunch(w) \/ EnsureFinish(w) \/ Verify(w) \/ CloseWindow(w) \/ Scrape(w)
           \/ PollNative(w)

-----------------------------------------------------------------------------
(* tryAdopt, in a goroutine of its own or in the shutdown.                   *)

AdoptKeeps == UNCHANGED <<managed, opened, renderer, launched, exited, held, cfg, pending, reg,
                          nreg, socket, visible, loop, call, results, shown, closing, changes,
                          reloads>>

AdoptList ==
  /\ adopt.pc = "ls" /\ AdoptKeeps /\ UNCHANGED <<windows, bind, needAdopt, lost>>
  /\ \/ /\ Reachable /\ UNCHANGED faults
        /\ adopt' = [pc |-> "clear", tree |-> {x \in windows : x.home = socket}]
     \/ Refused /\ adopt' = [pc |-> "done", tree |-> {}]

AdoptClear ==
  /\ adopt.pc = "clear" /\ AdoptKeeps /\ UNCHANGED <<windows, bind, lost, faults>>
  /\ needAdopt' = FALSE /\ adopt' = [adopt EXCEPT !.pc = "walk"]

\* adoptTree: rebind, or close an orphan or a duplicate.
AdoptWindow(x) ==
  /\ adopt.pc = "walk" /\ x \in adopt.tree /\ AdoptKeeps /\ UNCHANGED needAdopt
  /\ adopt' = [adopt EXCEPT !.tree = @ \ {x}]
  /\ IF x.widget \in Defines[cfg] /\ bind[x.widget] \in {0, x.id}
     THEN bind' = [bind EXCEPT ![x.widget] = x.id] /\ UNCHANGED <<windows, lost, faults>>
     ELSE /\ UNCHANGED bind
          /\ \/ windows' = windows \ {x} /\ UNCHANGED <<lost, faults>>
             \/ Refused /\ UNCHANGED windows /\ lost' = lost \cup {x}

AdoptEnd ==
  /\ adopt.pc = "walk" /\ adopt.tree = {} /\ AdoptKeeps
  /\ adopt' = [adopt EXCEPT !.pc = "done"] /\ UNCHANGED <<windows, bind, needAdopt, lost, faults>>

Adoption == AdoptList \/ AdoptClear \/ (\E x \in adopt.tree : AdoptWindow(x)) \/ AdoptEnd
Adopting == adopt.pc # "none"

-----------------------------------------------------------------------------
(* The loop: what it receives between ticks.                                *)

Selecting == sched.pc = "select"

BusyDone(w) ==
  /\ sched.pc \in {"select", "drain"} /\ InCall(w, "reply") /\ call' = [call EXCEPT ![w] = NoCall]
  /\ UNCHANGED <<kitty, bus, loop, adopt, results, history, closing, counts>>

AdoptDone ==
  /\ Selecting /\ adopt.pc = "done" /\ adopt' = NoAdopt
  /\ UNCHANGED <<kitty, bus, loop, call, results, history, closing, counts>>

\* Seeded fault: a snapshot is recognised by its window alone.
FaultFresh(r) == r.widget \in Native \/ r.win = bind[r.widget]
Fresh(r) == IF r.widget \in Native THEN r.reg = nreg ELSE r.reg = reg /\ r.win = bind[r.widget]

\* applySnapshot and applyNative.
Apply(r) ==
  /\ Selecting /\ r \in results /\ results' = results \ {r}
  /\ shown' = IF Fresh(r) /\ r.ok
              THEN [shown EXCEPT ![r.widget] = [win |-> r.win, home |-> r.home, cfg |-> r.cfg]]
              ELSE shown
  /\ errPending' = IF Fresh(r) /\ ~ r.ok THEN errPending \cup {r.widget} ELSE errPending
  /\ UNCHANGED <<kitty, bus, sched, call, adopt, lost, closing, counts>>

-----------------------------------------------------------------------------
(* The loop: a tick.                                                        *)

Goto(pc) == sched' = [sched EXCEPT !.pc = pc]
ExecWanted == visible \cap Exec # {}
StopDue == exited \/ (renderer # 0 /\ ~ ExecWanted)
LaunchDue == renderer = 0 /\ ~ exited /\ ~ held /\ ExecWanted /\ launched < MaxRenderers

\* Seeded fault: a replacement does not wait for the calls in flight.
FaultQuiet == ~ Adopting
Quiet == ~ Adopting /\ \A w \in Widgets : InCall(w, "none")

\* A new registry; what views show follows the layouts of the configuration.
Install(g) ==
  /\ cfg' = g /\ pending' = None /\ reg' = reg + 1 /\ nreg' = nreg + 1
  /\ bind' = NoBinding /\ errPending' = {} /\ needAdopt' = (~ managed \/ socket # 0)
  /\ \E vs \in SUBSET Defines[g] : visible' = IF visible = {} THEN {} ELSE vs

\* rendererTransition, then trySwapPending.
Tick ==
  /\ Selecting
  /\ sched' = [pc |-> "render", quiescing |-> managed /\ (StopDue \/ LaunchDue)]
  /\ IF pending # None /\ Quiet THEN Install(pending) /\ UNCHANGED socket
                                ELSE UNCHANGED <<bus, errPending>>
  /\ UNCHANGED <<kitty, gofuncs, history, closing, counts>>

\* installRenderer: native states move to the new registry.
InstallRenderer(s) ==
  /\ socket' = s /\ needAdopt' = (s # 0) /\ reg' = reg + 1 /\ bind' = NoBinding /\ errPending' = {}
  /\ UNCHANGED <<cfg, pending, nreg, visible>>

StopRenderer ==
  /\ StopDue /\ renderer' = 0 /\ exited' = FALSE /\ windows' = {} /\ held' = (exited \/ held)
  /\ InstallRenderer(0) /\ UNCHANGED <<managed, opened, launched, faults>>

\* A new renderer numbers its windows from one.
LaunchRenderer ==
  /\ LaunchDue /\ UNCHANGED <<managed, exited>>
  /\ \/ /\ launched' = launched + 1 /\ renderer' = launched' /\ windows' = {} /\ opened' = 0
        /\ InstallRenderer(launched') /\ UNCHANGED <<held, faults>>
     \/ /\ Fault /\ launched' = launched + 1 /\ held' = TRUE
        /\ UNCHANGED <<renderer, windows, opened, bus, errPending>>

\* stepRenderer.
Render ==
  /\ sched.pc = "render" /\ Goto("pass")
  /\ IF managed /\ Quiet /\ (StopDue \/ LaunchDue)
     THEN StopRenderer \/ LaunchRenderer
     ELSE UNCHANGED <<kitty, bus, errPending, faults>>
  /\ UNCHANGED <<gofuncs, history, closing, changes, reloads>>

\* Seeded fault: calls are started although a configuration waits for them to end.
FaultHold == sched.quiescing
Hold == sched.quiescing \/ pending # None

Unavailable == managed /\ socket = 0
Gate == Unavailable \/ needAdopt \/ Adopting

\* What a pass may do for a widget; polls and retries wait for their time.
Job(w) ==
  CASE w \in Native /\ w \in visible -> {"poll"}
    [] w \in Exec /\ ~ Gate /\ w \in visible ->
         IF bind[w] = 0 THEN {"launch"} ELSE IF w \in errPending THEN {"verify"} ELSE {"scrape"}
    [] w \in Exec /\ ~ Gate /\ w \notin visible /\ bind[w] # 0 -> {"release"}
    [] OTHER -> {}
Due == {w \in Defines[cfg] : InCall(w, "none") /\ ~ Hold /\ Job(w) # {}}
Start(w) == [pc |-> CHOOSE j \in Job(w) : TRUE,
             win |-> IF w \in Exec THEN bind[w] ELSE 0,
             reg |-> IF w \in Exec THEN reg ELSE nreg]

\* The rest of the tick: the adoption, and schedulerPass.
Pass ==
  /\ sched.pc = "pass" /\ Goto("select")
  /\ \/ /\ visible # {} /\ ~ Unavailable /\ ~ sched.quiescing /\ needAdopt /\ ~ Adopting
        /\ adopt' = [pc |-> "ls", tree |-> {}]
     \/ UNCHANGED adopt
  /\ \E now \in SUBSET Due :
       /\ call' = [w \in Widgets |-> IF w \in now THEN Start(w) ELSE call[w]]
       /\ errPending' = errPending \ {w \in now : Start(w).pc = "verify"}
  /\ UNCHANGED <<kitty, bus, results, history, closing, counts>>

-----------------------------------------------------------------------------
(* Shutdown.                                                                *)

Ending ==
  /\ Selecting /\ closing /\ Goto("drain") /\ results' = {}
  /\ UNCHANGED <<kitty, bus, errPending, call, adopt, history, closing, counts>>

\* Seeded faults: an adoption in flight is not waited for; one that has not
\* started is.
FaultDrainedLate == ~ Adopting /\ ~ needAdopt /\ \A w \in Widgets : InCall(w, "none")
Drained == adopt.pc \in {"none", "done"} /\ \A w \in Widgets : InCall(w, "none")

\* A swap may have re-armed an adoption that has not run.
LateAdopt ==
  /\ sched.pc = "drain" /\ Drained
  /\ IF ~ managed /\ needAdopt
     THEN adopt' = [pc |-> "ls", tree |-> {}] /\ Goto("late")
     ELSE adopt' = NoAdopt /\ Goto("release")
  /\ UNCHANGED <<kitty, bus, errPending, call, results, history, closing, counts>>

LateAdopted ==
  /\ sched.pc = "late" /\ adopt.pc = "done" /\ adopt' = NoAdopt /\ Goto("release")
  /\ lost' = IF needAdopt THEN lost \cup windows ELSE lost
  /\ UNCHANGED <<kitty, bus, errPending, call, results, shown, closing, counts>>

Bound == {x \in windows : bind[x.widget] = x.id}

\* releaseAll, which gives up on a window whose close fails, and stopRenderer.
ReleaseAll ==
  /\ sched.pc = "release" /\ Goto("down")
  /\ \E failed \in SUBSET Bound :
       /\ IF failed = {} THEN UNCHANGED faults ELSE Fault
       /\ windows' = IF managed THEN {} ELSE windows \ (Bound \ failed)
       /\ lost' = lost \cup failed
       /\ bind' = [w \in Exec |-> IF \E x \in failed : x.widget = w THEN bind[w] ELSE 0]
  /\ renderer' = 0 /\ exited' = FALSE
  /\ UNCHANGED <<managed, opened, launched, held, cfg, pending, reg, nreg, socket, needAdopt,
                 visible, errPending, gofuncs, shown, closing, changes, reloads>>

-----------------------------------------------------------------------------
Receive == (\E w \in Widgets : BusyDone(w)) \/ AdoptDone \/ (\E r \in results : Apply(r))
TickStep == Tick \/ Render \/ Pass
Shutdown == Ending \/ LateAdopt \/ LateAdopted \/ ReleaseAll

Next ==
  \/ \E vs \in SUBSET Widgets : Look(vs)
  \/ \E g \in Configs : Reload(g)
  \/ \E x \in windows : WindowEnds(x)
  \/ RendererEnds \/ DelayEnds \/ Stop
  \/ \E w \in Widgets : Call(w)
  \/ Adoption \/ Receive \/ TickStep \/ Shutdown

Spec == Init /\ [][Next]_vars

-----------------------------------------------------------------------------
(* Properties.                                                              *)

Window == [id : Nat \ {0}, home : Nat, widget : Exec]
Pcs == {"none", "launch", "finish", "verify", "release", "scrape", "poll", "reply"}

\* Types; only widgets of the installed configuration are bound.
TypeOK ==
  /\ windows \subseteq Window /\ lost \subseteq Window /\ adopt.tree \subseteq Window
  /\ cfg \in Configs /\ pending \in Configs \cup {None} /\ visible \subseteq Defines[cfg]
  /\ bind \in [Exec -> Nat] /\ \A w \in Exec : bind[w] # 0 => w \in Defines[cfg]
  /\ errPending \subseteq Exec \cap Defines[cfg] /\ socket \in 0 .. MaxRenderers
  /\ \A w \in Widgets : call[w].pc \in Pcs
  /\ sched.pc \in {"select", "render", "pass", "drain", "late", "release", "down"}
  /\ adopt.pc \in {"none", "ls", "clear", "walk", "done"}

\* No window runs that the bus has forgotten: once leftover windows are adopted,
\* each is bound, about to be bound, or one whose launch or close failed (scheduler.go
\* "the launched window then leaks hidden", "swapping mid-flight would orphan").
NoLeakedWindow ==
  ~ needAdopt /\ ~ Adopting /\ sched.pc # "down" =>
    \A x \in windows \ lost :
      \/ bind[x.widget] = x.id
      \/ call[x.widget].pc = "finish" /\ call[x.widget].win = x.id

\* What is published was taken from the window, renderer and configuration the
\* widget has now (scheduler.go "recording it would repopulate a torn-down window's
\* snapshot"), though window ids repeat in every renderer.
ShownIsCurrent ==
  [][ \A w \in Widgets : shown'[w] # shown[w] =>
        /\ shown'[w].cfg = cfg
        /\ w \in Exec => shown'[w].win = bind[w] /\ shown'[w].home = socket ]_vars

\* Shutdown leaves no window behind: a window still opening is waited for, a
\* leftover one is adopted to be closed (scheduler.go "would miss its late
\* setWindowID and leak the window").
ShutdownClosesAll == sched.pc = "down" => windows \subseteq lost /\ renderer = 0

\* The two together, in states of the types: every window is somebody's to close until it is
\* (scheduler.go).
WindowsClosed == TypeOK /\ NoLeakedWindow /\ ShutdownClosesAll

-----------------------------------------------------------------------------
(* Fairness: goroutines run, every remote-control call has a deadline and    *)
(* every module poll a timeout, and ticks do not crowd out what the loop     *)
(* receives (select picks among ready channels at random).                   *)

Fairness ==
  /\ WF_vars(TickStep) /\ WF_vars(Adoption)
  /\ \A w \in Widgets : WF_vars(Call(w)) /\ SF_vars(BusyDone(w))
                         /\ SF_vars(\E r \in results : r.widget = w /\ Apply(r))
  /\ SF_vars(AdoptDone) /\ SF_vars(Ending) /\ WF_vars(LateAdopt \/ LateAdopted \/ ReleaseAll)

FairSpec == Spec /\ Fairness

\* A reload is installed however busy the widgets are: calls that end are not
\* replaced while it waits.
ReloadInstalled == pending # None ~> pending = None \/ closing

\* A stop request ends the scheduler, whatever is in flight.
ShutdownEnds == closing ~> sched.pc = "down"
=============================================================================
