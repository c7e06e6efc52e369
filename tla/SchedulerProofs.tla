--------------------------- MODULE SchedulerProofs ---------------------------
(***************************************************************************)
(* The scheduler forgets no window and publishes no screen that is not of  *)
(* the window, renderer and configuration its widget has: for any widgets, *)
(* configurations and renderers, and any number of calls, polls, reloads,  *)
(* changes of what views show and faults.                                  *)
(***************************************************************************)
EXTENDS Scheduler, FiniteSetTheorems, TLAPS

USE SchedulerAssumption

(* The inductive invariant, in parts.                                       *)

CallState == [pc : Pcs, win : Nat, reg : Nat]
LoopState == [pc : {"select", "render", "pass", "drain", "late", "release", "down"}, quiescing : BOOLEAN]
AdoptState == [pc : {"none", "ls", "clear", "walk", "done"}, tree : SUBSET Window]
Answer == [widget : Widgets, win : Nat, reg : Nat, ok : BOOLEAN, home : Nat, cfg : Configs]
Screen == [win : Nat, home : Nat, cfg : Configs]

KittyTypes ==
  /\ managed \in BOOLEAN /\ windows \subseteq Window /\ opened \in Nat
  /\ renderer \in Nat /\ launched \in 0 .. MaxRenderers /\ exited \in BOOLEAN /\ held \in BOOLEAN
BusTypes ==
  /\ cfg \in Configs /\ pending \in Configs \cup {None} /\ reg \in Nat /\ nreg \in Nat
  /\ bind \in [Exec -> Nat] /\ \A w \in Exec : bind[w] # 0 => w \in Defines[cfg]
  /\ socket \in 0 .. MaxRenderers /\ needAdopt \in BOOLEAN /\ visible \subseteq Defines[cfg]
LoopTypes == sched \in LoopState /\ errPending \subseteq Exec \cap Defines[cfg]
WorkTypes == call \in [Widgets -> CallState] /\ adopt \in AdoptState /\ results \subseteq Answer
PastTypes ==
  /\ shown \in [Widgets -> Screen \cup {None}] /\ lost \subseteq Window /\ closing \in BOOLEAN
  /\ changes \in Nat /\ reloads \in Nat /\ faults \in Nat
Types == KittyTypes /\ BusTypes /\ LoopTypes /\ WorkTypes /\ PastTypes

\* Every window is one of the renderer the bus talks to, which is the live one if any is.
Homes ==
  /\ renderer # 0 => renderer = launched /\ socket = renderer
  /\ managed /\ renderer = 0 => windows = {}
  /\ ~ managed => renderer = 0 /\ socket = 0
  /\ \A x \in windows : x.home = socket

\* A call in flight is of the registry of now, and knows the binding it works on.
Calls ==
  /\ \A w \in Native : /\ call[w].pc \in {"none", "poll", "reply"}
                       /\ call[w].pc = "poll" => call[w].reg = nreg
  /\ \A w \in Exec :
       /\ call[w].pc # "poll"
       /\ call[w].pc \notin {"none", "reply"} => call[w].reg = reg
       /\ call[w].pc # "none" => w \in Defines[cfg] /\ ~ needAdopt /\ ~ Adopting
       /\ call[w].pc \in {"launch", "finish"} => bind[w] = 0
       /\ call[w].pc \in {"verify", "scrape", "release"} => call[w].win = bind[w]

\* What an adoption has yet to walk.
Walked ==
  /\ adopt.pc \in {"ls", "clear"} => needAdopt
  /\ adopt.pc = "clear" => windows \subseteq adopt.tree
  /\ adopt.pc \in {"none", "done"} => adopt.tree = {}

\* Every window is somebody's: bound, about to be, to be walked, or known to be lost.
Owned(x) ==
  \/ x \in lost \/ x \in adopt.tree \/ bind[x.widget] = x.id
  \/ call[x.widget].pc = "finish" /\ call[x.widget].win = x.id
Kept == ~ needAdopt /\ sched.pc # "down" => \A x \in windows : Owned(x)

\* Past the drain nothing is in flight.
Ended ==
  /\ sched.pc \in {"late", "release", "down"} => \A w \in Widgets : call[w].pc = "none"
  /\ sched.pc = "late" => ~ managed
  /\ sched.pc \in {"release", "down"} => adopt.pc = "none"
  /\ sched.pc = "release" /\ ~ managed /\ needAdopt => windows \subseteq lost
  /\ sched.pc = "down" => windows \subseteq lost /\ renderer = 0

\* A result of the registry of now is of the renderer and the configuration of now.
Polled ==
  \A r \in results :
    /\ r.widget \in Exec =>
         r.reg <= reg /\ (r.reg = reg => r.home = socket /\ r.cfg = cfg /\ r.widget \in Defines[cfg])
    /\ r.widget \in Native => r.ok /\ r.reg <= nreg /\ (r.reg = nreg => r.cfg = cfg)

IInv == Types /\ Homes /\ Calls /\ Walked /\ Kept /\ Ended /\ Polled

-----------------------------------------------------------------------------
(* Calls, the loop and the adoption.                                        *)

\* The bounds are numbers.
LEMMA Bounds == MaxRenderers \in Nat /\ MaxWindows \in Nat /\ 0 \in 0 .. MaxRenderers
OBVIOUS

\* What the types say of one call.
LEMMA CallOf ==
  ASSUME Types, NEW w \in Widgets
  PROVE  /\ call[w] \in CallState /\ call[w].pc \in Pcs /\ call[w].win \in Nat /\ call[w].reg \in Nat
         /\ sched \in LoopState /\ adopt \in AdoptState /\ adopt.tree \subseteq Window
         /\ NoCall \in CallState /\ NoCall.pc = "none" /\ NoAdopt \in AdoptState
         /\ NoAdopt.pc = "none" /\ NoAdopt.tree = {}
<1>1. call[w] \in CallState /\ sched \in LoopState /\ adopt \in AdoptState
  BY DEF Types, WorkTypes, LoopTypes
<1>2. NoCall \in CallState /\ NoCall.pc = "none"
  BY DEF NoCall, CallState, Pcs
<1>3. NoAdopt \in AdoptState /\ NoAdopt.pc = "none" /\ NoAdopt.tree = {}
  BY DEF NoAdopt, AdoptState
<1> QED BY <1>1, <1>2, <1>3 DEF CallState, AdoptState

\* A call that is answered.
LEMMA RepliedCall ==
  ASSUME Types, NEW w \in Widgets, Reply(w)
  PROVE  /\ call' \in [Widgets -> CallState] /\ call'[w].pc = "reply"
         /\ \A v \in Widgets : v # w => call'[v] = call[v]
<1> DEFINE new == [NoCall EXCEPT !.pc = "reply"]
<1>1. new \in CallState /\ new.pc = "reply"
  BY DEF NoCall, CallState, Pcs
<1>2. call \in [Widgets -> CallState] /\ call' = [call EXCEPT ![w] = new]
  BY DEF Types, WorkTypes, Reply
<1> HIDE DEF new
<1> QED BY <1>1, <1>2

\* The loop goes to another place.
LEMMA GoneTo ==
  ASSUME Types, NEW pc \in {"select", "render", "pass", "drain", "late", "release", "down"}, Goto(pc)
  PROVE  sched' \in LoopState /\ sched'.pc = pc
<1>1. sched \in LoopState
  BY DEF Types, LoopTypes
<1> QED BY <1>1 DEF Goto, LoopState

\* A widget of an exec kind is not native.
LEMMA Kinds ==
  /\ Exec \subseteq Widgets /\ Native \subseteq Widgets /\ \A w \in Exec : w \notin Native
  /\ \A w \in Widgets : w \in Exec \/ w \in Native
BY DEF Widgets

\* A binding that is written is one of the registry of now.
LEMMA BoundTo ==
  ASSUME Types, NEW w \in Exec, NEW win \in Nat, Bind(w, win), call[w].reg = reg, w \in Defines[cfg]
  PROVE  /\ bind' \in [Exec -> Nat] /\ bind'[w] = win
         /\ \A v \in Exec : v # w => bind'[v] = bind[v]
         /\ \A v \in Exec : bind'[v] # 0 => v \in Defines[cfg]
BY DEF Bind, Types, BusTypes

\* A call counts a fault, or does not.
LEMMA Counted ==
  ASSUME Types, Refused \/ Fault \/ UNCHANGED faults
  PROVE  faults' \in Nat
BY DEF Refused, Fault, Types, PastTypes

-----------------------------------------------------------------------------
(* The initial states.                                                      *)

LEMMA InitIInv == Init => IInv
<1> SUFFICES ASSUME Init PROVE IInv
  OBVIOUS
<1>1. Cardinality(Leftover) \in Nat
  BY FS_CardinalityType
<1>2. windows \subseteq Window /\ \A x \in windows : x.home = 0
  <2>1. PICK f \in [Leftover -> 1 .. Cardinality(Leftover)] :
          windows = IF managed THEN {} ELSE {[id |-> f[w], home |-> 0, widget |-> w] : w \in Leftover}
    BY DEF Init
  <2> QED BY <1>1, <2>1 DEF Window
<1>3. KittyTypes
  <2>1. renderer = 0 /\ launched = 0 /\ opened = IF managed THEN 0 ELSE Cardinality(Leftover)
    BY DEF Init
  <2>2. managed \in BOOLEAN /\ exited \in BOOLEAN /\ held \in BOOLEAN
    BY DEF Init
  <2>3. opened \in Nat
    BY <1>1, <2>1
  <2> QED BY <1>2, <2>1, <2>2, <2>3, Bounds DEF KittyTypes
<1>4. BusTypes
  BY Bounds DEF Init, BusTypes, NoBinding
<1>5. LoopTypes
  BY DEF Init, LoopTypes, LoopState
<1>6. WorkTypes /\ \A w \in Widgets : call[w].pc = "none"
  BY DEF Init, WorkTypes, NoCall, NoAdopt, CallState, AdoptState, Pcs
<1>7. PastTypes
  BY DEF Init, PastTypes
<1>8. Types
  BY <1>3, <1>4, <1>5, <1>6, <1>7 DEF Types
<1>9. Homes
  BY <1>2 DEF Init, Homes
<1>10. Calls
  BY <1>6, Kinds DEF Calls
<1>11. Walked /\ Ended /\ Polled
  BY DEF Init, Walked, Ended, Polled, NoAdopt
<1>12. Kept
  BY DEF Init, Kept
<1> QED BY <1>8, <1>9, <1>10, <1>11, <1>12 DEF IInv

-----------------------------------------------------------------------------
(* The world.                                                               *)

\* Views look elsewhere, a reload is asked for, the retry delay and the bus end: no
\* window, binding or call is touched.
LEMMA AskStep ==
  ASSUME IInv, (\E vs \in SUBSET Widgets : Look(vs)) \/ (\E g \in Configs : Reload(g)) \/ DelayEnds \/ Stop
  PROVE  IInv'
<1>1. UNCHANGED <<managed, windows, opened, renderer, launched, exited, cfg, reg, nreg, bind, socket, needAdopt,
                  loop, gofuncs, history>>
  BY DEF Look, Reload, DelayEnds, Stop, kitty, bus
<1>2. held' \in BOOLEAN /\ pending' \in Configs \cup {None} /\ visible' \subseteq Defines[cfg] /\ closing' \in BOOLEAN
  BY DEF IInv, Types, KittyTypes, BusTypes, PastTypes, Look, Reload, DelayEnds, Stop, kitty, bus
<1>3. changes' \in Nat /\ reloads' \in Nat /\ faults' \in Nat
  BY DEF IInv, Types, PastTypes, Look, Reload, DelayEnds, Stop, counts
<1>4. Types'
  BY <1>1, <1>2, <1>3 DEF IInv, Types, KittyTypes, BusTypes, LoopTypes, WorkTypes, PastTypes, loop, gofuncs, history
<1>5. (Homes /\ Calls /\ Walked)'
  BY <1>1 DEF IInv, Homes, Calls, Walked, loop, gofuncs, history, Adopting
<1>6. (Kept /\ Ended /\ Polled)'
  BY <1>1 DEF IInv, Kept, Owned, Ended, Polled, loop, gofuncs, history
<1> QED BY <1>4, <1>5, <1>6 DEF IInv

\* A window or the renderer ends by itself.
LEMMA EndStep ==
  ASSUME IInv, (\E x \in windows : WindowEnds(x)) \/ RendererEnds
  PROVE  IInv'
<1>1. UNCHANGED <<managed, opened, launched, held, bus, loop, gofuncs, history, closing, changes, reloads>>
  BY DEF WindowEnds, RendererEnds
<1>2. /\ windows' \subseteq windows /\ renderer' \in {renderer, 0} /\ exited' \in BOOLEAN
      /\ renderer' # renderer => renderer # 0 /\ windows' = {}
  BY DEF IInv, Types, KittyTypes, WindowEnds, RendererEnds
<1>3. faults' \in Nat
  BY DEF IInv, Types, PastTypes, WindowEnds, RendererEnds, Fault
<1>4. Types'
  BY <1>1, <1>2, <1>3 DEF IInv, Types, KittyTypes, BusTypes, LoopTypes, WorkTypes, PastTypes, bus, loop, gofuncs,
                          history
<1>5. Homes'
  BY <1>1, <1>2 DEF IInv, Homes, bus, loop
<1>6. (Calls /\ Walked)'
  BY <1>1, <1>2 DEF IInv, Calls, Walked, bus, loop, gofuncs, Adopting
<1>7. (Kept /\ Polled)'
  BY <1>1, <1>2 DEF IInv, Kept, Owned, Polled, bus, loop, gofuncs, history
<1>8. Ended'
  BY <1>1, <1>2 DEF IInv, Ended, bus, loop, gofuncs, history
<1> QED BY <1>4, <1>5, <1>6, <1>7, <1>8 DEF IInv

-----------------------------------------------------------------------------
(* Calls to the renderer.                                                   *)

\* What a step of a call in flight knows, whatever it does: the call is of the
\* registry of now, no adoption runs and none is due, and nothing else of the bus moves.
LEMMA InFlight ==
  ASSUME IInv, NEW w \in Exec, call[w].pc \notin {"none", "reply"}
  PROVE  /\ w \in Widgets /\ call[w].reg = reg /\ w \in Defines[cfg] /\ ~ needAdopt /\ adopt.pc = "none"
         /\ adopt.tree = {} /\ sched.pc \in {"select", "render", "pass", "drain"}
         /\ call[w].win \in Nat
         /\ call[w].pc \in {"launch", "finish"} => bind[w] = 0
         /\ call[w].pc \in {"verify", "scrape", "release"} => call[w].win = bind[w]
         /\ \A x \in windows : Owned(x)
<1>1. w \in Widgets /\ Types /\ Calls /\ Walked /\ Kept /\ Ended
  BY Kinds DEF IInv
<1>2. call[w].reg = reg /\ w \in Defines[cfg] /\ ~ needAdopt /\ adopt.pc = "none"
  BY <1>1 DEF Calls, Adopting
<1>3. adopt.tree = {}
  BY <1>1, <1>2 DEF Walked
<1>4. sched.pc \in {"select", "render", "pass", "drain"}
  BY <1>1, CallOf DEF Ended, LoopState
<1>5. \A x \in windows : Owned(x)
  BY <1>1, <1>2, <1>4 DEF Kept
<1> QED BY <1>1, <1>2, <1>3, <1>4, <1>5, CallOf DEF Calls

\* A step of the call of an exec widget keeps the invariant if it leaves the binding
\* a call of its next state expects, and every window somebody's.
LEMMA CallKept ==
  ASSUME IInv, NEW w \in Exec, CallKeeps, call[w].pc \notin {"none", "reply"},
         call' \in [Widgets -> CallState], \A v \in Widgets : v # w => call'[v] = call[v],
         call'[w].pc \in {"finish", "reply"},
         call'[w].pc = "finish" => call'[w].reg = reg /\ bind'[w] = 0,
         bind' \in [Exec -> Nat], \A v \in Exec : v # w => bind'[v] = bind[v],
         windows' \subseteq Window, lost' \subseteq Window, opened' \in Nat, faults' \in Nat,
         \A x \in windows' : x.home = socket,
         managed /\ renderer = 0 => windows' = {},
         \A x \in windows' : Owned(x)',
         results' = results \/ (\E r \in Answer :
            results' = results \cup {r} /\ r.widget = w /\ r.reg = reg /\ r.home = socket /\ r.cfg = cfg)
  PROVE  IInv'
<1>1. /\ w \in Widgets /\ call[w].reg = reg /\ w \in Defines[cfg] /\ ~ needAdopt /\ adopt.pc = "none"
      /\ sched.pc \in {"select", "render", "pass", "drain"}
  BY InFlight
<1>2. UNCHANGED <<managed, renderer, launched, exited, held, cfg, pending, reg, nreg, socket, needAdopt, visible,
                  sched, errPending, adopt, shown, closing, changes, reloads>>
  BY DEF CallKeeps, loop
<1>3. Types'
  <2>1. (KittyTypes /\ LoopTypes)'
    BY <1>2 DEF IInv, Types, KittyTypes, LoopTypes
  <2>2. BusTypes'
    BY <1>1, <1>2 DEF IInv, Types, BusTypes
  <2>3. WorkTypes'
    BY <1>2 DEF IInv, Types, WorkTypes
  <2>4. PastTypes'
    BY <1>2 DEF IInv, Types, PastTypes
  <2> QED BY <2>1, <2>2, <2>3, <2>4 DEF Types
<1>4. Homes'
  BY <1>2 DEF IInv, Homes
<1>5. Calls'
  BY <1>1, <1>2, Kinds DEF IInv, Calls, Adopting
<1>6. (Walked /\ Kept /\ Ended)'
  BY <1>1, <1>2 DEF IInv, Walked, Kept, Ended
<1>7. Polled'
  <2>1. reg \in Nat
    BY DEF IInv, Types, BusTypes
  <2>2. ASSUME NEW r \in results'
        PROVE  r \in results \/ (r.widget = w /\ r.reg = reg /\ r.home = socket /\ r.cfg = cfg)
    BY <2>2
  <2> QED BY <1>1, <1>2, <2>1, <2>2, Kinds DEF IInv, Polled
<1> QED BY <1>3, <1>4, <1>5, <1>6, <1>7 DEF IInv

\* A window that nothing else of the bus touches stays somebody's.
LEMMA OwnedStill ==
  ASSUME IInv, NEW w \in Exec, call[w].pc \notin {"none", "reply"}, NEW x \in windows, UNCHANGED adopt,
         \A v \in Widgets : v # w => call'[v] = call[v], \A v \in Exec : v # w => bind'[v] = bind[v],
         lost \subseteq lost', x.widget = w => x \in lost' \/ bind'[w] = x.id
  PROVE  Owned(x)'
<1>1. Owned(x) /\ adopt.tree = {}
  BY InFlight
<1>2. x.widget \in Exec
  BY DEF IInv, Types, KittyTypes, Window
<1> QED BY <1>1, <1>2, Kinds DEF Owned

\* Ensure up to the launch.
LEMMA LaunchStep ==
  ASSUME IInv, NEW w \in Widgets, EnsureLaunch(w)
  PROVE  IInv'
<1>1. w \in Exec /\ call[w].pc = "launch" /\ CallKeeps /\ bind' = bind /\ results' = results
  BY Kinds DEF EnsureLaunch, InCall, IInv, Calls
<1>2. /\ bind[w] = 0 /\ call[w].reg = reg /\ adopt.tree = {} /\ Types /\ Homes
      /\ \A x \in windows : Owned(x)
  BY <1>1, InFlight DEF IInv
<1>3. faults' \in Nat /\ adopt' = adopt /\ bind \in [Exec -> Nat] /\ opened \in Nat /\ socket \in Nat
  BY <1>1, <1>2, Counted, Bounds DEF EnsureLaunch, CallKeeps, Types, BusTypes, KittyTypes
<1>4. PICK window \in Window : /\ window = [id |-> opened + 1, home |-> socket, widget |-> w]
                               /\ window.home = socket /\ window.widget = w /\ window.id \in Nat
  <2>1. [id |-> opened + 1, home |-> socket, widget |-> w] \in Window
    BY <1>1, <1>3 DEF Window
  <2> QED BY <1>3, <2>1
<1>5. \A x \in windows : x.widget = w => x \in lost \/ bind[w] = x.id
  BY <1>1, <1>2 DEF Owned
<1>6. UNCHANGED <<windows, opened>> \/ (Reachable /\ opened' = opened + 1 /\ windows' = windows \cup {window})
  BY <1>4 DEF EnsureLaunch
<1>7. /\ windows' \subseteq Window /\ opened' \in Nat /\ \A x \in windows' : x.home = socket
      /\ managed /\ renderer = 0 => windows' = {}
  BY <1>2, <1>3, <1>4, <1>6 DEF Types, KittyTypes, Homes, Reachable
<1>8. CASE /\ windows' = windows \cup {window} /\ lost' = lost
           /\ call' = [call EXCEPT ![w].pc = "finish", ![w].win = window.id]
  <2> DEFINE new == [call[w] EXCEPT !.pc = "finish", !.win = window.id]
  <2>1. new \in CallState /\ new.pc = "finish" /\ new.win = window.id /\ new.reg = reg
    BY <1>2, <1>4, CallOf DEF CallState, Pcs
  <2>2. call' = [call EXCEPT ![w] = new] /\ call \in [Widgets -> CallState]
    BY <1>2, <1>8 DEF Types, WorkTypes
  <2> HIDE DEF new
  <2>3. /\ call' \in [Widgets -> CallState] /\ call'[w].pc = "finish" /\ call'[w].win = window.id
        /\ call'[w].reg = reg /\ \A v \in Widgets : v # w => call'[v] = call[v]
    BY <2>1, <2>2
  <2>4. \A x \in windows : Owned(x)'
    BY <1>1, <1>3, <1>5, <1>8, <2>3, OwnedStill
  <2>5. Owned(window)'
    BY <1>4, <2>3 DEF Owned
  <2>6. lost' \subseteq Window /\ \A x \in windows' : Owned(x)'
    BY <1>2, <1>8, <2>4, <2>5 DEF Types, PastTypes
  <2> QED BY <1>1, <1>2, <1>3, <1>7, <2>3, <2>6, CallKept
<1>9. CASE /\ Reply(w) /\ lost \subseteq lost' /\ lost' \subseteq lost \cup {window}
           /\ windows' \subseteq windows \cup lost'
  <2>1. /\ call' \in [Widgets -> CallState] /\ call'[w].pc = "reply"
        /\ \A v \in Widgets : v # w => call'[v] = call[v]
    BY <1>2, <1>9, RepliedCall
  <2>2. \A x \in windows : Owned(x)'
    BY <1>1, <1>3, <1>5, <1>9, <2>1, OwnedStill
  <2>3. lost' \subseteq Window /\ \A x \in windows' : Owned(x)'
    BY <1>2, <1>4, <1>9, <2>2 DEF Types, PastTypes, Owned
  <2> QED BY <1>1, <1>2, <1>3, <1>7, <2>1, <2>3, CallKept
<1>10. (/\ windows' = windows \cup {window} /\ lost' = lost
        /\ call' = [call EXCEPT ![w].pc = "finish", ![w].win = window.id])
       \/ (Reply(w) /\ windows' = windows \cup {window} /\ lost' = lost \cup {window})
       \/ (Reply(w) /\ windows' = windows /\ lost' = lost)
  BY <1>4 DEF EnsureLaunch
<1> QED BY <1>8, <1>9, <1>10

\* What an answered call of an exec widget leaves behind.
LEMMA AnsweredKept ==
  ASSUME IInv, NEW w \in Exec, CallKeeps, call[w].pc \notin {"none", "reply"}, Reply(w), opened' = opened,
         NEW win \in Nat, (bind' = bind /\ win = bind[w]) \/ Bind(w, win),
         faults' \in Nat, windows' \subseteq windows, lost \subseteq lost', lost' \subseteq lost \cup windows,
         \A x \in windows' : x.widget = w => x \in lost' \/ win = x.id,
         results' = results \/ (\E r \in Answer :
            results' = results \cup {r} /\ r.widget = w /\ r.reg = reg /\ r.home = socket /\ r.cfg = cfg)
  PROVE  IInv'
<1>1. w \in Widgets /\ call[w].reg = reg /\ w \in Defines[cfg] /\ Types /\ Homes
  BY InFlight DEF IInv
<1>2. /\ call' \in [Widgets -> CallState] /\ call'[w].pc = "reply"
      /\ \A v \in Widgets : v # w => call'[v] = call[v]
  BY <1>1, RepliedCall
<1>3. bind' \in [Exec -> Nat] /\ bind'[w] = win /\ \A v \in Exec : v # w => bind'[v] = bind[v]
  <2>1. bind \in [Exec -> Nat]
    BY <1>1 DEF Types, BusTypes
  <2> QED BY <1>1, <2>1, BoundTo
<1>4. adopt' = adopt
  BY DEF CallKeeps
<1>5. \A x \in windows' : Owned(x)'
  BY <1>2, <1>3, <1>4, OwnedStill
<1>6. /\ windows' \subseteq Window /\ lost' \subseteq Window /\ opened' \in Nat
      /\ \A x \in windows' : x.home = socket
      /\ managed /\ renderer = 0 => windows' = {}
  BY <1>1 DEF Types, KittyTypes, PastTypes, Homes
<1> QED BY <1>2, <1>3, <1>5, <1>6, CallKept

\* The rest of Ensure: bound, or closed or lost.
LEMMA FinishStep ==
  ASSUME IInv, NEW w \in Widgets, EnsureFinish(w)
  PROVE  IInv'
<1>1. /\ w \in Exec /\ call[w].pc = "finish" /\ CallKeeps /\ opened' = opened /\ results' = results /\ Reply(w)
      /\ faults' \in Nat
  BY Kinds, Counted DEF EnsureFinish, InCall, IInv, Calls
<1>2. bind[w] = 0 /\ call[w].win \in Nat /\ adopt.tree = {} /\ \A x \in windows : Owned(x) /\ x.home = socket
  BY <1>1, InFlight DEF IInv, Homes
<1>3. \A x \in windows : x.widget = w => x \in lost \/ x.id = call[w].win
  <2> SUFFICES ASSUME NEW x \in windows, x.widget = w PROVE x \in lost \/ x.id = call[w].win
    OBVIOUS
  <2>1. x.id # 0
    BY DEF IInv, Types, KittyTypes, Window
  <2> QED BY <1>2, <2>1 DEF Owned
<1>4. \A x \in windows : x.id = call[w].win => x \in WindowOf(call[w].win)
  BY <1>2 DEF WindowOf
<1>5. WindowOf(call[w].win) \subseteq windows
  BY DEF WindowOf
<1>6. CASE Bind(w, call[w].win) /\ windows' = windows /\ lost' = lost
  BY <1>1, <1>2, <1>3, <1>6, AnsweredKept
<1>7. CASE Bind(w, 0) /\ windows' \subseteq windows /\ lost \subseteq lost' /\ lost' \subseteq lost \cup windows
           /\ \A x \in windows' : x \in WindowOf(call[w].win) => x \in lost'
  BY <1>1, <1>2, <1>3, <1>4, <1>7, AnsweredKept
<1> QED BY <1>5, <1>6, <1>7 DEF EnsureFinish

\* What the bus knows of the window of a binding.
LEMMA BoundWindows ==
  ASSUME IInv, NEW w \in Exec, call[w].pc \in {"verify", "release", "scrape"}
  PROVE  /\ call[w].win = bind[w] /\ call[w].win \in Nat /\ WindowOf(call[w].win) \subseteq windows
         /\ \A x \in windows : x.widget = w => x \in lost \/ (x.id = bind[w] /\ x \in WindowOf(call[w].win))
<1>1. /\ call[w].win = bind[w] /\ call[w].win \in Nat /\ adopt.tree = {}
      /\ \A x \in windows : Owned(x) /\ x.home = socket
  BY InFlight DEF IInv, Homes
<1>2. \A x \in windows : x.widget = w => x \in lost \/ x.id = bind[w]
  BY <1>1 DEF Owned
<1> QED BY <1>1, <1>2 DEF WindowOf

\* A failed check of a binding drops it only if the window is gone; a release closes
\* it first; a scrape touches none.
LEMMA CheckStep ==
  ASSUME IInv, NEW w \in Widgets, Verify(w) \/ CloseWindow(w) \/ Scrape(w)
  PROVE  IInv'
<1>1. /\ w \in Exec /\ call[w].pc \in {"verify", "release", "scrape"} /\ CallKeeps /\ opened' = opened
      /\ lost' = lost /\ Reply(w) /\ faults' \in Nat
  BY Kinds, Counted DEF Verify, CloseWindow, Scrape, InCall, IInv, Calls
<1>2. /\ call[w].win = bind[w] /\ bind[w] \in Nat /\ WindowOf(call[w].win) \subseteq windows
      /\ \A x \in windows : x.widget = w => x \in lost \/ (x.id = bind[w] /\ x \in WindowOf(call[w].win))
  BY <1>1, BoundWindows
<1>3. CASE Verify(w)
  <2>1. windows' = windows /\ results' = results
    BY <1>3 DEF Verify
  <2>2. CASE bind' = bind
    BY <1>1, <1>2, <2>1, <2>2, AnsweredKept
  <2>3. CASE Bind(w, 0) /\ Reachable /\ ~ Live(call[w].win)
    <3>1. WindowOf(call[w].win) = {}
      BY <2>3 DEF Live, WindowOf
    <3> QED BY <1>1, <1>2, <2>1, <2>3, <3>1, AnsweredKept
  <2> QED BY <1>3, <2>2, <2>3 DEF Verify
<1>4. CASE CloseWindow(w)
  <2>1. results' = results
    BY <1>4 DEF CloseWindow
  <2>2. CASE Bind(w, 0) /\ windows' = windows \ WindowOf(call[w].win)
    BY <1>1, <1>2, <2>1, <2>2, AnsweredKept
  <2>3. CASE bind' = bind /\ windows' \subseteq windows
    BY <1>1, <1>2, <2>1, <2>3, AnsweredKept
  <2> QED BY <1>4, <2>2, <2>3 DEF CloseWindow
<1>5. CASE Scrape(w)
  <2>1. windows' = windows /\ bind' = bind
    BY <1>5 DEF Scrape
  <2>2. results' = results \/ (\E ok \in BOOLEAN : results' = results \cup {Result(w, ok)})
    BY <1>5 DEF Scrape, Report
  <2>3. \A ok \in BOOLEAN : /\ Result(w, ok) \in Answer /\ Result(w, ok).widget = w
                            /\ Result(w, ok).reg = reg /\ Result(w, ok).home = socket /\ Result(w, ok).cfg = cfg
    <3>1. call[w].reg = reg /\ reg \in Nat /\ socket \in Nat /\ cfg \in Configs /\ call[w].win \in Nat
      BY <1>1, InFlight, Bounds DEF IInv, Types, BusTypes
    <3> QED BY <1>1, <3>1 DEF Result, Answer
  <2> QED BY <1>1, <1>2, <2>1, <2>2, <2>3, AnsweredKept
<1> QED BY <1>3, <1>4, <1>5

\* The poll of a native widget.
LEMMA PollStep ==
  ASSUME IInv, NEW w \in Widgets, PollNative(w)
  PROVE  IInv'
<1>1. /\ w \in Native /\ w \notin Exec /\ call[w].pc = "poll" /\ call[w].reg = nreg /\ Reply(w)
      /\ Types /\ Homes /\ Calls /\ Walked /\ Kept /\ Ended /\ Polled
  BY Kinds DEF PollNative, InCall, IInv, Calls
<1>2. UNCHANGED <<managed, windows, opened, renderer, launched, exited, held, bus, loop, adopt, shown, lost, closing,
                  changes, reloads, faults>>
  BY DEF PollNative, CallKeeps, bus
<1>3. /\ call' \in [Widgets -> CallState] /\ call'[w].pc = "reply"
      /\ \A v \in Widgets : v # w => call'[v] = call[v]
  BY <1>1, RepliedCall
<1>4. results' = results \/ results' = results \cup {Result(w, TRUE)}
  BY DEF PollNative, Report
<1>5. Result(w, TRUE) \in Answer /\ Result(w, TRUE).widget = w /\ Result(w, TRUE).reg = nreg
      /\ Result(w, TRUE).ok /\ Result(w, TRUE).cfg = cfg
  <2>1. nreg \in Nat /\ socket \in Nat /\ cfg \in Configs /\ call[w].win \in Nat
    BY <1>1, CallOf, Bounds DEF Types, BusTypes
  <2> QED BY <1>1, <2>1 DEF Result, Answer
<1>6. Types'
  BY <1>1, <1>2, <1>3, <1>4, <1>5 DEF Types, KittyTypes, BusTypes, LoopTypes, WorkTypes, PastTypes, bus, loop
<1>7. Homes' /\ Walked'
  BY <1>1, <1>2 DEF Homes, Walked, bus
<1>8. Calls'
  BY <1>1, <1>2, <1>3, Kinds DEF Calls, bus, Adopting
<1>9. Kept'
  <2>1. \A x \in windows : x.widget \in Widgets /\ x.widget # w
    BY <1>1, Kinds DEF Types, KittyTypes, Window
  <2> QED BY <1>1, <1>2, <1>3, <2>1 DEF Kept, Owned, bus, loop
<1>10. Ended'
  <2>1. sched.pc \notin {"late", "release", "down"}
    BY <1>1 DEF Ended
  <2> QED BY <1>2, <2>1 DEF Ended, loop
<1>11. Polled'
  <2>1. nreg \in Nat
    BY <1>1 DEF Types, BusTypes
  <2>2. ASSUME NEW r \in results'
        PROVE  r \in results \/ (r.widget = w /\ r.ok /\ r.reg = nreg /\ r.cfg = cfg)
    BY <1>4, <1>5, <2>2
  <2> QED BY <1>1, <1>2, <2>1, <2>2 DEF Polled, bus
<1> QED BY <1>6, <1>7, <1>8, <1>9, <1>10, <1>11 DEF IInv

-----------------------------------------------------------------------------
(* The adoption.                                                            *)

\* A step of the adoption keeps the invariant if it rebinds only widgets of the
\* configuration and leaves every window somebody's.
LEMMA AdoptKept ==
  ASSUME IInv, AdoptKeeps, Adopting, adopt' \in AdoptState, Walked', adopt'.pc # "none",
         needAdopt' \in BOOLEAN, needAdopt' => needAdopt,
         bind' \in [Exec -> Nat], \A w \in Exec : bind'[w] # 0 => w \in Defines[cfg],
         windows' \subseteq windows, lost \subseteq lost', lost' \subseteq Window, faults' \in Nat,
         ~ needAdopt' => \A x \in windows' : Owned(x)'
  PROVE  IInv'
<1>1. UNCHANGED <<managed, opened, renderer, launched, exited, held, cfg, pending, reg, nreg, socket, visible, sched,
                  errPending, call, results, shown, closing, changes, reloads>>
  BY DEF AdoptKeeps, loop
<1>2. Types /\ Homes /\ Calls /\ Walked /\ Kept /\ Ended /\ Polled
  BY DEF IInv
<1>3. Types'
  BY <1>1, <1>2 DEF Types, KittyTypes, BusTypes, LoopTypes, WorkTypes, PastTypes
<1>4. Homes' /\ Polled'
  BY <1>1, <1>2 DEF Homes, Polled
<1>5. \A w \in Exec : call[w].pc = "none"
  BY <1>2 DEF Calls
<1>6. Calls'
  BY <1>1, <1>2, <1>5 DEF Calls
<1>7. Kept'
  BY DEF Kept
<1>8. Ended'
  <2>1. sched.pc \notin {"release", "down"}
    BY <1>2 DEF Ended, Adopting
  <2> QED BY <1>1, <1>2, <2>1 DEF Ended
<1> QED BY <1>3, <1>4, <1>6, <1>7, <1>8 DEF IInv

\* The list of windows, and the end of the adoption that waits for it.
LEMMA ListStep ==
  ASSUME IInv, AdoptList \/ AdoptClear
  PROVE  IInv'
<1>1. /\ Types /\ Homes /\ Walked /\ Adopting /\ AdoptKeeps /\ adopt \in AdoptState
      /\ UNCHANGED <<windows, bind, lost>> /\ faults' \in Nat /\ needAdopt
  BY Counted DEF IInv, AdoptList, AdoptClear, Adopting, Walked, Types, WorkTypes, PastTypes
<1>2. bind \in [Exec -> Nat] /\ (\A w \in Exec : bind[w] # 0 => w \in Defines[cfg]) /\ lost \subseteq Window
  BY <1>1 DEF Types, BusTypes, PastTypes
<1>3. CASE AdoptList
  <2>1. needAdopt' = needAdopt
    BY <1>3 DEF AdoptList
  <2>2. CASE adopt' = [pc |-> "clear", tree |-> {x \in windows : x.home = socket}]
    <3>1. adopt' \in AdoptState /\ adopt'.pc = "clear" /\ windows \subseteq adopt'.tree
      BY <1>1, <2>2 DEF Types, KittyTypes, Homes, AdoptState
    <3>2. Walked'
      BY <1>1, <2>1, <3>1 DEF Walked
    <3> QED BY <1>1, <1>2, <2>1, <3>1, <3>2, AdoptKept
  <2>3. CASE adopt' = [pc |-> "done", tree |-> {}]
    <3>1. adopt' \in AdoptState /\ adopt'.pc = "done" /\ adopt'.tree = {}
      BY <2>3 DEF AdoptState
    <3>2. Walked'
      BY <3>1 DEF Walked
    <3> QED BY <1>1, <1>2, <2>1, <3>1, <3>2, AdoptKept
  <2> QED BY <1>3, <2>2, <2>3 DEF AdoptList
<1>4. CASE AdoptClear
  <2>1. /\ needAdopt' = FALSE /\ adopt' = [adopt EXCEPT !.pc = "walk"] /\ windows \subseteq adopt.tree
    BY <1>1, <1>4 DEF AdoptClear, Walked
  <2>2. adopt' \in AdoptState /\ adopt'.pc = "walk" /\ adopt'.tree = adopt.tree
    BY <1>1, <2>1 DEF AdoptState
  <2>3. Walked' /\ \A x \in windows : Owned(x)'
    BY <2>1, <2>2 DEF Walked, Owned
  <2> QED BY <1>1, <1>2, <2>1, <2>2, <2>3, AdoptKept
<1> QED BY <1>3, <1>4

\* A window of the tree is rebound, closed or lost; the last of them ends the walk.
LEMMA WalkStep ==
  ASSUME IInv, (\E x \in adopt.tree : AdoptWindow(x)) \/ AdoptEnd
  PROVE  IInv'
<1>1. /\ Types /\ Calls /\ Walked /\ Kept /\ Ended /\ Adopting /\ AdoptKeeps /\ adopt \in AdoptState
      /\ adopt.pc = "walk" /\ needAdopt' = needAdopt /\ faults' \in Nat /\ call' = call
  BY Counted DEF IInv, AdoptWindow, AdoptEnd, Adopting, AdoptKeeps, Types, WorkTypes, PastTypes
<1>2. /\ bind \in [Exec -> Nat] /\ (\A w \in Exec : bind[w] # 0 => w \in Defines[cfg]) /\ lost \subseteq Window
      /\ windows \subseteq Window /\ needAdopt \in BOOLEAN
  BY <1>1 DEF Types, KittyTypes, BusTypes, PastTypes
<1>3. /\ ~ needAdopt => \A x \in windows : Owned(x)
      /\ \A w \in Exec : call[w].pc = "none"
  BY <1>1 DEF Kept, Ended, Calls, Adopting
<1>4. ASSUME NEW x \in adopt.tree, AdoptWindow(x) PROVE IInv'
  <2>1. adopt' = [adopt EXCEPT !.tree = @ \ {x}] /\ x \in Window
    BY <1>1, <1>4 DEF AdoptWindow, AdoptState
  <2>2. adopt' \in AdoptState /\ adopt'.pc = "walk" /\ adopt'.tree = adopt.tree \ {x}
    BY <1>1, <2>1 DEF AdoptState
  <2>3. Walked'
    BY <2>2 DEF Walked
  <2>4. x.widget \in Exec /\ x.id \in Nat
    BY <2>1 DEF Window
  <2>5. CASE x.widget \in Defines[cfg] /\ bind[x.widget] \in {0, x.id}
    <3>1. bind' = [bind EXCEPT ![x.widget] = x.id] /\ windows' = windows /\ lost' = lost
      BY <1>4, <2>5 DEF AdoptWindow
    <3>2. /\ bind' \in [Exec -> Nat] /\ \A w \in Exec : bind'[w] # 0 => w \in Defines[cfg]
          /\ \A w \in Exec : w # x.widget => bind'[w] = bind[w]
          /\ bind'[x.widget] = x.id
      BY <1>2, <2>4, <2>5, <3>1
    <3>3. ASSUME ~ needAdopt, NEW y \in windows PROVE Owned(y)'
      <4>1. y.widget \in Exec /\ y.id # 0 /\ Owned(y)
        BY <1>2, <1>3, <3>3 DEF Window
      <4> QED BY <1>3, <2>2, <2>5, <3>1, <3>2, <4>1 DEF Owned
    <3> QED BY <1>1, <1>2, <2>2, <2>3, <3>1, <3>2, <3>3, AdoptKept
  <2>6. CASE ~ (x.widget \in Defines[cfg] /\ bind[x.widget] \in {0, x.id})
    <3>1. /\ bind' = bind /\ windows' \subseteq windows /\ lost \subseteq lost' /\ lost' \subseteq lost \cup {x}
          /\ x \in windows' => x \in lost'
      BY <1>4, <2>6 DEF AdoptWindow
    <3>2. ASSUME ~ needAdopt, NEW y \in windows' PROVE Owned(y)'
      <4>1. Owned(y)
        BY <1>3, <3>1, <3>2
      <4> QED BY <1>1, <2>2, <3>1, <4>1 DEF Owned
    <3> QED BY <1>1, <1>2, <2>1, <2>2, <2>3, <3>1, <3>2, AdoptKept
  <2> QED BY <2>5, <2>6
<1>5. CASE AdoptEnd
  <2>1. adopt.tree = {} /\ adopt' = [adopt EXCEPT !.pc = "done"] /\ UNCHANGED <<windows, bind, lost>>
    BY <1>5 DEF AdoptEnd
  <2>2. adopt' \in AdoptState /\ adopt'.pc = "done" /\ adopt'.tree = {}
    BY <1>1, <2>1 DEF AdoptState
  <2>3. Walked'
    BY <2>2 DEF Walked
  <2>4. ~ needAdopt => \A x \in windows : Owned(x)'
    BY <1>1, <1>3, <2>1, <2>2 DEF Owned
  <2> QED BY <1>1, <1>2, <2>1, <2>2, <2>3, <2>4, AdoptKept
<1> QED BY <1>4, <1>5

-----------------------------------------------------------------------------
(* What the loop receives.                                                  *)

\* A call is over, or the adoption is.
LEMMA DoneStep ==
  ASSUME IInv, (\E w \in Widgets : BusyDone(w)) \/ AdoptDone
  PROVE  IInv'
<1>1. UNCHANGED <<kitty, bus, loop, results, history, closing, counts>>
  BY DEF BusyDone, AdoptDone
<1>2. Types /\ Homes /\ Calls /\ Walked /\ Kept /\ Ended /\ Polled
  BY DEF IInv
<1>3. /\ call' \in [Widgets -> CallState] /\ adopt' \in AdoptState
      /\ \A w \in Widgets : call'[w] = call[w] \/ (call[w].pc = "reply" /\ call'[w].pc = "none")
      /\ adopt' = adopt \/ (adopt.pc = "done" /\ adopt'.pc = "none" /\ adopt'.tree = {})
  <2>1. CASE AdoptDone
    BY <1>2, <2>1 DEF AdoptDone, Types, WorkTypes, NoAdopt, AdoptState
  <2>2. ASSUME NEW w \in Widgets, BusyDone(w)
        PROVE  /\ call' \in [Widgets -> CallState] /\ adopt' = adopt /\ call[w].pc = "reply"
               /\ call'[w].pc = "none" /\ \A v \in Widgets : v # w => call'[v] = call[v]
    <3>1. NoCall \in CallState /\ NoCall.pc = "none"
      BY <1>2, CallOf
    <3>2. call \in [Widgets -> CallState] /\ call' = [call EXCEPT ![w] = NoCall]
      BY <1>2, <2>2 DEF BusyDone, Types, WorkTypes
    <3> QED BY <2>2, <3>1, <3>2 DEF BusyDone, InCall
  <2>3. adopt \in AdoptState
    BY <1>2 DEF Types, WorkTypes
  <2> QED BY <2>1, <2>2, <2>3
<1>4. Types'
  BY <1>1, <1>2, <1>3 DEF Types, KittyTypes, BusTypes, LoopTypes, WorkTypes, PastTypes, kitty, bus, loop, history,
                          counts
<1>5. Homes' /\ Polled'
  BY <1>1, <1>2 DEF Homes, Polled, kitty, bus
<1>6. Calls'
  BY <1>1, <1>2, <1>3, Kinds DEF Calls, Adopting, bus
<1>7. Walked' /\ Ended'
  BY <1>1, <1>2, <1>3 DEF Walked, Ended, kitty, bus, loop, history
<1>8. Kept'
  <2>1. \A x \in windows : x.widget \in Widgets
    BY <1>2, Kinds DEF Types, KittyTypes, Window
  <2> QED BY <1>1, <1>2, <1>3, <2>1 DEF Kept, Owned, Walked, kitty, bus, loop, history
<1> QED BY <1>4, <1>5, <1>6, <1>7, <1>8 DEF IInv

\* A result is taken, shown or dropped.
LEMMA ApplyStep ==
  ASSUME IInv, NEW r \in results, Apply(r)
  PROVE  IInv'
<1>1. UNCHANGED <<kitty, bus, sched, call, adopt, lost, closing, counts>> /\ results' \subseteq results
  BY DEF Apply
<1>2. Types /\ Homes /\ Calls /\ Walked /\ Kept /\ Ended /\ Polled /\ r \in Answer
  BY DEF IInv, Types, WorkTypes
<1>3. shown' \in [Widgets -> Screen \cup {None}]
  <2>1. [win |-> r.win, home |-> r.home, cfg |-> r.cfg] \in Screen /\ r.widget \in Widgets
    BY <1>2 DEF Answer, Screen
  <2>2. shown \in [Widgets -> Screen \cup {None}]
    BY <1>2 DEF Types, PastTypes
  <2> HIDE DEF Screen
  <2> QED BY <2>1, <2>2 DEF Apply
<1>4. errPending' \subseteq Exec \cap Defines[cfg]
  <2>1. errPending \subseteq Exec \cap Defines[cfg]
    BY <1>2 DEF Types, LoopTypes
  <2>2. Fresh(r) /\ ~ r.ok => r.widget \in Exec /\ r.widget \in Defines[cfg]
    BY <1>2, Kinds DEF Fresh, Polled, Answer
  <2> QED BY <2>1, <2>2 DEF Apply
<1>5. Types'
  BY <1>1, <1>2, <1>3, <1>4 DEF Types, KittyTypes, BusTypes, LoopTypes, WorkTypes, PastTypes, kitty, bus, counts
<1>6. (Homes /\ Calls /\ Walked)'
  BY <1>1, <1>2 DEF Homes, Calls, Walked, Adopting, kitty, bus
<1>7. (Kept /\ Ended /\ Polled)'
  BY <1>1, <1>2 DEF Kept, Owned, Ended, Polled, kitty, bus
<1> QED BY <1>5, <1>6, <1>7 DEF IInv

-----------------------------------------------------------------------------
(* A tick.                                                                  *)

\* Nothing is in flight where a configuration or a renderer is replaced.
LEMMA QuietNow ==
  ASSUME Types, Walked, Quiet
  PROVE  adopt.pc = "none" /\ adopt.tree = {} /\ \A w \in Widgets : call[w].pc = "none"
BY DEF Quiet, Adopting, InCall, Walked

\* A configuration or a renderer is replaced while nothing is in flight: what the old
\* registry bound is adopted, or is gone with its renderer.
LEMMA ReplaceKept ==
  ASSUME IInv, Quiet, sched.pc \in {"select", "render"}, sched' \in LoopState, sched'.pc \in {"render", "pass"},
         UNCHANGED <<managed, gofuncs, history, closing, changes, reloads>>,
         windows' \subseteq windows, opened' \in Nat, renderer' \in Nat, launched' \in 0 .. MaxRenderers,
         exited' \in BOOLEAN, held' \in BOOLEAN, Homes', faults' \in Nat,
         cfg' \in Configs, pending' \in Configs \cup {None}, reg' = reg + 1, nreg' \in Nat, nreg' >= nreg,
         nreg' = nreg => cfg' = cfg,
         bind' = NoBinding, errPending' = {}, socket' \in 0 .. MaxRenderers, needAdopt' \in BOOLEAN,
         visible' \subseteq Defines[cfg'], ~ needAdopt' => windows' = {}
  PROVE  IInv'
<1>1. /\ Types /\ Walked /\ Polled /\ adopt.pc = "none" /\ adopt.tree = {}
      /\ \A w \in Widgets : call[w].pc = "none"
  BY QuietNow DEF IInv
<1>2. UNCHANGED <<call, adopt, results, shown, lost>>
  BY DEF gofuncs, history
<1>3. bind' \in [Exec -> Nat] /\ \A w \in Exec : bind'[w] = 0
  BY DEF NoBinding
<1>4. Types'
  <2>1. KittyTypes'
    BY <1>1 DEF Types, KittyTypes
  <2>2. BusTypes'
    BY <1>1, <1>3 DEF Types, BusTypes
  <2>3. LoopTypes'
    BY DEF LoopTypes
  <2>4. (WorkTypes /\ PastTypes)'
    BY <1>1, <1>2 DEF Types, WorkTypes, PastTypes
  <2> QED BY <2>1, <2>2, <2>3, <2>4 DEF Types
<1>5. Calls' /\ Walked'
  BY <1>1, <1>2, Kinds DEF Calls, Walked
<1>6. Kept' /\ Ended'
  BY DEF Kept, Ended
<1>7. Polled'
  <2>1. reg \in Nat /\ nreg \in Nat
    BY <1>1 DEF Types, BusTypes
  <2>2. results \subseteq Answer
    BY <1>1 DEF Types, WorkTypes
  <2>3. \A r \in results : r.reg \in Nat
    BY <2>2 DEF Answer
  <2>4. \A m, n \in Nat : m <= n => m <= n + 1 /\ m # n + 1
    OBVIOUS
  <2>5. \A r \in results : r.widget \in Exec => r.reg <= reg' /\ r.reg # reg'
    BY <1>1, <2>1, <2>3, <2>4 DEF Polled
  <2>6. \A r \in results : r.widget \in Native => r.ok /\ r.reg <= nreg' /\ (r.reg = nreg' => r.cfg = cfg')
    <3> SUFFICES ASSUME NEW r \in results, r.widget \in Native
                 PROVE  r.ok /\ r.reg <= nreg' /\ (r.reg = nreg' => r.cfg = cfg')
      OBVIOUS
    <3>1. r.ok /\ r.reg <= nreg /\ (r.reg = nreg => r.cfg = cfg) /\ r.reg \in Nat
      BY <1>1, <2>3 DEF Polled
    <3> QED BY <2>1, <3>1
  <2> QED BY <1>2, <2>5, <2>6 DEF Polled
<1> QED BY <1>4, <1>5, <1>6, <1>7 DEF IInv

\* The start of a tick, which installs the pending configuration if nothing is in flight.
LEMMA TickBegins ==
  ASSUME IInv, Tick
  PROVE  IInv'
<1>1. /\ Types /\ Homes /\ sched.pc = "select" /\ UNCHANGED <<kitty, gofuncs, history, closing, counts>>
      /\ sched' = [pc |-> "render", quiescing |-> managed /\ (StopDue \/ LaunchDue)]
  BY DEF IInv, Tick, Selecting
<1>2. sched' \in LoopState /\ sched'.pc = "render"
  <2>1. (managed /\ (StopDue \/ LaunchDue)) \in BOOLEAN
    OBVIOUS
  <2> QED BY <1>1, <2>1 DEF LoopState
<1>3. CASE pending # None /\ Quiet /\ Install(pending) /\ UNCHANGED socket
  <2>1. UNCHANGED <<managed, windows, opened, renderer, launched, exited, held, changes, reloads, faults>>
    BY <1>1 DEF kitty, counts
  <2>2. /\ opened \in Nat /\ renderer \in Nat /\ launched \in 0 .. MaxRenderers /\ exited \in BOOLEAN
        /\ held \in BOOLEAN /\ faults \in Nat /\ managed \in BOOLEAN /\ nreg \in Nat /\ socket \in 0 .. MaxRenderers
    BY <1>1 DEF Types, KittyTypes, BusTypes, PastTypes
  <2>3. Homes'
    BY <1>1, <1>3, <2>1 DEF Homes
  <2>4. /\ cfg' \in Configs /\ pending' = None /\ reg' = reg + 1 /\ nreg' = nreg + 1 /\ bind' = NoBinding
        /\ errPending' = {} /\ needAdopt' = (~ managed \/ socket # 0)
    BY <1>1, <1>3 DEF Install, Types, BusTypes
  <2>5. visible' \subseteq Defines[cfg']
    BY <1>3 DEF Install
  <2>6. needAdopt' \in BOOLEAN /\ (~ needAdopt' => windows = {})
    BY <1>1, <2>2, <2>4 DEF Homes
  <2>7. nreg' \in Nat /\ nreg' >= nreg /\ nreg' # nreg
    BY <2>2, <2>4
  <2> QED BY <1>1, <1>2, <1>3, <2>1, <2>2, <2>3, <2>4, <2>5, <2>6, <2>7, ReplaceKept
<1>4. CASE UNCHANGED <<bus, errPending>>
  <2>1. Types' /\ Homes'
    BY <1>1, <1>2, <1>4
       DEF Types, KittyTypes, BusTypes, LoopTypes, WorkTypes, PastTypes, Homes, kitty, bus, gofuncs, history, counts
  <2>2. Calls' /\ Walked' /\ Polled'
    BY <1>1, <1>4 DEF IInv, Calls, Walked, Polled, Adopting, kitty, bus, gofuncs, history
  <2>3. Kept' /\ Ended'
    BY <1>1, <1>2, <1>4 DEF IInv, Kept, Owned, Ended, kitty, bus, gofuncs, history
  <2> QED BY <2>1, <2>2, <2>3 DEF IInv
<1> QED BY <1>3, <1>4 DEF Tick

\* stepRenderer.
LEMMA RenderStep ==
  ASSUME IInv, Render
  PROVE  IInv'
<1>1. /\ Types /\ Homes /\ sched.pc = "render" /\ UNCHANGED <<gofuncs, history, closing, changes, reloads>>
      /\ sched' \in LoopState /\ sched'.pc = "pass"
  BY GoneTo DEF IInv, Render
<1>2. /\ managed \in BOOLEAN /\ opened \in Nat /\ renderer \in Nat /\ launched \in 0 .. MaxRenderers
      /\ exited \in BOOLEAN /\ held \in BOOLEAN /\ faults \in Nat /\ cfg \in Configs
      /\ pending \in Configs \cup {None} /\ nreg \in Nat /\ visible \subseteq Defines[cfg]
  BY <1>1 DEF Types, KittyTypes, BusTypes, PastTypes
<1>3. CASE managed /\ Quiet /\ StopRenderer
  <2>1. /\ renderer' = 0 /\ exited' = FALSE /\ windows' = {} /\ held' = (exited \/ held) /\ socket' = 0
        /\ needAdopt' = (0 # 0) /\ reg' = reg + 1 /\ bind' = NoBinding /\ errPending' = {}
        /\ UNCHANGED <<managed, opened, launched, faults, cfg, pending, nreg, visible>>
    BY <1>3 DEF StopRenderer, InstallRenderer
  <2>2. Homes' /\ socket' \in 0 .. MaxRenderers
    BY <1>3, <2>1, Bounds DEF Homes
  <2>3. held' \in BOOLEAN /\ needAdopt' \in BOOLEAN /\ exited' \in BOOLEAN /\ windows' \subseteq windows
    BY <2>1
  <2> QED BY <1>1, <1>2, <1>3, <2>1, <2>2, <2>3, ReplaceKept
<1>4. CASE managed /\ Quiet /\ LaunchDue /\ launched' = launched + 1 /\ renderer' = launched' /\ windows' = {}
           /\ opened' = 0 /\ InstallRenderer(launched') /\ UNCHANGED <<managed, exited, held, faults>>
  <2>1. launched' \in 0 .. MaxRenderers /\ launched' \in Nat /\ launched' # 0
    BY <1>2, <1>4, Bounds DEF LaunchDue
  <2>2. /\ socket' = launched' /\ needAdopt' = TRUE /\ reg' = reg + 1 /\ bind' = NoBinding /\ errPending' = {}
        /\ UNCHANGED <<cfg, pending, nreg, visible>>
    BY <1>4, <2>1 DEF InstallRenderer
  <2>3. Homes'
    BY <1>4, <2>2 DEF Homes
  <2> QED BY <1>1, <1>2, <1>4, <2>1, <2>2, <2>3, ReplaceKept
<1>5. CASE managed /\ LaunchDue /\ Fault /\ launched' = launched + 1 /\ held' = TRUE
           /\ UNCHANGED <<managed, exited, renderer, windows, opened, bus, errPending>>
  <2>1. launched' \in 0 .. MaxRenderers /\ renderer = 0
    BY <1>2, <1>5, Bounds DEF LaunchDue
  <2>2. faults' \in Nat
    BY <1>1, <1>5, Counted
  <2>3. Types'
    BY <1>1, <1>5, <2>1, <2>2
       DEF Types, KittyTypes, BusTypes, LoopTypes, WorkTypes, PastTypes, bus, gofuncs, history
  <2>4. Homes'
    BY <1>1, <1>5, <2>1 DEF Homes, bus
  <2>5. Calls' /\ Walked' /\ Polled'
    BY <1>1, <1>5 DEF IInv, Calls, Walked, Polled, Adopting, bus, gofuncs, history
  <2>6. Kept' /\ Ended'
    BY <1>1, <1>5 DEF IInv, Kept, Owned, Ended, bus, gofuncs, history
  <2> QED BY <2>3, <2>4, <2>5, <2>6 DEF IInv
<1>6. CASE UNCHANGED <<kitty, bus, errPending, faults>>
  <2>1. Types' /\ Homes'
    BY <1>1, <1>6
       DEF Types, KittyTypes, BusTypes, LoopTypes, WorkTypes, PastTypes, Homes, kitty, bus, gofuncs, history
  <2>2. Calls' /\ Walked' /\ Polled'
    BY <1>1, <1>6 DEF IInv, Calls, Walked, Polled, Adopting, kitty, bus, gofuncs, history
  <2>3. Kept' /\ Ended'
    BY <1>1, <1>6 DEF IInv, Kept, Owned, Ended, kitty, bus, gofuncs, history
  <2> QED BY <2>1, <2>2, <2>3 DEF IInv
<1> QED BY <1>3, <1>4, <1>5, <1>6 DEF Render, LaunchRenderer

\* What a pass starts for a widget.
LEMMA StartOf ==
  ASSUME IInv, NEW w \in Widgets, w \in Due
  PROVE  /\ Start(w) \in CallState /\ call[w].pc = "none" /\ w \in Defines[cfg]
         /\ w \in Native => Start(w).pc = "poll" /\ Start(w).reg = nreg
         /\ w \in Exec => /\ ~ needAdopt /\ adopt.pc = "none" /\ Start(w).reg = reg /\ Start(w).win = bind[w]
                          /\ Start(w).pc \in {"launch", "verify", "scrape", "release"}
                          /\ Start(w).pc = "launch" => bind[w] = 0
<1>1. w \in Defines[cfg] /\ call[w].pc = "none" /\ Job(w) # {}
  BY DEF Due, InCall
<1>2. (CHOOSE j \in Job(w) : TRUE) \in Job(w)
  BY <1>1
<1>3. reg \in Nat /\ nreg \in Nat /\ bind \in [Exec -> Nat] /\ needAdopt \in BOOLEAN
  BY DEF IInv, Types, BusTypes
<1> DEFINE job == CHOOSE j \in Job(w) : TRUE
<1>4. Start(w).pc = job /\ Start(w).win = (IF w \in Exec THEN bind[w] ELSE 0)
      /\ Start(w).reg = (IF w \in Exec THEN reg ELSE nreg)
      /\ Start(w) = [pc |-> job, win |-> IF w \in Exec THEN bind[w] ELSE 0, reg |-> IF w \in Exec THEN reg ELSE nreg]
  BY DEF Start
<1>5. job \in Job(w)
  BY <1>2
<1> HIDE DEF job
<1>6. CASE w \in Native
  <2>1. w \notin Exec /\ job = "poll"
    BY <1>1, <1>5, <1>6, Kinds DEF Job
  <2> QED BY <1>1, <1>3, <1>4, <1>6, <2>1 DEF CallState, Pcs
<1>7. CASE w \in Exec
  <2>1. w \notin Native
    BY <1>7, Kinds
  <2>2. ~ Gate /\ (job = "launch" => bind[w] = 0) /\ job \in {"launch", "verify", "scrape", "release"}
    BY <1>1, <1>5, <1>7, <2>1 DEF Job
  <2>3. ~ needAdopt /\ adopt.pc = "none"
    BY <2>2 DEF Gate, Adopting
  <2> QED BY <1>1, <1>3, <1>4, <1>7, <2>1, <2>2, <2>3 DEF CallState, Pcs
<1> QED BY <1>6, <1>7, Kinds

\* The pass: an adoption that is due, and the calls of the widgets that are not busy.
LEMMA PassStep ==
  ASSUME IInv, Pass
  PROVE  IInv'
<1>1. /\ Types /\ Homes /\ Calls /\ Walked /\ Kept /\ Ended /\ Polled
      /\ sched.pc = "pass" /\ sched' \in LoopState /\ sched'.pc = "select"
      /\ UNCHANGED <<kitty, bus, results, history, closing, counts>>
  BY GoneTo DEF IInv, Pass
<1>2. PICK now \in SUBSET Due : /\ call' = [w \in Widgets |-> IF w \in now THEN Start(w) ELSE call[w]]
                                /\ errPending' \subseteq errPending
  BY DEF Pass
<1>3. adopt' = adopt \/ (adopt' = [pc |-> "ls", tree |-> {}] /\ needAdopt /\ adopt.pc = "none")
  BY DEF Pass, Adopting
<1>4. adopt \in AdoptState /\ call \in [Widgets -> CallState]
  BY <1>1 DEF Types, WorkTypes
<1>5. adopt' \in AdoptState /\ (adopt' # adopt => adopt'.pc = "ls" /\ adopt'.tree = {} /\ needAdopt /\ adopt.tree = {})
  BY <1>1, <1>3, <1>4 DEF AdoptState, Walked
<1>6. call' \in [Widgets -> CallState]
  BY <1>2, <1>4, StartOf
<1>7. \A w \in Widgets : call'[w] = call[w] \/ (w \in Due /\ call'[w] = Start(w))
  BY <1>2
<1>8. Types'
  BY <1>1, <1>2, <1>5, <1>6
     DEF Types, KittyTypes, BusTypes, LoopTypes, WorkTypes, PastTypes, kitty, bus, history, counts
<1>9. Homes' /\ Polled'
  BY <1>1 DEF Homes, Polled, kitty, bus
<1>10. Calls'
  <2>1. ASSUME NEW w \in Native
        PROVE  /\ call'[w].pc \in {"none", "poll", "reply"}
               /\ call'[w].pc = "poll" => call'[w].reg = nreg
    BY <1>1, <1>7, <2>1, StartOf, Kinds DEF Calls
  <2>2. ASSUME NEW w \in Exec
        PROVE  /\ call'[w].pc # "poll"
               /\ call'[w].pc \notin {"none", "reply"} => call'[w].reg = reg
               /\ call'[w].pc # "none" => w \in Defines[cfg] /\ ~ needAdopt /\ adopt'.pc = "none"
               /\ call'[w].pc \in {"launch", "finish"} => bind[w] = 0
               /\ call'[w].pc \in {"verify", "scrape", "release"} => call'[w].win = bind[w]
    <3>1. CASE call'[w] = call[w]
      BY <1>1, <1>5, <2>2, <3>1 DEF Calls, Adopting
    <3>2. CASE w \in Due /\ call'[w] = Start(w)
      BY <1>5, <2>2, <3>2, StartOf, Kinds
    <3> QED BY <1>7, <2>2, <3>1, <3>2, Kinds
  <2> QED BY <1>1, <2>1, <2>2 DEF Calls, Adopting, bus
<1>11. Walked'
  BY <1>1, <1>5 DEF Walked, kitty, bus
<1>12. Kept'
  <2>1. ASSUME ~ needAdopt, NEW x \in windows PROVE Owned(x)'
    <3>1. Owned(x) /\ x.widget \in Exec /\ adopt' = adopt
      BY <1>1, <1>5, <2>1 DEF Kept, Types, KittyTypes, Window
    <3>2. call[x.widget].pc = "finish" => call'[x.widget] = call[x.widget]
      BY <1>7, <3>1, StartOf, Kinds
    <3> QED BY <1>1, <3>1, <3>2 DEF Owned, bus, history
  <2> QED BY <1>1, <2>1 DEF Kept, kitty, bus
<1>13. Ended'
  BY <1>1 DEF Ended
<1> QED BY <1>8, <1>9, <1>10, <1>11, <1>12, <1>13 DEF IInv

-----------------------------------------------------------------------------
(* Shutdown.                                                                *)

\* The drain begins; once nothing is in flight, an adoption that a swap has armed
\* still runs.
LEMMA DrainStep ==
  ASSUME IInv, Ending \/ LateAdopt
  PROVE  IInv'
<1>1. /\ Types /\ Homes /\ Calls /\ Walked /\ Kept /\ Ended /\ Polled
      /\ UNCHANGED <<kitty, bus, errPending, call, history, closing, counts>> /\ results' \subseteq results
  BY DEF IInv, Ending, LateAdopt
<1>2. CASE Ending
  <2>1. sched' \in LoopState /\ sched'.pc = "drain" /\ adopt' = adopt /\ sched.pc = "select"
    BY <1>1, <1>2, GoneTo DEF Ending, Selecting
  <2>2. Types' /\ Homes'
    BY <1>1, <2>1
       DEF Types, KittyTypes, BusTypes, LoopTypes, WorkTypes, PastTypes, Homes, kitty, bus, history, counts
  <2>3. Calls' /\ Walked' /\ Polled'
    BY <1>1, <2>1 DEF Calls, Walked, Polled, Adopting, kitty, bus
  <2>4. Kept' /\ Ended'
    BY <1>1, <2>1 DEF Kept, Owned, Ended, kitty, bus, history
  <2> QED BY <2>2, <2>3, <2>4 DEF IInv
<1>3. CASE LateAdopt
  <2>1. adopt.pc \in {"none", "done"} /\ adopt.tree = {} /\ (\A w \in Widgets : call[w].pc = "none")
        /\ sched.pc = "drain"
    BY <1>1, <1>3 DEF LateAdopt, Drained, InCall, Walked
  <2>2. /\ sched' \in LoopState /\ adopt' \in AdoptState /\ adopt'.tree = {}
        /\ \/ sched'.pc = "late" /\ adopt'.pc = "ls" /\ ~ managed /\ needAdopt
           \/ sched'.pc = "release" /\ adopt'.pc = "none" /\ (managed \/ ~ needAdopt)
    <3>1. [pc |-> "ls", tree |-> {}] \in AdoptState /\ NoAdopt \in AdoptState /\ NoAdopt.pc = "none"
          /\ NoAdopt.tree = {}
      BY DEF AdoptState, NoAdopt
    <3>2. /\ Goto("late") => sched' \in LoopState /\ sched'.pc = "late"
          /\ Goto("release") => sched' \in LoopState /\ sched'.pc = "release"
      BY <1>1, GoneTo
    <3> QED BY <1>3, <3>1, <3>2 DEF LateAdopt
  <2>3. Types' /\ Homes'
    BY <1>1, <2>2
       DEF Types, KittyTypes, BusTypes, LoopTypes, WorkTypes, PastTypes, Homes, kitty, bus, history, counts
  <2>4. Calls' /\ Walked' /\ Polled'
    BY <1>1, <2>1, <2>2, Kinds DEF Calls, Walked, Polled, kitty, bus
  <2>5. Kept'
    <3>1. \A x \in windows : x.widget \in Widgets
      BY <1>1, Kinds DEF Types, KittyTypes, Window
    <3> QED BY <1>1, <2>1, <2>2, <3>1 DEF Kept, Owned, kitty, bus, history
  <2>6. Ended'
    BY <1>1, <2>1, <2>2 DEF Ended, kitty, bus
  <2> QED BY <2>3, <2>4, <2>5, <2>6 DEF IInv
<1> QED BY <1>2, <1>3

\* The late adoption ends: what it could not list is lost.
LEMMA LateStep ==
  ASSUME IInv, LateAdopted
  PROVE  IInv'
<1>1. /\ Types /\ Homes /\ Calls /\ Walked /\ Kept /\ Ended /\ Polled /\ sched.pc = "late" /\ adopt.pc = "done"
      /\ UNCHANGED <<kitty, bus, errPending, call, results, shown, closing, counts>>
      /\ sched' \in LoopState /\ sched'.pc = "release" /\ adopt' = NoAdopt
      /\ lost' = IF needAdopt THEN lost \cup windows ELSE lost
  BY GoneTo DEF IInv, LateAdopted
<1>2. adopt' \in AdoptState /\ adopt'.pc = "none" /\ adopt'.tree = {} /\ adopt.tree = {} /\ lost \subseteq lost'
  BY <1>1 DEF AdoptState, NoAdopt, Walked
<1>3. Types' /\ Homes'
  BY <1>1, <1>2
     DEF Types, KittyTypes, BusTypes, LoopTypes, WorkTypes, PastTypes, Homes, kitty, bus, counts
<1>4. Calls' /\ Walked' /\ Polled'
  BY <1>1, <1>2, Kinds DEF Calls, Walked, Polled, Ended, kitty, bus
<1>5. Kept'
  BY <1>1, <1>2 DEF Kept, Owned, kitty, bus
<1>6. Ended'
  BY <1>1, <1>2 DEF Ended, kitty, bus
<1> QED BY <1>3, <1>4, <1>5, <1>6 DEF IInv

\* The windows still bound are closed, but for those whose close fails.
LEMMA ReleaseStep ==
  ASSUME IInv, ReleaseAll
  PROVE  IInv'
<1>1. /\ Types /\ Homes /\ Calls /\ Walked /\ Kept /\ Ended /\ Polled /\ sched.pc = "release"
      /\ sched' \in LoopState /\ sched'.pc = "down" /\ renderer' = 0 /\ exited' = FALSE
      /\ UNCHANGED <<managed, opened, launched, held, cfg, pending, reg, nreg, socket, needAdopt,
                     visible, errPending, call, adopt, results, shown, closing, changes, reloads>>
  BY GoneTo DEF IInv, ReleaseAll, gofuncs
<1>2. PICK failed \in SUBSET Bound :
        /\ IF failed = {} THEN UNCHANGED faults ELSE Fault
        /\ windows' = IF managed THEN {} ELSE windows \ (Bound \ failed)
        /\ lost' = lost \cup failed
        /\ bind' = [w \in Exec |-> IF \E x \in failed : x.widget = w THEN bind[w] ELSE 0]
  BY DEF ReleaseAll
<1>3. adopt.pc = "none" /\ adopt.tree = {} /\ \A w \in Widgets : call[w].pc = "none"
  BY <1>1 DEF Ended, Walked
<1>4. Bound \subseteq windows /\ windows \subseteq Window /\ lost \subseteq Window /\ bind \in [Exec -> Nat]
      /\ \A w \in Exec : bind[w] # 0 => w \in Defines[cfg]
  BY <1>1 DEF Bound, Types, KittyTypes, BusTypes, PastTypes
<1>5. bind' \in [Exec -> Nat] /\ (\A w \in Exec : bind'[w] # 0 => w \in Defines[cfg]) /\ faults' \in Nat
  <2>1. faults' \in Nat
    BY <1>1, <1>2, Counted
  <2>2. \A w \in Exec : bind'[w] \in {0, bind[w]}
    BY <1>2
  <2>3. bind' \in [Exec -> Nat]
    BY <1>2, <1>4
  <2> QED BY <1>4, <2>1, <2>2, <2>3
<1>6. windows' \subseteq lost'
  <2>1. CASE managed
    BY <1>2, <2>1
  <2>2. CASE ~ managed
    <3> SUFFICES ASSUME NEW x \in windows' PROVE x \in lost'
      OBVIOUS
    <3>1. x \in windows /\ (x \in Bound => x \in failed)
      BY <1>2, <2>2
    <3>2. x.widget \in Widgets
      BY <1>4, <3>1, Kinds DEF Window
    <3>3. x \in lost \/ x \in Bound
      BY <1>1, <1>3, <2>2, <3>1, <3>2 DEF Ended, Kept, Owned, Bound
    <3> QED BY <1>2, <3>1, <3>3
  <2> QED BY <2>1, <2>2
<1>7. windows' \subseteq windows /\ lost' \subseteq Window
  BY <1>2, <1>4
<1>8. Types'
  BY <1>1, <1>4, <1>5, <1>7 DEF Types, KittyTypes, BusTypes, LoopTypes, WorkTypes, PastTypes
<1>9. Homes'
  BY <1>1, <1>2, <1>7 DEF Homes
<1>10. Calls' /\ Walked' /\ Polled'
  BY <1>1, <1>3, Kinds DEF Calls, Walked, Polled
<1>11. Kept' /\ Ended'
  BY <1>1, <1>3, <1>6 DEF Kept, Ended
<1> QED BY <1>8, <1>9, <1>10, <1>11 DEF IInv

-----------------------------------------------------------------------------
(* The theorems.                                                            *)

\* Every step keeps the invariant.
LEMMA StepIInv == IInv /\ [Next]_vars => IInv'
<1> SUFFICES ASSUME IInv, [Next]_vars PROVE IInv'
  OBVIOUS
<1>1. CASE (\E vs \in SUBSET Widgets : Look(vs)) \/ (\E g \in Configs : Reload(g)) \/ DelayEnds \/ Stop
  BY <1>1, AskStep
<1>2. CASE (\E x \in windows : WindowEnds(x)) \/ RendererEnds
  BY <1>2, EndStep
<1>3. CASE \E w \in Widgets : Call(w)
  BY <1>3, LaunchStep, FinishStep, CheckStep, PollStep DEF Call
<1>4. CASE Adoption
  BY <1>4, ListStep, WalkStep DEF Adoption
<1>5. CASE Receive
  BY <1>5, DoneStep, ApplyStep DEF Receive
<1>6. CASE TickStep
  BY <1>6, TickBegins, RenderStep, PassStep DEF TickStep
<1>7. CASE Shutdown
  BY <1>7, DrainStep, LateStep, ReleaseStep DEF Shutdown
<1>8. CASE UNCHANGED vars
  <2>1. Types' /\ Homes'
    BY <1>8 DEF IInv, Types, KittyTypes, BusTypes, LoopTypes, WorkTypes, PastTypes, Homes,
                vars, kitty, bus, loop, gofuncs, history, counts
  <2>2. Calls' /\ Walked' /\ Polled'
    BY <1>8 DEF IInv, Calls, Walked, Polled, Adopting, vars, kitty, bus, loop, gofuncs, history
  <2>3. Kept' /\ Ended'
    BY <1>8 DEF IInv, Kept, Owned, Ended, vars, kitty, bus, loop, gofuncs, history
  <2> QED BY <2>1, <2>2, <2>3 DEF IInv
<1> QED BY <1>1, <1>2, <1>3, <1>4, <1>5, <1>6, <1>7, <1>8 DEF Next

\* The invariant holds of every behaviour.
THEOREM Inductive == Spec => []IInv
BY InitIInv, StepIInv, PTL DEF Spec

\* No window is forgotten and shutdown leaves none behind but those whose launch or
\* close went wrong, whatever swaps, renderers, adoptions and faults come between
\* (scheduler.go, registry.go, renderer.go).
THEOREM WindowsAreClosed == Spec => []WindowsClosed
<1>1. ASSUME IInv PROVE TypeOK
  <2>1. KittyTypes /\ BusTypes /\ LoopTypes /\ WorkTypes /\ PastTypes
    BY <1>1 DEF IInv, Types
  <2>2. adopt \in AdoptState /\ sched \in LoopState /\ \A w \in Widgets : call[w] \in CallState
    BY <2>1 DEF WorkTypes, LoopTypes
  <2>3. adopt.tree \subseteq Window /\ adopt.pc \in {"none", "ls", "clear", "walk", "done"}
    BY <2>2 DEF AdoptState
  <2>4. sched.pc \in {"select", "render", "pass", "drain", "late", "release", "down"}
    BY <2>2 DEF LoopState
  <2>5. \A w \in Widgets : call[w].pc \in Pcs
    BY <2>2 DEF CallState
  <2> QED BY <2>1, <2>3, <2>4, <2>5 DEF TypeOK, KittyTypes, BusTypes, LoopTypes, PastTypes
<1>2. IInv => NoLeakedWindow
  BY DEF IInv, Kept, Walked, Owned, NoLeakedWindow, Adopting
<1>3. IInv => ShutdownClosesAll
  BY DEF IInv, Ended, ShutdownClosesAll
<1> QED BY <1>1, <1>2, <1>3, Inductive, PTL DEF WindowsClosed

\* A step that publishes a result publishes what the widget has now.
LEMMA ShownStep ==
  ASSUME IInv, [Next]_vars, NEW w \in Widgets, shown'[w] # shown[w]
  PROVE  shown'[w].cfg = cfg /\ (w \in Exec => shown'[w].win = bind[w] /\ shown'[w].home = socket)
<1>1. PICK r \in results : Apply(r)
  BY DEF Next, vars, history, gofuncs, Look, Reload, WindowEnds, RendererEnds, DelayEnds, Stop, Call, EnsureLaunch,
         EnsureFinish, Verify, CloseWindow, Scrape, PollNative, CallKeeps, Adoption, AdoptList, AdoptClear, AdoptWindow,
         AdoptEnd, AdoptKeeps, Receive, BusyDone, AdoptDone, TickStep, Tick, Render, Pass, Shutdown, Ending,
         LateAdopt, LateAdopted, ReleaseAll
<1>2. Types /\ Polled /\ r \in Answer /\ shown \in [Widgets -> Screen \cup {None}]
  BY DEF IInv, Types, WorkTypes, PastTypes
<1>3. /\ r.widget = w /\ Fresh(r)
      /\ shown'[w] = [win |-> r.win, home |-> r.home, cfg |-> r.cfg]
  <2> DEFINE screen == [win |-> r.win, home |-> r.home, cfg |-> r.cfg]
  <2>1. shown' = IF Fresh(r) /\ r.ok THEN [shown EXCEPT ![r.widget] = screen] ELSE shown
    BY <1>1 DEF Apply
  <2> HIDE DEF screen
  <2>2. Fresh(r) /\ shown' = [shown EXCEPT ![r.widget] = screen]
    BY <2>1
  <2>3. r.widget = w /\ shown'[w] = screen
    BY <1>2, <2>2
  <2> QED BY <2>2, <2>3 DEF screen
<1> QED BY <1>2, <1>3, Kinds DEF Fresh, Polled

\* No stale screen is published: what a result shows was taken from the window, the
\* renderer and the configuration its widget has when it is shown (applySnapshot).
THEOREM ShownAlwaysCurrent == Spec => ShownIsCurrent
<1>1. IInv /\ [Next]_vars =>
        [\A w \in Widgets : shown'[w] # shown[w] =>
           /\ shown'[w].cfg = cfg
           /\ w \in Exec => shown'[w].win = bind[w] /\ shown'[w].home = socket]_vars
  BY ShownStep
<1> QED BY <1>1, Inductive, PTL DEF Spec, ShownIsCurrent

-----------------------------------------------------------------------------
(* The names of windows.                                                    *)

\* A renderer numbers its windows without repeating itself; what a binding, a launch
\* or the walk of an adoption names by number is the window of its own widget, or gone.
Named ==
  /\ \A x \in windows \cup adopt.tree : x.id <= opened
  /\ \A x \in windows \cup adopt.tree : \A y \in windows : x.id = y.id => x = y
  /\ \A w \in Exec : bind[w] <= opened /\ \A y \in windows : y.id = bind[w] => y.widget = w
  /\ \A w \in Exec : call[w].pc = "finish" =>
       call[w].win <= opened /\ \A y \in windows : y.id = call[w].win => y.widget = w

LEMMA InitNamed == Init => Named
<1> SUFFICES ASSUME Init PROVE Named
  OBVIOUS
<1>1. Cardinality(Leftover) \in Nat
  BY FS_CardinalityType
<1>2. PICK f \in [Leftover -> 1 .. Cardinality(Leftover)] :
        /\ \A v, w \in Leftover : f[v] = f[w] => v = w
        /\ windows = IF managed THEN {} ELSE {[id |-> f[w], home |-> 0, widget |-> w] : w \in Leftover}
  BY DEF Init
<1>3. opened = (IF managed THEN 0 ELSE Cardinality(Leftover)) /\ adopt.tree = {} /\ bind = [w \in Exec |-> 0]
      /\ \A w \in Exec : call[w].pc = "none"
  BY Kinds DEF Init, NoAdopt, NoBinding, NoCall
<1>4. \A x \in windows : \E w \in Leftover : x = [id |-> f[w], home |-> 0, widget |-> w] /\ ~ managed
  BY <1>2
<1>5. \A x \in windows : x.id \in 1 .. Cardinality(Leftover) /\ ~ managed
  BY <1>2, <1>4
<1>6. \A x, y \in windows : x.id = y.id => x = y
  BY <1>2, <1>4
<1>7. opened \in Nat
  BY <1>1, <1>3
<1> QED BY <1>1, <1>3, <1>5, <1>6, <1>7 DEF Named

\* A step that opens no window keeps the names, if it binds what a launch or an
\* adoption names and walks only windows that are there.
LEMMA NamedKept ==
  ASSUME IInv, Named, windows' \subseteq windows, opened' = opened,
         adopt'.tree \subseteq adopt.tree \cup windows,
         \A w \in Exec : \/ bind'[w] = bind[w] \/ bind'[w] = 0
                         \/ call[w].pc = "finish" /\ bind'[w] = call[w].win
                         \/ \E x \in adopt.tree : x.widget = w /\ bind'[w] = x.id,
         \A w \in Exec : call'[w].pc = "finish" => call'[w] = call[w]
  PROVE  Named'
<1>1. opened \in Nat /\ \A y \in windows : y.id \in Nat \ {0}
  BY DEF IInv, Types, KittyTypes, Window
<1>2. \A x \in windows' \cup adopt'.tree : x \in windows \cup adopt.tree
  OBVIOUS
<1>3. \A w \in Exec : bind'[w] <= opened /\ \A y \in windows' : y.id = bind'[w] => y.widget = w
  <2> SUFFICES ASSUME NEW w \in Exec
               PROVE  bind'[w] <= opened /\ \A y \in windows' : y.id = bind'[w] => y.widget = w
    OBVIOUS
  <2>1. CASE bind'[w] = bind[w]
    BY <2>1 DEF Named
  <2>2. CASE bind'[w] = 0
    BY <1>1, <2>2
  <2>3. CASE call[w].pc = "finish" /\ bind'[w] = call[w].win
    BY <2>3 DEF Named
  <2>4. CASE \E x \in adopt.tree : x.widget = w /\ bind'[w] = x.id
    BY <2>4 DEF Named
  <2> QED BY <2>1, <2>2, <2>3, <2>4
<1>4. \A w \in Exec : call'[w].pc = "finish" =>
        call'[w].win <= opened /\ \A y \in windows' : y.id = call'[w].win => y.widget = w
  BY DEF Named
<1>5. (\A x \in windows' \cup adopt'.tree : x.id <= opened)
      /\ \A x \in windows' \cup adopt'.tree : \A y \in windows' : x.id = y.id => x = y
  BY <1>2 DEF Named
<1> QED BY <1>3, <1>4, <1>5 DEF Named

\* A launch names its window by a number that nothing names yet.
LEMMA LaunchNamed ==
  ASSUME IInv, Named, NEW w \in Exec, EnsureLaunch(w)
  PROVE  Named'
<1>1. /\ Types /\ bind' = bind /\ adopt' = adopt /\ call[w].pc = "launch" /\ adopt.tree = {}
      /\ opened \in Nat /\ socket \in Nat /\ bind \in [Exec -> Nat] /\ \A v \in Widgets : call[v].win \in Nat
  BY InFlight, CallOf, Bounds DEF IInv, Types, BusTypes, KittyTypes, EnsureLaunch, CallKeeps, InCall
<1>2. CASE UNCHANGED <<windows, opened>>
  <2>1. Reply(w)
    BY <1>1, <1>2 DEF EnsureLaunch
  <2>2. \A v \in Exec : call'[v].pc = "finish" => call'[v] = call[v]
    BY <1>1, <2>1, RepliedCall, Kinds
  <2> QED BY <1>1, <1>2, <2>2, NamedKept
<1>3. CASE /\ opened' = opened + 1
           /\ windows' = windows \cup {[id |-> opened + 1, home |-> socket, widget |-> w]}
           /\ (Reply(w) \/ call' = [call EXCEPT ![w].pc = "finish", ![w].win = opened + 1])
  <2>1. PICK window : /\ window = [id |-> opened + 1, home |-> socket, widget |-> w]
                      /\ window.id = opened + 1 /\ window.widget = w
    <3>1. \E window : window = [id |-> opened + 1, home |-> socket, widget |-> w]
      OBVIOUS
    <3> QED BY <3>1
  <2>2. /\ \A v \in Exec : v # w => call'[v] = call[v]
        /\ call'[w].pc = "finish" => call'[w].win = opened + 1
    <3>1. CASE Reply(w)
      BY <1>1, <3>1, RepliedCall, Kinds
    <3>2. CASE call' = [call EXCEPT ![w].pc = "finish", ![w].win = opened + 1]
      <4>1. call \in [Widgets -> CallState] /\ call[w] \in CallState
        BY <1>1, CallOf, Kinds DEF Types, WorkTypes
      <4> QED BY <3>2, <4>1, Kinds DEF CallState
    <3> QED BY <1>3, <3>1, <3>2
  <2>3. \A m \in Nat : m <= opened => m <= opened + 1 /\ m # opened + 1
    BY <1>1
  <2>4. \A x \in windows : x.id \in Nat /\ x.id <= opened /\ x.id # opened + 1
    BY <1>1, <2>3 DEF Named, Types, KittyTypes, Window
  <2>5. windows' = windows \cup {window} /\ adopt'.tree = {}
    BY <1>1, <1>3, <2>1
  <2>6. \A x \in windows' \cup adopt'.tree : x.id <= opened'
    BY <1>1, <1>3, <2>1, <2>3, <2>4, <2>5
  <2>7. \A x \in windows' \cup adopt'.tree : \A y \in windows' : x.id = y.id => x = y
    BY <2>1, <2>4, <2>5 DEF Named
  <2>8. \A v \in Exec : bind'[v] <= opened' /\ \A y \in windows' : y.id = bind'[v] => y.widget = v
    <3> SUFFICES ASSUME NEW v \in Exec
                 PROVE  bind[v] <= opened + 1 /\ \A y \in windows' : y.id = bind[v] => y.widget = v
      BY <1>1, <1>3
    <3>1. bind[v] \in Nat /\ bind[v] <= opened /\ \A y \in windows : y.id = bind[v] => y.widget = v
      BY <1>1 DEF Named
    <3> QED BY <2>1, <2>3, <2>5, <3>1
  <2>9. \A v \in Exec : call'[v].pc = "finish" =>
          call'[v].win <= opened' /\ \A y \in windows' : y.id = call'[v].win => y.widget = v
    <3> SUFFICES ASSUME NEW v \in Exec, call'[v].pc = "finish"
                 PROVE  call'[v].win <= opened + 1 /\ \A y \in windows' : y.id = call'[v].win => y.widget = v
      BY <1>3
    <3>1. CASE v = w
      BY <1>1, <2>1, <2>2, <2>4, <2>5, <3>1
    <3>2. CASE v # w
      <4>1. call[v].win \in Nat /\ call[v].win <= opened /\ \A y \in windows : y.id = call[v].win => y.widget = v
        BY <1>1, <2>2, <3>2, Kinds DEF Named
      <4> QED BY <2>1, <2>2, <2>3, <2>5, <3>2, <4>1
    <3> QED BY <3>1, <3>2
  <2> QED BY <2>6, <2>7, <2>8, <2>9 DEF Named
<1> QED BY <1>2, <1>3 DEF EnsureLaunch

LEMMA StepNamed == IInv /\ Named /\ [Next]_vars => Named'
<1> SUFFICES ASSUME IInv, Named, [Next]_vars PROVE Named'
  OBVIOUS
<1>1. Types /\ bind \in [Exec -> Nat] /\ call \in [Widgets -> CallState]
  BY DEF IInv, Types, BusTypes, WorkTypes
<1>2. CASE (\E vs \in SUBSET Widgets : Look(vs)) \/ (\E g \in Configs : Reload(g)) \/ DelayEnds \/ Stop
           \/ Ending \/ UNCHANGED vars
  <2>1. UNCHANGED <<windows, opened, bind, call, adopt>>
    BY <1>2 DEF Look, Reload, DelayEnds, Stop, Ending, vars, kitty, bus, gofuncs
  <2> QED BY <2>1, NamedKept
<1>3. CASE (\E x \in windows : WindowEnds(x)) \/ RendererEnds
  <2>1. windows' \subseteq windows /\ UNCHANGED <<opened, bind, call, adopt>>
    BY <1>3 DEF WindowEnds, RendererEnds, bus, gofuncs
  <2> QED BY <2>1, NamedKept
<1>4. ASSUME NEW w \in Exec, EnsureFinish(w) \/ Verify(w) \/ CloseWindow(w) \/ Scrape(w) PROVE Named'
  <2>1. /\ Reply(w) /\ opened' = opened /\ adopt' = adopt
        /\ bind' = bind \/ Bind(w, 0) \/ (call[w].pc = "finish" /\ Bind(w, call[w].win))
    BY <1>4 DEF EnsureFinish, Verify, CloseWindow, Scrape, CallKeeps, InCall
  <2>2. windows' \subseteq windows
    BY <1>4 DEF EnsureFinish, Verify, CloseWindow, Scrape
  <2>3. \A v \in Exec : call'[v].pc = "finish" => call'[v] = call[v]
    BY <1>1, <2>1, RepliedCall, Kinds
  <2>4. \A v \in Exec : \/ bind'[v] = bind[v] \/ bind'[v] = 0
                        \/ call[v].pc = "finish" /\ bind'[v] = call[v].win
    BY <1>1, <2>1 DEF Bind
  <2> QED BY <2>1, <2>2, <2>3, <2>4, NamedKept
<1>5. CASE \E w \in Widgets : PollNative(w)
  <2>1. PICK w \in Widgets : PollNative(w)
    BY <1>5
  <2>2. Reply(w) /\ UNCHANGED <<windows, opened, bind, adopt>>
    BY <2>1 DEF PollNative, CallKeeps
  <2>3. \A v \in Exec : call'[v].pc = "finish" => call'[v] = call[v]
    BY <1>1, <2>2, RepliedCall, Kinds
  <2> QED BY <2>2, <2>3, NamedKept
<1>6. CASE \E w \in Widgets : EnsureLaunch(w) \/ EnsureFinish(w) \/ Verify(w) \/ CloseWindow(w) \/ Scrape(w)
  <2>1. PICK w \in Widgets : EnsureLaunch(w) \/ EnsureFinish(w) \/ Verify(w) \/ CloseWindow(w) \/ Scrape(w)
    BY <1>6
  <2>2. w \in Exec
    BY <2>1, Kinds DEF EnsureLaunch, EnsureFinish, Verify, CloseWindow, Scrape, InCall, IInv, Calls
  <2> QED BY <1>4, <2>1, <2>2, LaunchNamed
<1>7. CASE Adoption
  <2>1. opened' = opened /\ windows' \subseteq windows /\ call' = call
    BY <1>7 DEF Adoption, AdoptList, AdoptClear, AdoptWindow, AdoptEnd, AdoptKeeps
  <2>2. adopt \in AdoptState
    BY <1>1 DEF Types, WorkTypes
  <2>3. adopt'.tree \subseteq adopt.tree \cup windows
    BY <1>7, <2>2 DEF Adoption, AdoptList, AdoptClear, AdoptWindow, AdoptEnd, AdoptState
  <2>4. \A w \in Exec : bind'[w] = bind[w] \/ \E x \in adopt.tree : x.widget = w /\ bind'[w] = x.id
    BY <1>1, <1>7 DEF Adoption, AdoptList, AdoptClear, AdoptWindow, AdoptEnd
  <2> QED BY <2>1, <2>3, <2>4, NamedKept
<1>8. CASE Receive \/ Pass
  <2>1. UNCHANGED <<windows, opened, bind>>
    BY <1>8 DEF Receive, BusyDone, AdoptDone, Apply, Pass, kitty, bus
  <2>2. CASE AdoptDone \/ \E r \in results : Apply(r)
    <3>1. call' = call /\ (adopt' = adopt \/ adopt' = NoAdopt)
      BY <2>2 DEF AdoptDone, Apply
    <3> QED BY <2>1, <3>1, NamedKept DEF NoAdopt
  <2>3. ASSUME NEW w \in Widgets, BusyDone(w) PROVE Named'
    <3>1. adopt' = adopt /\ call' = [call EXCEPT ![w] = NoCall] /\ NoCall.pc = "none"
      BY <2>3 DEF BusyDone, NoCall
    <3>2. \A v \in Exec : call'[v].pc = "finish" => call'[v] = call[v]
      BY <1>1, <3>1, Kinds
    <3> QED BY <2>1, <3>1, <3>2, NamedKept
  <2>4. CASE Pass
    <3>1. PICK now \in SUBSET Due : call' = [w \in Widgets |-> IF w \in now THEN Start(w) ELSE call[w]]
      BY <2>4 DEF Pass
    <3>2. \A w \in Exec : call'[w].pc = "finish" => call'[w] = call[w]
      BY <3>1, StartOf, Kinds
    <3>3. adopt' = adopt \/ adopt' = [pc |-> "ls", tree |-> {}]
      BY <2>4 DEF Pass
    <3>4. adopt'.tree \subseteq adopt.tree
      BY <3>3
    <3> QED BY <2>1, <3>2, <3>4, NamedKept
  <2> QED BY <1>8, <2>2, <2>3, <2>4 DEF Receive
<1>9. CASE LateAdopt \/ LateAdopted \/ ReleaseAll
  <2>1. windows' \subseteq windows /\ opened' = opened /\ call' = call
    BY <1>9 DEF LateAdopt, LateAdopted, ReleaseAll, kitty, gofuncs
  <2>2. adopt'.tree \subseteq adopt.tree
    BY <1>9 DEF LateAdopt, LateAdopted, ReleaseAll, NoAdopt, gofuncs
  <2>3. \A w \in Exec : bind'[w] = bind[w] \/ bind'[w] = 0
    BY <1>1, <1>9 DEF LateAdopt, LateAdopted, ReleaseAll, bus
  <2> QED BY <2>1, <2>2, <2>3, NamedKept
<1>10. CASE Tick
  <2>1. UNCHANGED <<windows, opened, call, adopt>> /\ (bind' = bind \/ bind' = NoBinding)
    BY <1>10 DEF Tick, Install, kitty, bus, gofuncs
  <2>2. \A w \in Exec : bind'[w] = bind[w] \/ bind'[w] = 0
    BY <2>1 DEF NoBinding
  <2> QED BY <2>1, <2>2, NamedKept
<1>11. CASE Render
  <2>1. UNCHANGED <<call, adopt>>
    BY <1>11 DEF Render, gofuncs
  <2>2. CASE opened' = opened /\ windows' \subseteq windows /\ (bind' = bind \/ bind' = NoBinding)
    <3>1. \A w \in Exec : bind'[w] = bind[w] \/ bind'[w] = 0
      BY <2>2 DEF NoBinding
    <3> QED BY <2>1, <2>2, <3>1, NamedKept
  <2>3. CASE Quiet /\ opened' = 0 /\ windows' = {} /\ bind' = NoBinding
    <3>1. adopt'.tree = {} /\ \A w \in Exec : call'[w].pc = "none" /\ bind'[w] = 0
      BY <2>1, <2>3, QuietNow, Kinds DEF IInv, NoBinding
    <3> QED BY <2>3, <3>1 DEF Named
  <2> QED BY <1>11, <2>2, <2>3 DEF Render, StopRenderer, LaunchRenderer, InstallRenderer, kitty, bus
<1> QED BY <1>2, <1>3, <1>5, <1>6, <1>7, <1>8, <1>9, <1>10, <1>11 DEF Next, Call, TickStep, Shutdown

\* The window a binding names is a window of its widget, though every renderer numbers
\* its windows from one: a release never closes the window of another widget, and no
\* widget shows another's screen (registry.go, renderer.go).
BindingsAreOwn == \A w \in Exec, y \in windows : bind[w] = y.id => y.widget = w

\* The bus never has two windows for a widget, but those whose launch or close went
\* wrong.
OneWindowEach ==
  ~ needAdopt /\ ~ Adopting /\ sched.pc # "down" =>
    \A x, y \in windows \ lost : x.widget = y.widget => x = y

\* Bindings name windows of their own widgets, one for each, whatever renderers,
\* configurations, adoptions and faults come and go.
THEOREM WindowsAreNamed == Spec => [](BindingsAreOwn /\ OneWindowEach)
<1>1. IInv /\ Named => BindingsAreOwn
  BY DEF Named, BindingsAreOwn
<1>2. ASSUME IInv, Named PROVE OneWindowEach
  <2> SUFFICES ASSUME ~ needAdopt, ~ Adopting, sched.pc # "down",
                      NEW x \in windows \ lost, NEW y \in windows \ lost, x.widget = y.widget
               PROVE  x = y
    BY DEF OneWindowEach
  <2>1. Owned(x) /\ Owned(y) /\ adopt.tree = {} /\ x \in Window /\ y \in Window
    BY <1>2 DEF IInv, Kept, Walked, Adopting, Types, KittyTypes
  <2>2. x.widget \in Exec /\ x.id # 0 /\ y.id # 0
    BY <2>1 DEF Window
  <2>3. call[x.widget].pc = "finish" => bind[x.widget] = 0
    BY <1>2, <2>2 DEF IInv, Calls
  <2>4. x.id = y.id
    BY <2>1, <2>2, <2>3 DEF Owned
  <2> QED BY <1>2, <2>4 DEF Named
<1>3. Spec => []Named
  BY InitNamed, StepNamed, Inductive, PTL DEF Spec
<1> QED BY <1>1, <1>2, <1>3, Inductive, PTL
=============================================================================
