---------------------------- MODULE ViewSessions ----------------------------
(***************************************************************************)
(* View sessions of the HUD bus (internal/bus/views.go, bus.go, input.go,  *)
(* scheduler.go) and their terminal clients (surface/dock.go).  A client   *)
(* mirrors the layout and configuration the bus tells it and acts on what  *)
(* it shows; the bus runs an action only while the lease under which it    *)
(* was issued holds.  Leases end when a view is hidden, shown, navigated   *)
(* or disconnected, and when the configuration or renderer is replaced.    *)
(*                                                                         *)
(* A step is one critical section of b.mu, or one message handled by a     *)
(* client.  Each connection has an ordered stream to the client, and two   *)
(* from it: actions pass through the durable delivery worker, reports do   *)
(* not, so either may overtake the other.                                  *)
(***************************************************************************)
EXTENDS Integers, Sequences, FiniteSets, SequenceTheorems, TLAPS

CONSTANTS
  Conns,       \* connections; a client that reconnects is another connection
  Edge,        \* those whose hello claims the Edge panel
  Layouts, NoLayout,
  Configs,     \* configurations a reload may install
  FirstConfig, \* the one the bus starts with
  Defines,     \* [Configs -> SUBSET Layouts]
  Supports,    \* [Conns -> SUBSET Layouts]: layouts within the capabilities
  Widgets,
  Shows,       \* [Layouts -> SUBSET Widgets]
  NoConn,
  QueueLimit,  \* cap(b.input)
  MaxActs,     \* bound: actions and navigations issued by clients
  MaxFlips,    \* bound: changes of visibility at the terminals
  MaxGlobal,   \* bound: layout controls from the command line
  MaxRenderers,\* bound: renderer replacements
  MaxNotices   \* bound: broadcasts that only stamp the generation

ASSUME ViewAssumption ==
  /\ Edge \subseteq Conns /\ NoConn \notin Conns
  /\ NoLayout \notin Layouts /\ FirstConfig \in Configs
  /\ Defines \in [Configs -> SUBSET Layouts] /\ \A g \in Configs : Defines[g] # {}
  /\ Supports \in [Conns -> SUBSET Layouts] /\ Shows \in [Layouts -> SUBSET Widgets]
  /\ QueueLimit \in Nat \ {0}
  /\ {MaxActs, MaxFlips, MaxGlobal, MaxRenderers, MaxNotices} \subseteq Nat

VARIABLES
  cfg, cfgLayout, \* b.cfg and its Layout
  tried,          \* configurations installed so far
  epoch,          \* b.inputEpoch
  docks, caps,    \* keys of b.docks and of b.dockCaps
  view,           \* b.views: [Conns -> generation, layout, hidden]
  active,         \* b.activeDock
  grid,           \* whose cell grid the recognizer resolves gestures in
  serve, hand,    \* per connection: serveDock's goroutine, the message it holds
  queue, worker,  \* b.input and its one worker
  announce,       \* the scheduler installed a configuration it has not broadcast
  setter,         \* setLayout between its validation and its publication
  out, acts, reports, broken, \* the streams of each connection; closed by the peer
  client,         \* per connection: what its terminal shows and last heard
  flips,          \* per connection: visibility changes the bus has taken (history)
  actCount, flipCount, globalCount, rendererCount, noticeCount

busVars == <<cfg, cfgLayout, tried, epoch, docks, caps, view, active, grid>>
goVars == <<serve, hand, queue, worker, announce, setter>>
netVars == <<out, acts, reports, broken, client, flips>>
counts == <<actCount, flipCount, globalCount, rendererCount, noticeCount>>
vars == <<busVars, goVars, netVars, counts>>

NoView == [gen |-> 0, layout |-> NoLayout, hidden |-> FALSE]
Idle == [pc |-> "idle"]

Init ==
  /\ cfg = FirstConfig /\ cfgLayout \in Defines[FirstConfig] /\ tried = {FirstConfig}
  /\ epoch = 1 /\ docks = {} /\ caps = {} /\ active = NoConn /\ grid = NoConn
  /\ view = [c \in Conns |-> NoView]
  /\ serve = [c \in Conns |-> "new"] /\ hand = [c \in Conns |-> Idle]
  /\ queue = <<>> /\ worker = Idle /\ announce = FALSE /\ setter = Idle
  /\ out = [c \in Conns |-> <<>>] /\ acts = [c \in Conns |-> <<>>]
  /\ reports = [c \in Conns |-> <<>>] /\ broken = {}
  /\ client = [c \in Conns |-> [gen |-> 0, layout |-> cfgLayout, cfg |-> FirstConfig,
                                hidden |-> FALSE, flips |-> 0]]
  /\ flips = [c \in Conns |-> 0]
  /\ actCount = 0 /\ flipCount = 0 /\ globalCount = 0 /\ rendererCount = 0 /\ noticeCount = 0

-----------------------------------------------------------------------------
(* Views.                                                                   *)

SupportsLayout(g, l, c) == l \in Defines[g] \cap Supports[c]

\* The wanted layout, else the global one, else the first that fits (the code
\* takes the first name in order).
Compatible(g, global, l, c) ==
  IF SupportsLayout(g, l, c) THEN {l}
  ELSE IF SupportsLayout(g, global, c) THEN {global}
  ELSE IF Defines[g] \cap Supports[c] = {} THEN {NoLayout}
  ELSE Defines[g] \cap Supports[c]

HasView(c) == view[c].gen > 0

\* Whatever ends the leases of a view moves its generation on.
Renewed(v, layout, hidden) == [gen |-> v.gen + 1, layout |-> layout, hidden |-> hidden]

Lease(c, m) == HasView(c) /\ ~ view[c].hidden /\ m.gen = view[c].gen
Current(m) ==
  /\ m.conn \in docks /\ Lease(m.conn, m)
  /\ m.kind = "tap" => view[m.conn].layout # NoLayout /\ m.widget \in Shows[view[m.conn].layout]

\* writeDockLocked stamps every message with the view and its generation; a
\* reload carries the configuration with its global layout.
Stamp(c, kind, v, f) ==
  [kind |-> kind, gen |-> v[c].gen, layout |-> v[c].layout, cfg |-> cfg, flips |-> f[c],
   global |-> IF kind = "reload" THEN cfgLayout ELSE NoLayout]
Broadcast(kind, v) ==
  out' = [c \in Conns |-> IF c \in docks THEN Append(out[c], Stamp(c, kind, v, flips)) ELSE out[c]]
Write(c, kind, v, f) ==
  out' = IF c \in docks THEN [out EXCEPT ![c] = Append(@, Stamp(c, kind, v, f))] ELSE out

\* invalidateViewsLocked: every generation moves on; a layout that no longer
\* fits is replaced.
Invalidate(g, global) ==
  \E l \in [Conns -> Layouts \cup {NoLayout}] :
    /\ \A c \in Conns : l[c] \in IF HasView(c) THEN Compatible(g, global, view[c].layout, c)
                                               ELSE {NoLayout}
    /\ view' = [c \in Conns |-> IF HasView(c) THEN Renewed(view[c], l[c], view[c].hidden)
                                ELSE view[c]]

\* removeDockLocked, reached from the read loop and from any failed write.
RemoveDock(c) ==
  /\ docks' = docks \ {c} /\ caps' = caps \ {c}
  /\ view' = [view EXCEPT ![c] = NoView]
  /\ active' = IF active = c THEN NoConn ELSE active

ClaimActive(c) ==
  active' = IF active = NoConn /\ c \in caps \cap Edge THEN c ELSE active

-----------------------------------------------------------------------------
(* serveDock: one goroutine per connection.                                 *)

GoTo(c, there) == serve' = [serve EXCEPT ![c] = there]

Hello(c) ==
  /\ serve[c] = "new"
  /\ \E want \in Layouts :
       /\ \E l \in Compatible(cfg, cfgLayout, want, c) :
            view' = [view EXCEPT ![c] = [gen |-> 1, layout |-> l, hidden |-> client[c].hidden]]
       /\ client' = [client EXCEPT ![c].layout = want]
  /\ caps' = caps \cup {c}
  /\ GoTo(c, "claim")
  /\ UNCHANGED <<cfg, cfgLayout, tried, epoch, docks, active, grid, hand, queue, worker,
                 announce, setter, out, acts, reports, broken, flips, counts>>

ClaimAtHello(c) ==
  /\ serve[c] = "claim"
  /\ ClaimActive(c)
  /\ GoTo(c, IF active' = c THEN "grid" ELSE "register")
  /\ UNCHANGED <<cfg, cfgLayout, tried, epoch, docks, caps, view, grid, hand, queue, worker,
                 announce, setter, netVars, counts>>

\* setGrid rebuilds the recognizer outside b.mu, after the claim.
SetGrid(c) ==
  /\ serve[c] \in {"grid", "regrid"}
  /\ grid' = c
  /\ GoTo(c, IF serve[c] = "grid" THEN "register" ELSE "read")
  /\ UNCHANGED <<cfg, cfgLayout, tried, epoch, docks, caps, view, active, hand, queue,
                 worker, announce, setter, netVars, counts>>

\* Registration and greeting share one critical section.
Register(c) ==
  /\ serve[c] = "register"
  /\ docks' = docks \cup {c}
  /\ out' = [out EXCEPT ![c] = @ \o <<Stamp(c, "reload", view, flips), Stamp(c, "layout", view, flips)>>]
  /\ GoTo(c, "read")
  /\ UNCHANGED <<cfg, cfgLayout, tried, epoch, caps, view, active, grid, hand, queue, worker,
                 announce, setter, acts, reports, broken, client, flips, counts>>

\* An action is bound to the lease of the connection it arrived on; the client
\* is told when it is refused.
ReadAct(c) ==
  /\ serve[c] = "read" /\ acts[c] # <<>>
  /\ acts' = [acts EXCEPT ![c] = Tail(@)]
  /\ \/ /\ Lease(c, Head(acts[c]))
        /\ hand' = [hand EXCEPT ![c] = Head(acts[c])]
        /\ GoTo(c, IF Head(acts[c]).kind = "tap" THEN "enqueue" ELSE "navigate")
        /\ UNCHANGED out
     \/ ~ Lease(c, Head(acts[c])) /\ Write(c, "status", view, flips) /\ UNCHANGED <<serve, hand>>
  /\ UNCHANGED <<busVars, queue, worker, announce, setter, reports, broken, client, flips, counts>>

\* enqueueInput: the epoch is read here; a full queue drops the event.
Enqueue(c) ==
  /\ serve[c] = "enqueue"
  /\ queue' = IF Len(queue) < QueueLimit THEN Append(queue, [m |-> hand[c], epoch |-> epoch])
                                         ELSE queue
  /\ GoTo(c, "read")
  /\ UNCHANGED <<busVars, hand, worker, announce, setter, netVars, counts>>

\* setViewLayout, and the correction serveDock sends when it refuses.
Navigate(c) ==
  /\ serve[c] = "navigate" /\ GoTo(c, "read")
  /\ view' = IF /\ Current(hand[c]) /\ SupportsLayout(cfg, hand[c].arg, c)
                /\ view[c].layout # hand[c].arg
             THEN [view EXCEPT ![c] = Renewed(@, hand[c].arg, @.hidden)] ELSE view
  /\ Write(c, "layout", view', flips)
  /\ UNCHANGED <<cfg, cfgLayout, tried, epoch, docks, caps, active, grid, hand, queue, worker,
                 announce, setter, acts, reports, broken, client, flips, counts>>

UpdateView(c, m) ==
  LET changed == c \in docks /\ HasView(c) /\ view[c].hidden # m.hidden
  IN  /\ view' = IF changed THEN [view EXCEPT ![c] = Renewed(@, @.layout, m.hidden)] ELSE view
      /\ flips' = IF changed THEN [flips EXCEPT ![c] = @ + 1] ELSE flips
      /\ Write(c, "viewstate", view', flips')

ReadReport(c) ==
  /\ serve[c] = "read" /\ reports[c] # <<>>
  /\ reports' = [reports EXCEPT ![c] = Tail(@)]
  /\ \/ /\ Head(reports[c]).kind = "visibility"
        /\ UpdateView(c, Head(reports[c]))
        /\ UNCHANGED <<active, serve>>
     \/ /\ Head(reports[c]).kind = "grid"
        /\ ClaimActive(c)
        /\ GoTo(c, IF active' = c THEN "regrid" ELSE "read")
        /\ UNCHANGED <<view, flips, out>>
  /\ UNCHANGED <<cfg, cfgLayout, tried, epoch, docks, caps, grid, hand, queue, worker,
                 announce, setter, acts, broken, client, counts>>

\* A read error or a silence past the grace ends the connection.
Disconnect(c) ==
  /\ serve[c] = "read"
  /\ RemoveDock(c) /\ broken' = broken \cup {c}
  /\ GoTo(c, "gone")
  /\ UNCHANGED <<cfg, cfgLayout, tried, epoch, grid, hand, queue, worker, announce, setter,
                 out, acts, reports, client, flips, counts>>

\* Any broadcast may find that the peer has closed.
WriteFails(c) ==
  /\ c \in broken \cap docks
  /\ RemoveDock(c)
  /\ UNCHANGED <<cfg, cfgLayout, tried, epoch, grid, goVars, netVars, counts>>

-----------------------------------------------------------------------------
(* The input worker.  inputCurrent decides under b.mu; handleRowAct captures *)
(* the registry and the module in a later critical section (vetRowAct).      *)

InputCurrent(e) == Current(e.m) /\ e.epoch = epoch

WorkerCheck ==
  /\ worker.pc = "idle" /\ queue # <<>>
  /\ queue' = Tail(queue)
  /\ worker' = IF InputCurrent(Head(queue))
               THEN [pc |-> "capture", m |-> Head(queue).m, cfg |-> cfg] ELSE Idle
  /\ UNCHANGED <<busVars, serve, hand, announce, setter, netVars, counts>>

WorkerCapture ==
  /\ worker.pc = "capture"
  /\ worker' = Idle
  /\ UNCHANGED <<busVars, serve, hand, queue, announce, setter, netVars, counts>>

-----------------------------------------------------------------------------
(* The scheduler replaces the configuration and the renderer.               *)

\* trySwapPending.  The runtime layout survives when it is still defined.
Swap(g) ==
  /\ ~ announce /\ g \notin tried
  /\ cfg' = g /\ tried' = tried \cup {g} /\ epoch' = epoch + 1
  /\ cfgLayout' \in IF cfgLayout \in Defines[g] THEN {cfgLayout} ELSE Defines[g]
  /\ Invalidate(g, cfgLayout')
  /\ announce' = TRUE
  /\ UNCHANGED <<docks, caps, active, grid, serve, hand, queue, worker, setter, netVars, counts>>

\* The broadcast follows after b.mu was released.
Announce ==
  /\ announce /\ announce' = FALSE
  /\ Broadcast("reload", view)
  /\ UNCHANGED <<busVars, serve, hand, queue, worker, setter, acts, reports, broken, client,
                 flips, counts>>

InstallRenderer ==
  /\ ~ announce /\ rendererCount < MaxRenderers /\ rendererCount' = rendererCount + 1
  /\ epoch' = epoch + 1
  /\ Invalidate(cfg, cfgLayout)
  /\ Broadcast("viewstate", view')
  /\ UNCHANGED <<cfg, cfgLayout, tried, docks, caps, active, grid, goVars, acts, reports, broken,
                 client, flips, actCount, flipCount, globalCount, noticeCount>>

-----------------------------------------------------------------------------
(* setLayout, from the command line: validate, write the state file without *)
(* b.mu, validate again and publish.                                        *)

Valid(l) == l \in Defines[cfg] /\ \A c \in docks : SupportsLayout(cfg, l, c)

SetLayoutWrite(l) ==
  /\ setter.pc = "idle" /\ globalCount < MaxGlobal /\ globalCount' = globalCount + 1
  /\ Valid(l)
  /\ setter' = [pc |-> "write", layout |-> l]
  /\ UNCHANGED <<busVars, serve, hand, queue, worker, announce, netVars,
                 actCount, flipCount, rendererCount, noticeCount>>

SetLayoutPublish ==
  /\ setter.pc = "write" /\ setter' = Idle
  /\ \/ /\ Valid(setter.layout)
        /\ cfgLayout' = setter.layout
        /\ view' = [c \in Conns |-> IF HasView(c)
                       THEN Renewed(view[c], setter.layout, view[c].hidden) ELSE view[c]]
        /\ Broadcast("layout", view')
     \/ ~ Valid(setter.layout) /\ UNCHANGED <<cfgLayout, view, out>>
  /\ UNCHANGED <<cfg, tried, epoch, docks, caps, active, grid, serve, hand, queue, worker,
                 announce, acts, reports, broken, client, flips, counts>>

\* A notice, the status of an action, a theme, widget data: stamped like all else.
Notice ==
  /\ noticeCount < MaxNotices /\ noticeCount' = noticeCount + 1
  /\ Broadcast("notice", view)
  /\ UNCHANGED <<busVars, goVars, acts, reports, broken, client, flips,
                 actCount, flipCount, globalCount, rendererCount>>

-----------------------------------------------------------------------------
(* The client.                                                              *)

Grid == [kind |-> "grid"]
Visibility(hidden) == [kind |-> "visibility", hidden |-> hidden]

\* A view that has no layout shows the global one of the configuration; a layout
\* the client's configuration does not define is skew: it keeps its own.
Adopts(c, m) == m.kind = "reload" \/ (m.kind = "layout" /\ m.layout \in Defines[client[c].cfg])
Shown(m) == IF m.layout # NoLayout THEN m.layout ELSE m.global

\* Seeded fault: the first message does not make the client report itself.
FaultFirst(c) == FALSE
First(c) == client[c].gen = 0

\* handleBusMsg.
ClientReceive(c) ==
  /\ c \notin broken /\ out[c] # <<>>
  /\ out' = [out EXCEPT ![c] = Tail(@)]
  /\ LET m == Head(out[c]) IN
     /\ client' = [client EXCEPT ![c] =
          [gen |-> m.gen, hidden |-> @.hidden,
           layout |-> IF Adopts(c, m) THEN Shown(m) ELSE @.layout,
           cfg |-> IF m.kind = "reload" THEN m.cfg ELSE @.cfg,
           flips |-> m.flips]]
     /\ reports' = [reports EXCEPT ![c] =
          @ \o (IF First(c) THEN <<Visibility(client[c].hidden)>> ELSE <<>>)
            \o (IF Adopts(c, m) THEN <<Grid>> ELSE <<>>)]
  /\ UNCHANGED <<busVars, goVars, acts, broken, flips, counts>>

Issue(c, m) ==
  /\ c \notin broken /\ client[c].gen > 0 /\ actCount < MaxActs /\ actCount' = actCount + 1
  /\ acts' = [acts EXCEPT ![c] = Append(@, m)]
  /\ UNCHANGED <<busVars, goVars, out, reports, broken, client, flips,
                 flipCount, globalCount, rendererCount, noticeCount>>

ClientTap(c, w) ==
  /\ w \in Shows[client[c].layout]
  /\ Issue(c, [kind |-> "tap", conn |-> c, widget |-> w, gen |-> client[c].gen,
               layout |-> client[c].layout, cfg |-> client[c].cfg, flips |-> client[c].flips])

\* navigateTo: the client flips when the bus answers.
ClientNavigate(c, l) ==
  /\ l \in Defines[client[c].cfg]
  /\ Issue(c, [kind |-> "layout", conn |-> c, arg |-> l, gen |-> client[c].gen])

\* The terminal hides or shows the client, which reports it once it has a view.
ClientFlip(c) ==
  /\ c \notin broken /\ serve[c] # "new" /\ flipCount < MaxFlips /\ flipCount' = flipCount + 1
  /\ client' = [client EXCEPT ![c].hidden = ~ @]
  /\ reports' = IF client[c].gen = 0 THEN reports
                ELSE [reports EXCEPT ![c] = Append(@, Visibility(~ client[c].hidden))]
  /\ UNCHANGED <<busVars, goVars, out, acts, broken, flips,
                 actCount, globalCount, rendererCount, noticeCount>>

ClientClose(c) ==
  /\ c \notin broken /\ serve[c] # "new"
  /\ broken' = broken \cup {c}
  /\ UNCHANGED <<busVars, goVars, out, acts, reports, client, flips, counts>>

-----------------------------------------------------------------------------
ServeStep(c) ==
  \/ Hello(c) \/ ClaimAtHello(c) \/ SetGrid(c) \/ Register(c) \/ ReadAct(c) \/ Enqueue(c)
  \/ Navigate(c) \/ ReadReport(c) \/ Disconnect(c) \/ WriteFails(c)
ClientStep(c) ==
  \/ ClientReceive(c) \/ ClientFlip(c) \/ ClientClose(c)
  \/ \E w \in Widgets : ClientTap(c, w)
  \/ \E l \in Layouts : ClientNavigate(c, l)

Next ==
  \/ \E c \in Conns : ServeStep(c) \/ ClientStep(c)
  \/ WorkerCheck \/ WorkerCapture
  \/ \E g \in Configs : Swap(g)
  \/ Announce \/ InstallRenderer
  \/ \E l \in Layouts : SetLayoutWrite(l)
  \/ SetLayoutPublish \/ Notice

Spec == Init /\ [][Next]_vars

-----------------------------------------------------------------------------
(* Properties.                                                              *)

ViewType == [gen : Nat, layout : Layouts \cup {NoLayout}, hidden : BOOLEAN]
Places == {"new", "claim", "grid", "regrid", "register", "read", "enqueue", "navigate", "gone"}
ClientType == [gen : Nat, layout : Layouts, cfg : Configs, hidden : BOOLEAN, flips : Nat]

\* The shape of the state; a connection has a view exactly as long as the bus
\* knows its capabilities.
TypeOK ==
  /\ cfg \in Configs /\ cfgLayout \in Layouts /\ tried \subseteq Configs /\ epoch \in Nat
  /\ docks \subseteq caps /\ caps \subseteq Conns
  /\ view \in [Conns -> ViewType] /\ \A c \in Conns : HasView(c) <=> c \in caps
  /\ active \in Conns \cup {NoConn} /\ grid \in Conns \cup {NoConn}
  /\ serve \in [Conns -> Places]
  /\ Len(queue) <= QueueLimit /\ worker.pc \in {"idle", "capture"}
  /\ setter.pc \in {"idle", "write"} /\ announce \in BOOLEAN
  /\ client \in [Conns -> ClientType] /\ flips \in [Conns -> Nat] /\ broken \subseteq Conns

\* Only a connection the bus knows holds the panel: one evicted by a failed
\* write while its reader still runs can neither keep nor retake it.
PanelHolderIsKnown == active # NoConn => active \in caps /\ HasView(active)

\* What a client shows agrees with its session once every message between them
\* is handled: navigations, global layout changes, reloads and visibility
\* reports that crossed in transit leave no lasting difference (bus.go "cannot
\* reorder on the wire"; dock.go "dock re-reports, bus re-asserts").
MirrorsAgree ==
  \A c \in docks \ broken :
    /\ out[c] = <<>> /\ ~ announce =>
         /\ client[c].gen = view[c].gen /\ client[c].cfg = cfg
         /\ view[c].layout # NoLayout => client[c].layout = view[c].layout
    /\ out[c] = <<>> /\ reports[c] = <<>> => client[c].hidden = view[c].hidden

Dispatch == worker.pc = "idle" /\ worker'.pc = "capture"

\* An action runs only on the view it was issued on, as it was: no hide, show or
\* navigation came between, even one that was undone since (bindViewAction "retire
\* queued actions from that view").
RetiredActionsNeverRun ==
  [][ Dispatch =>
        LET m == worker'.m IN
        /\ m.conn \in docks /\ ~ view[m.conn].hidden
        /\ m.flips = flips[m.conn]
        /\ m.cfg = cfg => m.layout = view[m.conn].layout ]_vars

-----------------------------------------------------------------------------
(* Proofs, for any connections, configurations, layouts and messages.  The  *)
(* inductive invariant: what is on the wire, in a hand or in the queue.     *)

Others == {"layout", "viewstate", "notice", "status"}
Told(kinds, globals) ==
  [kind : kinds, gen : Nat, layout : Layouts \cup {NoLayout}, cfg : Configs, flips : Nat, global : globals]
Message == Told({"reload"}, Layouts) \cup Told(Others, {NoLayout})
Tap == [kind : {"tap"}, conn : Conns, widget : Widgets, gen : Nat, layout : Layouts, cfg : Configs, flips : Nat]
Navigation == [kind : {"layout"}, conn : Conns, arg : Layouts, gen : Nat]
Report == [kind : {"grid"}] \cup [kind : {"visibility"}, hidden : BOOLEAN]

Types ==
  /\ TypeOK /\ cfg \in tried
  /\ out \in [Conns -> Seq(Message)] /\ acts \in [Conns -> Seq(Tap \cup Navigation)]
  /\ reports \in [Conns -> Seq(Report)] /\ queue \in Seq([m : Tap, epoch : Nat])
  /\ hand \in [Conns -> Tap \cup Navigation \cup {Idle}]
  /\ \A c \in Conns : /\ serve[c] = "enqueue" => hand[c] \in Tap /\ hand[c].conn = c
                      /\ serve[c] = "navigate" => hand[c] \in Navigation /\ hand[c].conn = c
                      /\ \A i \in 1 .. Len(acts[c]) : acts[c][i].conn = c
                      /\ client[c].cfg \in tried
                      /\ \A i \in 1 .. Len(out[c]) : out[c][i].cfg \in tried
  /\ setter.pc = "write" => setter.layout \in Layouts

\* A connection that is not registered yet has sent and received nothing; one that
\* was removed has no view.
Early(c) == serve[c] \in {"new", "claim", "grid", "register"}
Started ==
  \A c \in Conns :
    /\ Early(c) => c \notin docks /\ out[c] = <<>> /\ client[c].gen = 0
    /\ serve[c] = "new" <=> Early(c) /\ ~ HasView(c)
    /\ HasView(c) => c \in docks \/ Early(c)
    /\ client[c].gen = 0 => /\ acts[c] = <<>> /\ reports[c] = <<>> /\ serve[c] # "enqueue"
                            /\ \A i \in 1 .. Len(queue) : queue[i].m.conn # c
    /\ \A i \in 1 .. Len(out[c]) : out[c][i].gen > 0

\* What was stamped with the generation of now, was stamped with the visibility of now.
Known(c, m) == HasView(c) => m.gen <= view[c].gen /\ (m.gen = view[c].gen => m.flips = flips[c])
Timely ==
  /\ \A c \in Conns :
       /\ Known(c, client[c])
       /\ \A i \in 1 .. Len(out[c]) : Known(c, out[c][i])
       /\ \A i \in 1 .. Len(acts[c]) : acts[c][i].kind = "tap" => Known(c, acts[c][i])
       /\ serve[c] = "enqueue" => Known(c, hand[c])
  /\ \A i \in 1 .. Len(queue) : Known(queue[i].m.conn, queue[i].m)

IInv == Types /\ Started /\ Timely /\ PanelHolderIsKnown

\* What the docks of this repository claim (host.go: both kinds that have a renderer), for
\* configurations with no layout of another kind.
EveryViewDraws == \A c \in Conns, g \in Configs : Defines[g] \subseteq Supports[c]

\* Of a layout, what was stamped with the generation and the configuration of now shows
\* the layout of now.
Drawn(c, m) == HasView(c) /\ m.gen = view[c].gen /\ m.cfg = cfg => m.layout = view[c].layout
Suits == \A c \in Conns : HasView(c) => view[c].layout \in Defines[cfg]
TapsAreDrawn ==
  /\ \A c \in Conns :
       /\ \A i \in 1 .. Len(acts[c]) : acts[c][i].kind = "tap" => Drawn(c, acts[c][i])
       /\ serve[c] = "enqueue" => Drawn(c, hand[c])
  /\ \A i \in 1 .. Len(queue) : Drawn(queue[i].m.conn, queue[i].m)

\* A client whose layout is not the one of its view has not heard of the generation of now,
\* and the message that puts its layout right comes before any of that generation.
Mends(c, k) == /\ out[c][k].kind \in {"reload", "layout"} /\ out[c][k].cfg = cfg
               /\ out[c][k].layout = view[c].layout /\ client[c].gen < view[c].gen
               /\ \A j \in 1 .. k - 1 : out[c][j].gen < view[c].gen
Mended(c, n, l) == l = view[c].layout \/ \E k \in n + 1 .. Len(out[c]) : Mends(c, k)
Streams ==
  \A c \in docks :
    /\ client[c].cfg = cfg => /\ Mended(c, 0, client[c].layout)
                              /\ \A i \in 1 .. Len(out[c]) : out[c][i].cfg = cfg
    /\ \A i \in 1 .. Len(out[c]) : out[c][i].cfg = cfg =>
         /\ out[c][i].layout \in Defines[cfg]
         /\ out[c][i].kind \in {"reload", "layout"} => Mended(c, i, out[c][i].layout)
         /\ \A j \in i .. Len(out[c]) : out[c][j].cfg = cfg
Latest ==
  ~ announce =>
    \A c \in docks :
      /\ IF out[c] = <<>> THEN client[c].gen = view[c].gen ELSE out[c][Len(out[c])].gen = view[c].gen
      /\ client[c].cfg = cfg \/ \E i \in 1 .. Len(out[c]) : out[c][i].kind = "reload" /\ out[c][i].cfg = cfg

\* Once a client has heard of its view, its last report of visibility is the one of now, or
\* all are handled.
Seen(c, i) == reports[c][i].kind = "visibility" /\ reports[c][i].hidden = client[c].hidden
Unseen(c, i) == \A j \in i + 1 .. Len(reports[c]) : reports[c][j].kind # "visibility"
Sight ==
  \A c \in docks :
    IF client[c].gen = 0 THEN out[c] # <<>>
    ELSE \/ \E i \in 1 .. Len(reports[c]) : Seen(c, i) /\ Unseen(c, i)
         \/ Unseen(c, 0) /\ view[c].hidden = client[c].hidden

MInv == Suits /\ TapsAreDrawn /\ Streams /\ Latest /\ Sight

USE ViewAssumption

(* Messages and sequences.                                                  *)

\* What the types say of one connection.
LEMMA TypesApart ==
  ASSUME Types, NEW c \in Conns
  PROVE  /\ view[c] \in ViewType /\ view[c].gen \in Nat /\ view[c].layout \in Layouts \cup {NoLayout}
         /\ view[c].hidden \in BOOLEAN /\ flips[c] \in Nat
         /\ client[c] \in ClientType /\ client[c].gen \in Nat /\ client[c].flips \in Nat
         /\ client[c].layout \in Layouts /\ client[c].cfg \in Configs /\ client[c].hidden \in BOOLEAN
         /\ out[c] \in Seq(Message) /\ acts[c] \in Seq(Tap \cup Navigation) /\ reports[c] \in Seq(Report)
         /\ Len(out[c]) \in Nat /\ Len(acts[c]) \in Nat /\ Len(reports[c]) \in Nat /\ Len(queue) \in Nat
         /\ \A i \in 1 .. Len(out[c]) : out[c][i] \in Message
         /\ \A i \in 1 .. Len(acts[c]) : acts[c][i] \in Tap \cup Navigation
         /\ \A i \in 1 .. Len(reports[c]) : reports[c][i] \in Report
         /\ \A i \in 1 .. Len(queue) : queue[i] \in [m : Tap, epoch : Nat]
<1>1. view[c] \in ViewType /\ client[c] \in ClientType /\ flips[c] \in Nat
  BY DEF Types, TypeOK
<1>2. out[c] \in Seq(Message) /\ acts[c] \in Seq(Tap \cup Navigation) /\ reports[c] \in Seq(Report)
  BY DEF Types
<1>3. /\ Len(out[c]) \in Nat /\ Len(acts[c]) \in Nat /\ Len(reports[c]) \in Nat /\ Len(queue) \in Nat
  BY <1>2, LenProperties DEF Types
<1>4. \A i \in 1 .. Len(out[c]) : out[c][i] \in Message
  BY <1>2, ElementOfSeq
<1>5. \A i \in 1 .. Len(acts[c]) : acts[c][i] \in Tap \cup Navigation
  BY <1>2, ElementOfSeq
<1>6. \A i \in 1 .. Len(reports[c]) : reports[c][i] \in Report
  BY <1>2, ElementOfSeq
<1>7. \A i \in 1 .. Len(queue) : queue[i] \in [m : Tap, epoch : Nat]
  BY ElementOfSeq DEF Types
<1> QED BY <1>1, <1>2, <1>3, <1>4, <1>5, <1>6, <1>7 DEF ViewType, ClientType

\* What a message is.
LEMMA MessageApart ==
  ASSUME NEW m \in Message
  PROVE  /\ m.gen \in Nat /\ m.layout \in Layouts \cup {NoLayout} /\ m.cfg \in Configs /\ m.flips \in Nat
         /\ m.kind \in {"reload"} \cup Others
         /\ m.kind = "reload" => m.global \in Layouts
BY DEF Message, Told, Others

LEMMA Taken ==
  ASSUME NEW S, NEW s \in Seq(S), s # <<>>
  PROVE  /\ Head(s) \in S /\ Head(s) = s[1] /\ Tail(s) \in Seq(S) /\ Len(s) \in Nat /\ Len(s) > 0
         /\ Len(Tail(s)) = Len(s) - 1 /\ \A i \in 1 .. Len(s) - 1 : Tail(s)[i] = s[i + 1]
BY HeadTailProperties, EmptySeq

\* Every message is stamped with what the bus holds of its connection.
LEMMA Stamping ==
  ASSUME Types, NEW c \in Conns, NEW kind \in {"reload"} \cup Others,
         NEW v \in [Conns -> ViewType], NEW f \in [Conns -> Nat]
  PROVE  /\ Stamp(c, kind, v, f) \in Message
         /\ Stamp(c, kind, v, f).kind = kind /\ Stamp(c, kind, v, f).gen = v[c].gen
         /\ Stamp(c, kind, v, f).layout = v[c].layout /\ Stamp(c, kind, v, f).cfg = cfg
         /\ Stamp(c, kind, v, f).flips = f[c]
<1>1. v[c].gen \in Nat /\ v[c].layout \in Layouts \cup {NoLayout} /\ f[c] \in Nat
  BY DEF ViewType
<1>2. cfg \in Configs /\ cfgLayout \in Layouts
  BY DEF Types, TypeOK
<1> QED BY <1>1, <1>2 DEF Stamp, Message, Told, Others

(* Who moves what.                                                          *)

\* The actions that change each part of the state.
LEMMA Frame ==
  ASSUME Next
  PROVE
  /\ \/ UNCHANGED <<view, flips, docks, caps>>
     \/ \E c \in Conns : Hello(c) \/ Register(c) \/ Navigate(c) \/ ReadReport(c) \/ Disconnect(c) \/ WriteFails(c)
     \/ (\E g \in Configs : Swap(g)) \/ InstallRenderer \/ SetLayoutPublish
  /\ \/ UNCHANGED <<cfg, cfgLayout, tried, epoch>>
     \/ (\E g \in Configs : Swap(g)) \/ InstallRenderer \/ SetLayoutPublish
  /\ \/ UNCHANGED active
     \/ \E c \in Conns : ClaimAtHello(c) \/ ReadReport(c) \/ Disconnect(c) \/ WriteFails(c)
  /\ \/ UNCHANGED <<out, client>>
     \/ \E c \in Conns : \/ Hello(c) \/ Register(c) \/ ReadAct(c) \/ Navigate(c) \/ ReadReport(c)
                         \/ ClientReceive(c) \/ ClientFlip(c)
     \/ Announce \/ InstallRenderer \/ SetLayoutPublish \/ Notice
  /\ \/ UNCHANGED acts
     \/ \E c \in Conns : ReadAct(c) \/ (\E w \in Widgets : ClientTap(c, w)) \/ (\E l \in Layouts : ClientNavigate(c, l))
  /\ \/ UNCHANGED reports
     \/ \E c \in Conns : ReadReport(c) \/ ClientReceive(c) \/ ClientFlip(c)
  /\ \/ UNCHANGED <<serve, hand>>
     \/ \E c \in Conns : \/ Hello(c) \/ ClaimAtHello(c) \/ SetGrid(c) \/ Register(c) \/ ReadAct(c) \/ Enqueue(c)
                         \/ Navigate(c) \/ ReadReport(c) \/ Disconnect(c)
  /\ UNCHANGED queue \/ (\E c \in Conns : Enqueue(c)) \/ WorkerCheck
  /\ UNCHANGED worker \/ WorkerCheck \/ WorkerCapture
  /\ UNCHANGED announce \/ (\E g \in Configs : Swap(g)) \/ Announce
  /\ UNCHANGED setter \/ (\E l \in Layouts : SetLayoutWrite(l)) \/ SetLayoutPublish
  /\ UNCHANGED grid \/ \E c \in Conns : SetGrid(c)
  /\ UNCHANGED broken \/ \E c \in Conns : Disconnect(c) \/ ClientClose(c)
<1> USE DEF busVars, goVars, netVars
<1>1. ASSUME NEW c \in Conns, Hello(c) PROVE UNCHANGED <<cfg, cfgLayout, tried, epoch, active, acts, reports, queue, worker, announce, setter, grid, broken>>
  BY <1>1 DEF Hello
<1>2. ASSUME NEW c \in Conns, ClaimAtHello(c) PROVE UNCHANGED <<view, flips, docks, caps, cfg, cfgLayout, tried, epoch, out, client, acts, reports, queue, worker, announce, setter, grid, broken>>
  BY <1>2 DEF ClaimAtHello
<1>3. ASSUME NEW c \in Conns, SetGrid(c) PROVE UNCHANGED <<view, flips, docks, caps, cfg, cfgLayout, tried, epoch, active, out, client, acts, reports, queue, worker, announce, setter, broken>>
  BY <1>3 DEF SetGrid
<1>4. ASSUME NEW c \in Conns, Register(c) PROVE UNCHANGED <<cfg, cfgLayout, tried, epoch, active, acts, reports, queue, worker, announce, setter, grid, broken>>
  BY <1>4 DEF Register
<1>5. ASSUME NEW c \in Conns, ReadAct(c) PROVE UNCHANGED <<view, flips, docks, caps, cfg, cfgLayout, tried, epoch, active, reports, queue, worker, announce, setter, grid, broken>>
  BY <1>5 DEF ReadAct
<1>6. ASSUME NEW c \in Conns, Enqueue(c) PROVE UNCHANGED <<view, flips, docks, caps, cfg, cfgLayout, tried, epoch, active, out, client, acts, reports, worker, announce, setter, grid, broken>>
  BY <1>6 DEF Enqueue
<1>7. ASSUME NEW c \in Conns, Navigate(c) PROVE UNCHANGED <<cfg, cfgLayout, tried, epoch, active, acts, reports, queue, worker, announce, setter, grid, broken>>
  BY <1>7 DEF Navigate
<1>8. ASSUME NEW c \in Conns, ReadReport(c) PROVE UNCHANGED <<cfg, cfgLayout, tried, epoch, acts, queue, worker, announce, setter, grid, broken>>
  BY <1>8 DEF ReadReport
<1>9. ASSUME NEW c \in Conns, Disconnect(c) PROVE UNCHANGED <<cfg, cfgLayout, tried, epoch, out, client, acts, reports, queue, worker, announce, setter, grid>>
  BY <1>9 DEF Disconnect
<1>10. ASSUME NEW c \in Conns, WriteFails(c) PROVE UNCHANGED <<cfg, cfgLayout, tried, epoch, out, client, acts, reports, serve, hand, queue, worker, announce, setter, grid, broken>>
  BY <1>10 DEF WriteFails
<1>11. ASSUME NEW c \in Conns, ClientReceive(c) PROVE UNCHANGED <<view, flips, docks, caps, cfg, cfgLayout, tried, epoch, active, acts, serve, hand, queue, worker, announce, setter, grid, broken>>
  BY <1>11 DEF ClientReceive
<1>12. ASSUME NEW c \in Conns, ClientFlip(c) PROVE UNCHANGED <<view, flips, docks, caps, cfg, cfgLayout, tried, epoch, active, acts, serve, hand, queue, worker, announce, setter, grid, broken>>
  BY <1>12 DEF ClientFlip
<1>13. ASSUME NEW c \in Conns, ClientClose(c) PROVE UNCHANGED <<view, flips, docks, caps, cfg, cfgLayout, tried, epoch, active, out, client, acts, reports, serve, hand, queue, worker, announce, setter, grid>>
  BY <1>13 DEF ClientClose
<1>14. ASSUME NEW c \in Conns, NEW m, Issue(c, m) PROVE UNCHANGED <<view, flips, docks, caps, cfg, cfgLayout, tried, epoch, active, out, client, reports, serve, hand, queue, worker, announce, setter, grid, broken>>
  BY <1>14 DEF Issue
<1>15. ASSUME WorkerCheck \/ WorkerCapture PROVE UNCHANGED <<view, flips, docks, caps, cfg, cfgLayout, tried, epoch, active, out, client, acts, reports, serve, hand, announce, setter, grid, broken>> /\ (WorkerCapture => UNCHANGED queue)
  BY <1>15 DEF WorkerCheck, WorkerCapture
<1>16. ASSUME NEW g \in Configs, Swap(g) PROVE UNCHANGED <<active, out, client, acts, reports, serve, hand, queue, worker, setter, grid, broken>>
  BY <1>16 DEF Swap
<1>17. ASSUME Announce PROVE UNCHANGED <<view, flips, docks, caps, cfg, cfgLayout, tried, epoch, active, acts, reports, serve, hand, queue, worker, setter, grid, broken>>
  BY <1>17 DEF Announce
<1>18. ASSUME InstallRenderer PROVE UNCHANGED <<active, acts, reports, serve, hand, queue, worker, announce, setter, grid, broken>>
  BY <1>18 DEF InstallRenderer
<1>19. ASSUME NEW l \in Layouts, SetLayoutWrite(l) PROVE UNCHANGED <<view, flips, docks, caps, cfg, cfgLayout, tried, epoch, active, out, client, acts, reports, serve, hand, queue, worker, announce, grid, broken>>
  BY <1>19 DEF SetLayoutWrite
<1>20. ASSUME SetLayoutPublish PROVE UNCHANGED <<active, acts, reports, serve, hand, queue, worker, announce, grid, broken>>
  BY <1>20 DEF SetLayoutPublish
<1>21. ASSUME Notice PROVE UNCHANGED <<view, flips, docks, caps, cfg, cfgLayout, tried, epoch, active, acts, reports, serve, hand, queue, worker, announce, setter, grid, broken>>
  BY <1>21 DEF Notice
<1>22. ASSUME NEW c \in Conns, NEW w \in Widgets, ClientTap(c, w) PROVE \E m : Issue(c, m)
  BY <1>22 DEF ClientTap
<1>23. ASSUME NEW c \in Conns, NEW l \in Layouts, ClientNavigate(c, l) PROVE \E m : Issue(c, m)
  BY <1>23 DEF ClientNavigate
<1>24. CASE \E c \in Conns : ServeStep(c)
  BY <1>24, <1>1, <1>2, <1>3, <1>4, <1>5, <1>6, <1>7, <1>8, <1>9, <1>10 DEF ServeStep
<1>25. CASE \E c \in Conns : ClientStep(c)
  BY <1>25, <1>11, <1>12, <1>13, <1>14, <1>22, <1>23 DEF ClientStep
<1>26. CASE WorkerCheck \/ WorkerCapture \/ \E g \in Configs : Swap(g)
  BY <1>26, <1>15, <1>16
<1>27. CASE Announce \/ InstallRenderer \/ (\E l \in Layouts : SetLayoutWrite(l)) \/ SetLayoutPublish \/ Notice
  BY <1>27, <1>17, <1>18, <1>19, <1>20, <1>21
<1> QED BY <1>24, <1>25, <1>26, <1>27 DEF Next

\* What a step may do to a session: nothing, the next generation, its end, its beginning.
StepView(c) ==
  \/ view'[c] = view[c] /\ flips'[c] = flips[c]
  \/ HasView(c) /\ view'[c].gen = view[c].gen + 1
  \/ view'[c] = NoView
  \/ serve[c] = "new" /\ view'[c].gen = 1
Sessions ==
  /\ docks \subseteq caps /\ caps \subseteq Conns
  /\ view \in [Conns -> ViewType] /\ flips \in [Conns -> Nat]
  /\ \A c \in Conns : HasView(c) <=> c \in caps

\* The next generation of a view.
LEMMA NextGeneration ==
  ASSUME NEW v \in ViewType, NEW l \in Layouts \cup {NoLayout}, NEW h \in BOOLEAN
  PROVE  /\ Renewed(v, l, h) \in ViewType /\ Renewed(v, l, h).gen = v.gen + 1
         /\ Renewed(v, l, h).layout = l /\ Renewed(v, l, h).hidden = h
BY DEF ViewType, Renewed

LEMMA Ended ==
  ASSUME Sessions, NEW c \in Conns, RemoveDock(c), flips' = flips
  PROVE  Sessions' /\ \A d \in Conns : StepView(d)
<1>1. NoView \in ViewType
  BY DEF NoView, ViewType
<1>2. view' \in [Conns -> ViewType] /\ view'[c] = NoView /\ \A d \in Conns \ {c} : view'[d] = view[d]
  BY <1>1 DEF RemoveDock, Sessions
<1>3. \A d \in Conns : HasView(d)' <=> d \in caps'
  BY <1>2 DEF RemoveDock, Sessions, HasView, NoView
<1> QED BY <1>2, <1>3 DEF RemoveDock, Sessions, StepView

LEMMA Invalidated ==
  ASSUME Sessions, NEW g \in Configs, NEW global, Invalidate(g, global), UNCHANGED <<docks, caps, flips>>
  PROVE  /\ Sessions'
         /\ \A c \in Conns :
              /\ StepView(c) /\ view'[c].hidden = view[c].hidden
              /\ HasView(c) => /\ view'[c].gen = view[c].gen + 1
                               /\ view'[c].layout \in Compatible(g, global, view[c].layout, c)
              /\ ~ HasView(c) => view'[c] = view[c]
<1>1. PICK l \in [Conns -> Layouts \cup {NoLayout}] :
        /\ \A c \in Conns : l[c] \in IF HasView(c) THEN Compatible(g, global, view[c].layout, c) ELSE {NoLayout}
        /\ view' = [c \in Conns |-> IF HasView(c) THEN Renewed(view[c], l[c], view[c].hidden) ELSE view[c]]
  BY DEF Invalidate
<1>2. \A c \in Conns : view[c] \in ViewType /\ view[c].hidden \in BOOLEAN
  BY DEF Sessions, ViewType
<1>3. ASSUME NEW c \in Conns
      PROVE  /\ HasView(c) => /\ view'[c] \in ViewType /\ view'[c].gen = view[c].gen + 1
                              /\ view'[c].layout = l[c] /\ view'[c].hidden = view[c].hidden
             /\ ~ HasView(c) => view'[c] = view[c]
  <2>1. HasView(c) => view'[c] = Renewed(view[c], l[c], view[c].hidden)
    BY <1>1
  <2>2. ~ HasView(c) => view'[c] = view[c]
    BY <1>1
  <2>3. l[c] \in Layouts \cup {NoLayout} /\ view[c] \in ViewType /\ view[c].hidden \in BOOLEAN
    BY <1>1, <1>2
  <2>4. LET r == Renewed(view[c], l[c], view[c].hidden)
        IN  r \in ViewType /\ r.gen = view[c].gen + 1 /\ r.layout = l[c] /\ r.hidden = view[c].hidden
    BY <2>3, NextGeneration
  <2> QED BY <2>1, <2>2, <2>4
<1>4. view' \in [Conns -> ViewType]
  BY <1>1, <1>2, <1>3
<1>5. \A c \in Conns : HasView(c)' <=> HasView(c)
  BY <1>2, <1>3 DEF HasView, ViewType
<1>6. \A c \in Conns : HasView(c) => view'[c].layout \in Compatible(g, global, view[c].layout, c)
  BY <1>1, <1>3
<1> QED BY <1>3, <1>4, <1>5, <1>6 DEF Sessions, StepView

LEMMA Viewing ==
  ASSUME Types, Started, Next
  PROVE  Sessions' /\ \A c \in Conns : StepView(c)
<1>1. Sessions /\ cfg \in Configs /\ cfgLayout \in Layouts
  BY DEF Types, TypeOK, Sessions
<1>2. CASE UNCHANGED <<view, flips, docks, caps>>
  BY <1>1, <1>2 DEF Sessions, StepView, HasView
<1>3. ASSUME NEW c \in Conns, Hello(c) PROVE Sessions' /\ \A d \in Conns : StepView(d)
  <2>1. PICK want \in Layouts : \E l \in Compatible(cfg, cfgLayout, want, c) :
          view' = [view EXCEPT ![c] = [gen |-> 1, layout |-> l, hidden |-> client[c].hidden]]
    BY <1>3 DEF Hello
  <2>2. PICK l \in Compatible(cfg, cfgLayout, want, c) :
          view' = [view EXCEPT ![c] = [gen |-> 1, layout |-> l, hidden |-> client[c].hidden]]
    BY <2>1
  <2>3. l \in Layouts \cup {NoLayout}
    BY <1>1, <2>2 DEF Compatible, SupportsLayout
  <2>4. client[c].hidden \in BOOLEAN
    BY TypesApart
  <2>5. [gen |-> 1, layout |-> l, hidden |-> client[c].hidden] \in ViewType
    BY <2>3, <2>4 DEF ViewType
  <2>6. view' \in [Conns -> ViewType] /\ view'[c].gen = 1 /\ \A d \in Conns \ {c} : view'[d] = view[d]
    BY <2>2, <2>5, <1>1 DEF Sessions
  <2>7. serve[c] = "new" /\ caps' = caps \cup {c} /\ flips' = flips /\ docks' = docks
    BY <1>3 DEF Hello
  <2>8. \A d \in Conns : HasView(d)' <=> d \in caps'
    BY <2>6, <2>7, <1>1 DEF Sessions, HasView
  <2> QED BY <2>6, <2>7, <2>8, <1>1 DEF Sessions, StepView
<1>4. ASSUME NEW c \in Conns, Register(c) PROVE Sessions' /\ \A d \in Conns : StepView(d)
  <2>1. view' = view /\ flips' = flips /\ caps' = caps /\ docks' = docks \cup {c} /\ c \in caps
    BY <1>4, <1>1 DEF Register, Started, Early, Sessions
  <2> QED BY <2>1, <1>1 DEF Sessions, StepView, HasView
<1>5. ASSUME NEW c \in Conns, NEW v \in ViewType, HasView(c), v.gen = view[c].gen + 1,
             view' = [view EXCEPT ![c] = v], UNCHANGED <<docks, caps>>, flips' \in [Conns -> Nat],
             \A d \in Conns \ {c} : flips'[d] = flips[d]
      PROVE  Sessions' /\ \A d \in Conns : StepView(d)
  <2>1. view' \in [Conns -> ViewType] /\ view'[c] = v /\ \A d \in Conns \ {c} : view'[d] = view[d]
    BY <1>5, <1>1 DEF Sessions
  <2>2. view[c].gen \in Nat
    BY TypesApart
  <2>3. \A d \in Conns : HasView(d)' <=> HasView(d)
    BY <2>1, <2>2, <1>5 DEF HasView
  <2> QED BY <2>1, <2>3, <1>5, <1>1 DEF Sessions, StepView
<1>6. ASSUME NEW c \in Conns, Navigate(c) PROVE Sessions' /\ \A d \in Conns : StepView(d)
  <2>1. UNCHANGED <<docks, caps, flips>>
    BY <1>6 DEF Navigate
  <2>2. CASE view' = view
    BY <2>1, <2>2, <1>1 DEF Sessions, StepView, HasView
  <2>3. CASE view' # view
    <3>1. /\ Current(hand[c]) /\ SupportsLayout(cfg, hand[c].arg, c) /\ serve[c] = "navigate"
          /\ view' = [view EXCEPT ![c] = Renewed(@, hand[c].arg, @.hidden)]
      BY <1>6, <2>3 DEF Navigate
    <3>2. hand[c].conn = c /\ hand[c].arg \in Layouts
      BY <3>1 DEF Types, Navigation
    <3>3. HasView(c)
      BY <3>1, <3>2 DEF Current, Lease
    <3> DEFINE v == Renewed(view[c], hand[c].arg, view[c].hidden)
    <3>4. view[c] \in ViewType /\ view[c].hidden \in BOOLEAN
      BY TypesApart
    <3>5. v \in ViewType /\ v.gen = view[c].gen + 1
      BY <3>2, <3>4, NextGeneration
    <3>6. view' = [view EXCEPT ![c] = v]
      BY <3>1
    <3> HIDE DEF v
    <3> QED BY <1>5, <2>1, <3>3, <3>5, <3>6, <1>1 DEF Sessions
  <2> QED BY <2>2, <2>3
<1>7. ASSUME NEW c \in Conns, ReadReport(c) PROVE Sessions' /\ \A d \in Conns : StepView(d)
  <2>1. UNCHANGED <<docks, caps>>
    BY <1>7 DEF ReadReport
  <2>2. CASE UNCHANGED <<view, flips>>
    BY <2>1, <2>2, <1>1 DEF Sessions, StepView, HasView
  <2>3. CASE ~ UNCHANGED <<view, flips>>
    <3> DEFINE m == Head(reports[c])
    <3>1. /\ m.kind = "visibility" /\ reports[c] # <<>> /\ HasView(c)
          /\ view' = [view EXCEPT ![c] = Renewed(@, @.layout, m.hidden)] /\ flips' = [flips EXCEPT ![c] = @ + 1]
      BY <1>7, <2>3 DEF ReadReport, UpdateView
    <3>2. m \in Report
      BY <3>1, TypesApart, Taken
    <3>3. m.hidden \in BOOLEAN
      BY <3>1, <3>2 DEF Report
    <3> HIDE DEF m
    <3> DEFINE v == Renewed(view[c], view[c].layout, m.hidden)
    <3>4. view[c] \in ViewType /\ view[c].layout \in Layouts \cup {NoLayout}
      BY TypesApart
    <3>5. v \in ViewType /\ v.gen = view[c].gen + 1
      BY <3>3, <3>4, NextGeneration
    <3>6. view' = [view EXCEPT ![c] = v]
      BY <3>1
    <3>7. flips' \in [Conns -> Nat] /\ \A d \in Conns \ {c} : flips'[d] = flips[d]
      BY <3>1, <1>1 DEF Sessions
    <3> HIDE DEF v
    <3> QED BY <1>5, <2>1, <3>1, <3>5, <3>6, <3>7
  <2> QED BY <2>2, <2>3
<1>8. ASSUME NEW c \in Conns, Disconnect(c) \/ WriteFails(c) PROVE Sessions' /\ \A d \in Conns : StepView(d)
  BY <1>1, <1>8, Ended DEF Disconnect, WriteFails, netVars
<1>9. ASSUME NEW g \in Configs, Swap(g) PROVE Sessions' /\ \A d \in Conns : StepView(d)
  <2>1. Invalidate(g, cfgLayout') /\ UNCHANGED <<docks, caps, flips>>
    BY <1>9 DEF Swap, netVars
  <2> QED BY <2>1, <1>1, Invalidated
<1>10. ASSUME InstallRenderer PROVE Sessions' /\ \A d \in Conns : StepView(d)
  BY <1>10, <1>1, Invalidated DEF InstallRenderer
<1>11. ASSUME SetLayoutPublish PROVE Sessions' /\ \A d \in Conns : StepView(d)
  <2>1. UNCHANGED <<docks, caps, flips>>
    BY <1>11 DEF SetLayoutPublish
  <2>2. CASE view' = view
    BY <2>1, <2>2, <1>1 DEF Sessions, StepView, HasView
  <2>3. CASE view' # view
    <3>1. /\ view' = [c \in Conns |-> IF HasView(c)
                       THEN Renewed(view[c], setter.layout, view[c].hidden) ELSE view[c]]
          /\ setter.layout \in Layouts
      BY <1>11, <2>3 DEF SetLayoutPublish, Types
    <3>2. ASSUME NEW c \in Conns
          PROVE  view'[c] \in ViewType /\ StepView(c) /\ (HasView(c)' <=> HasView(c))
      <4>1. view[c] \in ViewType /\ view[c].hidden \in BOOLEAN
        BY TypesApart
      <4>2. HasView(c) => view'[c] \in ViewType /\ view'[c].gen = view[c].gen + 1
        <5>1. HasView(c) => view'[c] = Renewed(view[c], setter.layout, view[c].hidden)
          BY <3>1
        <5> QED BY <3>1, <4>1, <5>1, NextGeneration
      <4>3. ~ HasView(c) => view'[c] = view[c]
        BY <3>1
      <4> QED BY <2>1, <4>1, <4>2, <4>3 DEF StepView, HasView, ViewType
    <3> QED BY <2>1, <3>1, <3>2, <1>1 DEF Sessions
  <2> QED BY <2>2, <2>3
<1> QED BY <1>2, <1>3, <1>4, <1>6, <1>7, <1>8, <1>9, <1>10, <1>11, Frame

(* The stream to a client.                                                  *)

\* What a message written in this step says, and what a step does to the stream of a connection:
\* nothing, the client hears the oldest message, the bus adds one, or the greeting.
Fresh(c, m) == /\ m \in Message /\ m.gen = view'[c].gen /\ m.layout = view'[c].layout
               /\ m.flips = flips'[c] /\ m.cfg = cfg /\ m.gen > 0
Still(c) == /\ client'[c].gen = client[c].gen /\ client'[c].flips = client[c].flips /\ client'[c].cfg = client[c].cfg
            /\ serve[c] # "new" => client'[c].layout = client[c].layout
Rests(c) == out'[c] = out[c] /\ Still(c)
Hears(c) == /\ ClientReceive(c) /\ out[c] # <<>> /\ out'[c] = Tail(out[c])
            /\ client'[c].gen = out[c][1].gen /\ client'[c].flips = out[c][1].flips
            /\ client'[c].cfg = IF out[c][1].kind = "reload" THEN out[c][1].cfg ELSE client[c].cfg
            /\ client'[c].layout = IF Adopts(c, out[c][1]) THEN Shown(out[c][1]) ELSE client[c].layout
            /\ client'[c].hidden = client[c].hidden
Sends(c, m) == c \in docks /\ Fresh(c, m) /\ out'[c] = Append(out[c], m) /\ client'[c] = client[c]
Greets(c) == /\ serve[c] = "register" /\ serve'[c] = "read" /\ client'[c] = client[c]
             /\ \E m, n \in Message : /\ Fresh(c, m) /\ Fresh(c, n) /\ m.kind = "reload" /\ n.kind = "layout"
                                      /\ out'[c] = out[c] \o <<m, n>>
StepLine(c) == Rests(c) \/ Hears(c) \/ Greets(c) \/ \E m : Sends(c, m)

LEMMA Wrote ==
  ASSUME Types, NEW c \in Conns, NEW d \in Conns, NEW kind \in {"reload"} \cup Others,
         Sessions', docks' = docks, client' = client, Write(c, kind, view', flips')
  PROVE  /\ d = c /\ c \in docks => \E m : Sends(d, m) /\ m.kind = kind
         /\ d # c \/ c \notin docks => Rests(d)
<1> DEFINE m == Stamp(c, kind, view', flips')
<1>1. c \in docks => Fresh(c, m) /\ m.kind = kind
  BY Stamping DEF Fresh, Sessions, HasView
<1> HIDE DEF m
<1>2. out \in [Conns -> Seq(Message)]
  BY DEF Types
<1>3. out' = IF c \in docks THEN [out EXCEPT ![c] = Append(@, m)] ELSE out
  BY DEF Write, m
<1>4. c \in docks => out'[c] = Append(out[c], m)
  BY <1>2, <1>3
<1>5. d # c \/ c \notin docks => out'[d] = out[d]
  BY <1>2, <1>3
<1> QED BY <1>1, <1>4, <1>5 DEF Sends, Rests, Still

LEMMA Cast ==
  ASSUME Types, NEW d \in Conns, NEW kind \in {"reload"} \cup Others,
         Sessions', docks' = docks, flips' = flips, client' = client, Broadcast(kind, view')
  PROVE  /\ d \in docks => \E m : Sends(d, m) /\ m.kind = kind
         /\ d \notin docks => Rests(d)
<1> DEFINE m == Stamp(d, kind, view', flips)
<1>1. flips \in [Conns -> Nat]
  BY DEF Types, TypeOK
<1>2. d \in docks => Fresh(d, m) /\ m.kind = kind
  BY <1>1, Stamping DEF Fresh, Sessions, HasView
<1> HIDE DEF m
<1>3. d \in docks => out'[d] = Append(out[d], m)
  BY DEF Broadcast, m
<1>4. d \notin docks => out'[d] = out[d]
  BY DEF Broadcast
<1> QED BY <1>2, <1>3, <1>4 DEF Sends, Rests, Still

LEMMA Heard ==
  ASSUME Types, NEW c \in Conns, ClientReceive(c)
  PROVE  Hears(c) /\ client' \in [Conns -> ClientType] /\ \A d \in Conns \ {c} : client'[d] = client[d] /\ out'[d] = out[d]
<1> DEFINE m == out[c][1]
<1>1. out[c] # <<>> /\ out[c] \in Seq(Message) /\ client \in [Conns -> ClientType] /\ out \in [Conns -> Seq(Message)]
  BY DEF ClientReceive, Types, TypeOK
<1>2. Head(out[c]) = m /\ m \in Message
  BY <1>1, Taken
<1> DEFINE k == [gen |-> m.gen, hidden |-> client[c].hidden,
                 layout |-> IF Adopts(c, m) THEN Shown(m) ELSE client[c].layout,
                 cfg |-> IF m.kind = "reload" THEN m.cfg ELSE client[c].cfg, flips |-> m.flips]
<1>3. client' = [client EXCEPT ![c] = k] /\ out' = [out EXCEPT ![c] = Tail(@)]
  BY <1>2 DEF ClientReceive
<1>4. Adopts(c, m) => Shown(m) \in Layouts
  <2>1. m.kind = "reload" => m.global \in Layouts
    BY <1>2, MessageApart
  <2>2. m.layout \in Layouts \cup {NoLayout}
    BY <1>2, MessageApart
  <2>3. \A g \in Configs : NoLayout \notin Defines[g]
    BY ViewAssumption
  <2>4. client[c].cfg \in Configs
    BY TypesApart
  <2> HIDE DEF m
  <2> QED BY <2>1, <2>2, <2>3, <2>4 DEF Adopts, Shown
<1>5. k \in ClientType
  BY <1>2, <1>4, TypesApart, MessageApart DEF ClientType
<1>6. client'[c] = k /\ out'[c] = Tail(out[c])
  BY <1>1, <1>3
<1>7. \A d \in Conns \ {c} : client'[d] = client[d] /\ out'[d] = out[d]
  BY <1>1, <1>3
<1>8. client' \in [Conns -> ClientType]
  BY <1>1, <1>3, <1>5
<1> QED BY <1>1, <1>6, <1>7, <1>8 DEF Hears

\* Of every step, for every connection; the type of what the terminals show goes with it.
LEMMA Lines ==
  ASSUME Types, Started, Next
  PROVE  client' \in [Conns -> ClientType] /\ \A d \in Conns : StepLine(d)
<1>1. Sessions' /\ view \in [Conns -> ViewType] /\ serve \in [Conns -> Places]
  BY Viewing DEF Sessions, Types, TypeOK
<1>2. client \in [Conns -> ClientType] /\ out \in [Conns -> Seq(Message)]
  BY DEF Types, TypeOK
<1>3. {"layout", "viewstate", "notice", "status", "reload"} \subseteq {"reload"} \cup Others
  BY DEF Others
<1>4. CASE UNCHANGED <<out, client>>
  BY <1>2, <1>4 DEF StepLine, Rests, Still
<1>5. ASSUME NEW c \in Conns, Hello(c) PROVE client' \in [Conns -> ClientType] /\ \A d \in Conns : StepLine(d)
  <2>1. PICK want \in Layouts : client' = [client EXCEPT ![c].layout = want]
    BY <1>5 DEF Hello
  <2>2. serve[c] = "new" /\ out' = out
    BY <1>5 DEF Hello
  <2>3. client[c] \in ClientType
    BY <1>2
  <2>4. client'[c] = [client[c] EXCEPT !.layout = want] /\ \A d \in Conns \ {c} : client'[d] = client[d]
    BY <1>2, <2>1
  <2>5. /\ client'[c] \in ClientType /\ client'[c].gen = client[c].gen /\ client'[c].flips = client[c].flips
        /\ client'[c].cfg = client[c].cfg
    BY <2>3, <2>4 DEF ClientType
  <2>6. client' \in [Conns -> ClientType]
    BY <1>2, <2>1, <2>5
  <2> QED BY <2>2, <2>4, <2>5, <2>6 DEF StepLine, Rests, Still
<1>6. ASSUME NEW c \in Conns, Register(c) PROVE client' = client /\ \A d \in Conns : StepLine(d)
  <2> DEFINE m == Stamp(c, "reload", view, flips)
             n == Stamp(c, "layout", view, flips)
  <2>1. /\ serve[c] = "register" /\ client' = client /\ view' = view /\ flips' = flips
        /\ out' = [out EXCEPT ![c] = @ \o <<m, n>>] /\ c \in docks' /\ serve'[c] = "read"
    BY <1>6, <1>1 DEF Register, GoTo
  <2>2. flips \in [Conns -> Nat]
    BY DEF Types, TypeOK
  <2>7. /\ m \in Message /\ m.kind = "reload" /\ m.gen = view[c].gen /\ m.layout = view[c].layout
        /\ m.cfg = cfg /\ m.flips = flips[c]
    BY <1>1, <1>3, <2>2, Stamping
  <2>8. /\ n \in Message /\ n.kind = "layout" /\ n.gen = view[c].gen /\ n.layout = view[c].layout
        /\ n.cfg = cfg /\ n.flips = flips[c]
    BY <1>1, <1>3, <2>2, Stamping
  <2> HIDE DEF m, n
  <2>3. Fresh(c, m) /\ Fresh(c, n) /\ m.kind = "reload" /\ n.kind = "layout"
    BY <1>1, <2>1, <2>7, <2>8 DEF Fresh, Sessions, HasView
  <2>4. out'[c] = out[c] \o <<m, n>> /\ \A d \in Conns \ {c} : out'[d] = out[d]
    BY <1>2, <2>1
  <2>5. Greets(c)
    BY <2>1, <2>3, <2>4 DEF Greets, Fresh
  <2> QED BY <2>1, <2>4, <2>5 DEF StepLine, Rests, Still
<1>7. ASSUME NEW c \in Conns, ReadAct(c) PROVE client' = client /\ \A d \in Conns : StepLine(d)
  <2>1. /\ client' = client /\ view' = view /\ flips' = flips /\ docks' = docks
        /\ (out' = out \/ Write(c, "status", view, flips))
    BY <1>7 DEF ReadAct, busVars
  <2>2. out' = out \/ Write(c, "status", view', flips')
    BY <2>1
  <2> QED BY <1>1, <1>3, <2>1, <2>2, Wrote DEF StepLine, Rests, Still
<1>8. ASSUME NEW c \in Conns, Navigate(c) PROVE client' = client /\ \A d \in Conns : StepLine(d)
  <2>1. client' = client /\ flips' = flips /\ docks' = docks /\ Write(c, "layout", view', flips)
    BY <1>8 DEF Navigate
  <2>2. Write(c, "layout", view', flips')
    BY <2>1
  <2> QED BY <1>1, <1>3, <2>1, <2>2, Wrote DEF StepLine
<1>9. ASSUME NEW c \in Conns, ReadReport(c) PROVE client' = client /\ \A d \in Conns : StepLine(d)
  <2>1. client' = client /\ docks' = docks /\ (out' = out \/ Write(c, "viewstate", view', flips'))
    BY <1>9 DEF ReadReport, UpdateView
  <2> QED BY <1>1, <1>3, <2>1, Wrote DEF StepLine, Rests, Still
<1>10. ASSUME NEW c \in Conns, ClientReceive(c) PROVE client' \in [Conns -> ClientType] /\ \A d \in Conns : StepLine(d)
  BY <1>10, Heard DEF StepLine, Rests, Still
<1>11. ASSUME NEW c \in Conns, ClientFlip(c) PROVE client' \in [Conns -> ClientType] /\ \A d \in Conns : StepLine(d)
  <2>1. client' = [client EXCEPT ![c].hidden = ~ @] /\ out' = out
    BY <1>11 DEF ClientFlip
  <2>2. client[c] \in ClientType
    BY <1>2
  <2>3. client'[c] = [client[c] EXCEPT !.hidden = ~ @] /\ \A d \in Conns \ {c} : client'[d] = client[d]
    BY <1>2, <2>1
  <2>4. /\ client'[c] \in ClientType /\ client'[c].gen = client[c].gen /\ client'[c].flips = client[c].flips
        /\ client'[c].cfg = client[c].cfg /\ client'[c].layout = client[c].layout
    BY <2>2, <2>3 DEF ClientType
  <2>5. client' \in [Conns -> ClientType]
    BY <1>2, <2>1, <2>4
  <2> QED BY <2>1, <2>3, <2>4, <2>5 DEF StepLine, Rests, Still
<1>12. ASSUME Announce \/ Notice \/ InstallRenderer PROVE client' = client /\ \A d \in Conns : StepLine(d)
  <2>1. client' = client /\ flips' = flips /\ docks' = docks /\ \E kind \in {"reload", "notice", "viewstate"} : Broadcast(kind, view')
    <3>1. Announce => client' = client /\ flips' = flips /\ docks' = docks /\ Broadcast("reload", view) /\ view' = view
      BY DEF Announce, busVars
    <3>2. Notice => client' = client /\ flips' = flips /\ docks' = docks /\ Broadcast("notice", view) /\ view' = view
      BY DEF Notice, busVars
    <3>3. InstallRenderer => client' = client /\ flips' = flips /\ docks' = docks /\ Broadcast("viewstate", view')
      BY DEF InstallRenderer
    <3>4. view' = view => \A kind : Broadcast(kind, view) <=> Broadcast(kind, view')
      BY DEF Broadcast, Stamp
    <3> QED BY <1>12, <3>1, <3>2, <3>3, <3>4
  <2> QED BY <1>1, <1>3, <2>1, Cast DEF StepLine
<1>13. ASSUME SetLayoutPublish PROVE client' = client /\ \A d \in Conns : StepLine(d)
  <2>1. client' = client /\ flips' = flips /\ docks' = docks /\ (out' = out \/ Broadcast("layout", view'))
    BY <1>13 DEF SetLayoutPublish
  <2> QED BY <1>1, <1>3, <2>1, Cast DEF StepLine, Rests, Still
<1> QED BY <1>2, <1>4, <1>5, <1>6, <1>7, <1>8, <1>9, <1>10, <1>11, <1>12, <1>13, Frame

(* Actions, from the terminal to the worker, and reports.                   *)

\* An action leaves the stream at its head; the one that joins it says what the client holds.
Issued(c, m) == /\ m \in Tap \cup Navigation /\ m.conn = c /\ client[c].gen > 0
                /\ m.kind = "tap" => /\ m.gen = client[c].gen /\ m.flips = client[c].flips
                                     /\ m.layout = client[c].layout /\ m.cfg = client[c].cfg
StepActs(c) ==
  \/ acts'[c] = acts[c]
  \/ acts[c] # <<>> /\ acts'[c] = Tail(acts[c])
  \/ \E m : Issued(c, m) /\ acts'[c] = Append(acts[c], m)
LEMMA Issuing ==
  ASSUME Types, Next
  PROVE  acts' \in [Conns -> Seq(Tap \cup Navigation)] /\ \A d \in Conns : StepActs(d)
<1>1. acts \in [Conns -> Seq(Tap \cup Navigation)]
  BY DEF Types
<1>2. CASE UNCHANGED acts
  BY <1>1, <1>2 DEF StepActs
<1>3. ASSUME NEW c \in Conns, ReadAct(c) PROVE acts' \in [Conns -> Seq(Tap \cup Navigation)] /\ \A d \in Conns : StepActs(d)
  <2>1. acts[c] # <<>> /\ acts' = [acts EXCEPT ![c] = Tail(@)]
    BY <1>3 DEF ReadAct
  <2>2. Tail(acts[c]) \in Seq(Tap \cup Navigation)
    BY <1>1, <2>1, Taken
  <2> QED BY <1>1, <2>1, <2>2 DEF StepActs
<1>4. ASSUME NEW c \in Conns, NEW m, Issue(c, m), Issued(c, m)
      PROVE acts' \in [Conns -> Seq(Tap \cup Navigation)] /\ \A d \in Conns : StepActs(d)
  <2>1. acts' = [acts EXCEPT ![c] = Append(@, m)]
    BY <1>4 DEF Issue
  <2>2. Append(acts[c], m) \in Seq(Tap \cup Navigation)
    BY <1>1, <1>4, AppendProperties DEF Issued
  <2> QED BY <1>1, <1>4, <2>1, <2>2 DEF StepActs
<1>5. ASSUME NEW c \in Conns, NEW w \in Widgets, ClientTap(c, w) PROVE \E m : Issue(c, m) /\ Issued(c, m)
  <2> DEFINE m == [kind |-> "tap", conn |-> c, widget |-> w, gen |-> client[c].gen,
                   layout |-> client[c].layout, cfg |-> client[c].cfg, flips |-> client[c].flips]
  <2>1. Issue(c, m) /\ client[c].gen > 0
    BY <1>5 DEF ClientTap, Issue
  <2>2. m \in Tap
    BY TypesApart DEF Tap
  <2>3. Issued(c, m)
    BY <2>1, <2>2 DEF Issued
  <2> QED BY <2>1, <2>3
<1>6. ASSUME NEW c \in Conns, NEW l \in Layouts, ClientNavigate(c, l) PROVE \E m : Issue(c, m) /\ Issued(c, m)
  <2> DEFINE m == [kind |-> "layout", conn |-> c, arg |-> l, gen |-> client[c].gen]
  <2>1. Issue(c, m) /\ client[c].gen > 0
    BY <1>6 DEF ClientNavigate, Issue
  <2>2. m \in Navigation
    BY TypesApart DEF Navigation
  <2>3. Issued(c, m)
    BY <2>1, <2>2 DEF Issued
  <2> QED BY <2>1, <2>3
<1> QED BY <1>2, <1>3, <1>4, <1>5, <1>6, Frame

\* A goroutine that holds an action keeps it or took it from the head of the stream, while
\* the lease held.
StepHand(c) ==
  \A there \in {"enqueue", "navigate"} :
    serve'[c] = there =>
      \/ serve[c] = there /\ hand'[c] = hand[c]
      \/ /\ acts[c] # <<>> /\ hand'[c] = acts[c][1] /\ Lease(c, acts[c][1])
         /\ acts[c][1].kind = "tap" <=> there = "enqueue"
LEMMA Holding ==
  ASSUME Types, Next
  PROVE  /\ serve' \in [Conns -> Places] /\ hand' \in [Conns -> Tap \cup Navigation \cup {Idle}]
         /\ \A d \in Conns : StepHand(d)
<1>1. serve \in [Conns -> Places] /\ hand \in [Conns -> Tap \cup Navigation \cup {Idle}]
  BY DEF Types, TypeOK
<1>2. CASE UNCHANGED <<serve, hand>>
  BY <1>1, <1>2 DEF StepHand
<1>3. ASSUME NEW c \in Conns, NEW there \in Places \ {"enqueue", "navigate"}, GoTo(c, there), hand' = hand
      PROVE  /\ serve' \in [Conns -> Places] /\ hand' \in [Conns -> Tap \cup Navigation \cup {Idle}]
             /\ \A d \in Conns : StepHand(d)
  BY <1>1, <1>3 DEF GoTo, StepHand
<1>4. ASSUME NEW c \in Conns, ReadAct(c)
      PROVE  /\ serve' \in [Conns -> Places] /\ hand' \in [Conns -> Tap \cup Navigation \cup {Idle}]
             /\ \A d \in Conns : StepHand(d)
  <2>1. acts[c] # <<>> /\ acts[c] \in Seq(Tap \cup Navigation)
    BY <1>4, TypesApart DEF ReadAct
  <2>2. Head(acts[c]) = acts[c][1] /\ acts[c][1] \in Tap \cup Navigation
    BY <2>1, Taken
  <2>3. CASE UNCHANGED <<serve, hand>>
    BY <1>1, <2>3 DEF StepHand
  <2>4. CASE ~ UNCHANGED <<serve, hand>>
    <3>1. /\ Lease(c, acts[c][1]) /\ hand' = [hand EXCEPT ![c] = acts[c][1]]
          /\ serve' = [serve EXCEPT ![c] = IF acts[c][1].kind = "tap" THEN "enqueue" ELSE "navigate"]
      BY <1>4, <2>2, <2>4 DEF ReadAct, GoTo
    <3>2. /\ hand'[c] = acts[c][1] /\ serve'[c] = IF acts[c][1].kind = "tap" THEN "enqueue" ELSE "navigate"
          /\ \A d \in Conns \ {c} : hand'[d] = hand[d] /\ serve'[d] = serve[d]
      BY <1>1, <3>1
    <3>3. serve' \in [Conns -> Places] /\ hand' \in [Conns -> Tap \cup Navigation \cup {Idle}]
      BY <1>1, <2>2, <3>1 DEF Places
    <3> QED BY <2>1, <3>1, <3>2, <3>3 DEF StepHand
  <2> QED BY <2>3, <2>4
<1>5. ASSUME NEW c \in Conns, \/ Hello(c) \/ ClaimAtHello(c) \/ SetGrid(c) \/ Register(c) \/ Enqueue(c) \/ Navigate(c)
                              \/ ReadReport(c) \/ Disconnect(c)
      PROVE  hand' = hand /\ (serve' = serve \/ \E there \in Places \ {"enqueue", "navigate"} : GoTo(c, there))
  <2> USE DEF Places
  <2>1. CASE Hello(c)
    BY <2>1 DEF Hello
  <2>2. CASE ClaimAtHello(c)
    BY <2>2 DEF ClaimAtHello
  <2>3. CASE SetGrid(c)
    BY <2>3 DEF SetGrid
  <2>4. CASE Register(c)
    BY <2>4 DEF Register
  <2>5. CASE Enqueue(c)
    BY <2>5 DEF Enqueue
  <2>6. CASE Navigate(c)
    BY <2>6 DEF Navigate
  <2>7. CASE ReadReport(c)
    BY <2>7 DEF ReadReport
  <2>8. CASE Disconnect(c)
    BY <2>8 DEF Disconnect
  <2> QED BY <1>5, <2>1, <2>2, <2>3, <2>4, <2>5, <2>6, <2>7, <2>8
<1> QED BY <1>2, <1>3, <1>4, <1>5, Frame

\* The queue grows by what a goroutine holds.
LEMMA Queueing ==
  ASSUME Types, Next
  PROVE  /\ queue' \in Seq([m : Tap, epoch : Nat]) /\ Len(queue') <= QueueLimit
         /\ \A i \in 1 .. Len(queue') :
              \/ \E j \in 1 .. Len(queue) : queue'[i] = queue[j]
              \/ \E c \in Conns : serve[c] = "enqueue" /\ queue'[i].m = hand[c]
<1>1. /\ queue \in Seq([m : Tap, epoch : Nat]) /\ Len(queue) <= QueueLimit /\ Len(queue) \in Nat /\ epoch \in Nat
      /\ QueueLimit \in Nat
  BY LenProperties, ViewAssumption DEF Types, TypeOK
<1>2. CASE UNCHANGED queue
  BY <1>1, <1>2
<1>3. CASE WorkerCheck
  <2>1. queue # <<>> /\ queue' = Tail(queue)
    BY <1>3 DEF WorkerCheck
  <2>2. /\ queue' \in Seq([m : Tap, epoch : Nat]) /\ Len(queue') = Len(queue) - 1
        /\ \A i \in 1 .. Len(queue) - 1 : queue'[i] = queue[i + 1]
    BY <1>1, <2>1, Taken
  <2>3. \A i \in 1 .. Len(queue') : i + 1 \in 1 .. Len(queue)
    BY <1>1, <2>2
  <2> QED BY <1>1, <2>2, <2>3
<1>4. ASSUME NEW c \in Conns, Enqueue(c), queue' # queue
      PROVE  /\ queue' \in Seq([m : Tap, epoch : Nat]) /\ Len(queue') <= QueueLimit
             /\ \A i \in 1 .. Len(queue') :
                  \/ \E j \in 1 .. Len(queue) : queue'[i] = queue[j]
                  \/ \E d \in Conns : serve[d] = "enqueue" /\ queue'[i].m = hand[d]
  <2> DEFINE e == [m |-> hand[c], epoch |-> epoch]
  <2>1. serve[c] = "enqueue" /\ Len(queue) < QueueLimit /\ queue' = Append(queue, e)
    BY <1>4 DEF Enqueue
  <2>2. e \in [m : Tap, epoch : Nat]
    BY <1>1, <2>1 DEF Types
  <2>3. e.m = hand[c]
    OBVIOUS
  <2> HIDE DEF e
  <2>4. /\ queue' \in Seq([m : Tap, epoch : Nat]) /\ Len(queue') = Len(queue) + 1
        /\ \A i \in 1 .. Len(queue) : queue'[i] = queue[i]
        /\ queue'[Len(queue) + 1] = e
    BY <1>1, <2>1, <2>2, AppendProperties
  <2> QED BY <1>1, <2>1, <2>3, <2>4
<1> QED BY <1>1, <1>2, <1>3, <1>4, Frame

\* Reports: read at the head; a message heard adds those it calls for, a flip its own, once
\* the client has a view.
StepReports(c) ==
  \/ reports'[c] = reports[c]
  \/ reports[c] # <<>> /\ reports'[c] = Tail(reports[c])
  \/ /\ Hears(c)
     /\ reports'[c] = reports[c] \o (IF First(c) THEN <<Visibility(client[c].hidden)>> ELSE <<>>)
                                 \o (IF Adopts(c, out[c][1]) THEN <<Grid>> ELSE <<>>)
  \/ /\ client[c].gen # 0 /\ client'[c].hidden = ~ client[c].hidden
     /\ reports'[c] = Append(reports[c], Visibility(~ client[c].hidden))
LEMMA Reporting ==
  ASSUME Types, Next
  PROVE  reports' \in [Conns -> Seq(Report)] /\ \A d \in Conns : StepReports(d)
<1>1. reports \in [Conns -> Seq(Report)] /\ out \in [Conns -> Seq(Message)] /\ client \in [Conns -> ClientType]
  BY DEF Types, TypeOK
<1>2. CASE UNCHANGED reports
  BY <1>1, <1>2 DEF StepReports
<1>3. ASSUME NEW c \in Conns, ReadReport(c) PROVE reports' \in [Conns -> Seq(Report)] /\ \A d \in Conns : StepReports(d)
  <2>1. reports[c] # <<>> /\ reports' = [reports EXCEPT ![c] = Tail(@)]
    BY <1>3 DEF ReadReport
  <2>2. Tail(reports[c]) \in Seq(Report)
    BY <1>1, <2>1, Taken
  <2> QED BY <1>1, <2>1, <2>2 DEF StepReports
<1>4. \A h \in BOOLEAN : Visibility(h) \in Report /\ <<Visibility(h)>> \in Seq(Report)
  BY DEF Visibility, Report
<1>5. <<Grid>> \in Seq(Report) /\ <<>> \in Seq(Report)
  BY EmptySeq DEF Grid, Report
<1>6. ASSUME NEW c \in Conns, ClientReceive(c) PROVE reports' \in [Conns -> Seq(Report)] /\ \A d \in Conns : StepReports(d)
  <2> DEFINE first == IF First(c) THEN <<Visibility(client[c].hidden)>> ELSE <<>>
             grown == IF Adopts(c, out[c][1]) THEN <<Grid>> ELSE <<>>
  <2>1. Head(out[c]) = out[c][1]
    BY <1>1, <1>6, Taken DEF ClientReceive
  <2>2. reports' = [reports EXCEPT ![c] = @ \o first \o grown]
    BY <1>6, <2>1 DEF ClientReceive
  <2>3. first \in Seq(Report) /\ grown \in Seq(Report)
    BY <1>4, <1>5, TypesApart
  <2>4. reports[c] \o first \o grown \in Seq(Report)
    BY <1>1, <2>3, ConcatProperties
  <2>5. reports'[c] = reports[c] \o first \o grown /\ \A d \in Conns \ {c} : reports'[d] = reports[d]
    BY <1>1, <2>2
  <2>6. reports' \in [Conns -> Seq(Report)]
    BY <1>1, <2>2, <2>4
  <2>7. Hears(c)
    BY <1>6, Heard
  <2> QED BY <2>5, <2>6, <2>7 DEF StepReports
<1>7. ASSUME NEW c \in Conns, ClientFlip(c) PROVE reports' \in [Conns -> Seq(Report)] /\ \A d \in Conns : StepReports(d)
  <2>1. CASE client[c].gen = 0
    BY <1>1, <1>7, <2>1 DEF ClientFlip, StepReports
  <2>2. CASE client[c].gen # 0
    <3>1. /\ reports' = [reports EXCEPT ![c] = Append(@, Visibility(~ client[c].hidden))]
          /\ client' = [client EXCEPT ![c].hidden = ~ @]
      BY <1>7, <2>2 DEF ClientFlip
    <3>2. client'[c].hidden = ~ client[c].hidden
      BY <1>1, <3>1 DEF ClientType
    <3>3. Append(reports[c], Visibility(~ client[c].hidden)) \in Seq(Report)
      BY <1>1, <1>4, TypesApart, AppendProperties
    <3>4. /\ reports'[c] = Append(reports[c], Visibility(~ client[c].hidden))
          /\ \A d \in Conns \ {c} : reports'[d] = reports[d]
      BY <1>1, <3>1
    <3>5. reports' \in [Conns -> Seq(Report)]
      BY <1>1, <3>1, <3>3
    <3> QED BY <2>2, <3>2, <3>4, <3>5 DEF StepReports
  <2> QED BY <2>1, <2>2
<1> QED BY <1>2, <1>3, <1>6, <1>7, Frame

(* The life of a connection.                                                *)

\* A connection registers once, after its hello, and only a registered one is removed.
StepLife(c) ==
  /\ c \in docks' => c \in docks \/ Greets(c)
  /\ Early(c)' => Early(c) /\ ~ Greets(c)
  /\ Early(c) => Early(c)' \/ c \in docks'
  /\ serve'[c] = "new" => serve[c] = "new" /\ view'[c] = view[c]
  /\ Early(c)' /\ serve'[c] # "new" => HasView(c)'
  /\ ~ Early(c) /\ HasView(c)' => c \in docks'
LEMMA Living ==
  ASSUME Types, Started, Next
  PROVE  \A d \in Conns : StepLife(d)
<1>1. /\ serve \in [Conns -> Places] /\ view \in [Conns -> ViewType] /\ Sessions'
      /\ docks \subseteq Conns
  BY Viewing DEF Types, TypeOK
<1>2. \A d \in Conns : /\ Early(d) => d \notin docks
                       /\ serve[d] = "new" <=> Early(d) /\ ~ HasView(d)
                       /\ HasView(d) => d \in docks \/ Early(d)
                       /\ Greets(d) => serve[d] = "register" /\ serve'[d] = "read"
  BY DEF Started, Greets
<1>3. ASSUME UNCHANGED <<view, docks>>, UNCHANGED serve PROVE \A d \in Conns : StepLife(d)
  BY <1>2, <1>3 DEF StepLife, Early, HasView
<1>4. ASSUME NEW c \in Conns, Hello(c) PROVE \A d \in Conns : StepLife(d)
  <2>1. /\ serve[c] = "new" /\ serve' = [serve EXCEPT ![c] = "claim"] /\ docks' = docks /\ caps' = caps \cup {c}
        /\ \E v : view' = [view EXCEPT ![c] = v]
    BY <1>4 DEF Hello, GoTo
  <2>2. serve'[c] = "claim" /\ \A d \in Conns \ {c} : serve'[d] = serve[d] /\ view'[d] = view[d]
    BY <1>1, <2>1
  <2>3. HasView(c)'
    BY <1>1, <2>1 DEF Sessions
  <2>4. StepLife(c)
    BY <1>2, <2>1, <2>2, <2>3 DEF StepLife, Early
  <2>5. \A d \in Conns \ {c} : StepLife(d)
    BY <1>2, <2>1, <2>2 DEF StepLife, Early, HasView
  <2> QED BY <2>4, <2>5
<1>5. ASSUME NEW c \in Conns, ClaimAtHello(c) \/ SetGrid(c) PROVE \A d \in Conns : StepLife(d)
  <2>1. view' = view /\ docks' = docks
    BY <1>5 DEF ClaimAtHello, SetGrid
  <2>2. \/ serve[c] = "claim" /\ serve' = [serve EXCEPT ![c] = IF active' = c THEN "grid" ELSE "register"]
        \/ serve[c] \in {"grid", "regrid"} /\ serve' = [serve EXCEPT ![c] = IF serve[c] = "grid" THEN "register" ELSE "read"]
    BY <1>5 DEF ClaimAtHello, SetGrid, GoTo
  <2>3. /\ \/ serve[c] \in {"claim", "grid"} /\ serve'[c] \in {"grid", "register"}
           \/ serve[c] = "regrid" /\ serve'[c] = "read"
        /\ \A d \in Conns \ {c} : serve'[d] = serve[d]
    BY <1>1, <2>2
  <2> QED BY <1>2, <2>1, <2>3 DEF StepLife, Early, HasView
<1>6. ASSUME NEW c \in Conns, Register(c) PROVE \A d \in Conns : StepLife(d)
  <2>1. view' = view /\ docks' = docks \cup {c} /\ serve[c] = "register" /\ serve' = [serve EXCEPT ![c] = "read"]
    BY <1>6 DEF Register, GoTo
  <2>2. serve'[c] = "read" /\ \A d \in Conns \ {c} : serve'[d] = serve[d]
    BY <1>1, <2>1
  <2>3. StepLine(c)
    BY Lines
  <2>4. out[c] = <<>> /\ c \notin docks
    BY <2>1 DEF Started, Early
  <2>5. out'[c] # out[c]
    <3> DEFINE s == <<Stamp(c, "reload", view, flips), Stamp(c, "layout", view, flips)>>
    <3>1. out' = [out EXCEPT ![c] = @ \o s] /\ out \in [Conns -> Seq(Message)]
      BY <1>6 DEF Register, Types
    <3>2. out'[c] = out[c] \o s
      BY <3>1
    <3>3. <<>> \o s = s /\ s # <<>>
      OBVIOUS
    <3> QED BY <2>4, <3>2, <3>3
  <2>6. Greets(c)
    BY <2>3, <2>4, <2>5 DEF StepLine, Rests, Hears, Sends
  <2> QED BY <1>2, <2>1, <2>2, <2>6 DEF StepLife, Early, HasView
<1>7. ASSUME NEW c \in Conns, ReadAct(c) \/ Enqueue(c) \/ Navigate(c) \/ ReadReport(c) PROVE \A d \in Conns : StepLife(d)
  <2> DEFINE Later == {"read", "enqueue", "navigate", "regrid"}
  <2>1. docks' = docks /\ serve[c] \in Later /\ (serve' = serve \/ \E there \in Later : GoTo(c, there))
    BY <1>7 DEF ReadAct, Enqueue, Navigate, ReadReport, busVars
  <2>2. serve'[c] \in Later /\ \A d \in Conns \ {c} : serve'[d] = serve[d]
    BY <1>1, <2>1 DEF GoTo
  <2>3. view' = view \/ \E v : view' = [view EXCEPT ![c] = v]
    BY <1>7 DEF ReadAct, Enqueue, Navigate, ReadReport, UpdateView, busVars
  <2>4. \A d \in Conns \ {c} : view'[d] = view[d]
    BY <1>1, <2>3
  <2>5. HasView(c)' <=> HasView(c)
    <3>1. HasView(c)' <=> c \in caps'
      BY <1>1 DEF Sessions
    <3>2. caps' = caps
      BY <1>7 DEF ReadAct, Enqueue, Navigate, ReadReport, busVars
    <3> QED BY <3>1, <3>2 DEF Types, TypeOK, HasView
  <2>6. StepLife(c)
    BY <1>2, <2>1, <2>2, <2>5 DEF StepLife, Early
  <2>7. \A d \in Conns \ {c} : StepLife(d)
    BY <1>2, <2>1, <2>2, <2>4 DEF StepLife, Early, HasView
  <2> QED BY <2>6, <2>7
<1>8. ASSUME NEW c \in Conns, Disconnect(c) \/ WriteFails(c) PROVE \A d \in Conns : StepLife(d)
  <2>1. /\ docks' = docks \ {c} /\ view' = [view EXCEPT ![c] = NoView]
        /\ ~ Early(c) /\ (serve' = serve \/ serve' = [serve EXCEPT ![c] = "gone"])
    BY <1>2, <1>8 DEF Disconnect, WriteFails, RemoveDock, GoTo, Early, goVars
  <2>2. view'[c] = NoView /\ ~ Early(c)' /\ \A d \in Conns \ {c} : serve'[d] = serve[d] /\ view'[d] = view[d]
    BY <1>1, <2>1 DEF Early
  <2>3. ~ HasView(c)'
    BY <2>2 DEF HasView, NoView
  <2>4. serve'[c] # "new"
    BY <2>2 DEF Early
  <2>5. StepLife(c)
    BY <2>1, <2>2, <2>3, <2>4 DEF StepLife
  <2>6. \A d \in Conns \ {c} : StepLife(d)
    BY <1>2, <2>1, <2>2 DEF StepLife, Early, HasView
  <2> QED BY <2>5, <2>6
<1>9. ASSUME (\E g \in Configs : Swap(g)) \/ InstallRenderer \/ SetLayoutPublish PROVE \A d \in Conns : StepLife(d)
  <2>1. UNCHANGED <<docks, caps, serve>>
    BY <1>9 DEF Swap, InstallRenderer, SetLayoutPublish, goVars
  <2>2. \A d \in Conns : HasView(d)' <=> HasView(d)
    BY <1>1, <2>1 DEF Sessions, Types, TypeOK
  <2>3. \A d \in Conns : ~ HasView(d) => view'[d] = view[d]
    <3>1. \A g \in Configs : Swap(g) => \E x : Invalidate(g, x)
      BY DEF Swap
    <3>2. InstallRenderer => \E g, x : Invalidate(g, x)
      BY DEF InstallRenderer
    <3>3. ASSUME NEW g, NEW x, Invalidate(g, x) PROVE \A d \in Conns : ~ HasView(d) => view'[d] = view[d]
      BY <3>3 DEF Invalidate
    <3>4. SetLayoutPublish => \A d \in Conns : ~ HasView(d) => view'[d] = view[d]
      BY DEF SetLayoutPublish
    <3> QED BY <1>9, <3>1, <3>2, <3>3, <3>4
  <2> QED BY <1>2, <2>1, <2>2, <2>3 DEF StepLife, Early
<1> QED BY <1>3, <1>4, <1>5, <1>6, <1>7, <1>8, <1>9, Frame

(* The inductive invariant.                                                 *)

LEMMA SchedulerTypes ==
  ASSUME Types, Next
  PROVE  /\ cfg' \in Configs /\ cfgLayout' \in Layouts /\ tried' \subseteq Configs /\ epoch' \in Nat
         /\ cfg' \in tried' /\ tried \subseteq tried' /\ announce' \in BOOLEAN /\ broken' \subseteq Conns
         /\ worker'.pc \in {"idle", "capture"} /\ setter'.pc \in {"idle", "write"}
         /\ setter'.pc = "write" => setter'.layout \in Layouts
         /\ grid' \in Conns \cup {NoConn}
<1>1. /\ cfg \in Configs /\ cfgLayout \in Layouts /\ tried \subseteq Configs /\ epoch \in Nat /\ cfg \in tried
      /\ announce \in BOOLEAN /\ broken \subseteq Conns /\ worker.pc \in {"idle", "capture"}
      /\ setter.pc \in {"idle", "write"}
      /\ setter.pc = "write" => setter.layout \in Layouts
      /\ grid \in Conns \cup {NoConn}
  BY DEF Types, TypeOK
<1>2. /\ cfg' \in Configs /\ cfgLayout' \in Layouts /\ tried' \subseteq Configs /\ epoch' \in Nat
      /\ cfg' \in tried' /\ tried \subseteq tried'
  <2>1. ASSUME NEW g \in Configs, Swap(g)
        PROVE  cfg' = g /\ tried' = tried \cup {g} /\ epoch' = epoch + 1 /\ cfgLayout' \in Layouts
    <3>1. Defines[g] \subseteq Layouts
      BY ViewAssumption
    <3> QED BY <1>1, <2>1, <3>1 DEF Swap
  <2>2. InstallRenderer => UNCHANGED <<cfg, cfgLayout, tried>> /\ epoch' = epoch + 1
    BY DEF InstallRenderer
  <2>3. SetLayoutPublish => UNCHANGED <<cfg, tried, epoch>> /\ cfgLayout' \in Layouts
    BY <1>1 DEF SetLayoutPublish
  <2> QED BY <1>1, <2>1, <2>2, <2>3, Frame
<1>3. announce' \in BOOLEAN
  BY <1>1, Frame DEF Swap, Announce
<1>4. worker'.pc \in {"idle", "capture"}
  <2>1. WorkerCheck => worker'.pc \in {"idle", "capture"}
    BY DEF WorkerCheck, Idle
  <2>2. WorkerCapture => worker'.pc \in {"idle", "capture"}
    BY DEF WorkerCapture, Idle
  <2> QED BY <1>1, <2>1, <2>2, Frame
<1>5. setter'.pc \in {"idle", "write"} /\ (setter'.pc = "write" => setter'.layout \in Layouts)
  <2>1. \A l \in Layouts : SetLayoutWrite(l) => setter'.pc = "write" /\ setter'.layout = l
    BY DEF SetLayoutWrite
  <2>2. SetLayoutPublish => setter'.pc = "idle"
    BY DEF SetLayoutPublish, Idle
  <2> QED BY <1>1, <2>1, <2>2, Frame
<1>6. grid' \in Conns \cup {NoConn}
  BY <1>1, Frame DEF SetGrid
<1>7. broken' \subseteq Conns
  BY <1>1, Frame DEF Disconnect, ClientClose
<1> QED BY <1>2, <1>3, <1>4, <1>5, <1>6, <1>7

LEMMA PanelKept ==
  ASSUME Types, Started, PanelHolderIsKnown, Next
  PROVE  active' \in Conns \cup {NoConn} /\ PanelHolderIsKnown'
<1>1. /\ Sessions' /\ active \in Conns \cup {NoConn} /\ \A c \in Conns : HasView(c) <=> c \in caps
      /\ active # NoConn => active \in caps
  BY Viewing DEF Types, TypeOK, PanelHolderIsKnown
<1>2. active' \in Conns \cup {NoConn} /\ (active' # NoConn => active' \in caps')
  <2>1. CASE UNCHANGED active
    <3>1. CASE UNCHANGED <<view, flips, docks, caps>>
      BY <1>1, <2>1, <3>1
    <3>2. ASSUME NEW c \in Conns, Hello(c) \/ Register(c) \/ Navigate(c) \/ ReadReport(c) PROVE caps \subseteq caps'
      BY <3>2 DEF Hello, Register, Navigate, ReadReport
    <3>3. ASSUME NEW c \in Conns, Disconnect(c) \/ WriteFails(c) PROVE caps' = caps \ {c} /\ (active = c => active' = NoConn)
      BY <3>3 DEF Disconnect, WriteFails, RemoveDock
    <3>4. ASSUME (\E g \in Configs : Swap(g)) \/ InstallRenderer \/ SetLayoutPublish PROVE caps' = caps
      BY <3>4 DEF Swap, InstallRenderer, SetLayoutPublish
    <3> QED BY <1>1, <2>1, <3>1, <3>2, <3>3, <3>4, Frame
  <2>2. ASSUME NEW c \in Conns, ClaimAtHello(c) \/ ReadReport(c)
        PROVE  active' \in Conns \cup {NoConn} /\ (active' # NoConn => active' \in caps')
    <3>1. caps' = caps /\ (active' = active \/ ClaimActive(c))
      BY <2>2 DEF ClaimAtHello, ReadReport
    <3> QED BY <1>1, <3>1 DEF ClaimActive
  <2>3. ASSUME NEW c \in Conns, Disconnect(c) \/ WriteFails(c)
        PROVE  active' \in Conns \cup {NoConn} /\ (active' # NoConn => active' \in caps')
    BY <1>1, <2>3 DEF Disconnect, WriteFails, RemoveDock
  <2> QED BY <2>1, <2>2, <2>3, Frame
<1>3. PanelHolderIsKnown'
  BY <1>1, <1>2 DEF PanelHolderIsKnown, Sessions
<1> QED BY <1>2, <1>3

LEMMA TypesKept ==
  ASSUME Types, Started, PanelHolderIsKnown, Next
  PROVE  Types'
<1>1. TypeOK'
  BY Viewing, Lines, Holding, Queueing, SchedulerTypes, PanelKept DEF TypeOK, Sessions
<1>2. acts' \in [Conns -> Seq(Tap \cup Navigation)] /\ reports' \in [Conns -> Seq(Report)]
  BY Issuing, Reporting
<1>3. \A c \in Conns : StepLine(c) /\ StepActs(c) /\ StepHand(c)
  BY Lines, Issuing, Holding
<1>4. ASSUME NEW c \in Conns
      PROVE  /\ out'[c] \in Seq(Message) /\ client'[c].cfg \in tried'
             /\ \A i \in 1 .. Len(out'[c]) : out'[c][i].cfg \in tried'
  <2>1. /\ cfg \in tried /\ tried \subseteq tried' /\ out[c] \in Seq(Message) /\ client[c].cfg \in tried
        /\ \A i \in 1 .. Len(out[c]) : out[c][i].cfg \in tried
    BY SchedulerTypes DEF Types
  <2>2. CASE Rests(c)
    BY <2>1, <2>2 DEF Rests, Still
  <2>3. CASE Hears(c)
    <3>1. /\ out'[c] = Tail(out[c]) /\ out'[c] \in Seq(Message) /\ Len(out[c]) \in Nat /\ Len(out[c]) > 0
          /\ Len(out'[c]) = Len(out[c]) - 1 /\ \A i \in 1 .. Len(out[c]) - 1 : out'[c][i] = out[c][i + 1]
      BY <2>1, <2>3, Taken DEF Hears
    <3>2. \A i \in 1 .. Len(out'[c]) : i + 1 \in 1 .. Len(out[c])
      BY <3>1
    <3>3. client'[c].cfg \in tried'
      BY <2>1, <2>3, <3>1 DEF Hears
    <3> QED BY <2>1, <3>1, <3>2, <3>3
  <2>4. ASSUME NEW m, Sends(c, m)
        PROVE  /\ out'[c] \in Seq(Message) /\ client'[c].cfg \in tried'
               /\ \A i \in 1 .. Len(out'[c]) : out'[c][i].cfg \in tried'
    <3>1. /\ out'[c] = Append(out[c], m) /\ out'[c] \in Seq(Message) /\ Len(out'[c]) = Len(out[c]) + 1
          /\ \A i \in 1 .. Len(out[c]) : out'[c][i] = out[c][i]
          /\ out'[c][Len(out[c]) + 1] = m /\ m.cfg = cfg /\ client'[c] = client[c] /\ Len(out[c]) \in Nat
      BY <2>1, <2>4, AppendProperties, LenProperties DEF Sends, Fresh
    <3> QED BY <2>1, <3>1
  <2>5. CASE Greets(c)
    <3>1. PICK m, n \in Message : out'[c] = out[c] \o <<m, n>> /\ m.cfg = cfg /\ n.cfg = cfg
      BY <2>5 DEF Greets, Fresh
    <3>2. out[c] = <<>> /\ client'[c] = client[c]
      BY <2>5 DEF Started, Early, Greets
    <3>3. out'[c] = <<m, n>>
      BY <3>1, <3>2
    <3> QED BY <2>1, <3>1, <3>2, <3>3
  <2> QED BY <1>3, <2>2, <2>3, <2>4, <2>5 DEF StepLine
<1>5. out' \in [Conns -> Seq(Message)]
  <2>1. out' = [c \in Conns |-> out'[c]]
    <3>1. out = [c \in Conns |-> out[c]]
      BY DEF Types
    <3>2. CASE UNCHANGED out
      BY <3>1, <3>2
    <3>3. ASSUME NEW c \in Conns, NEW s, out' = [out EXCEPT ![c] = s] PROVE out' = [d \in Conns |-> out'[d]]
      BY <3>1, <3>3
    <3>4. ASSUME NEW c \in Conns, Register(c) \/ ClientReceive(c) PROVE \E s : out' = [out EXCEPT ![c] = s]
      BY <3>4 DEF Register, ClientReceive
    <3>5. ASSUME NEW c \in Conns, ReadAct(c) \/ Navigate(c) \/ ReadReport(c)
          PROVE  out' = out \/ \E s : out' = [out EXCEPT ![c] = s]
      BY <3>5 DEF ReadAct, Navigate, ReadReport, UpdateView, Write
    <3>6. ASSUME Announce \/ InstallRenderer \/ SetLayoutPublish \/ Notice
          PROVE  out' = out \/ out' = [d \in Conns |-> out'[d]]
      BY <3>6 DEF Announce, InstallRenderer, SetLayoutPublish, Notice, Broadcast
    <3>7. ASSUME NEW c \in Conns, Hello(c) \/ ClientFlip(c) PROVE out' = out
      BY <3>7 DEF Hello, ClientFlip
    <3> QED BY <3>1, <3>2, <3>3, <3>4, <3>5, <3>6, <3>7, Frame
  <2> QED BY <1>4, <2>1
<1>6. ASSUME NEW c \in Conns
      PROVE  /\ \A i \in 1 .. Len(acts'[c]) : acts'[c][i].conn = c
             /\ serve'[c] = "enqueue" => hand'[c] \in Tap /\ hand'[c].conn = c
             /\ serve'[c] = "navigate" => hand'[c] \in Navigation /\ hand'[c].conn = c
  <2>1. /\ acts[c] \in Seq(Tap \cup Navigation) /\ Len(acts[c]) \in Nat
        /\ \A i \in 1 .. Len(acts[c]) : acts[c][i].conn = c /\ acts[c][i] \in Tap \cup Navigation
        /\ serve[c] = "enqueue" => hand[c] \in Tap /\ hand[c].conn = c
        /\ serve[c] = "navigate" => hand[c] \in Navigation /\ hand[c].conn = c
    BY TypesApart DEF Types
  <2>2. \A i \in 1 .. Len(acts'[c]) : acts'[c][i].conn = c
    <3>1. CASE acts[c] # <<>> /\ acts'[c] = Tail(acts[c])
      <4>1. /\ Len(acts'[c]) = Len(acts[c]) - 1 /\ \A i \in 1 .. Len(acts[c]) - 1 : acts'[c][i] = acts[c][i + 1]
        BY <2>1, <3>1, Taken
      <4>2. \A i \in 1 .. Len(acts'[c]) : i + 1 \in 1 .. Len(acts[c])
        BY <2>1, <4>1
      <4> QED BY <2>1, <4>1, <4>2
    <3>2. ASSUME NEW m, Issued(c, m), acts'[c] = Append(acts[c], m) PROVE \A i \in 1 .. Len(acts'[c]) : acts'[c][i].conn = c
      <4>1. /\ Len(acts'[c]) = Len(acts[c]) + 1 /\ \A i \in 1 .. Len(acts[c]) : acts'[c][i] = acts[c][i]
            /\ acts'[c][Len(acts[c]) + 1] = m /\ m.conn = c
        BY <2>1, <3>2, AppendProperties DEF Issued
      <4>2. \A i \in 1 .. Len(acts'[c]) : i \in 1 .. Len(acts[c]) \/ i = Len(acts[c]) + 1
        BY <2>1, <4>1
      <4> QED BY <2>1, <4>1, <4>2
    <3> QED BY <1>3, <2>1, <3>1, <3>2 DEF StepActs
  <2>3. acts[c] # <<>> => /\ acts[c][1].conn = c /\ acts[c][1] \in Tap \cup Navigation
                          /\ acts[c][1].kind = "tap" <=> acts[c][1] \in Tap
    <3>1. acts[c] # <<>> => 1 \in 1 .. Len(acts[c])
      BY <2>1, Taken
    <3>2. \A m \in Tap : m.kind = "tap"
      BY DEF Tap
    <3>3. \A m \in Navigation : m.kind # "tap"
      BY DEF Navigation
    <3> QED BY <2>1, <3>1, <3>2, <3>3
  <2> QED BY <1>3, <2>1, <2>2, <2>3 DEF StepHand
<1> QED BY <1>1, <1>2, <1>4, <1>5, <1>6, Queueing, Holding, SchedulerTypes DEF Types

\* What each step leaves in the stream of a connection.
LEMMA StreamElements ==
  ASSUME Types, Started, Next, NEW c \in Conns
  PROVE  /\ Len(out'[c]) \in Nat
         /\ \A i \in 1 .. Len(out'[c]) : \/ \E j \in 1 .. Len(out[c]) : out'[c][i] = out[c][j]
                                         \/ Fresh(c, out'[c][i])
         /\ Hears(c) => out[c][1] \in Message /\ 1 \in 1 .. Len(out[c])
<1>1. out[c] \in Seq(Message) /\ Len(out[c]) \in Nat /\ StepLine(c)
  BY TypesApart, Lines
<1>2. CASE Rests(c)
  BY <1>1, <1>2, Taken DEF Rests, Hears
<1>3. CASE Hears(c)
  <2>1. /\ out'[c] = Tail(out[c]) /\ Len(out[c]) > 0 /\ out[c][1] \in Message
        /\ Len(out'[c]) = Len(out[c]) - 1 /\ \A i \in 1 .. Len(out[c]) - 1 : out'[c][i] = out[c][i + 1]
    BY <1>1, <1>3, Taken DEF Hears
  <2>2. \A i \in 1 .. Len(out'[c]) : i + 1 \in 1 .. Len(out[c])
    BY <1>1, <2>1
  <2> QED BY <1>1, <2>1, <2>2
<1>4. ASSUME NEW m, Sends(c, m)
      PROVE  /\ Len(out'[c]) = Len(out[c]) + 1 /\ out'[c][Len(out[c]) + 1] = m
             /\ \A i \in 1 .. Len(out[c]) : out'[c][i] = out[c][i]
             /\ \A i \in 1 .. Len(out'[c]) : i \in 1 .. Len(out[c]) \/ i = Len(out[c]) + 1
  BY <1>1, <1>4, AppendProperties DEF Sends, Fresh
<1>5. CASE \E m : Sends(c, m)
  <2>1. PICK m : Sends(c, m)
    BY <1>5
  <2>2. Hears(c) => 1 \in 1 .. Len(out[c]) /\ out[c][1] \in Message
    BY <1>1, Taken DEF Hears
  <2> QED BY <1>1, <1>4, <2>1, <2>2 DEF Sends
<1>6. CASE Greets(c)
  <2>1. PICK m, n \in Message : out'[c] = out[c] \o <<m, n>> /\ Fresh(c, m) /\ Fresh(c, n)
    BY <1>6 DEF Greets
  <2>2. out[c] = <<>>
    BY <1>6 DEF Started, Early, Greets
  <2>3. out'[c] = <<m, n>> /\ ~ Hears(c)
    BY <2>1, <2>2 DEF Hears
  <2> QED BY <2>1, <2>3
<1> QED BY <1>1, <1>2, <1>3, <1>5, <1>6 DEF StepLine

LEMMA ActElements ==
  ASSUME Types, Started, Next, NEW c \in Conns
  PROVE  /\ \A i \in 1 .. Len(acts'[c]) : \/ \E j \in 1 .. Len(acts[c]) : acts'[c][i] = acts[c][j]
                                          \/ Issued(c, acts'[c][i])
         /\ acts[c] # <<>> => 1 \in 1 .. Len(acts[c]) /\ acts[c][1] \in Tap \cup Navigation
<1>1. acts[c] \in Seq(Tap \cup Navigation) /\ Len(acts[c]) \in Nat /\ StepActs(c)
  BY TypesApart, Issuing
<1>2. CASE acts[c] # <<>> /\ acts'[c] = Tail(acts[c])
  <2>1. /\ Len(acts'[c]) = Len(acts[c]) - 1 /\ \A i \in 1 .. Len(acts[c]) - 1 : acts'[c][i] = acts[c][i + 1]
    BY <1>1, <1>2, Taken
  <2>2. \A i \in 1 .. Len(acts'[c]) : i + 1 \in 1 .. Len(acts[c])
    BY <1>1, <2>1
  <2> QED BY <1>1, <1>2, <2>1, <2>2, Taken
<1>3. ASSUME NEW m, Issued(c, m), acts'[c] = Append(acts[c], m)
      PROVE  \A i \in 1 .. Len(acts'[c]) : \/ \E j \in 1 .. Len(acts[c]) : acts'[c][i] = acts[c][j]
                                           \/ Issued(c, acts'[c][i])
  <2>1. /\ Len(acts'[c]) = Len(acts[c]) + 1 /\ \A i \in 1 .. Len(acts[c]) : acts'[c][i] = acts[c][i]
        /\ acts'[c][Len(acts[c]) + 1] = m
    BY <1>1, <1>3, AppendProperties DEF Issued
  <2>2. \A i \in 1 .. Len(acts'[c]) : i \in 1 .. Len(acts[c]) \/ i = Len(acts[c]) + 1
    BY <1>1, <2>1
  <2> QED BY <1>3, <2>1, <2>2
<1>4. acts[c] # <<>> => 1 \in 1 .. Len(acts[c]) /\ acts[c][1] \in Tap \cup Navigation
  BY <1>1, Taken
<1> QED BY <1>1, <1>2, <1>3, <1>4 DEF StepActs

LEMMA StartedKept ==
  ASSUME Types, Started, Next
  PROVE  Started'
<1> SUFFICES ASSUME NEW c \in Conns
             PROVE  /\ Early(c)' => c \notin docks' /\ out'[c] = <<>> /\ client'[c].gen = 0
                    /\ serve'[c] = "new" <=> Early(c)' /\ ~ HasView(c)'
                    /\ HasView(c)' => c \in docks' \/ Early(c)'
                    /\ client'[c].gen = 0 => /\ acts'[c] = <<>> /\ reports'[c] = <<>> /\ serve'[c] # "enqueue"
                                             /\ \A i \in 1 .. Len(queue') : queue'[i].m.conn # c
                    /\ \A i \in 1 .. Len(out'[c]) : out'[c][i].gen > 0
  BY DEF Started
<1>1. /\ StepLine(c) /\ StepActs(c) /\ StepHand(c) /\ StepReports(c) /\ StepLife(c) /\ StepView(c)
  BY Lines, Issuing, Holding, Reporting, Living, Viewing
<1>2. /\ Early(c) => c \notin docks /\ out[c] = <<>> /\ client[c].gen = 0
      /\ serve[c] = "new" <=> Early(c) /\ ~ HasView(c)
      /\ HasView(c) => c \in docks \/ Early(c)
      /\ client[c].gen = 0 => /\ acts[c] = <<>> /\ reports[c] = <<>> /\ serve[c] # "enqueue"
                              /\ \A i \in 1 .. Len(queue) : queue[i].m.conn # c
      /\ \A i \in 1 .. Len(out[c]) : out[c][i].gen > 0
  BY DEF Started
<1>3. Early(c)' => c \notin docks' /\ out'[c] = <<>> /\ client'[c].gen = 0
  BY <1>1, <1>2 DEF StepLife, StepLine, Rests, Still, Hears, Sends
<1>4. serve'[c] = "new" <=> Early(c)' /\ ~ HasView(c)'
  <2>1. serve'[c] = "new" => Early(c)'
    BY DEF Early
  <2>2. serve'[c] = "new" => ~ HasView(c)'
    BY <1>1, <1>2 DEF StepLife, HasView
  <2> QED BY <1>1, <2>1, <2>2 DEF StepLife
<1>5. HasView(c)' => c \in docks' \/ Early(c)'
  BY <1>1 DEF StepLife
<1>6. \A i \in 1 .. Len(out'[c]) : out'[c][i].gen > 0
  BY <1>2, StreamElements DEF Fresh
<1>7. client'[c].gen = 0 => client[c].gen = 0 /\ ~ Hears(c)
  BY <1>1, <1>2, StreamElements DEF StepLine, Rests, Still, Hears, Sends, Greets
<1>8. client'[c].gen = 0 => acts'[c] = <<>> /\ reports'[c] = <<>> /\ serve'[c] # "enqueue"
  <2>1. client'[c].gen = 0 => acts[c] = <<>> /\ reports[c] = <<>> /\ serve[c] # "enqueue"
    BY <1>2, <1>7
  <2>2. client'[c].gen = 0 => acts'[c] = <<>>
    BY <1>1, <1>7, <2>1 DEF StepActs, Issued
  <2>3. client'[c].gen = 0 => reports'[c] = <<>>
    BY <1>1, <1>7, <2>1 DEF StepReports
  <2>4. client'[c].gen = 0 => serve'[c] # "enqueue"
    BY <1>1, <2>1 DEF StepHand
  <2> QED BY <2>2, <2>3, <2>4
<1>9. ASSUME client'[c].gen = 0, NEW i \in 1 .. Len(queue') PROVE queue'[i].m.conn # c
  <2>1. CASE \E j \in 1 .. Len(queue) : queue'[i] = queue[j]
    BY <1>2, <1>7, <1>9, <2>1
  <2>2. ASSUME NEW d \in Conns, serve[d] = "enqueue", queue'[i].m = hand[d] PROVE queue'[i].m.conn # c
    BY <1>2, <1>7, <1>9, <2>2 DEF Types
  <2> QED BY <2>1, <2>2, Queueing
<1> QED BY <1>3, <1>4, <1>5, <1>6, <1>8, <1>9


\* What is known of a view stays known: its generation only moves on.
KnownNext(c, m) == view'[c].gen > 0 => m.gen <= view'[c].gen /\ (m.gen = view'[c].gen => m.flips = flips'[c])
LEMMA KnownKept ==
  ASSUME Types, Started, Next, NEW c \in Conns, NEW m, m.gen \in Nat,
         m.gen = 0 \/ (serve[c] # "new" /\ Known(c, m))
  PROVE  KnownNext(c, m)
<1>1. StepView(c) /\ view[c].gen \in Nat /\ view'[c].gen \in Nat
  BY TypesApart, Viewing DEF Sessions, ViewType
<1>2. CASE m.gen = 0
  BY <1>1, <1>2 DEF KnownNext
<1>3. CASE m.gen # 0
  BY <1>1, <1>3 DEF StepView, Known, KnownNext, HasView, NoView
<1> QED BY <1>2, <1>3

LEMMA TimelyKept ==
  ASSUME Types, Started, Timely, Next
  PROVE  Timely'
<1>1. ASSUME NEW c \in Conns
      PROVE  /\ \A i \in 1 .. Len(acts[c]) : acts[c][i].kind = "tap" => KnownNext(c, acts[c][i])
             /\ \A i \in 1 .. Len(out[c]) : KnownNext(c, out[c][i])
             /\ serve[c] = "enqueue" => KnownNext(c, hand[c])
             /\ KnownNext(c, client[c])
  <2>1. /\ Known(c, client[c]) /\ client[c].gen \in Nat
        /\ \A i \in 1 .. Len(out[c]) : Known(c, out[c][i]) /\ out[c][i].gen \in Nat
        /\ \A i \in 1 .. Len(acts[c]) : acts[c][i].kind = "tap" => Known(c, acts[c][i]) /\ acts[c][i].gen \in Nat
        /\ serve[c] = "enqueue" => Known(c, hand[c]) /\ hand[c].gen \in Nat
    <3>1. \A m \in Tap \cup Navigation : m.gen \in Nat
      BY DEF Tap, Navigation
    <3> QED BY <3>1, TypesApart, MessageApart DEF Timely, Types
  <2>2. CASE serve[c] = "new"
    <3>1. client[c].gen = 0 /\ out[c] = <<>> /\ acts[c] = <<>>
      BY <2>2 DEF Started, Early
    <3> QED BY <2>1, <2>2, <3>1, KnownKept
  <2>3. CASE serve[c] # "new"
    BY <2>1, <2>3, KnownKept
  <2> QED BY <2>2, <2>3
<1>2. ASSUME NEW c \in Conns
      PROVE  /\ KnownNext(c, client'[c])
             /\ \A i \in 1 .. Len(out'[c]) : KnownNext(c, out'[c][i])
             /\ \A i \in 1 .. Len(acts'[c]) : acts'[c][i].kind = "tap" => KnownNext(c, acts'[c][i])
             /\ serve'[c] = "enqueue" => KnownNext(c, hand'[c])
  <2>1. StepLine(c) /\ StepHand(c) /\ view'[c].gen \in Nat
    BY Lines, Holding, Viewing DEF Sessions, ViewType
  <2>2. KnownNext(c, client'[c])
    <3>1. CASE Rests(c) \/ Greets(c) \/ \E m : Sends(c, m)
      <4>1. client'[c].gen = client[c].gen /\ client'[c].flips = client[c].flips
        BY <3>1 DEF Rests, Still, Greets, Sends
      <4> QED BY <1>1, <4>1 DEF KnownNext
    <3>2. CASE Hears(c)
      <4>1. client'[c].gen = out[c][1].gen /\ client'[c].flips = out[c][1].flips /\ 1 \in 1 .. Len(out[c])
        BY <3>2, StreamElements DEF Hears
      <4> QED BY <1>1, <4>1 DEF KnownNext
    <3> QED BY <2>1, <3>1, <3>2 DEF StepLine
  <2>3. \A i \in 1 .. Len(out'[c]) : KnownNext(c, out'[c][i])
    <3>1. \A m : Fresh(c, m) => KnownNext(c, m)
      BY <2>1 DEF Fresh, KnownNext
    <3> QED BY <1>1, <3>1, StreamElements
  <2>4. \A i \in 1 .. Len(acts'[c]) : acts'[c][i].kind = "tap" => KnownNext(c, acts'[c][i])
    <3>1. \A m : Issued(c, m) /\ m.kind = "tap" => KnownNext(c, m)
      BY <1>1 DEF Issued, KnownNext
    <3> QED BY <1>1, <3>1, ActElements
  <2>5. serve'[c] = "enqueue" => KnownNext(c, hand'[c])
    BY <1>1, <2>1, ActElements DEF StepHand
  <2> QED BY <2>2, <2>3, <2>4, <2>5
<1>3. ASSUME NEW i \in 1 .. Len(queue') PROVE KnownNext(queue'[i].m.conn, queue'[i].m)
  <2>1. ASSUME NEW j \in 1 .. Len(queue), queue'[i] = queue[j] PROVE KnownNext(queue'[i].m.conn, queue'[i].m)
    <3> DEFINE m == queue[j].m
    <3>1. m.conn \in Conns /\ m.gen \in Nat /\ Known(m.conn, m)
      <4>2. queue \in Seq([m : Tap, epoch : Nat])
        BY DEF Types
      <4>3. queue[j] \in [m : Tap, epoch : Nat]
        BY <4>2, ElementOfSeq
      <4>1. m \in Tap
        BY <4>3
      <4> QED BY <4>1 DEF Tap, Timely
    <3>2. serve[m.conn] # "new"
      BY <3>1 DEF Started, Early
    <3> QED BY <2>1, <3>1, <3>2, KnownKept
  <2>2. ASSUME NEW d \in Conns, serve[d] = "enqueue", queue'[i].m = hand[d] PROVE KnownNext(queue'[i].m.conn, queue'[i].m)
    BY <1>1, <2>2 DEF Types
  <2> QED BY <2>1, <2>2, Queueing
<1> QED BY <1>2, <1>3 DEF Timely, Known, KnownNext, HasView

LEMMA IInvInit == Init => IInv
<1> SUFFICES ASSUME Init PROVE IInv
  OBVIOUS
<1> USE DEF Init
<1>1. \A c \in Conns : ~ HasView(c)
  BY DEF HasView, NoView
<1>2. Types
  <2>1. Defines[FirstConfig] \subseteq Layouts
    BY ViewAssumption
  <2>2. view \in [Conns -> ViewType] /\ client \in [Conns -> ClientType]
    BY <2>1, ViewAssumption DEF ViewType, ClientType, NoView
  <2>3. \A S : <<>> \in Seq(S)
    BY EmptySeq
  <2>6. worker.pc = "idle" /\ setter.pc = "idle" /\ Len(queue) <= QueueLimit
    BY ViewAssumption DEF Idle
  <2>7. serve \in [Conns -> Places] /\ flips \in [Conns -> Nat]
    BY DEF Places
  <2>4. TypeOK
    BY <1>1, <2>1, <2>2, <2>6, <2>7, ViewAssumption DEF TypeOK
  <2>5. /\ out \in [Conns -> Seq(Message)] /\ acts \in [Conns -> Seq(Tap \cup Navigation)]
        /\ reports \in [Conns -> Seq(Report)] /\ queue \in Seq([m : Tap, epoch : Nat])
        /\ hand \in [Conns -> Tap \cup Navigation \cup {Idle}]
    BY <2>3
  <2> QED BY <2>4, <2>5 DEF Types, Idle
<1>3. Started
  BY <1>1 DEF Started, Early
<1>4. Timely
  BY <1>1 DEF Timely, Known
<1> QED BY <1>2, <1>3, <1>4 DEF IInv, PanelHolderIsKnown

LEMMA Stuttering == UNCHANGED vars => (Types => Types') /\ (Started => Started') /\ (Timely => Timely')
                                      /\ (PanelHolderIsKnown => PanelHolderIsKnown')
BY DEF vars, busVars, goVars, netVars, Types, TypeOK, HasView, Started, Early, Timely, Known, PanelHolderIsKnown

THEOREM IInvInvariant == Spec => []IInv
<1>1. IInv /\ [Next]_vars => IInv'
  BY TypesKept, StartedKept, TimelyKept, PanelKept, Stuttering DEF IInv
<1> QED BY IInvInit, <1>1, PTL DEF Spec

\* Only a connection that said hello and was not removed holds the panel (removeDockLocked,
\* claimActiveDock): at every moment the holder has a session.
THEOREM PanelHolder == Spec => [](TypeOK /\ PanelHolderIsKnown)
<1>1. IInv => TypeOK /\ PanelHolderIsKnown
  BY DEF IInv, Types
<1> QED BY IInvInvariant, <1>1, PTL

\* Whatever the layouts: what the worker lets through was issued on a view of a registered
\* connection that shows now, and under the visibility of now (bindViewAction, inputCurrent).
LeasedDispatch ==
  [][ Dispatch => LET m == worker'.m IN /\ m.conn \in docks /\ ~ view[m.conn].hidden
                                        /\ m.flips = flips[m.conn] ]_vars

\* What the worker decides on: the head of the queue, under the lease of now.
LEMMA Dispatching ==
  ASSUME Types, Timely, Next, Dispatch
  PROVE  /\ worker'.m \in Tap /\ worker'.m.conn \in docks /\ ~ view[worker'.m.conn].hidden
         /\ HasView(worker'.m.conn) /\ worker'.m.gen = view[worker'.m.conn].gen
         /\ worker'.m.flips = flips[worker'.m.conn]
         /\ \E i \in 1 .. Len(queue) : worker'.m = queue[i].m
<1>1. WorkerCheck
  <2>1. WorkerCapture => worker'.pc = "idle"
    BY DEF WorkerCapture, Idle
  <2> QED BY <2>1, Frame DEF Dispatch
<1>2. /\ queue \in Seq([m : Tap, epoch : Nat]) /\ queue # <<>>
      /\ worker' = IF InputCurrent(Head(queue)) THEN [pc |-> "capture", m |-> Head(queue).m, cfg |-> cfg] ELSE Idle
  BY <1>1 DEF WorkerCheck, Types
<1>3. Head(queue) = queue[1] /\ 1 \in 1 .. Len(queue) /\ queue[1] \in [m : Tap, epoch : Nat]
  <2> DEFINE S == [m : Tap, epoch : Nat]
  <2>1. queue \in Seq(S) /\ queue # <<>>
    BY <1>2
  <2> HIDE DEF S
  <2>2. Head(queue) = queue[1] /\ 1 \in 1 .. Len(queue) /\ queue[1] \in S
    BY <2>1, Taken
  <2> QED BY <2>2 DEF S
<1>4. InputCurrent(queue[1]) /\ worker'.m = queue[1].m
  BY <1>2, <1>3 DEF Dispatch, Idle
<1>5. queue[1].m \in Tap /\ queue[1].m.conn \in Conns
  BY <1>3 DEF Tap
<1>6. /\ queue[1].m.conn \in docks /\ ~ view[queue[1].m.conn].hidden
      /\ HasView(queue[1].m.conn) /\ queue[1].m.gen = view[queue[1].m.conn].gen
  BY <1>4 DEF InputCurrent, Current, Lease
<1>7. queue[1].m.flips = flips[queue[1].m.conn]
  BY <1>3, <1>6 DEF Timely, Known
<1> QED BY <1>3, <1>4, <1>5, <1>6, <1>7

THEOREM DispatchIsLeased == Spec => LeasedDispatch
<1>1. IInv /\ [Next]_vars => [Dispatch => LET m == worker'.m IN /\ m.conn \in docks /\ ~ view[m.conn].hidden
                                                                /\ m.flips = flips[m.conn]]_vars
  BY Dispatching DEF IInv
<1> QED BY IInvInvariant, <1>1, PTL DEF Spec, LeasedDispatch

(* Docks that can show every layout: what they show is what they are told.  *)

LEMMA Compatibility ==
  ASSUME EveryViewDraws, NEW g \in Configs, NEW c \in Conns, NEW global, NEW l
  PROVE  /\ Compatible(g, global, l, c) \subseteq Defines[g]
         /\ l \in Defines[g] => Compatible(g, global, l, c) = {l}
BY ViewAssumption DEF EveryViewDraws, Compatible, SupportsLayout

\* The step of a registered session: greeted, at rest, heard, told, or overtaken by a new
\* configuration that is still to be announced.
Kept(c) == cfg' = cfg /\ view'[c] = view[c] /\ announce' = announce
Tells(c, m) ==
  /\ Sends(c, m) /\ cfg' = cfg /\ (announce' => announce)
  /\ view'[c].gen \in {view[c].gen, view[c].gen + 1}
  /\ view'[c].layout # view[c].layout => m.kind = "layout" /\ view'[c].gen = view[c].gen + 1
  /\ announce /\ ~ announce' => m.kind = "reload"
Turn(c) ==
  \/ Kept(c) /\ Greets(c)
  \/ Kept(c) /\ c \in docks /\ Rests(c)
  \/ Kept(c) /\ c \in docks /\ Hears(c)
  \/ \E m : Tells(c, m)
  \/ c \in docks /\ Rests(c) /\ cfg' \notin tried /\ announce'
LEMMA Turns ==
  ASSUME EveryViewDraws, Types, Started, Suits, Next
  PROVE  /\ \A c \in docks' : Turn(c)
         /\ Suits' /\ \A c \in Conns : cfg' = cfg \/ (HasView(c) => view'[c].gen = view[c].gen + 1)
<1>1. /\ Sessions /\ Sessions' /\ cfg \in Configs /\ cfgLayout \in Layouts /\ docks \subseteq Conns /\ docks' \subseteq Conns
      /\ \A c \in Conns : StepLine(c) /\ StepLife(c) /\ view[c].gen \in Nat
  BY Viewing, Lines, Living, TypesApart DEF Types, TypeOK, Sessions
<1>2. ASSUME NEW c \in docks', Kept(c) PROVE Turn(c)
  <2>1. c \in docks \/ Greets(c)
    BY <1>1 DEF StepLife
  <2>2. \A m : Sends(c, m) => Tells(c, m)
    BY <1>1, <1>2 DEF Kept, Tells
  <2> QED BY <1>1, <1>2, <2>1, <2>2 DEF StepLine, Turn
<1>3. CASE UNCHANGED <<view, flips, docks, caps>> /\ cfg' = cfg /\ announce' = announce
  BY <1>2, <1>3 DEF Kept, Suits, HasView
<1>4. ASSUME NEW d \in Conns, Hello(d) PROVE (\A c \in docks' : Turn(c)) /\ Suits' /\ cfg' = cfg
  <2>1. /\ cfg' = cfg /\ announce' = announce /\ d \notin docks'
        /\ \E want \in Layouts : \E l \in Compatible(cfg, cfgLayout, want, d) :
             view' = [view EXCEPT ![d] = [gen |-> 1, layout |-> l, hidden |-> client[d].hidden]]
    BY <1>4 DEF Hello, Started, Early
  <2>2. PICK l \in Defines[cfg] : view' = [view EXCEPT ![d] = [gen |-> 1, layout |-> l, hidden |-> client[d].hidden]]
    BY <1>1, <2>1, Compatibility
  <2>3. view'[d].layout = l /\ \A c \in Conns \ {d} : view'[c] = view[c]
    BY <1>1, <2>2 DEF Sessions
  <2> QED BY <1>1, <1>2, <2>1, <2>3 DEF Kept, Suits, HasView
<1>5. ASSUME NEW d \in Conns, Register(d) PROVE (\A c \in docks' : Turn(c)) /\ Suits' /\ cfg' = cfg
  <2>1. view' = view /\ cfg' = cfg /\ announce' = announce
    BY <1>5 DEF Register
  <2> QED BY <1>2, <2>1 DEF Kept, Suits, HasView
<1>6. ASSUME NEW d \in Conns, Disconnect(d) \/ WriteFails(d) PROVE (\A c \in docks' : Turn(c)) /\ Suits' /\ cfg' = cfg
  <2>1. cfg' = cfg /\ announce' = announce /\ d \notin docks' /\ view' = [view EXCEPT ![d] = NoView]
    BY <1>6 DEF Disconnect, WriteFails, RemoveDock, goVars
  <2>2. view'[d].gen = 0 /\ \A c \in Conns \ {d} : view'[c] = view[c]
    BY <1>1, <2>1 DEF Sessions, NoView
  <2> QED BY <1>1, <1>2, <2>1, <2>2 DEF Kept, Suits, HasView
<1>7. ASSUME NEW d \in Conns, Navigate(d) PROVE (\A c \in docks' : Turn(c)) /\ Suits' /\ cfg' = cfg
  <2>1. cfg' = cfg /\ announce' = announce /\ docks' = docks /\ client' = client /\ flips' = flips /\ serve[d] = "navigate"
    BY <1>7 DEF Navigate
  <2>2. CASE view' = view
    BY <1>2, <2>1, <2>2 DEF Kept, Suits, HasView
  <2>3. CASE view' # view
    <3>1. /\ Current(hand[d]) /\ hand[d].arg \in Defines[cfg]
          /\ view' = [view EXCEPT ![d] = Renewed(@, hand[d].arg, @.hidden)]
          /\ Write(d, "layout", view', flips')
      BY <1>7, <2>1, <2>3 DEF Navigate, SupportsLayout
    <3>2. d \in docks
      BY <2>1, <3>1 DEF Current, Types
    <3>3. /\ view'[d].gen = view[d].gen + 1 /\ view'[d].layout = hand[d].arg
          /\ \A c \in Conns \ {d} : view'[c] = view[c]
      BY <1>1, <3>1 DEF Sessions, Renewed
    <3>6. "layout" \in {"reload"} \cup Others
      BY DEF Others
    <3>4. \E m : Sends(d, m) /\ m.kind = "layout"
      BY <1>1, <2>1, <3>1, <3>2, <3>6, Wrote
    <3>5. Turn(d)
      BY <2>1, <3>3, <3>4 DEF Turn, Tells
    <3> QED BY <1>1, <1>2, <2>1, <3>1, <3>3, <3>5 DEF Kept, Suits, HasView
  <2> QED BY <2>2, <2>3
<1>8. ASSUME NEW d \in Conns, ReadReport(d) PROVE (\A c \in docks' : Turn(c)) /\ Suits' /\ cfg' = cfg
  <2>1. cfg' = cfg /\ announce' = announce /\ docks' = docks /\ client' = client
    BY <1>8 DEF ReadReport
  <2>2. CASE view' = view
    BY <1>2, <2>1, <2>2 DEF Kept, Suits, HasView
  <2>3. CASE view' # view
    <3>1. /\ \E h : view' = [view EXCEPT ![d] = Renewed(@, @.layout, h)]
          /\ Write(d, "viewstate", view', flips') /\ d \in docks /\ HasView(d)
      BY <1>8, <2>3 DEF ReadReport, UpdateView
    <3>2. /\ view'[d].gen = view[d].gen + 1 /\ view'[d].layout = view[d].layout
          /\ \A c \in Conns \ {d} : view'[c] = view[c]
      BY <1>1, <3>1 DEF Sessions, Renewed
    <3>3. \E m : Sends(d, m)
      BY <1>1, <2>1, <3>1, Wrote DEF Others
    <3>4. Turn(d)
      BY <2>1, <3>2, <3>3 DEF Turn, Tells
    <3> QED BY <1>1, <1>2, <2>1, <3>1, <3>2, <3>4 DEF Kept, Suits, HasView
  <2> QED BY <2>2, <2>3
<1>9. ASSUME NEW g \in Configs, Swap(g)
      PROVE  (\A c \in docks' : Turn(c)) /\ Suits' /\ \A c \in Conns : HasView(c) => view'[c].gen = view[c].gen + 1
  <2>1. /\ cfg' = g /\ g \notin tried /\ announce' /\ docks' = docks /\ caps' = caps /\ out' = out /\ client' = client /\ flips' = flips
        /\ Invalidate(g, cfgLayout')
    BY <1>9 DEF Swap, netVars
  <2>2. \A c \in Conns : /\ HasView(c) => /\ view'[c].gen = view[c].gen + 1
                                          /\ view'[c].layout \in Compatible(g, cfgLayout', view[c].layout, c)
                         /\ ~ HasView(c) => view'[c] = view[c]
    BY <1>1, <2>1, Invalidated
  <2>3. \A c \in Conns : HasView(c) => view'[c].layout \in Defines[g]
    BY <2>2, Compatibility
  <2> QED BY <2>1, <2>2, <2>3 DEF Turn, Rests, Still, Suits, HasView
<1>10. ASSUME Announce PROVE (\A c \in docks' : Turn(c)) /\ Suits' /\ cfg' = cfg
  <2>1. /\ cfg' = cfg /\ view' = view /\ docks' = docks /\ client' = client /\ flips' = flips
        /\ announce /\ ~ announce' /\ Broadcast("reload", view')
    BY <1>10 DEF Announce, busVars, Broadcast, Stamp
  <2>2. \A c \in docks : \E m : Sends(c, m) /\ m.kind = "reload"
    BY <1>1, <2>1, Cast
  <2>3. \A c \in docks : Turn(c)
    BY <2>1, <2>2 DEF Turn, Tells
  <2> QED BY <2>1, <2>3 DEF Suits, HasView
<1>11. ASSUME InstallRenderer PROVE (\A c \in docks' : Turn(c)) /\ Suits' /\ cfg' = cfg
  <2>1. /\ cfg' = cfg /\ announce' = announce /\ docks' = docks /\ caps' = caps /\ client' = client /\ flips' = flips
        /\ Broadcast("viewstate", view') /\ Invalidate(cfg, cfgLayout)
    BY <1>11 DEF InstallRenderer, goVars
  <2>2. \A c \in Conns : /\ HasView(c) => /\ view'[c].gen = view[c].gen + 1
                                          /\ view'[c].layout \in Compatible(cfg, cfgLayout, view[c].layout, c)
                         /\ ~ HasView(c) => view'[c] = view[c]
    BY <1>1, <2>1, Invalidated
  <2>3. \A c \in Conns : HasView(c) => view'[c].layout = view[c].layout
    BY <1>1, <2>2, Compatibility DEF Suits
  <2>4. \A c \in docks : HasView(c) /\ \E m : Sends(c, m)
    BY <1>1, <2>1, Cast DEF Others, Sessions
  <2>5. \A c \in docks : Turn(c)
    BY <1>1, <2>1, <2>2, <2>3, <2>4 DEF Turn, Tells
  <2> QED BY <2>1, <2>2, <2>3, <2>5 DEF Suits, HasView
<1>12. ASSUME SetLayoutPublish PROVE (\A c \in docks' : Turn(c)) /\ Suits' /\ cfg' = cfg
  <2>1. cfg' = cfg /\ announce' = announce /\ docks' = docks /\ client' = client /\ flips' = flips
    BY <1>12 DEF SetLayoutPublish
  <2>2. CASE view' = view
    BY <1>2, <2>1, <2>2 DEF Kept, Suits, HasView
  <2>3. CASE view' # view
    <3>1. /\ view' = [c \in Conns |-> IF HasView(c) THEN Renewed(view[c], setter.layout, view[c].hidden) ELSE view[c]]
          /\ setter.layout \in Defines[cfg] /\ Broadcast("layout", view')
      BY <1>12, <2>3 DEF SetLayoutPublish, Valid
    <3>2. \A c \in Conns : /\ HasView(c) => view'[c].gen = view[c].gen + 1 /\ view'[c].layout = setter.layout
                           /\ ~ HasView(c) => view'[c] = view[c]
      BY <3>1 DEF Renewed
    <3>3. \A c \in docks : HasView(c) /\ \E m : Sends(c, m) /\ m.kind = "layout"
      BY <1>1, <2>1, <3>1, Cast DEF Others, Sessions
    <3>4. \A c \in docks : Turn(c)
      BY <1>1, <2>1, <3>2, <3>3 DEF Turn, Tells
    <3> QED BY <2>1, <3>1, <3>2, <3>4 DEF Suits, HasView
  <2> QED BY <2>2, <2>3
<1> QED BY <1>3, <1>4, <1>5, <1>6, <1>7, <1>8, <1>9, <1>10, <1>11, <1>12, Frame

\* What a turn makes of the stream: its elements, and which of them can put a layout right.
MendsNext(c, k) == /\ out'[c][k].kind \in {"reload", "layout"} /\ out'[c][k].cfg = cfg'
                   /\ out'[c][k].layout = view'[c].layout /\ client'[c].gen < view'[c].gen
                   /\ \A j \in 1 .. k - 1 : out'[c][j].gen < view'[c].gen
MendedNext(c, n, l) == l = view'[c].layout \/ \E k \in n + 1 .. Len(out'[c]) : MendsNext(c, k)
StreamNext(c) ==
  /\ client'[c].cfg = cfg' => /\ MendedNext(c, 0, client'[c].layout)
                              /\ \A i \in 1 .. Len(out'[c]) : out'[c][i].cfg = cfg'
  /\ \A i \in 1 .. Len(out'[c]) : out'[c][i].cfg = cfg' =>
       /\ out'[c][i].layout \in Defines[cfg']
       /\ out'[c][i].kind \in {"reload", "layout"} => MendedNext(c, i, out'[c][i].layout)
       /\ \A j \in i .. Len(out'[c]) : out'[c][j].cfg = cfg'
LatestNext(c) ==
  ~ announce' =>
    /\ IF out'[c] = <<>> THEN client'[c].gen = view'[c].gen ELSE out'[c][Len(out'[c])].gen = view'[c].gen
    /\ client'[c].cfg = cfg' \/ \E i \in 1 .. Len(out'[c]) : out'[c][i].kind = "reload" /\ out'[c][i].cfg = cfg'

LEMMA StreamWhenGreeted ==
  ASSUME EveryViewDraws, Types, Started, Suits, Next, NEW c \in docks', Kept(c), Greets(c)
  PROVE  StreamNext(c) /\ LatestNext(c)
<1>1. PICK m, n \in Message : /\ Fresh(c, m) /\ Fresh(c, n) /\ m.kind = "reload" /\ n.kind = "layout"
                              /\ out'[c] = out[c] \o <<m, n>>
  BY DEF Greets
<1>2. c \in Conns /\ HasView(c)' /\ view'[c].gen \in Nat /\ cfg' = cfg
  BY Viewing DEF Sessions, ViewType, Kept
<1>3. out[c] = <<>> /\ client'[c].gen = 0
  BY <1>2 DEF Greets, Started, Early
<1>4. out'[c] = <<m, n>>
  BY <1>1, <1>3
<1>5. Len(out'[c]) = 2 /\ out'[c][1] = m /\ out'[c][2] = n /\ \A i \in 1 .. Len(out'[c]) : i = 1 \/ i = 2
  BY <1>4
<1>6. view'[c].layout \in Defines[cfg'] /\ view'[c].gen > 0
  BY <1>2, Turns DEF Suits, HasView
<1>7. /\ m.cfg = cfg' /\ n.cfg = cfg' /\ m.layout = view'[c].layout /\ n.layout = view'[c].layout
      /\ m.gen = view'[c].gen /\ n.gen = view'[c].gen
  BY <1>1, <1>2 DEF Fresh
<1>8. MendsNext(c, 1)
  BY <1>1, <1>3, <1>5, <1>6, <1>7 DEF MendsNext
<1>9. \A i \in 1 .. Len(out'[c]) : out'[c][i].cfg = cfg' /\ out'[c][i].layout = view'[c].layout
  BY <1>5, <1>7
<1>10. MendedNext(c, 0, client'[c].layout) /\ \A i : MendedNext(c, i, view'[c].layout)
  BY <1>5, <1>8 DEF MendedNext
<1>11. StreamNext(c)
  <2>1. \A i \in 1 .. Len(out'[c]) : \A j \in i .. Len(out'[c]) : j \in 1 .. Len(out'[c])
    BY <1>5
  <2> QED BY <1>6, <1>9, <1>10, <2>1 DEF StreamNext
<1>12. LatestNext(c)
  BY <1>1, <1>4, <1>5, <1>7 DEF LatestNext
<1> QED BY <1>11, <1>12

LEMMA StreamAtRest ==
  ASSUME Types, Started, Streams, Latest, NEW c \in docks, Kept(c), Rests(c)
  PROVE  StreamNext(c) /\ LatestNext(c)
<1>1. c \in Conns /\ serve[c] # "new"
  BY DEF Types, TypeOK, Started, Early
<1>2. /\ out'[c] = out[c] /\ view'[c] = view[c] /\ cfg' = cfg /\ announce' = announce
      /\ client'[c].gen = client[c].gen /\ client'[c].cfg = client[c].cfg /\ client'[c].layout = client[c].layout
  BY <1>1 DEF Kept, Rests, Still
<1>3. /\ \A k : MendsNext(c, k) <=> Mends(c, k)
      /\ \A n, l : MendedNext(c, n, l) <=> Mended(c, n, l)
  BY <1>2 DEF MendsNext, Mends, MendedNext, Mended
<1>4. StreamNext(c)
  BY <1>2, <1>3 DEF StreamNext, Streams
<1>5. LatestNext(c)
  BY <1>2 DEF LatestNext, Latest
<1> QED BY <1>4, <1>5

LEMMA StreamWhenTold ==
  ASSUME EveryViewDraws, Types, Started, Timely, Suits, Streams, Latest, Next,
         NEW c \in docks, c \in docks', NEW m, Tells(c, m)
  PROVE  StreamNext(c) /\ LatestNext(c)
<1> DEFINE L == Len(out[c])
<1>1. c \in Conns /\ HasView(c) /\ out[c] \in Seq(Message) /\ L \in Nat /\ view[c].gen \in Nat /\ client[c].gen \in Nat
      /\ \A i \in 1 .. L : out[c][i] \in Message /\ out[c][i].gen \in Nat
  <2>1. c \in Conns /\ HasView(c)
    BY DEF Types, TypeOK
  <2> QED BY <2>1, TypesApart, MessageApart
<1>2. /\ Fresh(c, m) /\ out'[c] = Append(out[c], m) /\ client'[c] = client[c] /\ cfg' = cfg /\ m \in Message
      /\ view'[c].gen \in {view[c].gen, view[c].gen + 1}
      /\ view'[c].layout # view[c].layout => m.kind = "layout" /\ view'[c].gen = view[c].gen + 1
      /\ announce' => announce
      /\ announce /\ ~ announce' => m.kind = "reload"
  BY DEF Tells, Sends, Fresh
<1>3. /\ Len(out'[c]) = L + 1 /\ out'[c][L + 1] = m /\ \A i \in 1 .. L : out'[c][i] = out[c][i]
  BY <1>1, <1>2, AppendProperties
<1>4. \A i \in 1 .. L + 1 : i \in 1 .. L \/ i = L + 1
  BY <1>1
<1>5. m.gen = view'[c].gen /\ m.layout = view'[c].layout /\ m.cfg = cfg /\ view'[c].layout \in Defines[cfg]
  <2>1. view'[c].layout \in Defines[cfg']
    BY <1>1, Viewing, Turns DEF Sessions, Suits
  <2> QED BY <1>2, <2>1 DEF Fresh
<1>6. client[c].gen <= view[c].gen /\ \A i \in 1 .. L : out[c][i].gen <= view[c].gen
  BY <1>1 DEF Timely, Known
<1> HIDE DEF L
<1>7. ASSUME NEW n \in 0 .. L, NEW l, Mended(c, n, l) PROVE MendedNext(c, n, l)
  <2>1. CASE view'[c].layout = view[c].layout
    <3>1. CASE l = view[c].layout
      BY <2>1, <3>1 DEF MendedNext
    <3>2. ASSUME NEW k \in n + 1 .. L, Mends(c, k) PROVE k \in n + 1 .. Len(out'[c]) /\ MendsNext(c, k)
      <4>1. k \in 1 .. L /\ \A j \in 1 .. k - 1 : j \in 1 .. L
        BY <1>1, <1>7, <3>2
      <4>2. k \in n + 1 .. Len(out'[c])
        BY <1>1, <1>3, <3>2
      <4>3. client'[c].gen < view'[c].gen /\ \A j \in 1 .. k - 1 : out'[c][j].gen < view'[c].gen
        <5>1. client[c].gen < view[c].gen /\ \A j \in 1 .. k - 1 : out[c][j].gen < view[c].gen
          BY <3>2 DEF Mends
        <5>2. ASSUME NEW j \in 1 .. k - 1 PROVE out'[c][j].gen < view'[c].gen
          <6>1. out'[c][j] = out[c][j] /\ out[c][j].gen \in Nat /\ out[c][j].gen < view[c].gen
            BY <1>1, <1>3, <4>1, <5>1
          <6> QED BY <1>1, <1>2, <6>1
        <5>3. client'[c].gen < view'[c].gen
          BY <1>1, <1>2, <5>1
        <5> QED BY <5>2, <5>3
      <4> QED BY <1>2, <1>3, <2>1, <3>2, <4>1, <4>2, <4>3 DEF Mends, MendsNext
    <3> QED BY <1>7, <3>1, <3>2 DEF Mended, MendedNext, L
  <2>2. CASE view'[c].layout # view[c].layout
    <3>1. L + 1 \in n + 1 .. Len(out'[c]) /\ \A j \in 1 .. (L + 1) - 1 : j \in 1 .. L
      BY <1>1, <1>3, <1>7
    <3>2. client'[c].gen < view'[c].gen /\ \A j \in 1 .. (L + 1) - 1 : out'[c][j].gen < view'[c].gen
      <4>1. view'[c].gen = view[c].gen + 1
        BY <1>2, <2>2
      <4>2. ASSUME NEW j \in 1 .. (L + 1) - 1 PROVE out'[c][j].gen < view'[c].gen
        <5>1. out'[c][j] = out[c][j] /\ out[c][j].gen \in Nat /\ out[c][j].gen <= view[c].gen
          BY <1>1, <1>3, <1>6, <3>1
        <5> QED BY <1>1, <4>1, <5>1
      <4>3. client'[c].gen < view'[c].gen
        BY <1>1, <1>2, <1>6, <4>1
      <4> QED BY <4>2, <4>3
    <3>3. MendsNext(c, L + 1)
      BY <1>2, <1>3, <1>5, <2>2, <3>2 DEF MendsNext
    <3> QED BY <3>1, <3>3 DEF MendedNext
  <2> QED BY <2>1, <2>2
<1>8. StreamNext(c)
  <2>1. client'[c].cfg = cfg' => /\ MendedNext(c, 0, client'[c].layout)
                                 /\ \A i \in 1 .. Len(out'[c]) : out'[c][i].cfg = cfg'
    <3>1. client[c].cfg = cfg => Mended(c, 0, client[c].layout) /\ \A i \in 1 .. L : out[c][i].cfg = cfg
      BY DEF Streams, L
    <3>2. 0 \in 0 .. L
      BY <1>1
    <3> QED BY <1>2, <1>3, <1>4, <1>5, <1>7, <3>1, <3>2
  <2>2. ASSUME NEW i \in 1 .. Len(out'[c]), out'[c][i].cfg = cfg'
        PROVE  /\ out'[c][i].layout \in Defines[cfg']
               /\ out'[c][i].kind \in {"reload", "layout"} => MendedNext(c, i, out'[c][i].layout)
               /\ \A j \in i .. Len(out'[c]) : out'[c][j].cfg = cfg'
    <3>1. CASE i = L + 1
      <4>1. \A j \in i .. Len(out'[c]) : j = L + 1
        BY <1>1, <1>3, <3>1
      <4> QED BY <1>2, <1>3, <1>5, <3>1, <4>1 DEF MendedNext
    <3>2. CASE i \in 1 .. L
      <4>1. /\ out[c][i].layout \in Defines[cfg]
            /\ out[c][i].kind \in {"reload", "layout"} => Mended(c, i, out[c][i].layout)
            /\ \A j \in i .. L : out[c][j].cfg = cfg
        BY <1>2, <1>3, <2>2, <3>2 DEF Streams, L
      <4>2. \A j \in i .. Len(out'[c]) : j = L + 1 \/ (j \in i .. L /\ j \in 1 .. L)
        BY <1>1, <1>3, <3>2
      <4>3. i \in 0 .. L
        BY <3>2
      <4> QED BY <1>2, <1>3, <1>5, <1>7, <3>2, <4>1, <4>2, <4>3
    <3> QED BY <1>3, <1>4, <3>1, <3>2
  <2> QED BY <2>1, <2>2 DEF StreamNext
<1>9. LatestNext(c)
  <2> SUFFICES ASSUME ~ announce'
               PROVE  /\ out'[c] # <<>> /\ out'[c][Len(out'[c])].gen = view'[c].gen
                      /\ client'[c].cfg = cfg' \/ \E i \in 1 .. Len(out'[c]) : out'[c][i].kind = "reload" /\ out'[c][i].cfg = cfg'
    BY DEF LatestNext
  <2>1. out'[c] # <<>> /\ L + 1 \in 1 .. Len(out'[c]) /\ out'[c][Len(out'[c])].gen = view'[c].gen
    <3>1. Len(out'[c]) # 0
      BY <1>1, <1>3
    <3>2. Len(<<>>) = 0
      OBVIOUS
    <3> QED BY <1>1, <1>3, <1>5, <3>1, <3>2
  <2>2. CASE announce
    BY <1>2, <1>3, <1>5, <2>1, <2>2
  <2>3. CASE ~ announce
    <3>1. client[c].cfg = cfg \/ \E i \in 1 .. L : out[c][i].kind = "reload" /\ out[c][i].cfg = cfg
      BY <2>3 DEF Latest, L
    <3>2. \A i \in 1 .. L : i \in 1 .. Len(out'[c])
      BY <1>1, <1>3
    <3> QED BY <1>2, <1>3, <2>1, <3>1, <3>2
  <2> QED BY <2>1, <2>2, <2>3
<1> QED BY <1>8, <1>9

LEMMA StreamWhenHeard ==
  ASSUME Types, Started, Streams, Latest, NEW c \in docks, Kept(c), Hears(c)
  PROVE  StreamNext(c) /\ LatestNext(c)
<1> DEFINE L == Len(out[c])
           m == out[c][1]
<1>1. /\ c \in Conns /\ out[c] \in Seq(Message) /\ L \in Nat /\ L > 0 /\ m \in Message /\ 1 \in 1 .. L
      /\ out'[c] = Tail(out[c]) /\ Len(out'[c]) = L - 1 /\ \A i \in 1 .. L - 1 : out'[c][i] = out[c][i + 1]
  <2>1. c \in Conns /\ out[c] \in Seq(Message) /\ out[c] # <<>> /\ out'[c] = Tail(out[c])
    BY TypesApart DEF Types, TypeOK, Hears
  <2>2. L \in Nat /\ L > 0 /\ Len(Tail(out[c])) = L - 1 /\ \A i \in 1 .. L - 1 : Tail(out[c])[i] = out[c][i + 1]
    BY <2>1, Taken
  <2>3. 1 \in 1 .. L
    BY <2>2
  <2>4. m \in Message
    BY <2>1, Taken
  <2> QED BY <2>1, <2>2, <2>3, <2>4
<1>2. /\ cfg' = cfg /\ view'[c] = view[c] /\ announce' = announce /\ client'[c].gen = m.gen
      /\ client'[c].cfg = IF m.kind = "reload" THEN m.cfg ELSE client[c].cfg
      /\ client'[c].layout = IF Adopts(c, m) THEN Shown(m) ELSE client[c].layout
  BY DEF Kept, Hears
<1>3. \A i \in 1 .. L - 1 : i + 1 \in 1 .. L
  BY <1>1
<1> HIDE DEF L, m
<1>4. ASSUME NEW k \in 2 .. L, Mends(c, k) PROVE k - 1 \in 1 .. L - 1 /\ MendsNext(c, k - 1)
  <2>1. k - 1 \in 1 .. L - 1 /\ (k - 1) + 1 = k /\ 1 \in 1 .. k - 1
    BY <1>1
  <2>2. out'[c][k - 1] = out[c][k]
    BY <1>1, <2>1
  <2>3. m.gen < view[c].gen
    BY <1>4, <2>1 DEF Mends, m
  <2>4. ASSUME NEW j \in 1 .. (k - 1) - 1 PROVE out'[c][j].gen < view[c].gen
    <3>1. j \in 1 .. L - 1 /\ j + 1 \in 1 .. k - 1
      BY <1>1, <2>1
    <3>2. out[c][j + 1].gen < view[c].gen
      BY <1>4, <3>1 DEF Mends
    <3> QED BY <1>1, <3>1, <3>2
  <2> QED BY <1>2, <1>4, <2>1, <2>2, <2>3, <2>4 DEF Mends, MendsNext
<1>5. ASSUME NEW n \in 1 .. L, NEW l, Mended(c, n, l) PROVE MendedNext(c, n - 1, l)
  <2>1. CASE l = view[c].layout
    BY <1>2, <2>1 DEF MendedNext
  <2>2. ASSUME NEW k \in n + 1 .. L, Mends(c, k) PROVE \E p \in (n - 1) + 1 .. Len(out'[c]) : MendsNext(c, p)
    <3>1. k \in 2 .. L /\ k - 1 \in (n - 1) + 1 .. L - 1
      BY <1>1
    <3> QED BY <1>1, <1>4, <2>2, <3>1
  <2> QED BY <1>5, <2>1, <2>2 DEF Mended, MendedNext, L
<1>6. ASSUME m.cfg = cfg
      PROVE  /\ m.layout \in Defines[cfg] /\ \A i \in 1 .. L : out[c][i].cfg = cfg
             /\ m.kind \in {"reload", "layout"} => MendedNext(c, 0, m.layout)
  <2>1. /\ m.layout \in Defines[cfg] /\ \A i \in 1 .. L : out[c][i].cfg = cfg
        /\ m.kind \in {"reload", "layout"} => Mended(c, 1, m.layout)
    BY <1>1, <1>6 DEF Streams, L, m
  <2> QED BY <1>1, <1>5, <2>1
<1>7. cfg \in Configs /\ \A g \in Configs : NoLayout \notin Defines[g]
  BY ViewAssumption DEF Types, TypeOK
<1>8. ASSUME client'[c].cfg = cfg
      PROVE  MendedNext(c, 0, client'[c].layout) /\ \A i \in 1 .. Len(out'[c]) : out'[c][i].cfg = cfg
  <2>1. m.cfg = cfg
    <3>1. CASE m.kind = "reload"
      BY <1>2, <1>8, <3>1
    <3>2. CASE m.kind # "reload"
      <4>1. client[c].cfg = cfg
        BY <1>2, <1>8, <3>2
      <4> QED BY <1>1, <4>1 DEF Streams, L, m
    <3> QED BY <3>1, <3>2
  <2>2. \A i \in 1 .. Len(out'[c]) : out'[c][i].cfg = cfg
    BY <1>1, <1>3, <1>6, <2>1
  <2>3. CASE Adopts(c, m)
    <3>1. m.kind \in {"reload", "layout"} /\ client'[c].layout = m.layout
      BY <1>2, <1>6, <1>7, <2>1, <2>3 DEF Adopts, Shown
    <3> QED BY <1>6, <2>1, <2>2, <3>1
  <2>4. CASE ~ Adopts(c, m)
    <3>1. m.kind # "reload" /\ client[c].cfg = cfg
      BY <1>2, <1>8, <2>4 DEF Adopts
    <3>2. m.kind # "layout"
      BY <1>6, <2>1, <2>4, <3>1 DEF Adopts
    <3>3. Mended(c, 0, client[c].layout) /\ client'[c].layout = client[c].layout
      BY <1>2, <2>4, <3>1 DEF Streams
    <3>4. CASE client[c].layout = view[c].layout
      BY <1>2, <2>2, <3>3, <3>4 DEF MendedNext
    <3>5. ASSUME NEW k \in 0 + 1 .. L, Mends(c, k) PROVE \E p \in 0 + 1 .. Len(out'[c]) : MendsNext(c, p)
      <4>1. k # 1
        BY <3>1, <3>2, <3>5 DEF Mends, m
      <4>2. k \in 2 .. L
        BY <1>1, <4>1
      <4> QED BY <1>1, <1>4, <3>5, <4>2
    <3> QED BY <2>2, <3>3, <3>4, <3>5 DEF Mended, MendedNext, L
  <2> QED BY <2>3, <2>4
<1>9. ASSUME NEW i \in 1 .. Len(out'[c]), out'[c][i].cfg = cfg
      PROVE  /\ out'[c][i].layout \in Defines[cfg]
             /\ out'[c][i].kind \in {"reload", "layout"} => MendedNext(c, i, out'[c][i].layout)
             /\ \A j \in i .. Len(out'[c]) : out'[c][j].cfg = cfg
  <2>1. out'[c][i] = out[c][i + 1] /\ i + 1 \in 1 .. L /\ (i + 1) - 1 = i
    BY <1>1, <1>3
  <2>2. /\ out[c][i + 1].layout \in Defines[cfg]
        /\ out[c][i + 1].kind \in {"reload", "layout"} => Mended(c, i + 1, out[c][i + 1].layout)
        /\ \A j \in i + 1 .. L : out[c][j].cfg = cfg
    BY <1>9, <2>1 DEF Streams, L
  <2>3. \A j \in i .. Len(out'[c]) : j + 1 \in i + 1 .. L /\ out'[c][j] = out[c][j + 1]
    BY <1>1
  <2>4. out'[c][i].kind \in {"reload", "layout"} => MendedNext(c, (i + 1) - 1, out'[c][i].layout)
    BY <1>5, <2>1, <2>2
  <2> QED BY <2>1, <2>2, <2>3, <2>4
<1>10. StreamNext(c)
  BY <1>2, <1>8, <1>9 DEF StreamNext
<1>11. ASSUME ~ announce'
       PROVE  /\ IF out'[c] = <<>> THEN client'[c].gen = view'[c].gen ELSE out'[c][Len(out'[c])].gen = view'[c].gen
              /\ client'[c].cfg = cfg' \/ \E i \in 1 .. Len(out'[c]) : out'[c][i].kind = "reload" /\ out'[c][i].cfg = cfg'
  <2>1. /\ out[c][L].gen = view[c].gen
        /\ client[c].cfg = cfg \/ \E i \in 1 .. L : out[c][i].kind = "reload" /\ out[c][i].cfg = cfg
    BY <1>2, <1>11 DEF Latest, L, Hears
  <2>2. CASE L = 1
    <3>1. out'[c] = <<>>
      <4>1. out'[c] \in Seq(Message)
        BY <1>1, Taken DEF Hears
      <4>2. Len(out'[c]) = 0
        BY <1>1, <2>2
      <4> QED BY <4>1, <4>2, EmptySeq
    <3> QED BY <1>1, <1>2, <2>1, <2>2, <3>1 DEF Streams, L, m
  <2>3. CASE L > 1
    <3>1. out'[c] # <<>>
      <4>3. Len(out'[c]) = L - 1 /\ L \in Nat
        BY <1>1
      <4>1. Len(out'[c]) # 0
        BY <2>3, <4>3
      <4>2. Len(<<>>) = 0
        OBVIOUS
      <4> QED BY <4>1, <4>2
    <3>2. out'[c][Len(out'[c])] = out[c][L]
      BY <1>1, <2>3
    <3>3. client'[c].cfg = cfg \/ \E i \in 1 .. Len(out'[c]) : out'[c][i].kind = "reload" /\ out'[c][i].cfg = cfg
      <4>1. CASE client[c].cfg = cfg
        <5>1. m.cfg = cfg
          BY <1>1, <4>1 DEF Streams, L, m
        <5> QED BY <1>2, <4>1, <5>1
      <4>2. ASSUME NEW i \in 1 .. L, out[c][i].kind = "reload", out[c][i].cfg = cfg
            PROVE  client'[c].cfg = cfg \/ \E p \in 1 .. Len(out'[c]) : out'[c][p].kind = "reload" /\ out'[c][p].cfg = cfg
        <5>1. CASE i = 1
          BY <1>2, <4>2, <5>1 DEF m
        <5>2. CASE i # 1
          <6>1. i - 1 \in 1 .. Len(out'[c]) /\ (i - 1) + 1 = i /\ i - 1 \in 1 .. L - 1
            BY <1>1, <5>2
          <6>2. out'[c][i - 1] = out[c][i]
            BY <1>1, <6>1
          <6> QED BY <4>2, <6>1, <6>2
        <5> QED BY <5>1, <5>2
      <4> QED BY <2>1, <4>1, <4>2
    <3> QED BY <1>2, <2>1, <3>1, <3>2, <3>3
  <2> QED BY <1>1, <2>2, <2>3
<1> QED BY <1>10, <1>11 DEF LatestNext

LEMMA StreamsKept ==
  ASSUME EveryViewDraws, Types, Started, Timely, Suits, Streams, Latest, Next
  PROVE  Streams' /\ Latest'
<1>1. ASSUME NEW c \in docks' PROVE StreamNext(c) /\ LatestNext(c)
  <2>1. Turn(c)
    BY Turns
  <2>2. CASE c \in docks /\ Rests(c) /\ cfg' \notin tried /\ announce'
    <3>1. /\ c \in Conns /\ client[c].cfg \in tried /\ \A i \in 1 .. Len(out[c]) : out[c][i].cfg \in tried
          /\ out'[c] = out[c] /\ client'[c].cfg = client[c].cfg
      BY <2>2 DEF Types, TypeOK, Rests, Still
    <3> QED BY <2>2, <3>1 DEF StreamNext, LatestNext
  <2> QED BY <2>1, <2>2, StreamWhenGreeted, StreamAtRest, StreamWhenHeard, StreamWhenTold DEF Turn, Tells, Sends
<1>2. Streams'
  BY <1>1 DEF StreamNext, Streams, MendedNext, Mended, MendsNext, Mends
<1>3. Latest'
  BY <1>1 DEF LatestNext, Latest
<1> QED BY <1>2, <1>3

\* What shows the layout of now keeps doing so, as long as it is of now at all.
DrawnNext(c, m) == view'[c].gen > 0 /\ m.gen = view'[c].gen /\ m.cfg = cfg' => m.layout = view'[c].layout
LEMMA DrawnKept ==
  ASSUME EveryViewDraws, Types, Started, Suits, Next, NEW c \in Conns, NEW m, m.gen \in Nat,
         serve[c] # "new", Known(c, m), Drawn(c, m)
  PROVE  DrawnNext(c, m)
<1>1. /\ StepView(c) /\ view[c].gen \in Nat /\ view'[c].gen \in Nat
      /\ cfg' = cfg \/ (HasView(c) => view'[c].gen = view[c].gen + 1)
  BY TypesApart, Viewing, Turns DEF Sessions, ViewType
<1>2. CASE view'[c] = view[c] /\ cfg' = cfg
  BY <1>2 DEF Drawn, DrawnNext, HasView
<1>3. CASE HasView(c) /\ view'[c].gen = view[c].gen + 1
  BY <1>1, <1>3 DEF Known, DrawnNext
<1>4. CASE view'[c].gen = 0
  BY <1>4 DEF DrawnNext
<1>5. ~ HasView(c) /\ view'[c] = view[c] => view'[c].gen = 0
  BY <1>1 DEF HasView
<1> QED BY <1>1, <1>2, <1>3, <1>4, <1>5 DEF StepView, NoView

LEMMA TapsKept ==
  ASSUME EveryViewDraws, Types, Started, Timely, Suits, TapsAreDrawn, Streams, Next
  PROVE  TapsAreDrawn'
<1>1. ASSUME NEW c \in Conns
      PROVE  /\ \A i \in 1 .. Len(acts[c]) : acts[c][i].kind = "tap" => DrawnNext(c, acts[c][i])
             /\ serve[c] = "enqueue" => DrawnNext(c, hand[c])
             /\ client[c].gen > 0 => DrawnNext(c, client[c])
  <2>1. /\ Known(c, client[c]) /\ client[c].gen \in Nat
        /\ \A i \in 1 .. Len(acts[c]) : acts[c][i].kind = "tap" => Known(c, acts[c][i]) /\ Drawn(c, acts[c][i])
        /\ \A i \in 1 .. Len(acts[c]) : acts[c][i].gen \in Nat
        /\ serve[c] = "enqueue" => Known(c, hand[c]) /\ Drawn(c, hand[c]) /\ hand[c].gen \in Nat
    <3>1. \A m \in Tap \cup Navigation : m.gen \in Nat
      BY DEF Tap, Navigation
    <3> QED BY <3>1, TypesApart DEF Timely, Types, TapsAreDrawn
  <2>2. /\ acts[c] # <<>> => serve[c] # "new"
        /\ client[c].gen > 0 => serve[c] # "new" /\ (HasView(c) => c \in docks)
    BY <2>1 DEF Started, Early
  <2>3. \A i \in 1 .. Len(acts[c]) : acts[c] # <<>>
    OBVIOUS
  <2>4. client[c].gen > 0 => Drawn(c, client[c])
    <3>1. c \in docks /\ client[c].cfg = cfg /\ client[c].gen = view[c].gen => client[c].layout = view[c].layout
      <4>1. c \in docks /\ client[c].cfg = cfg => Mended(c, 0, client[c].layout)
        BY DEF Streams
      <4>2. \A k : Mends(c, k) => client[c].gen < view[c].gen
        BY DEF Mends
      <4> QED BY <2>1, <4>1, <4>2 DEF Mended
    <3> QED BY <2>2, <3>1 DEF Drawn
  <2> QED BY <2>1, <2>2, <2>3, <2>4, DrawnKept
<1>2. ASSUME NEW c \in Conns
      PROVE  /\ \A i \in 1 .. Len(acts'[c]) : acts'[c][i].kind = "tap" => DrawnNext(c, acts'[c][i])
             /\ serve'[c] = "enqueue" => DrawnNext(c, hand'[c])
  <2>1. \A m : Issued(c, m) /\ m.kind = "tap" => DrawnNext(c, m)
    BY <1>1 DEF Issued, DrawnNext
  <2>2. StepHand(c)
    BY Holding
  <2> QED BY <1>1, <2>1, <2>2, ActElements DEF StepHand
<1>3. ASSUME NEW i \in 1 .. Len(queue') PROVE DrawnNext(queue'[i].m.conn, queue'[i].m)
  <2>1. ASSUME NEW j \in 1 .. Len(queue), queue'[i] = queue[j] PROVE DrawnNext(queue'[i].m.conn, queue'[i].m)
    <3> DEFINE m == queue[j].m
    <3>1. m.conn \in Conns /\ m.gen \in Nat /\ Known(m.conn, m) /\ Drawn(m.conn, m)
      <4>1. queue \in Seq([m : Tap, epoch : Nat])
        BY DEF Types
      <4>2. queue[j] \in [m : Tap, epoch : Nat]
        BY <4>1, ElementOfSeq
      <4>3. m \in Tap
        BY <4>2
      <4> QED BY <4>3 DEF Tap, Timely, TapsAreDrawn
    <3>2. serve[m.conn] # "new"
      BY <3>1 DEF Started, Early
    <3> QED BY <2>1, <3>1, <3>2, DrawnKept
  <2>2. ASSUME NEW d \in Conns, serve[d] = "enqueue", queue'[i].m = hand[d] PROVE DrawnNext(queue'[i].m.conn, queue'[i].m)
    BY <1>1, <2>2 DEF Types
  <2> QED BY <2>1, <2>2, Queueing
<1> QED BY <1>2, <1>3 DEF TapsAreDrawn, Drawn, DrawnNext, HasView

(* Visibility: what the client reports is what the view will be.            *)

\* Of a session that stays registered: its visibility changes by a report alone.
StepSight(c) ==
  \/ Greets(c)
  \/ /\ c \in docks /\ reports'[c] = reports[c] /\ view'[c].hidden = view[c].hidden
     /\ client'[c].hidden = client[c].hidden \/ client[c].gen = 0
     /\ client'[c].gen = client[c].gen /\ (out[c] # <<>> => out'[c] # <<>>)
  \/ /\ c \in docks /\ Hears(c) /\ view'[c].hidden = view[c].hidden
     /\ reports'[c] = reports[c] \o (IF First(c) THEN <<Visibility(client[c].hidden)>> ELSE <<>>)
                                 \o (IF Adopts(c, out[c][1]) THEN <<Grid>> ELSE <<>>)
  \/ /\ c \in docks /\ client[c].gen # 0 /\ client'[c].gen = client[c].gen /\ view'[c].hidden = view[c].hidden
     /\ client'[c].hidden = ~ client[c].hidden
     /\ reports'[c] = Append(reports[c], Visibility(~ client[c].hidden))
  \/ /\ c \in docks /\ reports[c] # <<>> /\ reports'[c] = Tail(reports[c])
     /\ client'[c] = client[c]
     /\ IF reports[c][1].kind = "visibility" THEN view'[c].hidden = reports[c][1].hidden
                                             ELSE view'[c].hidden = view[c].hidden
LEMMA Sighting ==
  ASSUME Types, Started, Next, NEW c \in docks'
  PROVE  StepSight(c)
<1>1. /\ c \in Conns /\ Sessions /\ Sessions' /\ (c \in docks \/ Greets(c)) /\ StepLine(c)
      /\ reports \in [Conns -> Seq(Report)] /\ client \in [Conns -> ClientType] /\ out \in [Conns -> Seq(Message)]
  BY Viewing, Living, Lines DEF Sessions, StepLife, Types, TypeOK
<1>2. ASSUME ~ ClientReceive(c), client'[c].gen = client[c].gen, c \in docks PROVE out[c] # <<>> => out'[c] # <<>>
  <2>1. ASSUME NEW m, Sends(c, m) PROVE out'[c] # <<>>
    <3>1. out'[c] = Append(out[c], m) /\ out[c] \in Seq(Message) /\ m \in Message
      BY <1>1, <2>1 DEF Sends, Fresh
    <3>2. Len(out'[c]) = Len(out[c]) + 1 /\ Len(out[c]) \in Nat
      BY <3>1, AppendProperties, LenProperties
    <3>3. Len(out'[c]) # 0
      BY <3>2
    <3>4. Len(<<>>) = 0
      OBVIOUS
    <3> QED BY <3>3, <3>4
  <2>2. Greets(c) => out[c] = <<>>
    BY <1>1 DEF Greets, Started, Early
  <2> QED BY <1>1, <1>2, <2>1, <2>2 DEF StepLine, Rests, Hears
<1>3. ASSUME c \in docks, ~ ClientReceive(c), client'[c] = client[c], reports'[c] = reports[c], view'[c].hidden = view[c].hidden
      PROVE  StepSight(c)
  BY <1>2, <1>3 DEF StepSight
<1>4. CASE Greets(c)
  BY <1>4 DEF StepSight
<1>5. CASE c \in docks /\ ClientReceive(c)
  <2>1. Hears(c) /\ view' = view
    BY <1>1, <1>5, Heard DEF ClientReceive, busVars
  <2>2. Head(out[c]) = out[c][1]
    BY <1>1, <2>1, Taken DEF Hears
  <2>3. reports'[c] = reports[c] \o (IF First(c) THEN <<Visibility(client[c].hidden)>> ELSE <<>>)
                                 \o (IF Adopts(c, out[c][1]) THEN <<Grid>> ELSE <<>>)
    BY <1>1, <1>5, <2>2 DEF ClientReceive
  <2> QED BY <1>5, <2>1, <2>3 DEF StepSight
<1>6. ASSUME c \in docks, ~ ClientReceive(c), ClientFlip(c) PROVE StepSight(c)
  <2>1. client' = [client EXCEPT ![c].hidden = ~ @] /\ view' = view
    BY <1>6 DEF ClientFlip, busVars
  <2>2. client'[c].gen = client[c].gen /\ client'[c].hidden = ~ client[c].hidden
    BY <1>1, <2>1 DEF ClientType
  <2>3. reports'[c] = IF client[c].gen = 0 THEN reports[c] ELSE Append(reports[c], Visibility(~ client[c].hidden))
    BY <1>1, <1>6 DEF ClientFlip
  <2> QED BY <1>2, <1>6, <2>1, <2>2, <2>3 DEF StepSight
<1>7. ASSUME c \in docks, ~ ClientReceive(c), ReadReport(c) PROVE StepSight(c)
  <2>1. reports[c] # <<>> /\ reports'[c] = Tail(reports[c]) /\ client' = client
    BY <1>1, <1>7 DEF ReadReport
  <2>2. Head(reports[c]) = reports[c][1] /\ reports[c][1] \in Report
    BY <1>1, <2>1, Taken
  <2>3. reports[c][1].kind = "visibility" => view'[c].hidden = reports[c][1].hidden
    <3>1. HasView(c)
      BY <1>1, <1>7 DEF Sessions
    <3>2. reports[c][1].kind = "visibility" => UpdateView(c, reports[c][1])
      BY <1>7, <2>2 DEF ReadReport
    <3>3. view \in [Conns -> ViewType]
      BY <1>1 DEF Sessions
    <3> QED BY <1>1, <1>7, <3>1, <3>2, <3>3 DEF UpdateView, Renewed
  <2>4. reports[c][1].kind # "visibility" => view' = view
    BY <1>7, <2>2 DEF ReadReport
  <2> QED BY <1>7, <2>1, <2>3, <2>4 DEF StepSight
<1>8. ASSUME c \in docks, ~ ClientReceive(c), ~ ClientFlip(c) PROVE client'[c] = client[c]
  <2>1. serve[c] # "new"
    BY <1>1, <1>8 DEF Started, Early
  <2>2. ASSUME NEW d \in Conns, Hello(d) PROVE client'[c] = client[c]
    <3>1. d # c /\ \E v : client' = [client EXCEPT ![d].layout = v]
      BY <2>1, <2>2 DEF Hello
    <3> QED BY <1>1, <3>1
  <2>3. ASSUME NEW d \in Conns, ClientFlip(d) \/ ClientReceive(d) PROVE client'[c] = client[c]
    <3>1. d # c
      BY <1>8, <2>3
    <3>2. ClientReceive(d) => client'[c] = client[c]
      BY <1>1, <3>1, Heard
    <3>3. ClientFlip(d) => client'[c] = client[c]
      BY <1>1, <3>1 DEF ClientFlip
    <3> QED BY <2>3, <3>2, <3>3
  <2>4. ASSUME NEW d \in Conns, Register(d) \/ ReadAct(d) \/ Navigate(d) \/ ReadReport(d) PROVE client' = client
    BY <2>4 DEF Register, ReadAct, Navigate, ReadReport
  <2>5. ASSUME Announce \/ InstallRenderer \/ SetLayoutPublish \/ Notice PROVE client' = client
    BY <2>5 DEF Announce, InstallRenderer, SetLayoutPublish, Notice
  <2> QED BY <2>2, <2>3, <2>4, <2>5, Frame
<1>9. ASSUME c \in docks, ~ ClientReceive(c), ~ ClientFlip(c), ~ ReadReport(c) PROVE reports'[c] = reports[c]
  <2>1. ASSUME NEW d \in Conns, ReadReport(d) \/ ClientReceive(d) \/ ClientFlip(d) PROVE reports'[c] = reports[c]
    <3>1. d # c /\ (reports' = reports \/ \E v : reports' = [reports EXCEPT ![d] = v])
      BY <1>9, <2>1 DEF ReadReport, ClientReceive, ClientFlip
    <3> QED BY <1>1, <3>1
  <2> QED BY <2>1, Frame
<1>10. ASSUME c \in docks, ~ ReadReport(c) PROVE view'[c].hidden = view[c].hidden
  <2>1. view \in [Conns -> ViewType] /\ HasView(c)
    BY <1>1, <1>10 DEF Sessions
  <2>2. ASSUME NEW d \in Conns, Hello(d) \/ ReadReport(d) \/ Disconnect(d) \/ WriteFails(d) PROVE view'[c] = view[c]
    <3>1. d # c
      BY <1>1, <1>10, <2>2 DEF Hello, Started, Early, Disconnect, WriteFails, RemoveDock
    <3>2. view' = view \/ \E v : view' = [view EXCEPT ![d] = v]
      BY <2>2 DEF Hello, ReadReport, UpdateView, Disconnect, WriteFails, RemoveDock
    <3> QED BY <1>1, <2>1, <3>1, <3>2
  <2>3. ASSUME NEW d \in Conns, Register(d) PROVE view' = view
    BY <2>3 DEF Register
  <2>4. ASSUME NEW d \in Conns, Navigate(d) PROVE view'[c].hidden = view[c].hidden
    <3>1. view' = view \/ \E l : view' = [view EXCEPT ![d] = Renewed(@, l, @.hidden)]
      BY <2>4 DEF Navigate
    <3>2. ASSUME NEW l, view' = [view EXCEPT ![d] = Renewed(@, l, @.hidden)] PROVE view'[c].hidden = view[c].hidden
      <4>1. view'[c] = IF d = c THEN Renewed(view[c], l, view[c].hidden) ELSE view[c]
        BY <1>1, <2>1, <3>2
      <4> QED BY <4>1 DEF Renewed
    <3> QED BY <3>1, <3>2
  <2>5. ASSUME NEW g \in Configs, Swap(g) PROVE view'[c].hidden = view[c].hidden
    <3>1. Invalidate(g, cfgLayout') /\ UNCHANGED <<docks, caps, flips>>
      BY <2>5 DEF Swap, netVars
    <3> QED BY <1>1, <3>1, Invalidated
  <2>6. ASSUME InstallRenderer PROVE view'[c].hidden = view[c].hidden
    <3>1. Invalidate(cfg, cfgLayout) /\ UNCHANGED <<docks, caps, flips>> /\ cfg \in Configs
      BY <2>6 DEF InstallRenderer, Types, TypeOK
    <3> QED BY <1>1, <3>1, Invalidated
  <2>7. ASSUME SetLayoutPublish PROVE view'[c].hidden = view[c].hidden
    <3>1. view' = view \/ view' = [d \in Conns |-> IF HasView(d) THEN Renewed(view[d], setter.layout, view[d].hidden) ELSE view[d]]
      BY <2>7 DEF SetLayoutPublish
    <3> QED BY <1>1, <2>1, <3>1 DEF Renewed
  <2> QED BY <2>2, <2>3, <2>4, <2>5, <2>6, <2>7, <1>10, Frame
<1> QED BY <1>1, <1>3, <1>4, <1>5, <1>6, <1>7, <1>8, <1>9, <1>10

LEMMA SightKept ==
  ASSUME Types, Started, Sight, Next
  PROVE  Sight'
<1> SUFFICES ASSUME NEW c \in docks'
             PROVE  IF client'[c].gen = 0 THEN out'[c] # <<>>
                    ELSE \/ \E i \in 1 .. Len(reports'[c]) :
                              /\ reports'[c][i].kind = "visibility" /\ reports'[c][i].hidden = client'[c].hidden
                              /\ \A j \in i + 1 .. Len(reports'[c]) : reports'[c][j].kind # "visibility"
                         \/ /\ \A j \in 1 .. Len(reports'[c]) : reports'[c][j].kind # "visibility"
                            /\ view'[c].hidden = client'[c].hidden
  BY DEF Sight, Seen, Unseen
<1> DEFINE R == Len(reports[c])
<1>1. /\ c \in Conns /\ StepSight(c) /\ Sessions' /\ reports[c] \in Seq(Report) /\ R \in Nat
      /\ \A i \in 1 .. R : reports[c][i] \in Report
      /\ out[c] \in Seq(Message) /\ client[c].gen \in Nat /\ client[c].hidden \in BOOLEAN
      /\ \A i \in 1 .. Len(out[c]) : out[c][i].gen > 0
  <2>1. c \in Conns
    BY Viewing DEF Sessions
  <2> QED BY <2>1, Viewing, Sighting, TypesApart DEF Started
<1>2. c \in docks =>
        IF client[c].gen = 0 THEN out[c] # <<>> /\ reports[c] = <<>>
        ELSE \/ \E i \in 1 .. R : Seen(c, i) /\ Unseen(c, i)
             \/ Unseen(c, 0) /\ view[c].hidden = client[c].hidden
  BY <1>1 DEF Sight, Started
<1>3. CASE Greets(c)
  <2>1. out[c] = <<>> /\ client'[c].gen = 0
    BY <1>1, <1>3 DEF Greets, Started, Early
  <2>2. PICK m, n \in Message : out'[c] = out[c] \o <<m, n>>
    BY <1>3 DEF Greets
  <2>3. out'[c] = <<m, n>>
    BY <2>1, <2>2
  <2> QED BY <2>1, <2>3
<1>4. CASE /\ c \in docks /\ reports'[c] = reports[c] /\ view'[c].hidden = view[c].hidden
           /\ client'[c].hidden = client[c].hidden \/ client[c].gen = 0
           /\ client'[c].gen = client[c].gen /\ (out[c] # <<>> => out'[c] # <<>>)
  BY <1>1, <1>2, <1>4 DEF Seen, Unseen, R
<1>5. CASE /\ c \in docks /\ Hears(c) /\ view'[c].hidden = view[c].hidden
           /\ reports'[c] = reports[c] \o (IF First(c) THEN <<Visibility(client[c].hidden)>> ELSE <<>>)
                                       \o (IF Adopts(c, out[c][1]) THEN <<Grid>> ELSE <<>>)
  <2> DEFINE s == IF First(c) THEN <<Visibility(client[c].hidden)>> ELSE <<>>
             g == IF Adopts(c, out[c][1]) THEN <<Grid>> ELSE <<>>
  <2>1. client'[c].gen # 0 /\ client'[c].hidden = client[c].hidden
    <3>1. out[c] # <<>> /\ client'[c].gen = out[c][1].gen /\ client'[c].hidden = client[c].hidden
      BY <1>5 DEF Hears
    <3>2. 1 \in 1 .. Len(out[c]) /\ out[c][1] \in Message
      BY <1>1, <3>1, Taken
    <3>3. out[c][1].gen > 0 /\ out[c][1].gen \in Nat
      BY <1>1, <3>2, MessageApart
    <3> QED BY <3>1, <3>3
  <2>2. g = <<>> \/ g = <<Grid>>
    OBVIOUS
  <2> HIDE DEF g
  <2>3. CASE client[c].gen = 0
    <3>1. s = <<Visibility(client[c].hidden)>> /\ reports[c] = <<>>
      BY <1>2, <1>5, <2>3 DEF First
    <3>2. reports'[c] = s \o g
      <4>1. reports'[c] = reports[c] \o s \o g
        BY <1>5 DEF g
      <4>2. <<>> \o s = s
        BY <3>1
      <4> QED BY <3>1, <4>1, <4>2
    <3> DEFINE v == Visibility(client[c].hidden)
    <3>3. s = <<v>>
      BY <3>1
    <3> HIDE DEF v, s
    <3>4. /\ Len(reports'[c]) >= 1 /\ Len(reports'[c]) \in Nat /\ reports'[c][1] = v
          /\ \A j \in 1 + 1 .. Len(reports'[c]) : reports'[c][j] = Grid
      <4>1. CASE g = <<>>
        <5>1. reports'[c] = <<v>>
          BY <3>2, <3>3, <4>1
        <5> QED BY <5>1
      <4>2. CASE g = <<Grid>>
        <5>1. v \in Report /\ Grid \in Report
          BY <1>1 DEF v, Visibility, Grid, Report
        <5>2. /\ <<v>> \in Seq(Report) /\ <<Grid>> \in Seq(Report) /\ Len(<<v>>) = 1 /\ Len(<<Grid>>) = 1
              /\ <<v>>[1] = v /\ <<Grid>>[1] = Grid
          BY <5>1
        <5>3. reports'[c] = <<v>> \o <<Grid>>
          BY <3>2, <3>3, <4>2
        <5>4. Len(reports'[c]) = 2 /\ reports'[c][1] = v /\ reports'[c][2] = Grid
          BY <5>2, <5>3, ConcatProperties
        <5>5. \A j \in 1 + 1 .. Len(reports'[c]) : j = 2
          BY <5>4
        <5> QED BY <5>4, <5>5
      <4> QED BY <2>2, <4>1, <4>2
    <3>6. Grid.kind # "visibility" /\ v.kind = "visibility" /\ v.hidden = client[c].hidden
      BY DEF Grid, Visibility, v
    <3>7. 1 \in 1 .. Len(reports'[c])
      BY <3>4
    <3> QED BY <2>1, <3>4, <3>6, <3>7
  <2>4. CASE client[c].gen # 0
    <3>1. reports'[c] = reports[c] \o g
      <4>1. s = <<>> /\ reports'[c] = reports[c] \o s \o g
        BY <1>5, <2>4 DEF First, g
      <4>2. reports[c] \o <<>> = reports[c]
        BY <1>1
      <4> QED BY <4>1, <4>2
    <3>2. Grid \in Report /\ Grid.kind # "visibility"
      BY DEF Grid, Report
    <3>3. /\ Len(reports'[c]) \in Nat /\ Len(reports'[c]) >= R /\ \A i \in 1 .. R : reports'[c][i] = reports[c][i]
          /\ \A i \in R + 1 .. Len(reports'[c]) : reports'[c][i].kind # "visibility"
      <4>1. CASE g = <<>>
        <5>1. reports'[c] = reports[c]
          BY <1>1, <3>1, <4>1
        <5> QED BY <1>1, <5>1
      <4>2. CASE g = <<Grid>>
        <5>1. reports'[c] = Append(reports[c], Grid)
          BY <1>1, <3>1, <3>2, <4>2
        <5>2. Len(reports'[c]) = R + 1 /\ reports'[c][R + 1] = Grid /\ \A i \in 1 .. R : reports'[c][i] = reports[c][i]
          BY <1>1, <3>2, <5>1, AppendProperties
        <5>3. \A i \in R + 1 .. Len(reports'[c]) : i = R + 1
          BY <1>1, <5>2
        <5> QED BY <1>1, <3>2, <5>2, <5>3
      <4> QED BY <2>2, <4>1, <4>2
    <3> HIDE DEF R
    <3>4. CASE \E i \in 1 .. R : Seen(c, i) /\ Unseen(c, i)
      <4>1. PICK i \in 1 .. R : Seen(c, i) /\ Unseen(c, i)
        BY <3>4
      <4>2. i \in 1 .. Len(reports'[c]) /\ reports'[c][i] = reports[c][i]
        BY <1>1, <3>3
      <4>3. ASSUME NEW j \in i + 1 .. Len(reports'[c]) PROVE reports'[c][j].kind # "visibility"
        <5>1. CASE j \in R + 1 .. Len(reports'[c])
          BY <3>3, <5>1
        <5>2. CASE j \notin R + 1 .. Len(reports'[c])
          <6>1. j \in i + 1 .. R /\ j \in 1 .. R
            BY <1>1, <3>3, <5>2
          <6> QED BY <3>3, <4>1, <6>1 DEF Unseen, R
        <5> QED BY <5>1, <5>2
      <4> QED BY <2>1, <4>1, <4>2, <4>3 DEF Seen
    <3>5. CASE Unseen(c, 0) /\ view[c].hidden = client[c].hidden
      <4>1. ASSUME NEW j \in 1 .. Len(reports'[c]) PROVE reports'[c][j].kind # "visibility"
        <5>1. CASE j \in R + 1 .. Len(reports'[c])
          BY <3>3, <5>1
        <5>2. CASE j \notin R + 1 .. Len(reports'[c])
          <6>1. j \in 0 + 1 .. R /\ j \in 1 .. R
            BY <1>1, <3>3, <5>2
          <6> QED BY <3>3, <3>5, <6>1 DEF Unseen, R
        <5> QED BY <5>1, <5>2
      <4> QED BY <1>5, <2>1, <3>5, <4>1
    <3> QED BY <1>2, <1>5, <2>4, <3>4, <3>5
  <2> QED BY <2>3, <2>4
<1>6. CASE /\ c \in docks /\ client[c].gen # 0 /\ client'[c].gen = client[c].gen /\ view'[c].hidden = view[c].hidden
           /\ client'[c].hidden = ~ client[c].hidden
           /\ reports'[c] = Append(reports[c], Visibility(~ client[c].hidden))
  <2> DEFINE m == Visibility(~ client[c].hidden)
  <2>1. m \in Report /\ m.kind = "visibility" /\ m.hidden = client'[c].hidden
    BY <1>1, <1>6 DEF Visibility, Report
  <2> HIDE DEF m
  <2>2. Len(reports'[c]) = R + 1 /\ reports'[c][R + 1] = m
    BY <1>1, <1>6, <2>1, AppendProperties DEF m
  <2>3. R + 1 \in 1 .. Len(reports'[c]) /\ \A j \in (R + 1) + 1 .. Len(reports'[c]) : FALSE
    BY <1>1, <2>2
  <2> QED BY <1>6, <2>1, <2>2, <2>3
<1>7. CASE /\ c \in docks /\ reports[c] # <<>> /\ reports'[c] = Tail(reports[c]) /\ client'[c] = client[c]
           /\ IF reports[c][1].kind = "visibility" THEN view'[c].hidden = reports[c][1].hidden
                                                   ELSE view'[c].hidden = view[c].hidden
  <2>1. R > 0 /\ Len(reports'[c]) = R - 1 /\ \A i \in 1 .. R - 1 : reports'[c][i] = reports[c][i + 1]
    BY <1>1, <1>7, Taken
  <2>2. client[c].gen # 0
    BY <1>2, <1>7
  <2> HIDE DEF R
  <2>3. CASE \E i \in 1 .. R : Seen(c, i) /\ Unseen(c, i)
    <3>1. PICK i \in 1 .. R : Seen(c, i) /\ Unseen(c, i)
      BY <2>3
    <3>2. ASSUME NEW j \in i .. Len(reports'[c]) PROVE reports'[c][j].kind # "visibility"
      <4>1. j \in 1 .. R - 1 /\ j + 1 \in i + 1 .. R
        BY <1>1, <2>1
      <4> QED BY <2>1, <3>1, <4>1 DEF Unseen, R
    <3>3. CASE i = 1
      BY <1>7, <2>2, <3>1, <3>2, <3>3 DEF Seen
    <3>4. CASE i # 1
      <4>1. i - 1 \in 1 .. Len(reports'[c]) /\ i - 1 \in 1 .. R - 1 /\ (i - 1) + 1 = i
        BY <1>1, <2>1, <3>4
      <4>2. reports'[c][i - 1] = reports[c][i]
        BY <2>1, <4>1
      <4> QED BY <1>7, <2>2, <3>1, <3>2, <4>1, <4>2 DEF Seen
    <3> QED BY <3>3, <3>4
  <2>4. CASE Unseen(c, 0) /\ view[c].hidden = client[c].hidden
    <3>1. \A j \in 0 + 1 .. R : reports[c][j].kind # "visibility"
      BY <2>4 DEF Unseen, R
    <3>2. 1 \in 0 + 1 .. R /\ \A j \in 1 .. Len(reports'[c]) : j \in 1 .. R - 1 /\ j + 1 \in 0 + 1 .. R
      BY <1>1, <2>1
    <3> QED BY <1>7, <2>1, <2>2, <2>4, <3>1, <3>2
  <2> QED BY <1>2, <1>7, <2>2, <2>3, <2>4
<1> QED BY <1>1, <1>3, <1>4, <1>5, <1>6, <1>7 DEF StepSight

LEMMA MInvInit == Init => MInv
<1> SUFFICES ASSUME Init PROVE MInv
  OBVIOUS
<1>1. \A c \in Conns : ~ HasView(c) /\ acts[c] = <<>> /\ serve[c] = "new"
  BY DEF Init, HasView, NoView
<1>2. docks = {} /\ queue = <<>>
  BY DEF Init
<1> QED BY <1>1, <1>2 DEF MInv, Suits, TapsAreDrawn, Streams, Latest, Sight

LEMMA MStuttering == UNCHANGED vars => (MInv => MInv')
BY DEF vars, busVars, goVars, netVars, MInv, Suits, TapsAreDrawn, Drawn, HasView, Streams, Mended, Mends, Latest, Sight, Seen, Unseen

THEOREM MInvInvariant ==
  ASSUME EveryViewDraws
  PROVE  Spec => [](IInv /\ MInv)
<1>1. IInv /\ MInv /\ [Next]_vars => MInv'
  BY Turns, TapsKept, StreamsKept, SightKept, MStuttering DEF IInv, MInv
<1> QED BY IInvInvariant, MInvInit, <1>1, PTL DEF Spec

\* What a client shows agrees with its session once all between them is handled (bus.go
\* "cannot reorder on the wire", dock.go "dock re-reports, bus re-asserts").
THEOREM ClientsMirrorTheirView ==
  ASSUME EveryViewDraws
  PROVE  Spec => []MirrorsAgree
<1>1. IInv /\ MInv => MirrorsAgree
  <2> SUFFICES ASSUME IInv, MInv, NEW c \in docks
               PROVE  /\ out[c] = <<>> /\ ~ announce =>
                           client[c].gen = view[c].gen /\ client[c].cfg = cfg /\ client[c].layout = view[c].layout
                      /\ out[c] = <<>> /\ reports[c] = <<>> => client[c].hidden = view[c].hidden
    BY DEF MirrorsAgree
  <2>1. out[c] = <<>> => \A n \in {0} : \A i \in n + 1 .. Len(out[c]) : FALSE
    BY EmptySeq
  <2>2. out[c] = <<>> /\ ~ announce => client[c].gen = view[c].gen /\ client[c].cfg = cfg
    BY <2>1 DEF MInv, Latest
  <2>3. out[c] = <<>> /\ ~ announce => client[c].layout = view[c].layout
    BY <2>1, <2>2 DEF MInv, Streams, Mended
  <2>4. out[c] = <<>> /\ reports[c] = <<>> => client[c].hidden = view[c].hidden
    BY EmptySeq DEF MInv, Sight
  <2> QED BY <2>2, <2>3, <2>4
<1> QED BY MInvInvariant, <1>1, PTL

\* An action runs only on the view it was issued on, as it was (bindViewAction "retire queued
\* actions from that view").
THEOREM RetiredNeverRun ==
  ASSUME EveryViewDraws
  PROVE  Spec => RetiredActionsNeverRun
<1>1. IInv /\ MInv /\ [Next]_vars => [Dispatch =>
        LET m == worker'.m IN
        /\ m.conn \in docks /\ ~ view[m.conn].hidden
        /\ m.flips = flips[m.conn]
        /\ m.cfg = cfg => m.layout = view[m.conn].layout ]_vars
  <2> SUFFICES ASSUME IInv, MInv, Next, Dispatch
               PROVE  /\ worker'.m.conn \in docks /\ ~ view[worker'.m.conn].hidden
                      /\ worker'.m.flips = flips[worker'.m.conn]
                      /\ worker'.m.cfg = cfg => worker'.m.layout = view[worker'.m.conn].layout
    OBVIOUS
  <2> QED BY Dispatching DEF IInv, MInv, TapsAreDrawn, Drawn
<1> QED BY MInvInvariant, <1>1, PTL DEF Spec, RetiredActionsNeverRun
=============================================================================
