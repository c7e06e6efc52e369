-------------------------- MODULE ComponentEngine --------------------------
(***************************************************************************)
(* A standalone component (component/engine.go, component.go): a terminal  *)
(* view and one loop that polls a provider, runs the actions tapped on the *)
(* view through a journal of its own, and stops polling while the terminal *)
(* is hidden.  The view hides, shows, taps and quits at any moment; what   *)
(* the loop does is checked against a visibility version it reads without  *)
(* the lock.  The process may crash, and is started again by hand.         *)
(***************************************************************************)
EXTENDS ActionJournal, Sequences

CONSTANTS
  Argvs,        \* what rows may offer to run
  Request,      \* the journal request of a component action
  QueueLimit,   \* cap(e.commands), 16 in the code
  MaxChanges,   \* bound: times the terminal is hidden or shown
  MaxFaults,    \* bound: journal errors
  MaxStarts,    \* bound: times the component is started again
  MaxEvents     \* bound: changes, errors, starts and taps together

\* For TLC: one kind of action.
RowAction == [kind |-> "component-action", source |-> "p", policy |-> "discard-on-restart", payload |-> "run"]
RowActions == {RowAction}

ASSUME ComponentAssumption ==
  /\ Request \in Requests /\ Request.policy = "discard-on-restart"
  /\ QueueLimit \in Nat \ {0} /\ {MaxChanges, MaxFaults, MaxStarts, MaxEvents} \subseteq Nat
  /\ Ids \subseteq Nat   \* numbered in the order in which rand.Text makes them

VARIABLES
  rows, next,          \* the journal
  visible, version,    \* e.visible, e.visibilityVersion
  token,               \* e.visibility holds a token
  ui,                  \* where setVisible stands; it holds e.life at "bump"
  closed, cancelled,   \* e.closed, and the context of the engine
  up,                  \* a process runs
  demand,              \* what the provider was last told
  applied, timer,      \* appliedVisibility; the poll timer is armed
  loop,                \* e.run: where it stands and what it holds
  current,             \* the last update: data, its version, poll error
  sub, commands,       \* submissions, and e.commands
  offered,             \* what the view has been shown in this process
  \* history
  execs,               \* [Ids -> Nat]: times an operation ran
  stale,               \* what is older than the last change of visibility
  disowned,            \* uncertain operations discarded from the command line
  changes, faults, starts

journal == <<rows, next, faults>>
visibility == <<visible, version, token, ui, changes>>
life == <<closed, cancelled, up, starts>>
upkeep == <<demand, applied, timer, current, offered>>
submissions == <<sub, commands>>
vars == <<journal, visibility, life, upkeep, loop, submissions, execs, stale, disowned>>

Starting == [pc |-> "start", op |-> 0, got |-> {}, err |-> FALSE, ver |-> 0, tick |-> FALSE]
NoUpdate == [data |-> {}, gen |-> 0, err |-> FALSE]
NoSubmission == [pc |-> "none", argv |-> {}, gen |-> 0]
Over == [NoSubmission EXCEPT !.pc = "over"]
Fresh == [ops |-> {}, data |-> FALSE, poll |-> FALSE]

Init ==
  /\ rows = EmptyTable /\ next = 1
  /\ visible = TRUE /\ version = 0 /\ token = FALSE /\ ui = "idle"
  /\ closed = FALSE /\ cancelled = FALSE /\ up = TRUE
  /\ demand = FALSE /\ applied = 0 /\ timer = FALSE /\ loop = Starting /\ current = NoUpdate
  /\ sub = [i \in Ids |-> NoSubmission] /\ commands = <<>> /\ offered = {}
  /\ execs = [i \in Ids |-> 0] /\ stale = Fresh /\ disowned = {}
  /\ changes = 0 /\ faults = 0 /\ starts = 0

Taps == Cardinality({i \in Ids : sub[i].pc # "none"})
Budget == changes + faults + starts + Taps < MaxEvents

-----------------------------------------------------------------------------
(* Journal calls: an error may follow the commit, and the context of the    *)
(* engine makes calls fail once it is cancelled.                            *)

Fault == Budget /\ faults < MaxFaults /\ faults' = faults + 1
Refused == Fault \/ (cancelled /\ UNCHANGED faults)

Moved(i, from, to) == CanMove(rows, i, from, to) /\ rows' = Move(rows, i, to) /\ UNCHANGED faults
NotMoved(i, from, to, error) ==
  \/ ~ CanMove(rows, i, from, to) /\ UNCHANGED <<rows, faults>>
  \/ CanMove(rows, i, from, to) /\ error /\ (UNCHANGED rows \/ rows' = Move(rows, i, to))
Attempted(i, from, to, error) == Moved(i, from, to) \/ NotMoved(i, from, to, error)

-----------------------------------------------------------------------------
(* setVisible, by the event loop of the terminal.                           *)

Waiting == {i \in Ids : sub[i].pc \in {"accept", "send", "queued"}}

SetVisible ==
  /\ up /\ ui = "idle" /\ ~ closed /\ Budget /\ changes < MaxChanges
  /\ visible' = ~ visible /\ ui' = "bump" /\ changes' = changes + 1
  /\ UNCHANGED <<journal, version, token, life, upkeep, loop, submissions, execs, stale, disowned>>

\* The version moves under the lock, after the flag; a poll in flight is cancelled.
Bump ==
  /\ ui = "bump" /\ ui' = "signal" /\ version' = version + 1
  /\ stale' = [ops |-> Waiting, data |-> TRUE, poll |-> TRUE]
  /\ UNCHANGED <<journal, visible, token, changes, life, upkeep, loop, submissions, execs, disowned>>

\* Tokens coalesce: the channel holds one.
Signal ==
  /\ ui = "signal" /\ ui' = "idle" /\ token' = TRUE
  /\ UNCHANGED <<journal, visible, version, changes, life, upkeep, loop, submissions, execs, stale, disowned>>

LifeFree == ui # "bump"

-----------------------------------------------------------------------------
(* submit, in a goroutine of its own per tap.                               *)

\* A tap on anything the view has shown; the goroutine may be late.
Submit(i, a) ==
  /\ up /\ Budget /\ LifeFree /\ ~ closed /\ sub[i].pc = "none" /\ a \in offered
  /\ \A j \in Ids : j < i => sub[j].pc # "none"
  /\ sub' = [sub EXCEPT ![i] = [pc |-> "accept", argv |-> a, gen |-> version]]
  /\ UNCHANGED <<journal, visibility, life, upkeep, loop, commands, execs, stale, disowned>>

\* Seeded fault: the generation is read when the operation is handed over.
FaultHandedOver(i) == [sub EXCEPT ![i].pc = "queued", ![i].gen = version]
HandedOver(i) == [sub EXCEPT ![i].pc = "queued"]

SubmitAccept(i) ==
  /\ sub[i].pc = "accept"
  /\ \/ /\ ~ cancelled /\ ~ AtCapacity(rows) /\ UNCHANGED faults
        /\ rows' = Insert(rows, i, next, Request) /\ next' = next + 1
        /\ sub' = [sub EXCEPT ![i].pc = "send"]
     \/ /\ Refused /\ ~ AtCapacity(rows) /\ sub' = [sub EXCEPT ![i] = Over]
        /\ \/ rows' = Insert(rows, i, next, Request) /\ next' = next + 1
           \/ UNCHANGED <<rows, next>>
     \/ AtCapacity(rows) /\ sub' = [sub EXCEPT ![i] = Over] /\ UNCHANGED journal
  /\ UNCHANGED <<visibility, life, upkeep, loop, commands, execs, stale, disowned>>

\* Seeded fault: one too many.
Room == Len(commands) < QueueLimit

\* Seeded fault: an operation that found no room is forgotten.
RefuseFull(i) == Attempted(i, "pending", "discarded", Refused)

\* A select with a default: cancelled leaves the row pending, a full queue
\* discards it.
SubmitSend(i) ==
  /\ sub[i].pc = "send"
  /\ \/ cancelled /\ sub' = [sub EXCEPT ![i] = Over] /\ UNCHANGED <<rows, faults, commands>>
     \/ /\ Room /\ commands' = Append(commands, i)
        /\ sub' = HandedOver(i) /\ UNCHANGED <<rows, faults>>
     \/ /\ ~ Room /\ ~ cancelled /\ sub' = [sub EXCEPT ![i] = Over]
        /\ RefuseFull(i) /\ UNCHANGED commands
  /\ UNCHANGED <<next, visibility, life, upkeep, loop, execs, stale, disowned>>

-----------------------------------------------------------------------------
(* run: start, select and what a visibility token does.                     *)

Goto(pc) == loop' = [loop EXCEPT !.pc = pc]
LoopKeeps == UNCHANGED <<visible, version, ui, changes, life, disowned>>

\* Seeded fault: the timer is left as the pass found it.
FaultSelect == loop' = [Starting EXCEPT !.pc = "select", !.tick = visible] /\ UNCHANGED timer

\* Back to select: timer.Reset, and tick is nil if the terminal is hidden now.
Select == loop' = [Starting EXCEPT !.pc = "select", !.tick = visible] /\ timer' = TRUE

LoopStart ==
  /\ loop.pc = "start" /\ demand' = TRUE /\ Goto("applied")
  /\ LoopKeeps /\ UNCHANGED <<sub, journal, token, applied, timer, current, offered, commands, execs, stale>>

LoopApplied ==
  /\ loop.pc = "applied" /\ applied' = version /\ Goto("poll")
  /\ LoopKeeps /\ UNCHANGED <<sub, journal, token, demand, timer, current, offered, commands, execs, stale>>

\* A command taken after cancellation is dropped; its row stays pending.
TakeCommand ==
  /\ loop.pc = "select" /\ commands # <<>> /\ commands' = Tail(commands)
  /\ IF cancelled THEN Goto("stop") ELSE loop' = [loop EXCEPT !.pc = "see", !.op = Head(commands)]
  /\ LoopKeeps /\ UNCHANGED <<sub, journal, token, upkeep, execs, stale>>

TakeToken ==
  /\ loop.pc = "select" /\ token /\ token' = FALSE /\ Goto("token")
  /\ LoopKeeps /\ UNCHANGED <<sub, journal, upkeep, commands, execs, stale>>

Tick ==
  /\ loop.pc = "select" /\ loop.tick /\ timer /\ timer' = FALSE /\ Goto("poll")
  /\ LoopKeeps /\ UNCHANGED <<sub, journal, token, demand, applied, current, offered, commands, execs, stale>>

TakeStop ==
  /\ loop.pc = "select" /\ cancelled /\ Goto("stop")
  /\ LoopKeeps /\ UNCHANGED <<sub, journal, token, upkeep, commands, execs, stale>>

TokenVersion ==
  /\ loop.pc = "token" /\ applied' = version
  /\ IF version = applied
     THEN loop' = [Starting EXCEPT !.pc = "select", !.tick = visible] ELSE Goto("demand")
  /\ LoopKeeps /\ UNCHANGED <<sub, journal, token, demand, timer, current, offered, commands, execs, stale>>

TokenDemand ==
  /\ loop.pc = "demand" /\ demand' = visible
  /\ IF visible
     THEN Goto("poll") /\ UNCHANGED timer
     ELSE timer' = FALSE /\ loop' = [Starting EXCEPT !.pc = "select", !.tick = visible]
  /\ LoopKeeps /\ UNCHANGED <<sub, journal, token, applied, current, offered, commands, execs, stale>>

\* The deferred calls of run.
LoopStop ==
  /\ loop.pc = "stop" /\ demand' = FALSE /\ Goto("done")
  /\ LoopKeeps /\ UNCHANGED <<sub, journal, token, applied, timer, current, offered, commands, execs, stale>>

-----------------------------------------------------------------------------
(* poll.                                                                    *)

\* Admission and the version are read under e.life.
PollBegin ==
  /\ loop.pc = "poll" /\ LifeFree
  /\ IF visible /\ ~ closed
     THEN /\ loop' = [loop EXCEPT !.pc = "polling", !.ver = version] /\ UNCHANGED timer
          /\ stale' = [stale EXCEPT !.poll = FALSE]
     ELSE Select /\ UNCHANGED stale
  /\ LoopKeeps /\ UNCHANGED <<sub, journal, token, demand, applied, current, offered, commands, execs>>

\* The provider answers or fails, whether or not its context was cancelled,
\* and the flag is read without the lock.
PollReturn ==
  /\ loop.pc = "polling"
  /\ \/ /\ visible /\ UNCHANGED timer
        /\ \/ \E d \in SUBSET Argvs : loop' = [loop EXCEPT !.pc = "compare", !.got = d]
           \/ loop' = [loop EXCEPT !.pc = "compare", !.err = TRUE]
     \/ ~ visible /\ Select
  /\ LoopKeeps /\ UNCHANGED <<sub, journal, token, demand, applied, current, offered, commands, execs, stale>>

\* A failure keeps the last good data.
Answer ==
  IF loop.err THEN [current EXCEPT !.err = TRUE]
  ELSE [data |-> loop.got, gen |-> loop.ver, err |-> FALSE]

PollCompare ==
  /\ loop.pc = "compare" /\ Select
  /\ IF version = loop.ver
     THEN /\ current' = Answer /\ offered' = offered \cup Answer.data
          /\ stale' = IF loop.err THEN stale ELSE [stale EXCEPT !.data = stale.poll]
     ELSE UNCHANGED <<current, offered, stale>>
  /\ LoopKeeps /\ UNCHANGED <<sub, journal, token, demand, applied, commands, execs>>

-----------------------------------------------------------------------------
(* act, then a poll.                                                        *)

ActKeeps == LoopKeeps /\ UNCHANGED <<next, token, upkeep, commands>>
Ended ==
  /\ loop' = [Starting EXCEPT !.pc = "poll"] /\ sub' = [sub EXCEPT ![loop.op] = Over]
  /\ stale' = [stale EXCEPT !.ops = @ \ {loop.op}]

ActSee ==
  /\ loop.pc = "see" /\ Goto(IF visible THEN "check" ELSE "refuse")
  /\ ActKeeps /\ UNCHANGED <<rows, faults, execs, sub, stale>>

Admitted(i) ==
  /\ sub[i].gen = version /\ current.gen = sub[i].gen /\ ~ current.err
  /\ sub[i].argv \in current.data

ActCheck ==
  /\ loop.pc = "check" /\ Goto(IF Admitted(loop.op) THEN "mark" ELSE "refuse")
  /\ ActKeeps /\ UNCHANGED <<rows, faults, execs, sub, stale>>

ActRefuse ==
  /\ loop.pc = "refuse" /\ Attempted(loop.op, "pending", "discarded", Refused) /\ Ended
  /\ ActKeeps /\ UNCHANGED execs

\* Seeded fault: a start that could not be recorded is only logged.
FaultActMark ==
  /\ loop.pc = "mark" /\ Goto("run")
  /\ Attempted(loop.op, "pending", "running", Refused)
  /\ ActKeeps /\ UNCHANGED <<sub, stale, execs>>

ActMark ==
  /\ loop.pc = "mark"
  /\ \/ Moved(loop.op, "pending", "running") /\ ~ cancelled /\ Goto("run") /\ UNCHANGED <<sub, stale>>
     \/ NotMoved(loop.op, "pending", "running", Refused) /\ Ended
  /\ ActKeeps /\ UNCHANGED execs

ActRun ==
  /\ loop.pc = "run" /\ execs' = [execs EXCEPT ![loop.op] = @ + 1] /\ Goto("busy")
  /\ ActKeeps /\ UNCHANGED <<sub, stale, rows, faults>>

\* The handler, the shared owner or the subprocess ends, at the latest by the
\* deadline, and the outcome is saved: with a context of its own, so that neither
\* shutdown nor the deadline of the action loses it.
Outcomes == {"succeeded", "dispatched", "failed", "uncertain"}

ActSave ==
  /\ loop.pc = "busy" /\ Ended
  /\ \E s \in Outcomes : Attempted(loop.op, "running", s, Fault)
  /\ ActKeeps /\ UNCHANGED execs

-----------------------------------------------------------------------------
(* Run: signals, quitting, the end of the process and its next start.       *)

Interrupt ==
  /\ up /\ ~ cancelled /\ cancelled' = TRUE
  /\ UNCHANGED <<journal, visibility, closed, up, starts, upkeep, loop, submissions, execs, stale, disowned>>

\* close, by the thread that ran the event loop.
Close ==
  /\ up /\ ~ closed /\ ui = "idle" /\ closed' = TRUE /\ cancelled' = TRUE
  /\ UNCHANGED <<journal, visibility, up, starts, upkeep, loop, submissions, execs, stale, disowned>>

\* The memory of a process is gone; the next one starts visible.
Gone ==
  /\ visible' = TRUE /\ version' = 0 /\ token' = FALSE /\ ui' = "idle"
  /\ closed' = FALSE /\ cancelled' = FALSE /\ up' = FALSE
  /\ demand' = FALSE /\ applied' = 0 /\ timer' = FALSE /\ loop' = Starting /\ current' = NoUpdate
  /\ sub' = [i \in Ids |-> IF sub[i].pc = "none" THEN NoSubmission ELSE Over]
  /\ commands' = <<>> /\ offered' = {} /\ stale' = Fresh
  /\ UNCHANGED <<journal, changes, starts, execs, disowned>>

\* Seeded faults: close does not wait for submissions; it waits for the queue.
FaultJoinedDrained == loop.pc = "done" /\ commands = <<>>
Joined == loop.pc = "done" /\ \A i \in Ids : sub[i].pc \notin {"accept", "send"}

\* e.submits.Wait, <-e.done, then the journal and the lock are closed.
Exit == closed /\ Joined /\ Gone

Crash == up /\ Gone

\* The lock file admits one process; it recovers the journal before anything runs.
Start ==
  /\ ~ up /\ Budget /\ starts < MaxStarts /\ starts' = starts + 1
  /\ up' = TRUE /\ rows' = Recover(rows)
  /\ UNCHANGED <<next, faults, visibility, closed, cancelled, upkeep, loop, submissions,
                 execs, stale, disowned>>

\* CLI --discard-action opens the journal beside a running component.
CliDiscard(i) ==
  /\ CanMove(rows, i, "uncertain", "discarded") /\ rows' = Move(rows, i, "discarded")
  /\ disowned' = disowned \cup {i}
  /\ UNCHANGED <<next, faults, visibility, life, upkeep, loop, submissions, execs, stale>>

-----------------------------------------------------------------------------
Poll == PollBegin \/ PollReturn \/ PollCompare
Act == ActSee \/ ActCheck \/ ActRefuse \/ ActMark \/ ActRun \/ ActSave
Loop == LoopStart \/ LoopApplied \/ TakeCommand \/ TakeToken \/ Tick \/ TakeStop
        \/ TokenVersion \/ TokenDemand \/ LoopStop \/ Poll \/ Act
Setting == Bump \/ Signal
Submitting(i) == SubmitAccept(i) \/ SubmitSend(i)

Next ==
  \/ SetVisible \/ Setting
  \/ \E i \in Ids, a \in Argvs : Submit(i, a)
  \/ \E i \in Ids : Submitting(i) \/ CliDiscard(i)
  \/ up /\ Loop
  \/ Interrupt \/ Close \/ Exit \/ Crash \/ Start

Spec == Init /\ [][Next]_vars

-----------------------------------------------------------------------------
(* Properties.                                                              *)

Answers == [data : SUBSET Argvs, gen : Nat, err : BOOLEAN]
SubStates == {"none", "accept", "send", "queued", "over"}
LoopStates == {"start", "applied", "select", "token", "demand", "poll", "polling", "compare",
               "see", "check", "refuse", "mark", "run", "busy", "stop", "done"}

\* The queue holds operations handed over, and versions are those of this process.
TypeOK ==
  /\ rows \in [Ids -> Row] /\ next \in Nat
  /\ {visible, token, closed, cancelled, up, demand, timer} \subseteq BOOLEAN
  /\ ui \in {"idle", "bump", "signal"} /\ version \in 0 .. MaxChanges /\ applied \in 0 .. version
  /\ loop.pc \in LoopStates /\ loop.ver \in 0 .. version
  /\ current \in Answers /\ current.gen <= version
  /\ \A i \in Ids : sub[i].pc \in SubStates /\ sub[i].gen \in 0 .. version
  /\ Len(commands) <= QueueLimit /\ \A k \in DOMAIN commands : sub[commands[k]].pc = "queued"
  /\ stale.ops \subseteq Ids /\ disowned \subseteq Ids

\* An action is admitted only if the terminal has not been hidden since it was
\* submitted, and only on data of a poll that began after the last change
\* (architecture-current.md "reject retired results/actions. Showing requires a
\* fresh snapshot"), however the loop, the submission and the terminal interleave.
AdmittedIsCurrent ==
  [][ loop.pc = "check" /\ loop'.pc = "mark" =>
        loop.op \notin stale.ops /\ ~ stale.data ]_vars

\* Crashes, lost answers of the journal and restarts included, an operation runs
\* at most once and its row does not deny it; while nothing was old enough to be
\* pruned, what ran has a row.
OutcomeHonest ==
  \A i \in Ids :
    /\ execs[i] <= 1
    /\ rows[i].state \in Applied => execs[i] = 1
    /\ rows[i].state = "pending" => execs[i] = 0
    /\ rows[i].state = Absent /\ next - 1 <= RecentHistory => execs[i] = 0
    /\ rows[i].state = "discarded" /\ i \notin disowned => execs[i] = 0

\* What the journal says is what was done, in states of the types (action.go, engine.go).
OutcomesHonest == TypeOK /\ OutcomeHonest

\* A process that ends in order leaves no submission at work on its journal and
\* has recorded the outcome of what it ran ("Preserve the outcome even when
\* shutdown or the action deadline fired").
EndsInOrder ==
  [][ Exit =>
        \A i \in Ids :
          /\ sub[i].pc \notin {"accept", "send"}
          /\ execs[i] > 0 /\ rows[i].state = "running" => faults > 0 ]_vars

\* No step admits what was retired or ends the process before its submissions (engine.go).
StepsInOrder == AdmittedIsCurrent /\ EndsInOrder

-----------------------------------------------------------------------------
(* Fairness: goroutines run, providers and actions end by their deadlines,   *)
(* select neglects no ready channel, and the program ends once its context   *)
(* has.  Nobody has to start it again.                                       *)

Fairness ==
  /\ WF_vars(Setting) /\ \A i \in Ids : WF_vars(Submitting(i))
  /\ WF_vars(up /\ Loop) /\ SF_vars(TakeCommand) /\ SF_vars(TakeStop)
  /\ WF_vars(cancelled /\ Close) /\ WF_vars(Exit)

FairSpec == Spec /\ Fairness

\* A terminal that stays visible is polled again and again: no order of tokens,
\* ticks and actions leaves the timer stopped.
PollsGoOn == []<>(loop.pc = "polling" \/ ~ visible \/ cancelled \/ ~ up)

\* A committed action is settled, unless the process ends first or the journal
\* fails: neither the queue, nor visibility, nor an endless run of polls keeps it.
ActionsSettle ==
  \A i \in Ids : rows[i].state \in {"pending", "running"} ~>
                   \/ rows[i].state \notin {"pending", "running"}
                   \/ cancelled \/ ~ up \/ faults > 0

\* A component told to end does, whatever is in flight.
EndsOnRequest == cancelled ~> ~ up

\* Neither an action nor the end of the process waits for ever (engine.go).
Progress == ActionsSettle /\ EndsOnRequest

\* A provider is told that nobody watches (architecture-current.md "Hidden
\* standalone view: ... withdraw demand").
DemandWithdrawn == up /\ ~ visible ~> ~ demand \/ visible
=============================================================================
