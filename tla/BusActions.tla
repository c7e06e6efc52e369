----------------------------- MODULE BusActions -----------------------------
(***************************************************************************)
(* Durable actions of the HUD bus (internal/bus/actions.go, input.go and   *)
(* the journal they share).  Control connections run executeCtl, dock      *)
(* connections queue input or discard it, one input worker drains the      *)
(* queue, and after a crash the next bus recovers the journal before it    *)
(* serves anyone.  Every journal call is one transaction; a process        *)
(* context switch, a crash or a storage error may fall between any two.    *)
(***************************************************************************)
EXTENDS ActionJournal, Sequences

CONSTANTS
  Conns,        \* goroutines serving control connections
  Docks,        \* goroutines serving dock connections
  InputWorker,  \* the goroutine that drains b.input
  Boot,         \* the goroutine that runs Run() before workers start
  Free,         \* desiredMu is not held
  NoOp,         \* the actor holds no message
  Messages,     \* [id, req, key] a client may send, in any number of copies
  Keys,         \* desiredStateKey values: "layout", "theme", "caffeinate"
  NoKey,        \* desiredStateKey = ""
  DurableKeys,  \* keys whose value is a state file restored at start
  QueueLimit,   \* cap(b.input)
  MaxSends,     \* bound: messages received in a behaviour, copies included
  MaxFaults,    \* bound: journal errors in a behaviour
  MaxCrashes,   \* bound: crashes in a behaviour
  MaxEvents     \* bound: messages, journal errors and crashes together

Actors == Conns \cup Docks \cup {InputWorker, Boot}

\* A message is its operation ID, the journal request made from it and its key.
ASSUME ActionsAssumption ==
  /\ \A m \in Messages : m.id \in Ids /\ m.req \in Requests /\ m.key \in Keys \cup {NoKey}
  /\ \A m, n \in Messages : m.req = n.req => m.key = n.key
  /\ NoKey \notin Keys /\ DurableKeys \subseteq Keys
  /\ NoOp \notin Messages /\ Free \notin Actors
  /\ Conns \cap Docks = {} /\ InputWorker # Boot
  /\ {InputWorker, Boot} \cap (Conns \cup Docks) = {}
  /\ QueueLimit \in Nat \ {0} /\ MaxSends \in Nat /\ MaxFaults \in Nat /\ MaxCrashes \in Nat
  /\ MaxEvents \in Nat

VARIABLES
  rows,       \* the journal table
  next,       \* AUTOINCREMENT: the next acceptance sequence
  saved,      \* [Keys -> Nat]: acceptance sequence whose value the key last took;
              \*   for durable keys, the content of the state file
  live,       \* [Keys -> Nat]: the same for the value the running bus serves
  phase,      \* "down", "boot" or "up"
  journalErr, \* openActions failed: this bus refuses durable actions
  pc, op,     \* per actor: where it stands, and the message in its hands
  verdict,    \* per actor: outcome of the handler, not yet in the journal
  desiredMu,  \* holder of the desired-state lock
  queue,      \* b.input
  reaping,    \* messages whose subprocess runs on behind the input worker
  cursor,     \* recovery: sequence of the last record handled
  records,    \* recovery: the table as List returned it
  \* history
  execs,      \* [Ids -> Nat]: handler runs of the operation a row records
  execsHere,  \* [Ids -> Nat]: those in this lifetime of the bus
  reported,   \* <<sequence, state>> pairs that control replies have claimed
  disowned,   \* sequences of operations discarded by hand after review
  sends, faults, crashes,
  faulted     \* a journal call failed in this lifetime

journal == <<rows, next, execs, execsHere, faults, faulted>>
desired == <<saved, live>>
recovery == <<cursor, records>>
vars == <<journal, desired, phase, journalErr, pc, op, verdict, desiredMu, queue,
          reaping, recovery, reported, disowned, sends, crashes>>

Init ==
  /\ rows = EmptyTable /\ next = 1
  /\ saved = [k \in Keys |-> 0] /\ live = [k \in Keys |-> 0]
  /\ phase = "up" /\ journalErr = FALSE
  /\ pc = [a \in Actors |-> "idle"] /\ op = [a \in Actors |-> NoOp]
  /\ verdict = [a \in Actors |-> "succeeded"]
  /\ desiredMu = Free /\ queue = <<>> /\ reaping = {}
  /\ cursor = 0 /\ records = EmptyTable
  /\ execs = [i \in Ids |-> 0] /\ execsHere = [i \in Ids |-> 0]
  /\ reported = {} /\ disowned = {}
  /\ sends = 0 /\ faults = 0 /\ crashes = 0 /\ faulted = FALSE

Budget == sends + faults + crashes < MaxEvents

-----------------------------------------------------------------------------
(* Journal calls.  A call that returns an error may have committed: the     *)
(* deadline of actionContext can expire after the commit.                   *)

\* A row that appears or goes takes its history with it.
SameRow(table, i) == table[i].seq = rows[i].seq

Commit(table, n) ==
  /\ rows' = table /\ next' = n
  /\ execs' = [i \in Ids |-> IF SameRow(table, i) THEN execs[i] ELSE 0]
  /\ execsHere' = [i \in Ids |-> IF SameRow(table, i) THEN execsHere[i] ELSE 0]

Saved(table, n) == Commit(table, n) /\ UNCHANGED <<faults, faulted>>

Failed(table, n) ==
  /\ Budget /\ faults < MaxFaults /\ faults' = faults + 1 /\ faulted' = TRUE
  /\ Commit(table, n) \/ UNCHANGED <<rows, next, execs, execsHere>>

\* Transition as a call: it succeeds, it fails, or the compare-and-set refuses.
Transitioned(i, from, to) == CanMove(rows, i, from, to) /\ Saved(Move(rows, i, to), next)

NotTransitioned(i, from, to) ==
  \/ ~ CanMove(rows, i, from, to) /\ UNCHANGED journal
  \/ CanMove(rows, i, from, to) /\ Failed(Move(rows, i, to), next)

\* acceptAction: fresh means a new row, or an old one nobody has started.
AcceptNew(m) ==
  /\ ~ journalErr /\ ~ Duplicate(rows, m.id) /\ ~ AtCapacity(rows)
  /\ Saved(Insert(rows, m.id, next, m.req), next + 1)
AcceptPending(m) ==
  /\ ~ journalErr /\ rows[m.id].state = "pending" /\ rows[m.id].req = m.req
  /\ UNCHANGED journal
AcceptFresh(m) == AcceptNew(m) \/ AcceptPending(m)

AcceptKnown(m) ==
  /\ ~ journalErr /\ rows[m.id].state \notin {Absent, "pending"} /\ rows[m.id].req = m.req
  /\ UNCHANGED journal

AcceptError(m) ==
  \/ /\ \/ journalErr
        \/ Conflicts(rows, m.id, m.req)
        \/ ~ Duplicate(rows, m.id) /\ AtCapacity(rows)
     /\ UNCHANGED journal
  \/ /\ ~ journalErr /\ ~ Duplicate(rows, m.id) /\ ~ AtCapacity(rows)
     /\ Failed(Insert(rows, m.id, next, m.req), next + 1)

-----------------------------------------------------------------------------
(* Handlers.  handleCtl on a desired-state message refuses it, applies it,  *)
(* or saves it without applying it everywhere: reconciliationError and      *)
(* PublishedError make the outcome uncertain.                               *)

Ran(i) == /\ execs' = [execs EXCEPT ![i] = @ + 1]
          /\ execsHere' = [execsHere EXCEPT ![i] = @ + 1]

Choose(k, n, applied) ==
  /\ saved' = [saved EXCEPT ![k] = n]
  /\ live' = IF applied THEN [live EXCEPT ![k] = n] ELSE live

\* Seeded fault: a saved but unapplied value is reported as a plain failure.
FaultApplyDefinite(m, v) ==
  \/ v = "failed" /\ m.key \in DurableKeys /\ Choose(m.key, rows[m.id].seq, FALSE)
  \/ v = "succeeded" /\ Choose(m.key, rows[m.id].seq, TRUE)

ApplyDesired(m, v) ==
  \/ v = "failed" /\ UNCHANGED desired
  \/ v = "succeeded" /\ Choose(m.key, rows[m.id].seq, TRUE)
  \/ /\ v = "uncertain" /\ m.key \in DurableKeys
     /\ \E applied \in BOOLEAN : Choose(m.key, rows[m.id].seq, applied)

\* executeCtl records an accepted Reno transition as dispatched.
ApplyOther(m, v) ==
  /\ v \in IF m.req.source = "reno" THEN {"dispatched", "failed", "uncertain"}
                                    ELSE {"succeeded", "failed"}
  /\ UNCHANGED desired

HandleCtl(a, v) ==
  /\ IF op[a].key = NoKey THEN ApplyOther(op[a], v) ELSE ApplyDesired(op[a], v)
  /\ Ran(op[a].id)
  /\ verdict' = [verdict EXCEPT ![a] = v]

-----------------------------------------------------------------------------
(* executeCtl on a control connection.                                      *)

Goto(a, there) == pc' = [pc EXCEPT ![a] = there]

\* The reply ends the call: the lock is released by its defer.
Reply(a, states) ==
  /\ pc' = [pc EXCEPT ![a] = "idle"]
  /\ op' = [op EXCEPT ![a] = NoOp]
  /\ desiredMu' = IF desiredMu = a THEN Free ELSE desiredMu
  /\ reported' = reported \cup {<<rows[op[a].id].seq, s>> : s \in states}

CtlReceive(a, m) ==
  /\ phase = "up" /\ a \in Conns /\ pc[a] = "idle"
  /\ m.req.kind = "ctl" /\ Budget /\ sends < MaxSends /\ sends' = sends + 1
  /\ op' = [op EXCEPT ![a] = m]
  /\ Goto(a, IF m.key = NoKey THEN "accept" ELSE "lock")
  /\ UNCHANGED <<journal, desired, phase, journalErr, verdict, desiredMu, queue,
                 reaping, recovery, reported, disowned, crashes>>

CtlLock(a) ==
  /\ a \in Conns /\ pc[a] = "lock" /\ desiredMu = Free
  /\ desiredMu' = a /\ Goto(a, "accept")
  /\ UNCHANGED <<journal, desired, phase, journalErr, op, verdict, queue,
                 reaping, recovery, reported, disowned, sends, crashes>>

CtlAccept(a) ==
  /\ a \in Conns /\ pc[a] = "accept"
  /\ \/ /\ AcceptFresh(op[a])
        /\ Goto(a, "start") /\ UNCHANGED <<op, desiredMu, reported>>
     \/ /\ AcceptKnown(op[a])
        /\ Reply(a, {rows[op[a].id].state})
     \/ /\ AcceptError(op[a])
        /\ Reply(a, {})
  /\ UNCHANGED <<desired, phase, journalErr, verdict, queue, reaping, recovery,
                 disowned, sends, crashes>>

CtlStart(a) ==
  /\ a \in Conns /\ pc[a] = "start"
  /\ \/ /\ Transitioned(op[a].id, "pending", "running")
        /\ Goto(a, "apply") /\ UNCHANGED <<op, desiredMu, reported>>
     \/ /\ NotTransitioned(op[a].id, "pending", "running")
        /\ Reply(a, {})
  /\ UNCHANGED <<desired, phase, journalErr, verdict, queue, reaping, recovery,
                 disowned, sends, crashes>>

CtlApply(a) ==
  /\ a \in Conns /\ pc[a] = "apply"
  /\ \E v \in States : HandleCtl(a, v)
  /\ Goto(a, "settle")
  /\ UNCHANGED <<rows, next, faults, faulted, phase, journalErr, op, desiredMu, queue, reaping, recovery,
                 reported, disowned, sends, crashes>>

\* Seeded fault: the outcome is reported whether or not it was saved.
FaultSettleTrusting(a) ==
  /\ a \in Conns /\ pc[a] = "settle"
  /\ \/ Transitioned(op[a].id, "running", verdict[a])
     \/ NotTransitioned(op[a].id, "running", verdict[a])
  /\ Reply(a, {verdict[a]})
  /\ UNCHANGED <<desired, phase, journalErr, verdict, queue, reaping, recovery,
                 disowned, sends, crashes>>

\* An outcome that cannot be saved is reported as uncertain.
CtlSettle(a) ==
  /\ a \in Conns /\ pc[a] = "settle"
  /\ \/ /\ Transitioned(op[a].id, "running", verdict[a])
        /\ Reply(a, {verdict[a]})
     \/ /\ NotTransitioned(op[a].id, "running", verdict[a])
        /\ Reply(a, {"uncertain"})
  /\ UNCHANGED <<desired, phase, journalErr, verdict, queue, reaping, recovery,
                 disowned, sends, crashes>>

\* The discard-action verb: an operator resolves an uncertain operation.
DiscardReviewed(i) ==
  /\ phase = "up"
  /\ Transitioned(i, "uncertain", "discarded")
  /\ disowned' = disowned \cup {rows[i].seq}
  /\ UNCHANGED <<desired, phase, journalErr, pc, op, verdict, desiredMu, queue,
                 reaping, recovery, reported, sends, crashes>>

-----------------------------------------------------------------------------
(* Input.  A dock connection whose lease holds and whose event fits the     *)
(* queue enqueues it; otherwise discardInput records the refusal.           *)

DockReceive(d, m) ==
  /\ phase = "up" /\ d \in Docks /\ pc[d] = "idle"
  /\ m.req.kind # "ctl" /\ Budget /\ sends < MaxSends /\ sends' = sends + 1
  /\ \/ Len(queue) < QueueLimit /\ queue' = Append(queue, m) /\ UNCHANGED <<pc, op>>
     \/ /\ op' = [op EXCEPT ![d] = m] /\ Goto(d, "accept") /\ UNCHANGED queue
  /\ UNCHANGED <<journal, desired, phase, journalErr, verdict, desiredMu,
                 reaping, recovery, reported, disowned, crashes>>

Drop(a) == pc' = [pc EXCEPT ![a] = "idle"] /\ op' = [op EXCEPT ![a] = NoOp]

DockAccept(d) ==
  /\ d \in Docks /\ pc[d] = "accept"
  /\ \/ AcceptFresh(op[d]) /\ Goto(d, "start") /\ UNCHANGED op
     \/ (AcceptKnown(op[d]) \/ AcceptError(op[d])) /\ Drop(d)
  /\ UNCHANGED <<desired, phase, journalErr, verdict, desiredMu, queue, reaping,
                 recovery, reported, disowned, sends, crashes>>

DockDiscard(d) ==
  /\ d \in Docks /\ pc[d] = "start"
  /\ \/ Transitioned(op[d].id, "pending", "discarded")
     \/ NotTransitioned(op[d].id, "pending", "discarded")
  /\ Drop(d)
  /\ UNCHANGED <<desired, phase, journalErr, verdict, desiredMu, queue, reaping,
                 recovery, reported, disowned, sends, crashes>>

InputTake ==
  /\ pc[InputWorker] = "idle" /\ queue # <<>>
  /\ op' = [op EXCEPT ![InputWorker] = Head(queue)]
  /\ queue' = Tail(queue)
  /\ Goto(InputWorker, "accept")
  /\ UNCHANGED <<journal, desired, phase, journalErr, verdict, desiredMu, reaping,
                 recovery, reported, disowned, sends, crashes>>

InputAccept ==
  /\ pc[InputWorker] = "accept"
  /\ \/ AcceptFresh(op[InputWorker]) /\ Goto(InputWorker, "start") /\ UNCHANGED op
     \/ (AcceptKnown(op[InputWorker]) \/ AcceptError(op[InputWorker])) /\ Drop(InputWorker)
  /\ UNCHANGED <<desired, phase, journalErr, verdict, desiredMu, queue, reaping,
                 recovery, reported, disowned, sends, crashes>>

InputStart ==
  /\ pc[InputWorker] = "start"
  /\ \/ /\ Transitioned(op[InputWorker].id, "pending", "running")
        /\ Goto(InputWorker, "apply") /\ UNCHANGED op
     \/ /\ NotTransitioned(op[InputWorker].id, "pending", "running")
        /\ Drop(InputWorker)
  /\ UNCHANGED <<desired, phase, journalErr, verdict, desiredMu, queue, reaping,
                 recovery, reported, disowned, sends, crashes>>

\* Seeded fault: the subprocess is started and nobody waits for it.
FaultInputUnreaped ==
  /\ pc[InputWorker] = "apply"
  /\ Ran(op[InputWorker].id) /\ Drop(InputWorker)
  /\ UNCHANGED <<rows, next, faults, faulted, desired, phase, journalErr, verdict, reaping,
                 desiredMu, queue, recovery, reported, disowned, sends, crashes>>

\* handleRowAct and handleAction: a stale, debounced or refused event runs
\* nothing; a module transition runs here; a subprocess is left to a reaper.
InputApply ==
  /\ pc[InputWorker] = "apply"
  /\ \/ /\ \E v \in {"discarded", "failed"} : verdict' = [verdict EXCEPT ![InputWorker] = v]
        /\ Goto(InputWorker, "settle") /\ UNCHANGED <<op, reaping, execs, execsHere>>
     \/ /\ \E v \in {"succeeded", "dispatched", "failed", "uncertain"} :
             verdict' = [verdict EXCEPT ![InputWorker] = v]
        /\ Ran(op[InputWorker].id)
        /\ Goto(InputWorker, "settle") /\ UNCHANGED <<op, reaping>>
     \/ /\ Ran(op[InputWorker].id)
        /\ reaping' = reaping \cup {op[InputWorker]}
        /\ Drop(InputWorker) /\ UNCHANGED verdict
  /\ UNCHANGED <<rows, next, faults, faulted, desired, phase, journalErr, desiredMu, queue, recovery,
                 reported, disowned, sends, crashes>>

InputSettle ==
  /\ pc[InputWorker] = "settle"
  /\ \/ Transitioned(op[InputWorker].id, "running", verdict[InputWorker])
     \/ NotTransitioned(op[InputWorker].id, "running", verdict[InputWorker])
  /\ Drop(InputWorker)
  /\ UNCHANGED <<desired, phase, journalErr, verdict, desiredMu, queue, reaping,
                 recovery, reported, disowned, sends, crashes>>

\* reapAction: the exit status, or the signal that killed it, is the outcome.
Reap(m) ==
  /\ m \in reaping
  /\ \E v \in {"succeeded", "failed", "uncertain"} :
       Transitioned(m.id, "running", v) \/ NotTransitioned(m.id, "running", v)
  /\ reaping' = reaping \ {m}
  /\ UNCHANGED <<desired, phase, journalErr, pc, op, verdict, desiredMu, queue,
                 recovery, reported, disowned, sends, crashes>>

-----------------------------------------------------------------------------
(* Crash and restart.                                                       *)

Crash ==
  /\ phase # "down" /\ Budget /\ crashes < MaxCrashes
  /\ crashes' = crashes + 1
  /\ phase' = "down" /\ journalErr' = FALSE /\ faulted' = FALSE
  /\ pc' = [a \in Actors |-> "idle"] /\ op' = [a \in Actors |-> NoOp]
  /\ verdict' = [a \in Actors |-> "succeeded"]
  /\ desiredMu' = Free /\ queue' = <<>> /\ reaping' = {}
  /\ live' = [k \in Keys |-> 0]
  /\ cursor' = 0 /\ records' = EmptyTable
  /\ execsHere' = [i \in Ids |-> 0]
  /\ UNCHANGED <<rows, next, execs, faults, saved, reported, disowned, sends>>

\* openActions and restoreTheme, in the order of Run.
Open ==
  /\ phase = "down"
  /\ phase' = "boot"
  /\ \/ Saved(Recover(rows), next) /\ journalErr' = FALSE
     \/ Failed(Recover(rows), next) /\ journalErr' = TRUE
  /\ live' = [k \in Keys |-> IF k \in DurableKeys THEN saved[k] ELSE 0]
  /\ Goto(Boot, "list")
  /\ UNCHANGED <<saved, op, verdict, desiredMu, queue, reaping, recovery,
                 reported, disowned, sends, crashes>>

KeyOf(req) == (CHOOSE m \in Messages : m.req = req).key
\* Seeded fault: only pending rows count as newer.
FaultPendingOnly(i) == records[i].state = "pending"

Undecided(i) == records[i].state \notin {Absent, "failed", "discarded"}

BootList ==
  /\ phase = "boot" /\ pc[Boot] = "list"
  /\ \/ /\ ~ journalErr
        /\ records' = rows
        /\ Goto(Boot, "scan") /\ UNCHANGED <<phase, journal>>
     \/ journalErr /\ phase' = "up" /\ Goto(Boot, "idle") /\ UNCHANGED <<records, journal>>
     \/ /\ ~ journalErr /\ Failed(rows, next) /\ phase' = "up"
        /\ Goto(Boot, "idle") /\ UNCHANGED records
  /\ UNCHANGED <<desired, journalErr, op, verdict, desiredMu, queue, reaping, cursor,
                 reported, disowned, sends, crashes>>

\* Recover leaves only desired-state rows pending; anything else would be
\* marked uncertain here, which no journal written by this code contains.
ToReconcile == {i \in Ids : records[i].state = "pending" /\ records[i].seq > cursor}
NextToReconcile(i) ==
  i \in ToReconcile /\ \A j \in ToReconcile : records[i].seq <= records[j].seq

\* latest[key] > record.Sequence
Superseded(i) ==
  \E j \in Ids : /\ Undecided(j) /\ records[j].seq > records[i].seq
                 /\ KeyOf(records[j].req) = KeyOf(records[i].req)

BootSupersede(i) ==
  /\ \/ Transitioned(i, "pending", "discarded")
     \/ NotTransitioned(i, "pending", "discarded")
  /\ cursor' = records[i].seq
  /\ UNCHANGED <<desired, phase, journalErr, pc, op, verdict, desiredMu, queue, reaping,
                 records, reported, disowned, sends, crashes>>

BootStart(i) ==
  /\ \/ /\ Transitioned(i, "pending", "running")
        /\ \E m \in Messages : m.id = i /\ m.req = records[i].req /\ op' = [op EXCEPT ![Boot] = m]
        /\ Goto(Boot, "apply")
     \/ NotTransitioned(i, "pending", "running") /\ UNCHANGED <<pc, op>>
  /\ cursor' = records[i].seq
  /\ UNCHANGED <<desired, phase, journalErr, verdict, desiredMu, queue, reaping,
                 records, reported, disowned, sends, crashes>>

\* One turn of the loop over the records, oldest first.
BootReconcile(i) ==
  /\ phase = "boot" /\ pc[Boot] = "scan" /\ NextToReconcile(i)
  /\ IF Superseded(i) THEN BootSupersede(i) ELSE BootStart(i)

BootApply ==
  /\ pc[Boot] = "apply"
  /\ \E v \in States : HandleCtl(Boot, v)
  /\ Goto(Boot, "settle")
  /\ UNCHANGED <<rows, next, faults, faulted, phase, journalErr, op, desiredMu, queue, reaping, recovery,
                 reported, disowned, sends, crashes>>

BootSettle ==
  /\ pc[Boot] = "settle"
  /\ \/ Transitioned(op[Boot].id, "running", verdict[Boot])
     \/ NotTransitioned(op[Boot].id, "running", verdict[Boot])
  /\ pc' = [pc EXCEPT ![Boot] = "scan"] /\ op' = [op EXCEPT ![Boot] = NoOp]
  /\ UNCHANGED <<desired, phase, journalErr, verdict, desiredMu, queue, reaping,
                 recovery, reported, disowned, sends, crashes>>

BootDone ==
  /\ phase = "boot" /\ pc[Boot] = "scan" /\ ToReconcile = {}
  /\ phase' = "up" /\ Goto(Boot, "idle")
  /\ UNCHANGED <<journal, desired, journalErr, op, verdict, desiredMu, queue, reaping,
                 recovery, reported, disowned, sends, crashes>>

-----------------------------------------------------------------------------
CtlStep(a) == CtlLock(a) \/ CtlAccept(a) \/ CtlStart(a) \/ CtlApply(a) \/ CtlSettle(a)
DockStep(d) == DockAccept(d) \/ DockDiscard(d)
InputStep == InputTake \/ InputAccept \/ InputStart \/ InputApply \/ InputSettle
BootStep == \/ Open \/ BootList \/ BootApply \/ BootSettle \/ BootDone
            \/ \E i \in Ids : BootReconcile(i)

Next ==
  \/ \E a \in Conns, m \in Messages : CtlReceive(a, m)
  \/ \E a \in Conns : CtlStep(a)
  \/ \E i \in Ids : DiscardReviewed(i)
  \/ \E d \in Docks, m \in Messages : DockReceive(d, m)
  \/ \E d \in Docks : DockStep(d)
  \/ InputStep
  \/ \E m \in Messages : Reap(m)
  \/ Crash
  \/ BootStep

Spec == Init /\ [][Next]_vars

-----------------------------------------------------------------------------
(* Properties.                                                              *)

PcStates == {"idle", "lock", "accept", "start", "apply", "settle", "list", "scan"}

\* The shape of the state: every variable stays in its domain.
TypeOK ==
  /\ rows \in [Ids -> Row] /\ next \in Nat \ {0}
  /\ saved \in [Keys -> Nat] /\ live \in [Keys -> Nat]
  /\ phase \in {"down", "boot", "up"} /\ journalErr \in BOOLEAN
  /\ pc \in [Actors -> PcStates] /\ op \in [Actors -> Messages \cup {NoOp}]
  /\ verdict \in [Actors -> States]
  /\ desiredMu \in Actors \cup {Free}
  /\ queue \in Seq(Messages) /\ reaping \subseteq Messages
  /\ cursor \in Nat /\ records \in [Ids -> Row]
  /\ execs \in [Ids -> Nat] /\ execsHere \in [Ids -> Nat]
  /\ reported \subseteq Nat \X States
  /\ disowned \subseteq Nat
  /\ sends \in Nat /\ faults \in Nat /\ crashes \in Nat /\ faulted \in BOOLEAN

\* At most one handler run per operation: duplicates on several connections,
\* lost replies, a queued copy racing a discarded one and a restart never run
\* an operation twice.  Only explicit desired-state requests run again, and
\* those at most once per bus (journal.go Accept, Transition, Recover).
AtMostOnce ==
  \A i \in Ids :
    /\ execsHere[i] <= 1
    /\ rows[i].state # Absent /\ rows[i].req.policy # "reconcile" => execs[i] <= 1

\* The journal does not lie about transient work: an applied outcome has a run
\* behind it, and an input recorded as discarded (and not discarded by hand
\* after its outcome was lost) never ran.
OutcomeHonest ==
  \A i \in Ids :
    /\ rows[i].state \in Applied => execs[i] >= 1
    /\ /\ rows[i].state = "discarded"
       /\ rows[i].req.policy # "reconcile"
       /\ rows[i].seq \notin disowned
       => execs[i] = 0

\* A definite outcome told to a control client is the operation's last word:
\* no restart, retry or late writer turns it into another (executeCtl reports
\* uncertain when the outcome could not be saved).
ReportedOutcomeStands ==
  \A i \in Ids, s \in Terminal :
    rows[i].state # Absent /\ <<rows[i].seq, s>> \in reported => rows[i].state = s

\* While every journal call of this bus has succeeded, a running row has a
\* goroutine that will settle it: none is forgotten between queue, handler and
\* reaper, nor carried over from the previous bus.
NoOrphanedRun ==
  phase # "down" /\ ~ faulted =>
    \A i \in Ids : rows[i].state = "running" =>
      \/ \E a \in Actors : pc[a] \in {"apply", "settle"} /\ op[a].id = i
      \/ \E m \in reaping : m.id = i

\* A key served with a value other than the one its state file holds is always
\* explained by the newest application: unfinished, of uncertain outcome, or
\* dismissed by hand (theme.go "keep the same desired state in memory and on
\* disk"; setLayout saves before it revalidates).
DivergenceIsRecorded ==
  phase = "up" =>
    \A k \in DurableKeys : live[k] # saved[k] =>
      \/ saved[k] \in disowned
      \/ \E i \in Ids : rows[i].seq = saved[k] /\ rows[i].state \in {"running", "uncertain"}

\* Recovery replaces a key's value by an older choice only when the newer one
\* does not stand: its record failed, was discarded or is gone, and no client
\* was ever told that it succeeded (recoverActions: "an unresolved older
\* request must not overwrite a newer completed or still-pending choice").
\* The record of a choice that was applied can fail: applied, not yet recorded,
\* and refused when the next bus runs it again.
RecoveryKeepsNewestChoice ==
  [][ phase = "boot" /\ phase' = "boot" =>
        \A k \in Keys : saved'[k] < saved[k] =>
          /\ \A i \in Ids : rows[i].seq = saved[k] => rows[i].state \in {"failed", "discarded"}
          /\ \A s \in Applied : <<saved[k], s>> \notin reported ]_vars

\* Pruning takes neither unresolved work nor the last proof that an unresolved
\* desired-state request was overtaken (Accept's DELETE).
PruningIsSafe ==
  [][ \A i \in Ids :
        /\ rows[i].state \in Unresolved => rows'[i].seq = rows[i].seq
        /\ /\ rows[i].state \in {"pending", "running"}
           /\ rows[i].req.policy = "reconcile"
           /\ \E j \in Ids : /\ rows[j].state \in Applied /\ rows[j].seq > rows[i].seq
                             /\ SameStream(rows[i].req, rows[j].req)
           => \E j \in Ids : /\ rows'[j].state \in Applied /\ rows'[j].seq > rows[i].seq
                             /\ SameStream(rows[i].req, rows'[j].req) ]_vars

\* In a running bus the value of a key follows acceptance order.  The comment
\* in recoverActions says so of desired state; a retry of a request that was
\* accepted and never started breaks it.
ValuesFollowAcceptance ==
  [][ phase = "up" => \A k \in Keys : saved'[k] >= saved[k] ]_vars

-----------------------------------------------------------------------------
(* Fairness: goroutines keep running and launchd restarts the bus.  Go's    *)
(* mutex hands itself to a waiter that starves, hence SF on CtlLock.        *)

Fairness ==
  /\ \A a \in Conns : WF_vars(CtlStep(a)) /\ SF_vars(CtlLock(a))
  /\ \A d \in Docks : WF_vars(DockStep(d))
  /\ WF_vars(InputStep) /\ WF_vars(BootStep)
  /\ \A m \in Messages : WF_vars(Reap(m))

FairSpec == Spec /\ Fairness

\* Every committed operation is eventually resolved, through crashes too, as
\* long as journal calls succeed.
AcceptedIsResolved ==
  \A i \in Ids : rows[i].state \in {"pending", "running"}
                   ~> rows[i].state \notin {"pending", "running"} \/ faults > 0
=============================================================================
