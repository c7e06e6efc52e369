----------------------------- MODULE KeyFlash -----------------------------
(* Flashing the keyboard: the status row of kuiboard that asks for it, the  *)
(* journalled job (flashjob/job.go) with its detached worker, the pipeline  *)
(* the worker runs (flash/flash.go) and the generations store.  Terminals,  *)
(* workers and the command line are processes: the lock file and the        *)
(* journal are all they share.                                              *)
EXTENDS Naturals, Sequences, FiniteSets, SequencesExt

CONSTANTS
  Terms,      \* kuiboard terminals
  Revs,       \* revisions of the layout
  MaxJobs, MaxHides, MaxCalls, MaxTrouble  \* bounds: jobs, hides and shows, calls of a
              \* terminal that are under way at a time, failures of all kinds

\* A revision is no state of the board nor of a prompt; a terminal is not the command line.
FlashAssumption == Revs \cap {"none", "dfu"} = {} /\ "cli" \notin Terms /\ MaxJobs \in Nat

None == "none"
Cli == "cli"   \* kuiboard --flash-status
Ids == 1..MaxJobs
Free == 0
Inspector == MaxJobs + 1
Unresolved == {"pending", "running", "uncertain"}

VARIABLES
  jobs,      \* the journal: target, state, old (the startup grace has passed)
  lock,      \* who holds owner.lock: Free, an Inspector, or a job
  at,        \* the worker of a job
  prev,      \* the identity a worker resolved
  verdict,   \* what its pipeline returned
  board,     \* the revision on the board, or "dfu"
  image,     \* what the bootloader was given
  archive,   \* revisions with an archived firmware that matches its md5
  gens,      \* the generations store
  row,       \* the status row of each terminal
  latest,    \* the newest revision Oryx has
  calls,     \* commands and messages of the terminals that are under way
  zapps,     \* history: how often zapp was run for a job
  proven,    \* history: jobs whose target the board reported to their worker
  prompts,   \* history: the revision shown when the job was confirmed
  trouble
vars == <<jobs, lock, at, prev, verdict, board, image, archive, gens, row, latest, calls, zapps, proven, prompts, trouble>>
journal == <<jobs, lock>>
worker == <<at, prev, verdict, board, image, archive, gens, zapps, proven>>
ui == <<row, latest, calls, prompts>>

Row == [flashing |-> FALSE, notice |-> FALSE, armed |-> None, hidden |-> FALSE, gen |-> 0, latest |-> None]
Call(t, kind) == [t |-> t, kind |-> kind, gen |-> IF t = Cli THEN 0 ELSE row[t].gen, target |-> None, status |-> None, job |-> 0]

Init == /\ jobs = <<>> /\ lock = Free
        /\ at = [j \in Ids |-> None] /\ prev = [j \in Ids |-> None] /\ verdict = [j \in Ids |-> None]
        /\ board \in Revs /\ image = None /\ archive = {} /\ gens = <<>>
        /\ row = [t \in Terms |-> Row] /\ latest \in Revs /\ calls = {}
        /\ zapps = [j \in Ids |-> 0] /\ proven = {} /\ prompts = <<>> /\ trouble = 0

Unlucky == trouble < MaxTrouble /\ trouble' = trouble + 1
Lucky == UNCHANGED trouble

---------------------------------------------------------------------------
\* The status row.

\* A newer revision appears, and an observation of it is adopted, also while
\* the confirm window is open.
Release(r) == /\ latest # r /\ Unlucky /\ latest' = r /\ UNCHANGED <<journal, worker, row, calls, prompts>>
Observe(t) == /\ ~row[t].hidden /\ row[t].latest # latest
              /\ row' = [row EXCEPT ![t].latest = latest]
              /\ UNCHANGED <<journal, worker, latest, calls, prompts, trouble>>
UpdateAvailable(t) == row[t].latest \notin {None, board}

\* startFlashCmd
FaultConfirmed(t) == row[t].latest
Confirmed(t) == row[t].armed
Under(t) == {c \in calls : c.t = t}
StartFlash(t) ==
  /\ Cardinality(Under(t)) < MaxCalls
  /\ row' = [row EXCEPT ![t].armed = None, ![t].flashing = TRUE]
  /\ calls' = calls \cup {[Call(t, "submit") EXCEPT !.target = Confirmed(t), !.status = row[t].armed]}
\* tapFlashRow: clear a notice, confirm an armed flash, or open the window
Tap(t) == /\ ~row[t].hidden /\ ~row[t].flashing
          /\ CASE row[t].notice -> row' = [row EXCEPT ![t].notice = FALSE] /\ UNCHANGED calls
               [] ~row[t].notice /\ row[t].armed # None -> StartFlash(t)
               [] ~row[t].notice /\ row[t].armed = None ->
                    UpdateAvailable(t) /\ row' = [row EXCEPT ![t].armed = row[t].latest] /\ UNCHANGED calls
          /\ UNCHANGED <<journal, worker, latest, prompts, trouble>>
ArmTimeout(t) == /\ row[t].armed # None
                 /\ row' = [row EXCEPT ![t].armed = None]
                 /\ UNCHANGED <<journal, worker, latest, calls, prompts, trouble>>
\* Update, on a change of visibility: what is under way is of an older
\* generation, and a window that is shown inspects the job.
Visibility(t) == /\ row[t].gen < MaxHides /\ (row[t].hidden => Cardinality(Under(t)) <= MaxCalls)
                 /\ row' = [row EXCEPT ![t].hidden = ~@, ![t].gen = @ + 1, ![t].armed = IF row[t].hidden THEN @ ELSE None]
                 /\ calls' = IF row[t].hidden
                             THEN calls \cup {[Call(t, "inspect") EXCEPT !.gen = @ + 1]} ELSE calls
                 /\ UNCHANGED <<journal, worker, latest, prompts, trouble>>
\* Update, on jobTickMsg and jobStatusMsg
Tick(c) == /\ c \in calls /\ c.kind = "tick"
           /\ calls' = (calls \ {c}) \cup (IF c.gen = row[c.t].gen /\ ~row[c.t].hidden THEN {Call(c.t, "inspect")} ELSE {})
           /\ UNCHANGED <<journal, worker, row, latest, prompts, trouble>>
JobStatus(c) ==
  /\ c \in calls /\ c.kind = "status"
  /\ IF c.gen # row[c.t].gen
     THEN UNCHANGED row /\ calls' = calls \ {c}
     ELSE LET busy == c.status \in {"pending", "running"} IN
          /\ row' = [row EXCEPT ![c.t].flashing = busy,
                                ![c.t].notice = @ \/ c.status \in {"error", "uncertain"}
                                                  \/ (c.status = "succeeded" /\ row[c.t].flashing)]
          /\ calls' = (calls \ {c}) \cup (IF busy \/ c.status = "error" THEN {Call(c.t, "tick")} ELSE {})
  /\ UNCHANGED <<journal, worker, latest, prompts, trouble>>

---------------------------------------------------------------------------
\* The journalled job.
Become(c, kind, status) == calls' = (calls \ {c}) \cup {[c EXCEPT !.kind = kind, !.status = status, !.job = 0]}
Reply(c, status) == IF c.t = Cli THEN calls' = calls \ {c} ELSE Become(c, "status", status)
Moved(j, from, to) == IF jobs[j].state = from THEN [jobs EXCEPT ![j].state = to] ELSE jobs

\* Submit: under the lock, nothing unresolved, the intent is committed, also
\* where the journal then errs; the worker is spawned after the lock is given up.
Resolved == \A j \in DOMAIN jobs : jobs[j].state \notin Unresolved
Accept(c) == /\ lock = Free /\ Resolved /\ Len(jobs) < MaxJobs
             /\ jobs' = Append(jobs, [target |-> c.target, state |-> "pending", old |-> FALSE])
             /\ prompts' = Append(prompts, c.status)
Submit(c) == /\ c \in calls /\ c.kind = "submit"
             /\ \/ /\ Accept(c) /\ Lucky
                   /\ calls' = (calls \ {c}) \cup {[c EXCEPT !.kind = "spawn", !.status = None, !.job = Len(jobs) + 1]}
                \/ (lock # Free \/ ~Resolved) /\ Reply(c, "error") /\ Lucky /\ UNCHANGED <<jobs, prompts>>
                \/ Unlucky /\ Reply(c, "error") /\ (Accept(c) \/ UNCHANGED <<jobs, prompts>>)
             /\ UNCHANGED <<lock, worker, row, latest>>
\* the worker is given the id of its own job
Spawn(c) == /\ c \in calls /\ c.kind = "spawn"
            /\ \/ at' = [at EXCEPT ![c.job] = "starting"] /\ Become(c, "inspect", None) /\ Lucky /\ UNCHANGED jobs
               \/ /\ Unlucky /\ Reply(c, "error") /\ UNCHANGED at
                  /\ UNCHANGED jobs \/ jobs' = Moved(c.job, "pending", "discarded")
            /\ UNCHANGED <<lock, prev, verdict, board, image, archive, gens, zapps, proven, row, latest, prompts>>

\* Inspect: the lock is taken when it is free; only then may a running or an
\* overdue pending job be called uncertain.
InspectBegin(c) == /\ c \in calls /\ c.kind = "inspect"
                   /\ IF lock = Free
                      THEN lock' = Inspector /\ Become(c, "inspecting", None)
                      ELSE UNCHANGED lock /\ Become(c, "looking", None)
                   /\ UNCHANGED <<jobs, worker, row, latest, prompts, trouble>>
Orphaned(c, j) == /\ c.kind = "inspecting"
                  /\ jobs[j].state = "running" \/ (jobs[j].state = "pending" /\ jobs[j].old)
InspectEnd(c) == /\ c \in calls /\ c.kind \in {"inspecting", "looking"}
                 /\ lock' = IF c.kind = "inspecting" THEN Free ELSE lock
                 /\ LET j == Len(jobs) IN
                    IF j = 0 THEN Reply(c, "nothing") /\ UNCHANGED jobs
                    ELSE /\ jobs' = IF Orphaned(c, j) THEN [jobs EXCEPT ![j].state = "uncertain"] ELSE jobs
                         /\ Reply(c, jobs'[j].state)
                 /\ UNCHANGED <<worker, row, latest, prompts, trouble>>
\* kuiboard --flash-status, and --discard-flash of a job that was reviewed
Status == /\ ~\E c \in calls : c.t = Cli
          /\ calls' = calls \cup {Call(Cli, "inspect")}
          /\ UNCHANGED <<journal, worker, row, latest, prompts, trouble>>
Discard(j) == /\ j \in DOMAIN jobs /\ lock = Free /\ jobs[j].state = "uncertain"
              /\ jobs' = [jobs EXCEPT ![j].state = "discarded"]
              /\ UNCHANGED <<lock, worker, ui, trouble>>
GracePasses == /\ jobs # <<>> /\ ~Last(jobs).old /\ Last(jobs).state = "pending"
               /\ jobs' = [jobs EXCEPT ![Len(jobs)].old = TRUE]
               /\ UNCHANGED <<lock, worker, ui, trouble>>

---------------------------------------------------------------------------
\* Run of the worker: the lock, the claim of a pending request, the pipeline,
\* the outcome.
To(j, step) == at' = [at EXCEPT ![j] = step]
Forget(j) == prev' = [prev EXCEPT ![j] = None] /\ verdict' = [verdict EXCEPT ![j] = None]
Return(j, v) == To(j, "returned") /\ verdict' = [verdict EXCEPT ![j] = v]
Claimable(j) == jobs[j].state = "pending"
Claim(j) == /\ at[j] = "starting"
            /\ IF lock # Free \/ ~Claimable(j)
               THEN To(j, "over") /\ UNCHANGED <<jobs, lock>>
               ELSE /\ jobs' = [jobs EXCEPT ![j].state = "running"] /\ lock' = j
                    /\ To(j, "resolve")
            /\ UNCHANGED <<prev, verdict, board, image, archive, gens, zapps, proven, ui, trouble>>
Target(j) == jobs[j].target
\* Run of the pipeline: the identity and the meta of the target; a board that
\* already runs it ends here.
Resolve(j) == /\ at[j] = "resolve"
              /\ \/ /\ board # "dfu" /\ prev' = [prev EXCEPT ![j] = board] /\ Lucky
                    /\ IF board = Target(j) THEN Return(j, "ok") /\ proven' = proven \cup {j}
                       ELSE To(j, "download") /\ UNCHANGED <<verdict, proven>>
                 \/ (IF board = "dfu" THEN Lucky ELSE Unlucky) /\ Return(j, "failed") /\ UNCHANGED <<prev, proven>>
              /\ UNCHANGED <<journal, board, image, archive, gens, zapps, ui>>
\* md5Matches and download
Download(j) == /\ at[j] = "download"
               /\ \/ To(j, "zapp") /\ archive' = archive \cup {Target(j)} /\ Lucky /\ UNCHANGED verdict
                  \/ Target(j) \notin archive /\ Unlucky /\ Return(j, "failed") /\ UNCHANGED archive
               /\ UNCHANGED <<journal, prev, board, image, gens, zapps, proven, ui>>
\* execZapp: the board is reset into its bootloader and written; zapp may fail
\* before or after that.
ZappWrites(j) == /\ at[j] = "zapp" /\ zapps[j] = 0
                 /\ board' = "dfu" /\ image' = Target(j) /\ zapps' = [zapps EXCEPT ![j] = @ + 1]
                 /\ UNCHANGED <<journal, at, prev, verdict, archive, gens, proven, ui, trouble>>
ZappEnds(j) == /\ at[j] = "zapp"
               /\ \/ zapps[j] > 0 /\ To(j, "verify") /\ Lucky /\ UNCHANGED verdict
                  \/ Unlucky /\ Return(j, "failed")
               /\ UNCHANGED <<journal, prev, board, image, archive, gens, zapps, proven, ui>>
\* waitForRevision: any error or another revision is looked past, until the
\* window closes
Reported(j) == board = Target(j)
Verify(j) == /\ at[j] = "verify"
             /\ \/ Reported(j) /\ To(j, "record") /\ proven' = (IF board = Target(j) THEN proven \cup {j} ELSE proven)
                   /\ Lucky /\ UNCHANGED verdict
                \/ ~Reported(j) /\ Unlucky /\ Return(j, "failed") /\ UNCHANGED proven
             /\ UNCHANGED <<journal, prev, board, image, archive, gens, zapps, ui>>
\* generations.Append
Record(j) == /\ at[j] = "record"
             /\ \/ gens' = Append(gens, [rev |-> Target(j), before |-> prev[j], of |-> j]) /\ Return(j, "ok") /\ Lucky
                \/ Unlucky /\ Return(j, "failed") /\ UNCHANGED gens
             /\ UNCHANGED <<journal, prev, board, image, archive, zapps, proven, ui>>
\* the outcome; a commit that fails leaves the job running, without an owner
Complete(j) == /\ at[j] = "returned"
               /\ \/ jobs' = [jobs EXCEPT ![j].state = IF verdict[j] = "ok" THEN "succeeded" ELSE "uncertain"] /\ Lucky
                  \/ Unlucky /\ UNCHANGED jobs
               /\ lock' = Free /\ To(j, "over") /\ Forget(j)
               /\ UNCHANGED <<board, image, archive, gens, zapps, proven, ui>>
WorkerDies(j) == /\ at[j] \notin {None, "over"} /\ Unlucky
                 /\ To(j, "over") /\ lock' = (IF lock = j THEN Free ELSE lock) /\ Forget(j)
                 /\ UNCHANGED <<jobs, board, image, archive, gens, zapps, proven, ui>>

\* The bootloader starts what it was given, or what it had; somebody flashes
\* the board by other means.
Boot == /\ board = "dfu"
        /\ \/ board' = image /\ Lucky
           \/ Unlucky /\ board' \in Revs
        /\ image' = None
        /\ UNCHANGED <<journal, at, prev, verdict, archive, gens, zapps, proven, ui>>
FlashedByHand(r) == /\ board \notin {"dfu", r} /\ Unlucky /\ board' = r
                    /\ UNCHANGED <<journal, at, prev, verdict, image, archive, gens, zapps, proven, ui>>

Work(j) == \/ Claim(j) \/ Resolve(j) \/ Download(j) \/ ZappWrites(j) \/ ZappEnds(j)
           \/ Verify(j) \/ Record(j) \/ Complete(j) \/ WorkerDies(j)
Next == \/ \E r \in Revs : Release(r) \/ FlashedByHand(r)
        \/ \E t \in Terms : Observe(t) \/ Tap(t) \/ ArmTimeout(t) \/ Visibility(t)
        \/ \E c \in calls : \/ Tick(c) \/ JobStatus(c) \/ Submit(c) \/ Spawn(c)
                            \/ InspectBegin(c) \/ InspectEnd(c)
        \/ Status \/ GracePasses \/ Boot
        \/ \E j \in Ids : Discard(j) \/ Work(j)

Spec == Init /\ [][Next]_vars

---------------------------------------------------------------------------
TypeOK == /\ Len(jobs) <= MaxJobs /\ Len(prompts) = Len(jobs)
          /\ lock \in {Free, Inspector} \cup Ids
          /\ board \in Revs \cup {"dfu"} /\ archive \subseteq Revs

\* A firmware is written at most once for a job, only for a job its worker
\* claimed, and the revision is the one the prompt named when the user tapped a
\* second time (Run: pending only; armedRev).
NeverReplayed == \A j \in DOMAIN jobs :
                   /\ zapps[j] <= 1 /\ (zapps[j] > 0 => jobs[j].state # "pending")
                   /\ jobs[j].target = prompts[j]

\* Every job but the newest is resolved: what an interrupted flash left behind
\* is reviewed before anything is flashed again (Submit).
ReviewedFirst == \A j \in DOMAIN jobs : j < Len(jobs) => jobs[j].state \notin Unresolved

\* A job that was called uncertain or discarded has no worker at the board any
\* more: only an inspection that holds the lock may call it so (Inspect).
QuietAfterReview == \A j \in DOMAIN jobs :
                      jobs[j].state \in {"uncertain", "discarded"} => at[j] \in {None, "starting", "over"}

\* Only the serial of the board counts as deployed: a job succeeded and a
\* generation was recorded only after the board itself reported the target.
OnlyTheSerialCounts == /\ \A j \in DOMAIN jobs : jobs[j].state = "succeeded" => j \in proven
                       /\ \A i \in DOMAIN gens : gens[i].of \in proven /\ gens[i].before # gens[i].rev

\* A window that shows a flash under way still hears of it: a command, a
\* message or a tick of its generation is outstanding.
NeverStuckFlashing == \A t \in Terms : row[t].flashing /\ ~row[t].hidden =>
                        \E c \in calls : c.t = t /\ c.gen = row[t].gen

---------------------------------------------------------------------------
(* The inductive invariant: a worker that is at the board holds the lock    *)
(* and a running job, so nobody else moves that job; an inspection that may *)
(* call a job uncertain holds the lock itself; and what a worker has yet to *)
(* report of the board is either proven or of another revision.             *)
States == {"pending", "running", "succeeded", "uncertain", "discarded"}
AtBoard == {"resolve", "download", "zapp", "verify", "record", "returned"}
Flashing == {"download", "zapp", "verify", "record"}
Kinds == {"submit", "spawn", "inspect", "inspecting", "looking", "status", "tick"}
Job == [target : Revs, state : States, old : BOOLEAN]
Rows == [flashing : BOOLEAN, notice : BOOLEAN, armed : Revs \cup {None}, hidden : BOOLEAN, gen : Nat,
         latest : Revs \cup {None}]
CallType == [t : Terms \cup {Cli}, kind : Kinds, gen : Nat, target : Revs \cup {None},
             status : Revs \cup States \cup {None, "error", "nothing"}, job : Nat]
Journal == /\ jobs \in Seq(Job) /\ prompts \in Seq(Revs) /\ Len(prompts) = Len(jobs) /\ Len(jobs) <= MaxJobs
           /\ lock \in {Free, Inspector} \cup Ids
Board == /\ board \in Revs \cup {"dfu"} /\ image \in Revs \cup {None} /\ (board = "dfu" => image # None)
         /\ archive \subseteq Revs /\ gens \in Seq([rev : Revs, before : Revs, of : Ids])
Workers == /\ at \in [Ids -> {None, "starting", "over"} \cup AtBoard] /\ prev \in [Ids -> Revs \cup {None}]
           /\ verdict \in [Ids -> {None, "ok", "failed"}] /\ zapps \in [Ids -> Nat] /\ proven \subseteq Ids
Windows == row \in [Terms -> Rows] /\ latest \in Revs /\ calls \subseteq CallType

Inspecting == {c \in calls : c.kind = "inspecting"}
Asked == /\ \A c \in calls : /\ c.kind \in {"submit", "spawn", "status", "tick"} => c.t \in Terms
                             /\ c.kind = "submit" => c.target \in Revs /\ c.status = c.target
                             /\ c.kind = "spawn" => c.job \in DOMAIN jobs
                             /\ c.kind = "inspecting" => lock = Inspector
         /\ \A c, d \in Inspecting : c = d
Owned == \A j \in Ids :
           /\ at[j] # None => j \in DOMAIN jobs
           /\ at[j] \in AtBoard => lock = j /\ jobs[j].state = "running"
           /\ at[j] \in Flashing => prev[j] # None /\ prev[j] # jobs[j].target
           /\ at[j] = "record" \/ verdict[j] = "ok" => j \in proven
           /\ zapps[j] > 0 => j \in DOMAIN jobs
IInv == /\ Journal /\ Board /\ Workers /\ Windows /\ Asked /\ Owned
        /\ NeverReplayed /\ ReviewedFirst /\ OnlyTheSerialCounts /\ NeverStuckFlashing
=============================================================================
