------------------------------- MODULE RenoRun -------------------------------
(***************************************************************************)
(* Demo scripts.  First their vetting (internal/reno/script.go): a script  *)
(* is typed line by line, and Parse accepts it or refuses it.  A line is   *)
(* its verb, whether its arguments pass the checks of that verb alone      *)
(* (arity, slug, duration, preset, registry), and what it names.  Then     *)
(* their run (module/reno/reno.go, view.go): a script is loaded and        *)
(* started, its cursor is walked from the panel or the command line, every *)
(* move fires the commands of the step it enters, and every change is      *)
(* journalled so that the next owner resumes the show.  Step 0 is the      *)
(* armed cursor.  What a take does is in RenoRecorder.                     *)
(***************************************************************************)
EXTENDS Naturals, Integers, Sequences, FiniteSets, FiniteSetsExt, SequencesExt

CONSTANTS
  Script,       \* version of the script file -> [name, steps, record]; a broken file has no steps
  GotoWindow,   \* steps the goto menu shows
  MaxRuns, MaxRunTaps, MaxEdits, MaxRunFaults, MaxRunRestarts,
  Verbs,        \* the verbs the user may type
  StepIDs,      \* step names
  MaxLines      \* lines of a script

\* "adhoc" is the reserved name of a run without a script (AdhocName).
RunAssumption ==
  /\ Script \in Seq([name : STRING, steps : Seq(STRING), record : BOOLEAN])
  /\ \A v \in DOMAIN Script : Script[v].name # "adhoc"
  /\ GotoWindow \in Nat \ {0} /\ MaxRuns \in Nat /\ MaxRunTaps \in Nat

VARIABLES
  script,      \* the lines typed of the script to be vetted
  file,        \* the version of the script on disk
  staged,      \* the version loaded, 0 for none
  run,         \* the current run
  journal,     \* the run journals
  stale,       \* the recovered run's script is unreadable or changed
  journalErr,  \* the last journal write failed
  gotoOff,     \* how far the goto menu is paged
  queued,      \* effects handed to the owner's executor
  refused,     \* runs whose start or recording was refused
  runTaps, edits, runFaults, runRestarts
vars == <<file, staged, run, journal, stale, journalErr, gotoOff, queued, refused, runTaps, edits,
          runFaults, runRestarts>>

-----------------------------------------------------------------------------
(* The vetting of a script.                                                 *)

Headers == {"demo", "screen", "audio", "webcam"}      \* never inside a step
Dual == {"record", "scene"}                           \* a header, and a command of a step
RecordCommands == {"record", "scene", "cam"}          \* need the record header
Commands == RecordCommands \cup {"focus-app"}         \* focus-app stands for the other commands

\* What a line may be.
Lines ==
  [verb : Verbs \ {"step"}, ok : BOOLEAN, id : {"none"}] \cup (IF "step" \in Verbs THEN [verb : {"step"}, ok : BOOLEAN, id : StepIDs] ELSE {})

(***************************************************************************)
(* Parse: one line after the other, errors collected.                      *)
(***************************************************************************)
Empty == [name |-> FALSE, record |-> FALSE, scene |-> FALSE, screens |-> 0, audio |-> FALSE, webcam |-> FALSE,
          budget |-> FALSE, steps |-> <<>>, errs |-> FALSE]
Fail(s) == [s EXCEPT !.errs = TRUE]
InStep(s) == s.steps # <<>>
Cur(s) == s.steps[Len(s.steps)]
SetCur(s, st) == [s EXCEPT !.steps[Len(s.steps)] = st]

\* A header that may appear once, before the first step.
Once(s, l, seen, set) == IF InStep(s) \/ seen \/ ~l.ok THEN Fail(s) ELSE set
\* vetCommand.
VetCommand(s, l) ==
  IF l.verb \notin Commands \/ (l.verb \in RecordCommands /\ ~s.record) \/ ~l.ok THEN Fail(s)
  ELSE SetCur(s, [Cur(s) EXCEPT !.commands = Append(@, l.verb)])
\* The directive of a new step is kept even when its name is refused.
ParseStep(s, l) ==
  LET dup == \E i \in DOMAIN s.steps : s.steps[i].id = l.id
      fresh == [s EXCEPT !.steps = Append(@, [id |-> l.id, note |-> FALSE, budget |-> FALSE, commands |-> <<>>])]
  IN IF dup \/ ~l.ok THEN Fail(fresh) ELSE fresh
ParseNote(s, l) == IF ~InStep(s) \/ ~l.ok \/ Cur(s).note THEN Fail(s) ELSE SetCur(s, [Cur(s) EXCEPT !.note = TRUE])
ParseBudget(s, l) ==
  IF ~l.ok \/ (IF InStep(s) THEN Cur(s).budget ELSE s.budget) THEN Fail(s)
  ELSE IF InStep(s) THEN SetCur(s, [Cur(s) EXCEPT !.budget = TRUE]) ELSE [s EXCEPT !.budget = TRUE]
ParseLine(s, l) ==
  CASE l.verb = "demo"   -> Once(s, l, s.name, [s EXCEPT !.name = TRUE])
    [] l.verb = "record" /\ ~InStep(s) -> Once(s, l, s.record, [s EXCEPT !.record = TRUE])
    [] l.verb = "scene" /\ ~InStep(s) -> Once(s, l, s.scene, [s EXCEPT !.scene = TRUE])
    [] l.verb = "screen" -> Once(s, l, FALSE, [s EXCEPT !.screens = @ + 1])
    [] l.verb = "audio"  -> Once(s, l, s.audio, [s EXCEPT !.audio = TRUE])
    [] l.verb = "webcam" -> Once(s, l, s.webcam, [s EXCEPT !.webcam = TRUE])
    [] l.verb = "step"   -> ParseStep(s, l)
    [] l.verb = "note"   -> ParseNote(s, l)
    [] l.verb = "budget" -> ParseBudget(s, l)
    [] l.verb = "wait"   -> Fail(s)                    \* reserved words have not landed
    [] OTHER -> IF InStep(s) THEN VetCommand(s, l) ELSE Fail(s)
\* The checks of the whole script.
Configured(s) == s.screens > 0 \/ s.audio \/ s.webcam
Whole(s) ==
  /\ s.name /\ s.steps # <<>>
  /\ s.scene \/ Configured(s) => s.record
  /\ ~(s.scene /\ Configured(s))
  /\ s.webcam \/ \A i \in DOMAIN s.steps : \A j \in DOMAIN s.steps[i].commands : s.steps[i].commands[j] # "cam"
Parsed(ls) == FoldLeft(ParseLine, Empty, ls)
Accepts(ls) == ~Parsed(ls).errs /\ Whole(Parsed(ls))

Blank == script = <<>>
\* A line that fails is never forgiven: what follows one is of no interest.
Type(l) == Len(script) < MaxLines /\ ~Parsed(script).errs /\ script' = Append(script, l)
Typing == \E l \in Lines : Type(l)

-----------------------------------------------------------------------------
(* The run of a script that was vetted.                                     *)

Versions == DOMAIN Script
Runs == 1..MaxRuns
StepsOf(v) == 1..Len(Script[v].steps)
AnyStep == {0} \cup UNION {StepsOf(v) : v \in Versions}
Broken(v) == Script[v].steps = <<>>
NoRun == [id |-> 0, script |-> 0, name |-> "none", live |-> FALSE, cursor |-> 0, visits |-> <<>>, clocks |-> {},
          shown |-> FALSE, rec |-> "none"]
TypeOK ==
  /\ file \in Versions /\ staged \in {0} \cup Versions /\ stale \in BOOLEAN /\ journalErr \in BOOLEAN
  /\ run.id \in {0} \cup Runs /\ run.script \in {0} \cup Versions /\ run.cursor \in AnyStep
  /\ run.visits \in Seq(0..MaxRunTaps) /\ run.clocks \subseteq AnyStep /\ run.rec \in {"none", "intent", "failed", "started"}
  /\ DOMAIN journal \subseteq Runs /\ \A r \in DOMAIN journal : journal[r].id = r
  /\ gotoOff \in Int /\ refused \subseteq Runs
  /\ queued \in Seq([run : Runs, step : AnyStep, version : {0} \cup Versions])

Init ==
  /\ file \in Versions /\ staged = 0 /\ run = NoRun /\ journal = <<>> /\ stale = FALSE /\ journalErr = FALSE
  /\ gotoOff = 0 /\ queued = <<>> /\ refused = {}
  /\ runTaps = 0 /\ edits = 0 /\ runFaults = 0 /\ runRestarts = 0

Tapped == runTaps < MaxRunTaps /\ runTaps' = runTaps + 1
\* Run IDs are made of the time and random bytes: never the one of an earlier run.
NewID == 1 + Max({0, run.id} \cup DOMAIN journal \cup refused)
CanOpen == NewID \in Runs

\* WriteRun replaces the journal file. A failed write leaves the old file, or publishes the
\* new one and cannot confirm it (atomicfile).
Outcomes == {"written", "lost", "published"}
Writes(r, how) ==
  /\ journalErr' = (how # "written")
  /\ journal' = IF how = "lost" THEN journal
                ELSE [i \in DOMAIN journal \cup {r.id} |-> IF i = r.id THEN r ELSE journal[i]]
  /\ IF how = "written" THEN UNCHANGED runFaults ELSE runFaults < MaxRunFaults /\ runFaults' = runFaults + 1

\* The user edits the script file.
EditScript(v) ==
  /\ edits < MaxEdits /\ edits' = edits + 1 /\ v # file /\ file' = v
  /\ UNCHANGED <<staged, run, journal, stale, journalErr, gotoOff, queued, refused, runTaps, runFaults, runRestarts>>

\* finishRunLocked: the open clock is booked and the run is over.
Finished(r) == [r EXCEPT !.live = FALSE, !.clocks = @ \ {r.cursor}]
\* A boundary drops what is queued and ends the running child.
Boundary == queued' = <<>>
\* stopLocked, and quitLocked: what it does to OBS is in RenoRecorder.
FaultEnd(how) == run' = Finished(run) /\ Writes(run', how) /\ stale' = FALSE /\ UNCHANGED queued
End(how) == run' = Finished(run) /\ Writes(run', how) /\ stale' = FALSE /\ Boundary
StopRun(how) ==
  /\ Tapped /\ run.live /\ End(how)
  /\ UNCHANGED <<file, staged, gotoOff, refused, edits, runRestarts>>

\* loadLocked: the script is vetted before the live run is touched.
Load(replace, how) ==
  /\ Tapped /\ ~Broken(file)
  /\ \/ run.live /\ replace /\ End(how)
     \/ ~run.live /\ how = "written" /\ stale' = FALSE /\ UNCHANGED <<run, journal, journalErr, queued, runFaults>>
  /\ staged' = file /\ gotoOff' = 0
  /\ UNCHANGED <<file, refused, edits, runRestarts>>

\* startLocked: a run that cannot journal is refused; a fresh run opens with a boundary.
Started == [NoRun EXCEPT !.id = NewID, !.script = staged, !.name = Script[staged].name, !.live = TRUE,
                         !.visits = [s \in StepsOf(staged) |-> 0]]
Start(how) ==
  /\ Tapped /\ staged # 0 /\ ~run.live /\ CanOpen
  /\ Writes(Started, how) /\ stale' = FALSE
  /\ IF how = "written" THEN run' = Started /\ Boundary /\ UNCHANGED refused
     ELSE run' = NoRun /\ refused' = refused \cup {NewID} /\ UNCHANGED queued
  /\ UNCHANGED <<file, staged, gotoOff, edits, runRestarts>>

\* openRecordingLocked: an ad hoc run when none is live; one intent; a failed start opens
\* anew. A recording the journal cannot own is not begun, and the run is as it was.
Recorded(r) == [(IF r.live THEN r ELSE [NoRun EXCEPT !.id = NewID, !.name = "adhoc", !.live = TRUE]) EXCEPT !.rec = "intent"]
RecordEffect(r) == [run |-> r.id, step |-> 0, version |-> r.script]
TapRecord(how) ==
  /\ Tapped /\ (run.live \/ CanOpen) /\ (~run.live \/ run.rec \in {"none", "intent", "failed"})
  /\ Writes(Recorded(run), how)
  /\ IF how = "written"
     THEN run' = Recorded(run) /\ queued' = Append(queued, RecordEffect(run')) /\ UNCHANGED refused
     ELSE /\ refused' = IF run.live THEN refused ELSE refused \cup {NewID}
          /\ UNCHANGED <<run, queued>>
  /\ stale' = (run.live /\ stale)
  /\ UNCHANGED <<file, staged, gotoOff, edits, runRestarts>>

(***************************************************************************)
(* Walking the script.                                                     *)
(***************************************************************************)
\* transition: which step may be entered. Only the script the run was started with.
MayEnter(to) == run.live /\ staged # 0 /\ ~stale /\ run.name = Script[staged].name /\ to \in StepsOf(staged)
\* The open clock is booked before the next one starts.
FaultEntered(r, to) == [r EXCEPT !.cursor = to, !.shown = TRUE, !.visits[to] = @ + 1, !.clocks = @ \cup {to}]
Entered(r, to) ==
  [r EXCEPT !.cursor = to, !.shown = TRUE, !.visits[to] = @ + 1, !.clocks = (@ \ {r.cursor}) \cup {to}]
StepEffect(r, to) == [run |-> r.id, step |-> to, version |-> staged]
Rearms(r) == Script[staged].record /\ r.rec \in {"none", "failed"}
\* The two writes of a scripted step that records: the move, and the intent. A move whose
\* journal write fails goes on; an intent that cannot be journalled is not recorded.
Move(to, how) ==
  /\ Tapped /\ MayEnter(to)  /\ gotoOff' = 0
  /\ LET moved == Entered(run, to) IN
     \/ /\ Rearms(moved) /\ Writes(Recorded(moved), how)
        /\ IF how = "written"
           THEN /\ run' = Recorded(moved)
                /\ queued' = queued \o <<RecordEffect(moved), StepEffect(moved, to)>>
           ELSE run' = moved /\ queued' = Append(queued, StepEffect(moved, to))
     \/ /\ ~Rearms(moved) /\ Writes(moved, how)
        /\ run' = moved /\ queued' = Append(queued, StepEffect(moved, to))
  /\ UNCHANGED <<file, staged, stale, refused, edits, runRestarts>>

\* HandleActEffects swallows a second tap within the gap; HandleCtl never does. The gap is
\* a matter of time, so that a tap after a transition may land or not.
Next1(how) == Move(run.cursor + 1, how)
Prev1(how) == Move(run.cursor - 1, how)
Menu ==
  LET total == IF staged = 0 THEN 0 ELSE Len(Script[staged].steps)
      cur == run.cursor - 1                       \* the code counts from zero, armed is -1
      at == Max({cur - (GotoWindow \div 2), 0}) + gotoOff
      lo == Min({Max({at, 0}), Max({total - GotoWindow, 0})})
      hi == Min({lo + GotoWindow, total})
  IN [steps |-> (lo + 1)..hi, earlier |-> lo > 0, later |-> hi < total]
Goto(to, how) == Move(to, how)
\* presenterData, liveRows: a live run with a usable script offers the walk and the menu;
\* an ad hoc run with a script staged offers it too, and transition refuses it.
Panel ==
  IF ~run.live THEN (IF staged = 0 /\ run.id = 0 THEN "empty" ELSE "idle")
  ELSE IF staged = 0 \/ stale THEN "stuck" ELSE "live"
Page(d) ==
  /\ Tapped /\ Panel = "live" /\ (IF d < 0 THEN Menu.earlier ELSE Menu.later) /\ gotoOff' = gotoOff + d * GotoWindow
  /\ UNCHANGED <<file, staged, run, journal, stale, journalErr, queued, refused, edits, runFaults, runRestarts>>

(***************************************************************************)
(* The executor and the next owner.                                        *)
(***************************************************************************)
\* One effect is started. A take reports that it started or failed (noteRecordingLocked).
Fire ==
  /\ queued # <<>> /\ queued' = Tail(queued)
  /\ IF Head(queued).step = 0 /\ Head(queued).run = run.id /\ run.rec = "intent"
     THEN \E s \in {"started", "failed"} : run' = [run EXCEPT !.rec = s] /\ Writes(run', "written")
     ELSE UNCHANGED <<run, journal, journalErr, runFaults>>
  /\ UNCHANGED <<file, staged, stale, gotoOff, refused, runTaps, edits, runRestarts>>

\* RecoverLatest: the newest live run. recover restages its script only if it reads and is
\* the very content the run was started with. SweepRuns removes old finished runs.
Recoverable == {r \in DOMAIN journal : journal[r].live}
Restages(r) == r.script # 0 /\ ~Broken(file) /\ file = r.script
Restart ==
  /\ runRestarts < MaxRunRestarts /\ runRestarts' = runRestarts + 1
  /\ run' = IF Recoverable = {} THEN NoRun ELSE journal[Max(Recoverable)]
  /\ staged' = IF Restages(run') THEN file ELSE 0
  /\ stale' = (run'.script # 0 /\ ~Restages(run'))
  /\ \E old \in SUBSET {r \in DOMAIN journal : ~journal[r].live} :
       journal' = [r \in DOMAIN journal \ old |-> journal[r]]
  /\ journalErr' = FALSE /\ gotoOff' = 0 /\ queued' = <<>>
  /\ UNCHANGED <<file, refused, runTaps, edits, runFaults>>

Next ==
  \/ \E v \in Versions : EditScript(v)
  \/ \E how \in Outcomes :
       \/ StopRun(how) \/ Start(how) \/ TapRecord(how) \/ Next1(how) \/ Prev1(how)
       \/ \E replace \in BOOLEAN : Load(replace, how)
       \/ \E to \in AnyStep : Goto(to, how)
  \/ \E d \in {-1, 1} : Page(d)
  \/ Fire \/ Restart
Spec == Init /\ Blank /\ [][(Next /\ UNCHANGED script) \/ (Typing /\ UNCHANGED vars)]_<<vars, script>>

(***************************************************************************)
(* Properties.                                                             *)
(***************************************************************************)
\* The show's books: exactly one step clock runs while a live run is on a step, at the
\* cursor, and none in a run that is armed or over; a visited step was counted.
ClockAtCursor ==
  /\ run.clocks = IF run.live /\ run.cursor > 0 THEN {run.cursor} ELSE {}
  /\ run.cursor > 0 => run.visits[run.cursor] > 0 /\ run.shown

\* A live run whose steps can be walked is the run of the very script that is staged, and
\* an ad hoc run stays armed, whatever was loaded, edited or recovered meanwhile
\* (transition, recover).
VettedSteps ==
  /\ run.live /\ staged # 0 /\ run.name = Script[staged].name => run.script = staged
  /\ run.live /\ stale => staged = 0
  /\ run.script = 0 => run.cursor = 0

\* While the panel shows no journal failure, the journal holds the run the module has.
JournalIsTruth == ~journalErr /\ run.id # 0 => (run.id \in DOMAIN journal /\ journal[run.id] = run)

\* The goto menu (gotoMenu): no longer than a window, the cursor in it until it is paged,
\* something to page to whenever
\* steps are left out, and in the run of a script every step on it may be entered.
MenuHonest ==
  Panel = "live" =>
    /\ Cardinality(Menu.steps) = Min({GotoWindow, Len(Script[staged].steps)})
    /\ Menu.steps \subseteq StepsOf(staged)
    /\ run.script # 0 => \A to \in Menu.steps : MayEnter(to)
    /\ gotoOff = 0 /\ run.cursor > 0 => run.cursor \in Menu.steps
    /\ Menu.earlier <=> (1 \notin Menu.steps)
    /\ Menu.later <=> (Len(Script[staged].steps) \notin Menu.steps)

\* The demo run as a whole (reno.go).
RunSafe == ClockAtCursor /\ VettedSteps /\ JournalIsTruth /\ MenuHonest

\* An effect is started for the live run only, whatever was queued before it, and a step's
\* commands are those of the script the run was vetted with.
FiresOwnRun ==
  queued # <<>> /\ queued' = Tail(queued) /\ ~(runRestarts' > runRestarts) /\ (run'.live = run.live) =>
    LET e == Head(queued) IN
    /\ run.live /\ e.run = run.id /\ e.version = run.script
\* The next owner resumes the newest live run where it was, and with no failed write no run
\* that was over (recover, RecoverLatest).
ResumesWhereItWas ==
  runRestarts' > runRestarts =>
    /\ run.live /\ ~journalErr /\ (\A r \in DOMAIN journal : r <= run.id) => run' = run
    /\ runFaults = 0 /\ ~run.live => run' = NoRun
    /\ run'.live /\ staged' # 0 => Script[staged'] = Script[run'.script]
\* What no step of the run may do (reno.go, effects.go).
RunSteps == [][FiresOwnRun /\ ResumesWhereItWas]_vars

\* A run, current or journalled, whose books are right; and all of it together, inductive.
RunNames == {"adhoc"} \cup {Script[v].name : v \in Versions}
RunStates ==
  [id : Runs, script : {0} \cup Versions, name : RunNames, live : BOOLEAN, cursor : AnyStep, visits : Seq(0..MaxRunTaps),
   clocks : SUBSET AnyStep, shown : BOOLEAN, rec : {"none", "intent", "failed", "started"}]
Kept(r, taps) ==
  /\ r \in RunStates /\ r.name = IF r.script = 0 THEN "adhoc" ELSE Script[r.script].name
  /\ DOMAIN r.visits = IF r.script = 0 THEN {} ELSE StepsOf(r.script)
  /\ \A i \in DOMAIN r.visits : r.visits[i] <= taps
  /\ r.clocks = IF r.live /\ r.cursor > 0 THEN {r.cursor} ELSE {}
  /\ r.cursor > 0 => r.cursor \in DOMAIN r.visits /\ r.visits[r.cursor] > 0 /\ r.shown
Staged ==
  /\ file \in Versions /\ staged \in {0} \cup Versions /\ (staged # 0 => ~Broken(staged))
  /\ run.live /\ staged # 0 => run.script \in {0, staged} /\ ~stale
Queued ==
  /\ queued \in Seq([run : Runs, step : AnyStep, version : {0} \cup Versions])
  /\ \A i \in DOMAIN queued : run.live /\ queued[i].run = run.id /\ queued[i].version = run.script
Journalled ==
  /\ DOMAIN journal \subseteq Runs /\ \A r \in DOMAIN journal : Kept(journal[r], runTaps) /\ journal[r].id = r
  /\ JournalIsTruth
  /\ runFaults = 0 => \A r \in DOMAIN journal : journal[r].live => run.live /\ r = run.id
IInv ==
  /\ run = NoRun \/ Kept(run, runTaps)
  /\ Staged /\ Queued /\ Journalled
  /\ stale \in BOOLEAN /\ journalErr \in BOOLEAN /\ gotoOff \in Int /\ refused \subseteq Runs
  /\ runTaps \in 0..MaxRunTaps /\ runFaults \in Nat /\ runRestarts \in Nat

(***************************************************************************)
(* What a script must be, said without an order of evaluation.             *)
(***************************************************************************)
At(v) == {i \in DOMAIN script : script[i].verb = v}
FirstStep == IF At("step") = {} THEN Len(script) + 1 ELSE CHOOSE i \in At("step") : \A j \in At("step") : i <= j
Header(v) == {i \in At(v) : i < FirstStep}
StepOf(i) == {j \in At("step") : j <= i /\ \A k \in At("step") : k <= i => k <= j}
Legal ==
  /\ \A i \in DOMAIN script : script[i].ok
  /\ Cardinality(At("demo")) = 1 /\ At("step") # {} /\ At("wait") = {}
  /\ \A i, j \in At("step") : script[i].id = script[j].id => i = j
  /\ \A v \in Headers : At(v) = Header(v)
  /\ \A v \in {"record", "scene", "audio", "webcam", "budget"} : Cardinality(Header(v)) <= 1
  /\ \A v \in {"note", "budget"} : \A i, j \in At(v) : i # j => StepOf(i) # StepOf(j)
  /\ Header("note") = {} /\ \A v \in Commands \ Dual : Header(v) = {}
  /\ (\E v \in (RecordCommands \cup Headers) \ {"demo"} : At(v) # {}) => Header("record") # {}
  /\ Header("scene") # {} => At("screen") \cup At("audio") \cup At("webcam") = {}
  /\ At("cam") # {} => At("webcam") # {}

\* A script is accepted exactly when it is legal, and an accepted script keeps every step
\* and every command under it, in the order written (Parse).
VettingIsExact ==
  /\ Accepts(script) <=> Legal
  /\ Accepts(script) =>
       LET steps == SelectSeq(script, LAMBDA l : l.verb = "step")
           commands == SelectSeq(SubSeq(script, FirstStep, Len(script)), LAMBDA l : l.verb \in Commands)
           kept == FlattenSeq([i \in DOMAIN Parsed(script).steps |-> Parsed(script).steps[i].commands])
       IN /\ [i \in DOMAIN steps |-> steps[i].id] = [i \in DOMAIN Parsed(script).steps |-> Parsed(script).steps[i].id]
          /\ kept = [i \in DOMAIN commands |-> commands[i].verb]
=============================================================================
