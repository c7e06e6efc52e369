------------------------------- MODULE MCReno -------------------------------
(***************************************************************************)
(* The nine parts of Reno on small instances, side by side: a behaviour    *)
(* picks its part and the others keep their initial state.  The parts do   *)
(* not share state here; each module says what it takes from the others.   *)
(* RenoProofs brings every part but the plans.                             *)
(***************************************************************************)
EXTENDS RenoProofs

VARIABLES
  part,
  enabled, place, chain, fx, env, plan, disturbed, outcome, fxs, touches

recorderVars == <<mod, disk, opened, effects, verb, obs, excused, disputed, taps, faults, restarts>>
fxVars == <<webcam, level, parked, saved, queue, apply, motor, item, filter, pose, blind,
            fxTaps, fxFaults, fxRestarts>>
runVars == <<file, staged, run, journal, stale, journalErr, gotoOff, queued, refusedRuns, runTaps, edits,
             runFaults, runRestarts>>
sceneVars == <<input, items, canvas, stash, home, present, sceneVerb, result, applies, obsEdits, obsFaults>>
padVars == <<attached, inv, desired, posture, win, lapsed, padTaps, plugs, padRestarts>>
bootVars == <<password, config, ini, sentinel, log, app, boot, raced, handActs, boots>>
planVars == <<enabled, place, chain, fx, env, plan, disturbed, outcome, fxs, touches>>
suiteVars == <<part, recorderVars, fxVars, runVars, script, sceneVars, padVars, vars, bootVars, planVars>>

\* Recording with many taps and one configuration, or with few taps and a knob turned twice.
MCBudgets == {<<3, 1>>, <<2, 2>>}

\* A script, the same after an edit that drops a step, and a broken one.
ScriptFile(n, s, r) == [name |-> n, steps |-> s, record |-> r]
Scripts == <<ScriptFile("d", <<"a", "b", "c">>, TRUE), ScriptFile("d", <<"a", "c">>, FALSE), ScriptFile("e", <<>>, FALSE)>>

\* Two displays, one twice, a crop beside the whole, nothing, and sound alone.
Posture(screens, audio, cam, device, lemmings) ==
  [screens |-> screens, audio |-> audio, webcam |-> cam, camera |-> device, lemmings |-> lemmings]
Edge == [display |-> "edge", crop |-> FALSE]
Main == [display |-> "main", crop |-> FALSE]
Postures ==
  {Posture(<<Edge, Main>>, "", "br", "", TRUE), Posture(<<Edge, Edge>>, "device", "br", "usb", FALSE),
   Posture(<<Edge, [Edge EXCEPT !.crop = TRUE]>>, "none", "off", "", TRUE), Posture(<<>>, "", "", "", TRUE),
   Posture(<<Main>>, "device", "", "", FALSE)}

\* The owner is this module's own part: two processes, two callers of one operation.
MCNoRequest == [kind |-> "", source |-> "", policy |-> "", payload |-> ""]
MCRequests == {[kind |-> "ctl", source |-> "reno", policy |-> "review", payload |-> "p"]}

\* Every user.ini of up to two lines made of two sections, a key set either way and a blank.
Line(kind, section, key, value) == [kind |-> kind, section |-> section, key |-> key, value |-> value]
Lines ==
  {Line("section", "Win", "", ""), Line("section", "Gen", "", ""), Line("blank", "", "", ""),
   Line("entry", "", "Tray", "true"), Line("entry", "", "Tray", "false")}
Files2 == UNION {[1..n -> Lines] : n \in 0..2}
Settings == <<[section |-> "Win", key |-> "Tray", value |-> "true"], [section |-> "Gen", key |-> "Exit", value |-> "false"]>>

Plans == INSTANCE RenoPlans WITH
  Canvas <- 12, FXMaxLevel <- 2, FXMaxSamples <- 3, Kinds <- {"scale", "color"}, MaxFX <- 1, MaxTouches <- 1,
  pose <- place

Parts == {"recorder", "fx", "run", "script", "scene", "pad", "owner", "boot", "plans"}
\* Each part's initial states; a part that is not running keeps one of them.
SuiteInit ==
  /\ part \in Parts
  /\ Recorder!Init /\ FX!Init /\ Init /\ Demo!Blank
  /\ Demo!Init  /\ (part # "run" => file = 1)
  /\ Scene!Init /\ (part # "scene" => Len(items) = 1)
  /\ Pad!Init   /\ (part # "pad" => attached = <<>>)
  /\ Boot!Init  /\ (part # "boot" => ~password /\ config = "absent" /\ ini = <<>> /\ ~sentinel)
  /\ Plans!Init /\ (part # "plans" => ~enabled /\ chain = <<>> /\ place.x = 1 /\ place.w = 0)

Recording == part = "recorder" /\ Recorder!Next
             /\ UNCHANGED <<part, fxVars, runVars, script, sceneVars, padVars, vars, bootVars, planVars>>
Effects   == part = "fx" /\ FX!Next
             /\ UNCHANGED <<part, recorderVars, runVars, script, sceneVars, padVars, vars, bootVars, planVars>>
Presents  == part = "run" /\ Demo!Next
             /\ UNCHANGED <<part, recorderVars, fxVars, script, sceneVars, padVars, vars, bootVars, planVars>>
Types     == part = "script" /\ Demo!Typing
             /\ UNCHANGED <<part, recorderVars, fxVars, runVars, sceneVars, padVars, vars, bootVars, planVars>>
Applies   == part = "scene" /\ Scene!Next
             /\ UNCHANGED <<part, recorderVars, fxVars, runVars, script, padVars, vars, bootVars, planVars>>
Taps      == part = "pad" /\ Pad!Next
             /\ UNCHANGED <<part, recorderVars, fxVars, runVars, script, sceneVars, vars, bootVars, planVars>>
Owns      == part = "owner" /\ Next
             /\ UNCHANGED <<part, recorderVars, fxVars, runVars, script, sceneVars, padVars, bootVars, planVars>>
Boots     == part = "boot" /\ Boot!Next
             /\ UNCHANGED <<part, recorderVars, fxVars, runVars, script, sceneVars, padVars, vars, planVars>>
Moves     == part = "plans" /\ Plans!Next
             /\ UNCHANGED <<part, recorderVars, fxVars, runVars, script, sceneVars, padVars, vars, bootVars>>
SuiteNext == Recording \/ Effects \/ Presents \/ Types \/ Applies \/ Taps \/ Owns \/ Boots \/ Moves
SuiteSpec == SuiteInit /\ [][SuiteNext]_suiteVars

(***************************************************************************)
(* Properties: those of the parts, by what they are about.                 *)
(***************************************************************************)
\* An applied configuration is what OBS shows, a released one leaves nothing of reno up, and
\* the canvas set aside is the user's own (ApplyRecordConfig, releaseHardware); a camera effect
\* that ran leaves the pose, the filters and their order it promised (fx.go); a script is
\* accepted exactly when a reader of the grammar accepts it (script.go); a verb reaches an OBS
\* that listens to reno and never launches one over the user's (obsboot.go).
SceneSafe == /\ part = "scene" => Scene!TypeOK /\ Scene!SceneSafe
             /\ part = "plans" => Plans!TypeOK /\ Plans!PlanSafe
             /\ part = "script" => Demo!VettingIsExact
             /\ part = "boot" => Boot!TypeOK /\ Boot!BootSafe

\* What no step may do: credit a run with another's clip, lose the level of a parked camera
\* or wake one that is off, resume a demo elsewhere than it stopped, touch what is the user's.
RenoSteps ==
  /\ Recorder!ClipIsItsOwn /\ FX!ParkingKeeps /\ FX!OffStaysOff /\ Demo!RunSteps
  /\ Scene!UsersOwn /\ Boot!HandsOff /\ Plans!OthersUntouched
=============================================================================
