---------------------------- MODULE RenoRecorder ----------------------------
(***************************************************************************)
(* Recording with OBS: what the Reno module believes of a take and of the  *)
(* rig (module/reno), and what the verbs it starts do to OBS               *)
(* (renocontrol).  A verb is a process of its own: it asks the module over *)
(* the control socket, drives OBS, and notes the outcome back.  The owner  *)
(* runs one effect at a time; a verb typed by hand and the release of an   *)
(* idle rig run beside it.                                                 *)
(***************************************************************************)
EXTENDS Naturals, Sequences

CONSTANTS
  MaxRuns,      \* runs ever opened
  Budgets,      \* pairs: how many taps and hand-typed commands, with how many changes of configuration
  MaxFaults,    \* failed calls, lost notes, killed verbs, journal write failures
  MaxRestarts,  \* deaths of the owner
  HandVerbs     \* what the user may type

\* A take is opened by the pad alone: a record that is typed may start after the stop that ended its run.
RecorderAssumption ==
  /\ MaxRuns \in Nat /\ Budgets \subseteq Nat \X Nat /\ MaxFaults \in Nat /\ MaxRestarts \in Nat
  /\ HandVerbs \subseteq {"release", "quit"}

VARIABLES
  mod,       \* the module in memory: current run, its recording, the latches, the arm
  disk,      \* the run journals
  opened,    \* runs opened so far; a run's number is its identity
  effects,   \* queued effects of the owner
  verb,      \* the running verbs: "effect" (the owner's child), "hand", "idle"
  obs,       \* OBS: running, the run whose take is rolling, hardware held, configuration
  excused,   \* the last change of configuration met a fault, a boundary, a restart or a cold OBS
  disputed,      \* runs whose started note never came, or that a typed quit closed
  taps, faults, restarts
vars == <<mod, disk, opened, effects, verb, obs, excused, disputed, taps, faults, restarts>>

Runs == 1..MaxRuns
Slots == {"effect", "hand", "idle"}
Recordings == [intent: BOOLEAN, started: BOOLEAN, stopped: BOOLEAN, failed: BOOLEAN, clip: 0..MaxRuns]
Verbs == {"none", "record", "stop", "apply", "arm", "release", "quit"}
Steps == {"idle", "ask", "dial", "scene", "start", "stop", "stopped", "note", "fail", "app"}
TypeOK ==
  /\ mod \in [run: 0..MaxRuns, live: BOOLEAN, rec: Recordings, desired: Nat,
              applying: BOOLEAN, dirty: BOOLEAN, arming: BOOLEAN, armed: BOOLEAN, watch: BOOLEAN]
  /\ disk \in [Runs -> [live: BOOLEAN, rec: Recordings]] /\ opened \in 0..MaxRuns
  /\ effects \in Seq([verb: Verbs, run: 0..MaxRuns, final: BOOLEAN])
  /\ verb \in [Slots -> [kind: Verbs, at: Steps, run: 0..MaxRuns, config: Nat, final: BOOLEAN, rolling: BOOLEAN]]
  /\ obs \in [up: BOOLEAN, rolling: 0..MaxRuns, held: BOOLEAN, config: Nat]
  /\ excused \in BOOLEAN /\ disputed \subseteq Runs /\ faults \in Nat

NoRecording == [intent |-> FALSE, started |-> FALSE, stopped |-> FALSE, failed |-> FALSE, clip |-> 0]
NoVerb == [kind |-> "none", at |-> "idle", run |-> 0, config |-> 0, final |-> FALSE, rolling |-> FALSE]
Cold == [up |-> FALSE, rolling |-> 0, held |-> FALSE, config |-> 0]
Init ==
  /\ mod = [run |-> 0, live |-> FALSE, rec |-> NoRecording, desired |-> 0, applying |-> FALSE,
            dirty |-> FALSE, arming |-> FALSE, armed |-> FALSE, watch |-> FALSE]
  /\ disk = [r \in Runs |-> [live |-> FALSE, rec |-> NoRecording]] /\ opened = 0
  /\ effects = <<>> /\ verb = [s \in Slots |-> NoVerb] /\ obs = Cold
  /\ excused = FALSE /\ disputed = {} /\ taps = 0 /\ faults = 0 /\ restarts = 0

(***************************************************************************)
(* The module's decisions.                                                 *)
(***************************************************************************)
\* A take believed live: started and not stopped.
Active(rec) == rec.started /\ ~rec.stopped
\* A take OBS may still be rolling; an unproven start counts.
StopWorthy(rec) == rec.intent /\ ~rec.stopped /\ (~rec.failed \/ rec.started)
\* The journal of the current run, as it is written.
Journal(m) == [disk EXCEPT ![m.run] = [live |-> m.live, rec |-> m.rec]]
Effect(kind, run, final) == [verb |-> kind, run |-> run, final |-> final]
\* Any control request postpones the release of an idle rig and starts its watch.
Touched(m) == [m EXCEPT !.watch = @ \/ m.armed]
Fault == faults < MaxFaults /\ faults' = faults + 1
NoFault == UNCHANGED faults
Within(t, c) == \E b \in Budgets : t <= b[1] /\ c <= b[2]
Tap == Within(taps + 1, mod.desired) /\ taps' = taps + 1
\* A boundary drops the queued effects and ends the owner's child, cleanup excepted.
Kept(queue) ==
  LET kept[n \in 1..Len(queue) + 1] ==   \* of the first n - 1
        IF n = 1 THEN <<>> ELSE IF queue[n - 1].final THEN Append(kept[n - 1], queue[n - 1]) ELSE kept[n - 1]
  IN kept[Len(queue) + 1]
Cut == Kept(effects)
CutChild == IF verb["effect"].final THEN verb ELSE [verb EXCEPT !["effect"] = NoVerb]
\* The take it started and had not yet noted.
CutTake == IF verb["effect"].kind = "record" /\ verb["effect"].at = "note" THEN {verb["effect"].run} ELSE {}
CutsApply ==
  \/ \E i \in DOMAIN effects : effects[i].verb = "apply"
  \/ (verb["effect"].kind = "apply" /\ ~verb["effect"].final)

\* openRecordingLocked: the intent is journalled before OBS is asked for anything. What
\* the module becomes, in the cases it does not refuse.
MayOpen(asked) ==
  /\ asked \in {0, mod.run} /\ (mod.live \/ (asked = 0 /\ opened < MaxRuns))
  /\ mod.live => ~Active(mod.rec) /\ ~mod.rec.stopped
FaultOpened == [mod EXCEPT !.run = IF mod.live THEN @ ELSE opened + 1, !.live = TRUE,
                           !.rec = IF mod.live THEN [@ EXCEPT !.intent = TRUE] ELSE [NoRecording EXCEPT !.intent = TRUE]]
Opened ==
  [mod EXCEPT !.run = IF mod.live THEN @ ELSE opened + 1, !.live = TRUE,
              !.rec = IF mod.live /\ @.intent /\ ~@.failed THEN @ ELSE [NoRecording EXCEPT !.intent = TRUE]]
Open(m) == mod' = m /\ disk' = Journal(m) /\ opened' = IF m.run > opened THEN m.run ELSE opened

\* applyEffectsLocked: one apply in flight; a change during it marks it dirty. The wedge
\* that ends a lost apply is a matter of time: it may have lapsed or not.
Apply(m) ==
  IF m.desired = 0 THEN {<<m, <<>>>>}
  ELSE (IF m.applying THEN {<<[m EXCEPT !.dirty = TRUE], <<>>>>} ELSE {})
       \cup {<<[m EXCEPT !.applying = TRUE], <<Effect("apply", 0, FALSE)>>>>}

\* transportTile: what the one button of the pad says it will do.
Face ==
  IF Active(mod.rec) THEN "stop"
  ELSE IF mod.rec.intent /\ ~mod.rec.stopped /\ ~mod.rec.failed THEN "starting"
  ELSE IF mod.armed THEN "rec" ELSE "arm"
\* appendEndRun: the button is there only while there is a run to end.
EndRunShown == mod.live

(***************************************************************************)
(* Taps on the pad.                                                        *)
(***************************************************************************)
\* handleRecordActLocked: a live take is stopped; anything else opens one and records.
TapRecord ==
  /\ Tap
  /\ \/ /\ Active(mod.rec)
        /\ effects' = Append(effects, Effect("stop", mod.run, TRUE))
        /\ NoFault /\ UNCHANGED <<mod, disk, opened>>
     \/ /\ ~Active(mod.rec) /\ MayOpen(0)
        /\ \/ NoFault /\ Open(Opened) /\ effects' = Append(effects, Effect("record", Opened.run, FALSE))
           \/ Fault /\ UNCHANGED <<mod, disk, opened, effects>>   \* the intent cannot be journalled
  /\ UNCHANGED <<verb, obs, excused, disputed, restarts>>

\* The tap re-fires an arm of which nothing was heard for a while.
TapArm ==
  /\ Tap
  /\ mod' = [mod EXCEPT !.arming = TRUE, !.armed = FALSE]
  /\ effects' = Append(effects, Effect("arm", 0, FALSE))
  /\ UNCHANGED <<disk, opened, verb, obs, excused, disputed, faults, restarts>>

\* A knob of the pad: the configuration moves and is driven into OBS.
TapConfig ==
  /\ Within(taps, mod.desired + 1)
  /\ \E next \in Apply([mod EXCEPT !.desired = @ + 1]) :
       /\ mod' = next[1] /\ effects' = effects \o next[2]
       /\ excused' = (excused /\ next[2] = <<>>)   \* the latch of a lost apply still holds
  /\ UNCHANGED <<disk, opened, verb, obs, disputed, taps, faults, restarts>>

\* stopLocked: the run's books are closed, what it queued is cut, an armed rig is released
\* and a take that may be rolling is stopped.
StopEffects == IF StopWorthy(mod.rec) THEN <<Effect("stop", mod.run, TRUE)>> ELSE <<>>
EndRun ==
  /\ Tap /\ EndRunShown
  /\ LET m == [mod EXCEPT !.live = FALSE, !.armed = FALSE, !.arming = @ /\ ~mod.armed]
     IN mod' = m /\ ((NoFault /\ disk' = Journal(m)) \/ (Fault /\ UNCHANGED disk))
  /\ effects' = Cut \o (IF mod.armed THEN <<Effect("release", mod.run, FALSE)>> ELSE <<>>) \o StopEffects
  /\ verb' = CutChild
  /\ excused' = (excused \/ CutsApply) /\ disputed' = disputed \cup CutTake
  /\ UNCHANGED <<opened, obs, restarts>>

(***************************************************************************)
(* The verbs.                                                              *)
(***************************************************************************)
Begin(slot, kind, run, final) ==
  [verb EXCEPT ![slot] = [NoVerb EXCEPT !.kind = kind, !.run = run, !.final = final,
                          !.at = IF kind \in {"stop", "release"} THEN "dial" ELSE "ask"]]
At(slot, kinds, step) == verb[slot].kind \in kinds /\ verb[slot].at = step
Goes(slot, step) == verb' = [verb EXCEPT ![slot].at = step]
Ends(slot) == verb' = [verb EXCEPT ![slot] = NoVerb]

\* The owner starts the next effect.
NextEffect ==
  /\ effects # <<>> /\ verb["effect"] = NoVerb
  /\ effects' = Tail(effects)
  /\ verb' = Begin("effect", Head(effects).verb, Head(effects).run, Head(effects).final)
  /\ UNCHANGED <<mod, disk, opened, obs, excused, disputed, taps, faults, restarts>>

ByHand ==
  /\ Tap /\ verb["hand"] = NoVerb
  /\ \E kind \in HandVerbs : verb' = Begin("hand", kind, 0, FALSE)
  /\ UNCHANGED <<mod, disk, opened, effects, obs, excused, disputed, faults, restarts>>

\* What the verb asks of the module before it touches OBS: the intent to record, the
\* configuration to apply, or what a quit still has to put down.
RecordAsk(slot) ==
  /\ At(slot, {"record"}, "ask")
  /\ \/ /\ MayOpen(verb[slot].run) /\ NoFault
        /\ Open(Touched(Opened))
        /\ verb' = [verb EXCEPT ![slot].at = "dial", ![slot].run = Opened.run, ![slot].config = mod.desired]
     \/ /\ IF MayOpen(verb[slot].run) THEN Fault ELSE NoFault
        /\ Ends(slot) /\ mod' = Touched(mod) /\ UNCHANGED <<disk, opened>>
  /\ UNCHANGED <<effects, excused>>
ApplyAsk(slot) ==
  /\ At(slot, {"apply", "arm"}, "ask")
  /\ \/ /\ mod' = Touched([mod EXCEPT !.dirty = FALSE]) /\ NoFault
        /\ verb' = [verb EXCEPT ![slot].at = "dial", ![slot].config = mod.desired]
        /\ UNCHANGED excused
     \/ Fault /\ Ends(slot) /\ UNCHANGED mod /\ excused' = TRUE
  /\ UNCHANGED <<disk, opened, effects>>
QuitAsk(slot) ==
  /\ At(slot, {"quit"}, "ask")
  /\ mod' = Touched([mod EXCEPT !.live = FALSE, !.armed = FALSE, !.arming = FALSE])
  /\ IF mod.live
     THEN /\ disk' = Journal(mod') /\ effects' = Cut
          /\ verb' = [CutChild EXCEPT ![slot].at = "dial", ![slot].run = mod.run, ![slot].rolling = StopWorthy(mod.rec)]
          /\ excused' = (excused \/ CutsApply)
     ELSE /\ verb' = [verb EXCEPT ![slot].at = "dial", ![slot].run = mod.run, ![slot].rolling = StopWorthy(mod.rec)]
          /\ UNCHANGED <<disk, effects, excused>>
  /\ disputed' = disputed \cup ({mod.run} \ {0})
  /\ NoFault /\ UNCHANGED opened
Ask(slot) ==
  /\ ((RecordAsk(slot) \/ ApplyAsk(slot)) /\ UNCHANGED disputed) \/ QuitAsk(slot)
  /\ UNCHANGED <<obs, taps, restarts>>

\* The dial: record and arm start OBS when it is down, the others only ask.
Boots == {"record", "arm"}
After(kind) == CASE kind = "stop" -> "stop" [] kind = "quit" -> "stop" [] OTHER -> "scene"
Dial(slot) ==
  /\ At(slot, Verbs \ {"none"}, "dial")
  /\ \/ /\ obs.up \/ verb[slot].kind \in Boots
        /\ obs' = [obs EXCEPT !.up = TRUE] /\ Goes(slot, After(verb[slot].kind))
        /\ NoFault /\ UNCHANGED excused
     \/ /\ obs.up \/ verb[slot].kind \in Boots
        /\ Fault /\ UNCHANGED obs /\ excused' = (excused \/ verb[slot].kind \in {"apply", "arm"})
        /\ Goes(slot, CASE verb[slot].kind = "stop" -> "idle"
                        [] verb[slot].kind = "quit" -> "app" [] OTHER -> "fail")
     \/ /\ ~obs.up /\ verb[slot].kind \notin Boots
        /\ Goes(slot, CASE verb[slot].kind = "stop" -> "idle"
                        [] verb[slot].kind = "quit" -> "app" [] OTHER -> "note")
        /\ excused' = (excused \/ verb[slot].kind = "apply")   \* cold: held for the next record
        /\ NoFault /\ UNCHANGED obs
  /\ UNCHANGED <<mod, disk, opened, effects, disputed, taps, restarts>>
\* A verb that failed to stop leaves its slot.
Gone(slot) == verb[slot].kind # "none" /\ verb[slot].at = "idle" /\ Ends(slot)
              /\ UNCHANGED <<mod, disk, opened, effects, obs, excused, disputed, taps, faults, restarts>>

\* Scene, devices and directory: the configuration is applied, or the hardware released.
Scene(slot) ==
  /\ verb[slot].at = "scene"
  /\ LET kind == verb[slot].kind  c == verb[slot].config IN
     \/ /\ obs.up /\ NoFault /\ UNCHANGED excused
        /\ obs' = IF kind \in {"release", "quit"} THEN [obs EXCEPT !.held = FALSE, !.config = 0]
                  ELSE IF c = 0 THEN obs ELSE [obs EXCEPT !.held = TRUE, !.config = c]
        /\ Goes(slot, CASE kind = "record" -> "start" [] OTHER -> "note")
     \/ /\ IF obs.up THEN Fault ELSE NoFault
        /\ UNCHANGED obs /\ excused' = TRUE
        /\ Goes(slot, IF kind = "quit" THEN "idle" ELSE "fail")
  /\ UNCHANGED <<mod, disk, opened, effects, disputed, taps, restarts>>

\* OBS refuses to start a second take.
Start(slot) ==
  /\ verb[slot].at = "start"
  /\ \/ /\ obs.up /\ obs.rolling = 0 /\ obs' = [obs EXCEPT !.rolling = verb[slot].run]
        /\ Goes(slot, "note") /\ NoFault
     \/ /\ IF obs.up /\ obs.rolling = 0 THEN Fault ELSE NoFault
        /\ Goes(slot, "fail") /\ UNCHANGED obs
  /\ UNCHANGED <<mod, disk, opened, effects, excused, disputed, taps, restarts>>

\* The note of a recording outcome for run r: on the current run in memory and on disk, on
\* an older one straight in its journal.
Noted(r, rec) ==
  IF r = mod.run THEN mod' = Touched([mod EXCEPT !.rec = rec]) /\ disk' = Journal(mod')
  ELSE mod' = Touched(mod) /\ disk' = [disk EXCEPT ![r].rec = rec]
RecOf(r) == IF r = mod.run THEN mod.rec ELSE disk[r].rec

\* StopRecord: the clip is the take that was rolling; a take that is not rolling closes the
\* journal without one.
StopTake(slot) ==
  /\ verb[slot].at = "stop"
  /\ \/ /\ verb[slot].kind = "stop" \/ verb[slot].rolling
        /\ verb' = [verb EXCEPT ![slot].at = "stopped", ![slot].config = 0, ![slot].rolling = obs.rolling # 0]
        /\ obs' = [obs EXCEPT !.rolling = 0] /\ NoFault
        /\ LET r == verb[slot].run
               rec == [RecOf(r) EXCEPT !.stopped = TRUE, !.clip = IF obs.rolling # 0 THEN obs.rolling ELSE @]
           IN Noted(r, rec)
     \/ /\ verb[slot].kind = "quit" /\ ~verb[slot].rolling
        /\ Goes(slot, "scene") /\ NoFault /\ UNCHANGED <<obs, mod, disk>>
     \/ /\ verb[slot].kind = "stop" \/ verb[slot].rolling
        /\ Fault /\ Goes(slot, "idle") /\ UNCHANGED <<obs, mod, disk>>
  /\ UNCHANGED <<opened, effects, excused, disputed, taps, restarts>>
\* After the stop, a quit goes on to the hardware.
StopDone(slot) ==
  /\ verb[slot].at = "stopped"
  /\ IF verb[slot].kind = "quit" THEN Goes(slot, "scene") ELSE Ends(slot)
  /\ UNCHANGED <<mod, disk, opened, effects, obs, excused, disputed, taps, faults, restarts>>

(***************************************************************************)
(* Notes.                                                                  *)
(***************************************************************************)
\* noteArmLocked and noteApplyLocked; a configuration that moved under an apply fires again.
ArmNote(m, armed) == [m EXCEPT !.armed = armed, !.arming = FALSE]
ApplyNote == IF mod.dirty THEN Apply([mod EXCEPT !.applying = FALSE]) ELSE {<<[mod EXCEPT !.applying = FALSE], <<>>>>}
Note(slot) ==
  /\ verb[slot].at \in {"note", "fail"}
  /\ LET kind == verb[slot].kind  good == verb[slot].at = "note"  r == verb[slot].run IN
     \/ /\ NoFault
        /\ CASE kind = "record" ->
                  /\ Noted(r, [RecOf(r) EXCEPT !.started = @ \/ good, !.failed = ~good])
                  /\ UNCHANGED effects
             [] kind \in {"arm", "release", "quit"} ->
                  mod' = Touched(ArmNote(mod, good /\ kind = "arm")) /\ UNCHANGED <<disk, effects>>
             [] kind = "apply" ->
                  /\ \E next \in ApplyNote : mod' = Touched(next[1]) /\ effects' = effects \o next[2]
                  /\ UNCHANGED disk
        /\ UNCHANGED <<disputed, excused>>
     \/ /\ Fault                                  \* the note is lost, its retry too
        /\ disputed' = IF kind = "record" /\ good THEN disputed \cup {r} ELSE disputed
        /\ excused' = TRUE /\ UNCHANGED <<mod, disk, effects>>
  /\ IF verb[slot].kind = "quit" THEN Goes(slot, "app") ELSE Ends(slot)
  /\ UNCHANGED <<opened, obs, taps, restarts>>

\* The quit verb ends OBS itself; OBS closes a take that is still rolling.
QuitApp(slot) ==
  /\ verb[slot].at = "app" /\ Ends(slot) /\ obs' = Cold
  /\ UNCHANGED <<mod, disk, opened, effects, excused, disputed, taps, faults, restarts>>

\* A verb is ended by its watchdog.
VerbDies(slot) ==
  /\ verb[slot] # NoVerb /\ Fault /\ Ends(slot)
  /\ disputed' = IF At(slot, {"record"}, "note") THEN disputed \cup {verb[slot].run} ELSE disputed
  /\ excused' = TRUE
  /\ UNCHANGED <<mod, disk, opened, effects, obs, taps, restarts>>

(***************************************************************************)
(* The idle watch, OBS on its own, the owner's death.                      *)
(***************************************************************************)
\* armCheckLocked: nothing armed ends the watch; an armed rig no take uses is released once
\* its deadline has passed.
Watch ==
  /\ mod.watch
  /\ \/ ~mod.armed /\ UNCHANGED verb
     \/ mod.armed /\ ~Active(mod.rec) /\ verb["idle"] = NoVerb /\ verb' = Begin("idle", "release", 0, FALSE)
  /\ mod' = [mod EXCEPT !.watch = FALSE]
  /\ UNCHANGED <<disk, opened, effects, obs, excused, disputed, taps, faults, restarts>>

ObsQuits ==
  /\ obs.up /\ Fault /\ obs' = Cold /\ excused' = TRUE
  /\ UNCHANGED <<mod, disk, opened, effects, verb, disputed, taps, restarts>>

\* New: the newest live journal is the current run again; the configuration comes back from
\* its file and is not applied; the arm, the latches and the queue are gone.
LiveOnDisk == {r \in 1..opened : disk[r].live}
Restart ==
  /\ restarts < MaxRestarts /\ restarts' = restarts + 1
  /\ LET r == IF LiveOnDisk = {} THEN 0 ELSE CHOOSE x \in LiveOnDisk : \A y \in LiveOnDisk : y <= x
     IN mod' = [run |-> r, live |-> r # 0, rec |-> IF r = 0 THEN NoRecording ELSE disk[r].rec,
                desired |-> mod.desired, applying |-> FALSE, dirty |-> FALSE, arming |-> FALSE,
                armed |-> FALSE, watch |-> FALSE]
  /\ effects' = <<>> /\ excused' = TRUE
  /\ verb' = [verb EXCEPT !["idle"] = NoVerb]
  /\ UNCHANGED <<disk, opened, obs, disputed, taps, faults>>

Next ==
  \/ TapRecord \/ TapArm \/ TapConfig \/ EndRun \/ NextEffect \/ ByHand \/ Watch \/ ObsQuits \/ Restart
  \/ \E slot \in Slots : Ask(slot) \/ Dial(slot) \/ Scene(slot) \/ Start(slot) \/ StopTake(slot)
                         \/ StopDone(slot) \/ Note(slot) \/ QuitApp(slot) \/ VerbDies(slot) \/ Gone(slot)
Spec == Init /\ [][Next]_vars

(***************************************************************************)
(* Properties.                                                             *)
(***************************************************************************)
\* While OBS rolls, the books of the take's run say it may be rolling, so that ending the
\* run, or a quit, stops it (stopWorthyLocked). The exception is a started note that was
\* lost: a second record verb then fails on the rolling OBS and writes the take off. The
\* button of the pad says so too, so that nobody starts a second take by it.
TakeIsOwned ==
  obs.rolling # 0 /\ obs.rolling \notin disputed =>
    /\ StopWorthy(RecOf(obs.rolling))
    /\ obs.rolling = mod.run => Face \in {"stop", "starting"}

\* A stop credits a run with its own take (noteRecordingLocked): only a failed call,
\* a restart that lost a queued stop, or a quit typed by hand beside the queue lets two
\* runs' takes cross.
ClipIsItsOwn ==
  [][faults + restarts = 0 /\ verb["hand"].kind # "quit" =>
        \A r \in Runs : RecOf(r)'.clip \in {RecOf(r).clip, r}]_vars

\* A change of configuration reaches a running OBS: while the two differ, an apply is
\* queued, about to read it, or will be fired again by the note of the running one.
Carries(slot) ==
  /\ verb[slot].kind \in {"apply", "arm"}
  /\ \/ verb[slot].at = "ask"
     \/ verb[slot].config = mod.desired /\ verb[slot].at \in {"dial", "scene"}
KnobReachesObs ==
  obs.up /\ obs.config # mod.desired /\ ~excused =>
    \/ \E i \in DOMAIN effects : effects[i].verb \in {"apply", "arm"}
    \/ \E slot \in Slots : Carries(slot)
    \/ mod.dirty /\ mod.applying /\ \E slot \in Slots : verb[slot].kind = "apply"
    \/ obs.config = 0

\* An armed rig is watched, so that nobody using it gives the hardware back in the end.
ArmIsWatched == mod.armed => mod.watch \/ verb["idle"] # NoVerb \/ faults > 0

(***************************************************************************)
(* The inductive invariant.                                                *)
(***************************************************************************)
\* What may be queued: a stop and a record for a run, the rest for none or for the run that ended.
Queueable == {e \in [verb: Verbs, run: 0..MaxRuns, final: BOOLEAN] :
                /\ e.verb \notin {"none", "quit"}
                /\ e.verb \in {"stop", "record"} => e.run # 0
                /\ e.final <=> e.verb = "stop"}
\* Where a verb of a kind may be, and what it carries there.
AskedIn == {"ask", "dial", "scene", "note", "fail"}
Course(v) ==
  \/ v.kind = "record" /\ v.at \in AskedIn \cup {"start"} /\ v.run # 0 /\ ~v.final
  \/ v.kind = "stop" /\ v.at \in {"dial", "stop", "stopped", "idle"} /\ v.run # 0 /\ v.final
  \/ v.kind \in {"apply", "arm"} /\ v.at \in AskedIn /\ ~v.final
  \/ v.kind = "release" /\ v.at \in {"dial", "scene", "note", "fail"} /\ v.config = 0 /\ ~v.final
Quits(v) == /\ v.kind = "quit" /\ v.at \in Steps \ {"start", "fail"} /\ v.config = 0 /\ ~v.final
            /\ v.at # "ask" /\ v.run # 0 => v.run \in disputed
            /\ v.at \in {"dial", "stop"} /\ v.rolling => v.run # 0
Walks ==
  /\ effects \in Seq(Queueable)
  /\ verb["effect"] = NoVerb \/ Course(verb["effect"])
  /\ verb["hand"] = NoVerb \/ Quits(verb["hand"]) \/ (Course(verb["hand"]) /\ verb["hand"].kind = "release")
  /\ verb["idle"] = NoVerb \/ (Course(verb["idle"]) /\ verb["idle"].kind = "release")
  /\ verb["effect"].config <= mod.desired /\ obs.config <= mod.desired

\* The books: the journal has what the memory has, and a live run is the newest live journal.
Books ==
  /\ mod.run <= opened /\ obs.rolling <= opened
  /\ \A r \in Runs : disk[r].live => r <= opened
  /\ mod.run # 0 => disk[mod.run].rec = mod.rec
  /\ mod.run = 0 => ~mod.live /\ ~mod.rec.intent /\ ~mod.rec.started
  /\ mod.live => disk[mod.run].live /\ \A r \in Runs : disk[r].live => r <= mod.run
  /\ ~obs.up => obs.rolling = 0 /\ obs.config = 0

\* The take: the verb that starts one works for the live run, whose books have the intent and nothing else;
\* the one that rolls is on them as started, or its note is on the way.
Starting == verb["effect"].kind = "record" /\ verb["effect"].at # "ask"
Opening(rec) == rec.intent /\ ~rec.started /\ ~rec.stopped /\ ~rec.failed
Take ==
  /\ Starting => /\ verb["effect"].run = mod.run /\ mod.live
                 /\ mod.run \notin disputed => Opening(mod.rec)
  /\ obs.rolling # 0 /\ obs.rolling \notin disputed =>
       LET rec == disk[obs.rolling].rec IN
         /\ rec.intent /\ ~rec.stopped
         /\ rec.started \/ (Starting /\ verb["effect"].at = "note" /\ verb["effect"].run = obs.rolling)

\* The knob: while nothing excuses it, a configuration that OBS or a verb at work does not have is queued, or
\* will be by the note of the apply that is running.
Queued == \E i \in DOMAIN effects : effects[i].verb = "apply"
Coming == Queued \/ (mod.dirty /\ mod.applying /\ verb["effect"].kind = "apply")
Applying == /\ verb["effect"].kind = "apply"
            /\ \/ verb["effect"].at = "ask"
               \/ verb["effect"].config = mod.desired /\ verb["effect"].at \in {"dial", "scene"}
Knob ==
  ~excused =>
    /\ mod.applying => Queued \/ verb["effect"].kind = "apply"
    /\ verb["effect"].at \in {"dial", "scene"} /\ verb["effect"].kind \in {"record", "arm", "apply"}
         /\ verb["effect"].config # mod.desired => Coming
    /\ obs.config \notin {0, mod.desired} => Coming \/ Applying
IInv == TypeOK /\ Walks /\ Books /\ Take /\ Knob /\ ArmIsWatched
=============================================================================
