------------------------------- MODULE RenoFX -------------------------------
(***************************************************************************)
(* The level effects on the Reno camera: the magnitudes the pad shows      *)
(* (module/reno/adhoc.go), the drivers that keep the moving ones going     *)
(* (sustain.go, renofx.go), and what OBS holds.  Effects are verbs the     *)
(* owner runs one at a time; each notes its outcome back.  A display is    *)
(* always selected, so that the configuration is never empty.              *)
(***************************************************************************)
EXTENDS Naturals, Sequences, FiniteSets, SequencesExt

CONSTANTS
  Filters,      \* level effects that are a filter setting (pixelate, purple)
  Sustained,    \* level effects somebody has to keep driving (jitter, lava)
  Lamps,        \* the sustained effects that leave a filter (lava)
  FXMaxLevel,   \* top of a level
  Presets,      \* placements of the camera
  MaxFXTaps,    \* taps and script steps
  MaxFXFaults,  \* drivers that die, verbs that fail
  MaxFXRestarts \* ends of the owner

FXAssumption ==
  /\ IsFiniteSet(Filters) /\ Sustained \cap Filters = {} /\ Lamps \subseteq Sustained
  /\ FXMaxLevel \in Nat /\ MaxFXTaps \in Nat /\ MaxFXFaults \in Nat /\ MaxFXRestarts \in Nat
  /\ IsFiniteSet(Sustained) /\ Presets \cap {"unset", "off"} = {}

VARIABLES
  webcam,    \* the configured placement: "unset", "off" or a preset
  level,     \* the magnitude each tile shows
  parked,    \* magnitudes set aside while the camera is away
  saved,     \* fxlevels.json
  queue,     \* queued effects
  apply,     \* the apply latch: live, dirty
  motor,     \* of each sustained kind: every driver process ever started, the one in the slot
             \* of `sustain` and the one being stopped, 0 for none
  item,      \* reno-cam in OBS: "none", "hidden", "shown"
  filter,    \* filter level in OBS
  pose,      \* where the camera sits
  blind,     \* kinds whose last effect found no camera, or whose camera was removed under a raised level
  fxTaps, fxFaults, fxRestarts
vars == <<webcam, level, parked, saved, queue, apply, motor, item, filter, pose,
          blind, fxTaps, fxFaults, fxRestarts>>

Kinds == Filters \cup Sustained
Levels == 0..FXMaxLevel
Zero == [k \in Kinds |-> 0]
Phases == {"dial", "note", "chunk", "gone"}
Drivers == [level : Levels, phase : Phases, asked : BOOLEAN, home : Presets \cup {"unset"}]
Motors == {m \in [slot : Nat, retiring : Nat, driver : Seq(Drivers)] : {m.slot, m.retiring} \subseteq 0..Len(m.driver)}
Cam(k, l) == [op |-> "cam", kind |-> k, level |-> l, to |-> "unset"]
Op(op, to) == [op |-> op, kind |-> "none", level |-> 0, to |-> to]
Effects ==
  {e \in [op : {"cam", "apply", "move", "hide"}, kind : Kinds \cup {"none"}, level : Levels, to : Presets \cup {"unset"}] :
     (e.op = "cam" => e.kind \in Kinds) /\ (e.op = "move" => e.to \in Presets)}
TypeOK ==
  /\ webcam \in Presets \cup {"unset", "off"} /\ level \in [Kinds -> Levels] /\ parked \in [Kinds -> Levels]
  /\ saved \in [levels : [Kinds -> Levels], parked : [Kinds -> Levels]]
  /\ queue \in Seq(Effects) /\ apply \in [live : BOOLEAN, dirty : BOOLEAN]
  /\ motor \in [Sustained -> Motors]
  /\ item \in {"none", "hidden", "shown"} /\ filter \in [Kinds -> Levels] /\ pose \in Presets \cup {"unset"}
  /\ blind \subseteq Kinds

NoLatch == [live |-> FALSE, dirty |-> FALSE]
Init ==
  /\ webcam = "unset" /\ level = Zero /\ parked = Zero /\ saved = [levels |-> Zero, parked |-> Zero]
  /\ queue = <<>> /\ apply = NoLatch
  /\ motor = [k \in Sustained |-> [slot |-> 0, retiring |-> 0, driver |-> <<>>]]
  /\ item = "none" /\ filter = Zero /\ pose = "unset" /\ blind = {} /\ fxTaps = 0 /\ fxFaults = 0 /\ fxRestarts = 0

(***************************************************************************)
(* The module's decisions, on a record of what it holds.                   *)
(***************************************************************************)
Held == [webcam |-> webcam, level |-> level, parked |-> parked, apply |-> apply, motor |-> motor, queue |-> queue]
CamGone(h) == h.webcam \in {"unset", "off"}

\* touchSustainLocked: a driver at another level is retired and must have put the camera
\* back before its replacement starts; nothing starts where a driver is being retired.
Want(h, k) == IF CamGone(h) THEN 0 ELSE h.level[k]
Retires(m) == [slot |-> 0, retiring |-> m.slot, driver |-> [m.driver EXCEPT ![m.slot].asked = TRUE]]
Starts(m, l) ==
  [slot |-> Len(m.driver) + 1, retiring |-> 0,
   driver |-> Append(m.driver, [level |-> l, phase |-> "dial", asked |-> FALSE, home |-> "unset"])]
FaultTurned(m, want) ==
  IF m.slot # 0 /\ m.driver[m.slot].level # want THEN Retires(m)
  ELSE IF m.slot = 0 /\ want > 0 THEN Starts(m, want) ELSE m
Turned(m, want) ==
  IF m.retiring # 0 THEN m
  ELSE IF m.slot # 0 /\ m.driver[m.slot].level # want THEN Retires(m)
  ELSE IF m.slot = 0 /\ want > 0 THEN Starts(m, want) ELSE m
Touch(h, ks) == [h EXCEPT !.motor = [k \in Sustained |-> IF k \in ks THEN Turned(h.motor[k], Want(h, k)) ELSE h.motor[k]]]
TouchEvery(h) == Touch(h, Sustained)
Send(h, es) == [h EXCEPT !.queue = @ \o es]
\* An effect for each of some kinds, in the order of the table (LevelFXKinds).
Cams(ks, l) == [i \in 1..Cardinality(ks) |-> Cam(SetToSeq(ks)[i], l[SetToSeq(ks)[i]])]

\* reassertFXLocked: every filter level the pad shows goes out again.
Reassert(h) ==
  TouchEvery(Send(h, Cams({k \in Filters : h.level[k] > 0}, h.level)))

\* parkFXLocked and unparkFXLocked. A level tapped while the camera was away outranks the
\* one set aside.
Park(h) ==
  IF ~CamGone(h) THEN h
  ELSE TouchEvery(Send([h EXCEPT !.level = Zero,
                          !.parked = [k \in Kinds |-> IF h.level[k] > 0 THEN h.level[k] ELSE h.parked[k]]],
         Cams({k \in Filters \cup Lamps : h.level[k] > 0}, Zero)))
Unpark(h) ==
  IF h.parked = Zero \/ CamGone(h) THEN h
  ELSE Reassert([h EXCEPT !.parked = Zero,
                   !.level = [k \in Kinds |-> IF h.parked[k] > 0 /\ h.level[k] = 0 THEN h.parked[k] ELSE h.level[k]]])

\* applyEffectsLocked: one apply in flight, a change under it makes it dirty.
Apply(h) ==
  IF h.apply.live THEN [h EXCEPT !.apply.dirty = TRUE]
  ELSE Send([h EXCEPT !.apply.live = TRUE], <<Op("apply", "unset")>>)

Keeps(h) ==
  /\ webcam' = h.webcam /\ level' = h.level /\ parked' = h.parked /\ apply' = h.apply
  /\ motor' = h.motor /\ queue' = h.queue
\* saveFXLocked: both halves, whenever either moves.
Saves(h) == saved' = IF h.level # level \/ h.parked # parked THEN [levels |-> h.level, parked |-> h.parked] ELSE saved
Becomes(h) == Keeps(h) /\ Saves(h)
FXTap == fxTaps < MaxFXTaps /\ fxTaps' = fxTaps + 1
Obs == <<item, filter, pose, blind>>

(***************************************************************************)
(* Taps.                                                                   *)
(***************************************************************************)
\* bumpFXLevelLocked: a step within the range. A filter's level goes out as an effect; a
\* sustained one is its driver's business, but for the lamp's filter, dark only at zero.
Bump(k, up) ==
  /\ FXTap /\ IF up THEN level[k] < FXMaxLevel ELSE level[k] > 0
  /\ LET next == IF up THEN level[k] + 1 ELSE level[k] - 1
         h == Touch([Held EXCEPT !.level[k] = next], {k})
     IN Becomes(IF k \in Filters \/ (k \in Lamps /\ next = 0) THEN Send(h, <<Cam(k, next)>>) ELSE h)
  /\ UNCHANGED <<Obs, fxFaults, fxRestarts>>

\* fxEffectsLocked: a slide is a placement; the first one goes through the apply.
Slide(p) ==
  /\ FXTap
  /\ LET h == [Held EXCEPT !.webcam = p]
     IN Becomes(IF webcam = "unset" THEN Apply(h) ELSE Unpark(Send(h, <<Op("move", p)>>)))
  /\ UNCHANGED <<Obs, fxFaults, fxRestarts>>
Hide ==
  /\ FXTap /\ webcam # "unset"
  /\ Becomes(Send(Park([Held EXCEPT !.webcam = "off"]), <<Op("hide", "unset")>>))
  /\ UNCHANGED <<Obs, fxFaults, fxRestarts>>
\* The webcam knob: off and unset park, and every value is applied.
CfgWebcam(v) ==
  /\ FXTap /\ Becomes(Apply(Park([Held EXCEPT !.webcam = v])))
  /\ UNCHANGED <<Obs, fxFaults, fxRestarts>>
\* A script step that names an effect: nothing is recorded until it notes back.
ScriptCam(k, l) ==
  /\ FXTap /\ Becomes(Send(Held, <<Cam(k, l)>>))
  /\ UNCHANGED <<Obs, fxFaults, fxRestarts>>
\* An arm that came up re-asserts every level.
ArmUp == FXTap /\ item # "none" /\ Becomes(Reassert(Held)) /\ UNCHANGED <<Obs, fxFaults, fxRestarts>>

(***************************************************************************)
(* The verbs.                                                              *)
(***************************************************************************)
\* adoptFXLevelLocked: the level of an effect that landed, unless a driver owns the kind.
Adopt(h, k, l) ==
  IF k \in Sustained /\ (h.motor[k].slot # 0 \/ h.motor[k].retiring # 0) THEN h
  ELSE Touch([h EXCEPT !.level[k] = l], {k})
Rest(h) == [h EXCEPT !.queue = Tail(@)]
Due == Head(queue)
NoFault == UNCHANGED fxFaults

\* CamFX: an effect needs the camera item; a sustained one is only noted, for the owner
\* drives it, and turning the lamp off disables its filter.
RunCam ==
  /\ queue # <<>> /\ Due.op = "cam" /\ NoFault
  /\ LET k == Due.kind  l == Due.level
         lands == item # "none" \/ (k \in Sustained /\ l > 0)
     IN /\ filter' = IF item # "none" /\ (k \in Filters \/ (k \in Lamps /\ l = 0)) THEN [filter EXCEPT ![k] = l] ELSE filter
        /\ blind' = IF lands THEN blind \ {k} ELSE blind \cup {k}
        /\ Becomes(IF lands THEN Adopt(Rest(Held), k, l) ELSE Rest(Held))
  /\ UNCHANGED <<item, pose, fxTaps, fxRestarts>>
RunMove ==
  /\ queue # <<>> /\ Due.op \in {"move", "hide"} /\ NoFault
  /\ IF item = "none" THEN UNCHANGED <<item, pose>>
     ELSE IF Due.op = "hide" THEN item' = "hidden" /\ UNCHANGED pose
     ELSE item' = "shown" /\ pose' = Due.to
  /\ Becomes(Rest(Held)) /\ UNCHANGED <<filter, blind, fxTaps, fxRestarts>>
\* The apply reads the configuration when it runs; noteApplyLocked gives parked levels back
\* once the camera is staged, and fires again if it is dirty. Unset removes the input, and
\* its filters with it.
RunApply ==
  /\ queue # <<>> /\ Due.op = "apply" /\ NoFault
  /\ item' = CASE webcam = "unset" -> "none" [] webcam = "off" -> (IF item = "none" THEN "none" ELSE "hidden") [] OTHER -> "shown"
  /\ filter' = IF webcam = "unset" THEN Zero ELSE filter
  /\ pose' = IF webcam \in Presets THEN webcam ELSE pose
  /\ Becomes(IF apply.dirty THEN Apply(Unpark(Rest([Held EXCEPT !.apply = NoLatch]))) ELSE Unpark(Rest([Held EXCEPT !.apply = NoLatch])))
  /\ blind' = IF webcam = "unset" THEN blind \cup {k \in Filters : level[k] > 0} ELSE blind
  /\ UNCHANGED <<fxTaps, fxRestarts>>
\* A verb fails: nothing of it lands, an apply's note closes the latch all the same.
RunFails ==
  /\ queue # <<>> /\ fxFaults < MaxFXFaults /\ fxFaults' = fxFaults + 1
  /\ Becomes(IF Due.op = "apply" THEN Unpark(Rest([Held EXCEPT !.apply = NoLatch])) ELSE Rest(Held))
  /\ UNCHANGED <<Obs, fxTaps, fxRestarts>>

(***************************************************************************)
(* The drivers.                                                            *)
(***************************************************************************)
Alive(k, d) == motor[k].driver[d].phase # "gone"
Gone(k, d) == motor' = [motor EXCEPT ![k].driver[d].phase = "gone"]
\* SustainFX reads the pose it will go back to, once, and sets up: the item is shown, and
\* the lamp's filter switched on.
DriverSetup(k, d) ==
  /\ motor[k].driver[d].phase = "dial"
  /\ IF item = "none" THEN Gone(k, d) /\ UNCHANGED <<item, filter>>
     ELSE /\ motor' = [motor EXCEPT ![k].driver[d] = [@ EXCEPT !.phase = "note", !.home = pose]]
          /\ item' = "shown" /\ filter' = IF k \in Lamps THEN [filter EXCEPT ![k] = motor[k].driver[d].level] ELSE filter
  /\ UNCHANGED <<webcam, level, parked, saved, queue, apply, pose, blind, fxTaps, fxFaults, fxRestarts>>
DriverNote(k, d) ==
  /\ motor[k].driver[d].phase = "note"
  /\ LET h == Adopt(Held, k, motor[k].driver[d].level)
     IN Becomes([h EXCEPT !.motor[k].driver[d].phase = "chunk"])
  /\ UNCHANGED <<Obs, fxTaps, fxFaults, fxRestarts>>
\* A chunk of motion around the pose it read; asked to stop, it goes home.
DriverHome(k, d) ==
  /\ motor[k].driver[d].phase = "chunk" /\ motor[k].driver[d].asked /\ Gone(k, d)
  /\ pose' = IF k \in Lamps \/ item = "none" THEN pose ELSE motor[k].driver[d].home
  /\ UNCHANGED <<webcam, level, parked, saved, queue, apply, item, filter, blind, fxTaps, fxFaults, fxRestarts>>
\* A driver ends by itself: a lost socket, its lifetime.
DriverDies(k, d) ==
  /\ Alive(k, d) /\ fxFaults < MaxFXFaults /\ fxFaults' = fxFaults + 1 /\ Gone(k, d)
  /\ UNCHANGED <<webcam, level, parked, saved, queue, apply, Obs, fxTaps, fxRestarts>>
\* reapSustainDriver clears the slot and does not restart.
Reap(k) ==
  /\ motor[k].slot # 0 /\ ~Alive(k, motor[k].slot) /\ motor' = [motor EXCEPT ![k].slot = 0]
  /\ UNCHANGED <<webcam, level, parked, saved, queue, apply, Obs, fxTaps, fxFaults, fxRestarts>>
\* The stopper's goroutine: the driver is gone, the replacement may start.
Retired(k) ==
  /\ motor[k].retiring # 0 /\ ~Alive(k, motor[k].retiring)
  /\ Becomes(Touch([Held EXCEPT !.motor[k].retiring = 0], {k}))
  /\ UNCHANGED <<Obs, fxTaps, fxFaults, fxRestarts>>

\* Close waits for the drivers it asks to stop; a killed owner's drivers read the end of
\* their pipe. recoverFXLevels keeps the filters' levels: a driver does not outlive the bus.
Recovered(v) == [k \in Kinds |-> IF k \in Sustained THEN 0 ELSE v[k]]
FXRestart ==
  /\ fxRestarts < MaxFXRestarts /\ fxRestarts' = fxRestarts + 1
  /\ motor' = [k \in Sustained |->
                 [slot |-> 0, retiring |-> 0,
                  driver |-> [d \in DOMAIN motor[k].driver |-> [motor[k].driver[d] EXCEPT !.asked = TRUE]]]]
  /\ level' = Recovered(saved.levels) /\ parked' = Recovered(saved.parked)
  /\ queue' = <<>> /\ apply' = NoLatch
  /\ UNCHANGED <<webcam, saved, Obs, fxTaps, fxFaults>>

Next ==
  \/ \E k \in Kinds : (\E up \in BOOLEAN : Bump(k, up)) \/ \E l \in Levels : ScriptCam(k, l)
  \/ \E p \in Presets : Slide(p) \/ CfgWebcam(p)
  \/ \E v \in {"unset", "off"} : CfgWebcam(v)
  \/ Hide \/ ArmUp \/ RunCam \/ RunMove \/ RunApply \/ RunFails \/ FXRestart
  \/ \E k \in Sustained : \E d \in DOMAIN motor[k].driver :
       DriverSetup(k, d) \/ DriverNote(k, d) \/ DriverHome(k, d) \/ DriverDies(k, d)
  \/ \E k \in Sustained : Reap(k) \/ Retired(k)
Spec == Init /\ [][Next]_vars

(***************************************************************************)
(* Properties.                                                             *)
(***************************************************************************)
\* Two drivers never move the camera at once: a replacement starts only after the one
\* before it has put the camera back (sustain.go). An owner that died leaves its own
\* drivers to their end of pipe.
OneDriver ==
  fxRestarts = 0 =>
    \A k \in Sustained : \A c, d \in DOMAIN motor[k].driver : Alive(k, c) /\ Alive(k, d) => c = d

Quiet ==
  /\ queue = <<>>
  /\ \A k \in Sustained :
       /\ \A d \in DOMAIN motor[k].driver : Alive(k, d) => motor[k].driver[d].phase = "chunk" /\ ~motor[k].driver[d].asked
       /\ motor[k].retiring = 0 /\ (motor[k].slot # 0 => Alive(k, motor[k].slot))
\* With nothing in flight the tiles tell the truth: a filter's level is what OBS holds while
\* there is a camera, unless its last effect missed it, and a running driver plays the
\* level its tile shows.
TilesAreTrue ==
  Quiet /\ fxFaults + fxRestarts = 0 =>
    /\ \A k \in Filters \ blind : item # "none" => filter[k] = level[k]
    /\ \A k \in Sustained : motor[k].slot # 0 => motor[k].driver[motor[k].slot].level = level[k]

\* Setting the camera aside loses no level, a restart included: what was shown for a filter
\* is shown, set aside, or was lowered since (parkFXLocked, fxState).
ParkingKeeps ==
  [][\A k \in Filters : level[k] > 0 /\ level'[k] = 0 /\ webcam' # webcam => parked'[k] = level[k] /\ saved'.parked[k] = level[k]]_vars

\* A level turned to zero stays there until the user raises it (adoptFXLevelLocked): the
\* note of a driver that was coming up does not switch the effect back on. (A driver that
\* outlived a killed owner is no driver the next owner knows.)
OffStaysOff ==
  [][\A j, k \in Sustained : \A d \in DOMAIN motor[j].driver :
       motor[j].driver[d].phase = "note" /\ motor'[j].driver[d].phase = "chunk" /\ level[k] = 0 /\ fxRestarts = 0 => level'[k] = 0]_vars

(***************************************************************************)
(* The inductive invariant.                                                *)
(***************************************************************************)
\* Where a kind is being stopped nothing runs, who runs plays the level of the tile, and
\* as long as no owner died nobody else is alive.
Manned(m, want, alone) ==
  /\ m.retiring # 0 => m.slot = 0
  /\ m.slot # 0 => m.driver[m.slot].level = want /\ want > 0
  /\ alone => \A d \in DOMAIN m.driver : m.driver[d].phase # "gone" => d \in {m.slot, m.retiring}
\* OBS holds the level of a filter, or an effect that settles it is queued.
Sent(q, k) == \E i \in DOMAIN q : q[i].op = "cam" /\ q[i].kind = k
Told == \A k \in Filters \ blind : Sent(queue, k) \/ filter[k] = level[k]
IInv ==
  /\ TypeOK /\ fxTaps \in Nat /\ fxFaults \in Nat /\ fxRestarts \in Nat
  /\ \A k \in Sustained : Manned(motor[k], Want(Held, k), fxRestarts = 0)
  /\ fxFaults + fxRestarts = 0 => Told
=============================================================================
