------------------------------ MODULE RenoScene ------------------------------
(***************************************************************************)
(* Driving the reno scene of OBS to a recording configuration: the plan    *)
(* (internal/reno/scene.go) and its execution, one request after another   *)
(* (renocontrol/renoscene.go), over whatever an earlier apply, a failed    *)
(* one or the user left in OBS, and the release that puts the rig down     *)
(* (renoarm.go).  Geometry is abstracted to the sizes a canvas is fitted   *)
(* to; verbs run one at a time.                                            *)
(***************************************************************************)
EXTENDS Naturals, Sequences, FiniteSets, SequencesExt

CONSTANTS Displays,      \* what a screen selector may resolve to
          Wanted,        \* configurations asked for
          MaxApplies, MaxEdits, MaxRequestFaults

Screen == <<"screen-0", "screen-1", "screen-2">>
Screens == Range(Screen)
Visual == Screens \cup {"cam", "lemmings"}
Ours == Visual \cup {"mic"}
Names == Ours \cup {"desktop"}        \* an audio source of the user's own, in the same scene
Audio == {"mic", "desktop"}
Selectors == [display : Displays, crop : BOOLEAN]
Configs ==
  {c \in [screens : UNION {[1..n -> Selectors] : n \in 0..2}, audio : {"", "none", "device"},
          webcam : {"", "off", "br"}, camera : {"", "usb"}, lemmings : BOOLEAN] :
     c.screens # <<>> \/ c.audio # "" \/ c.webcam # "" \/ c.camera # "" \/ c.lemmings}

VARIABLES
  input,    \* the inputs of OBS: name -> [kind, setting, muted]
  items,    \* the items of the reno scene, bottom first: [name, on]
  canvas,   \* the canvas: the user's (empty), or fitted to the slots recorded
  stash,    \* canvas.json: the canvas set aside, if any
  home,     \* the canvas the user chose
  present,  \* displays connected
  verb,     \* the running apply: its step, plan and position
  result,   \* how the last verb ended, and the configuration it applied
  applies, obsEdits, obsFaults
vars == <<input, items, canvas, stash, home, present, verb, result, applies, obsEdits, obsFaults>>

None == "none"
Steps == {"idle", "probe", "plan", "inputs", "canvas", "remove", "mute", "stack"}
NoPlan == [inputs |-> <<>>, slots |-> <<>>, stack |-> <<>>, remove |-> {}, mutes |-> <<>>]
Idle == [at |-> "idle", config |-> None, plan |-> NoPlan, next |-> 1]
TypeOK ==
  /\ DOMAIN input \subseteq Names /\ \A n \in DOMAIN input : input[n].muted \in BOOLEAN
  /\ \A i, j \in DOMAIN items : items[i].name \in DOMAIN input /\ (items[i].name = items[j].name => i = j)
  /\ verb.at \in Steps /\ result.end \in {"none", "ok", "failed", "released"} /\ present \subseteq Displays

Input(kind, setting, muted) == [kind |-> kind, setting |-> setting, muted |-> muted]
\* OBS as the user left it, or with a screen of an older capture kind left by an older reno.
Init ==
  /\ \E old \in BOOLEAN :
       /\ input = IF old THEN [n \in {"desktop", "screen-0"} |-> IF n = "desktop" THEN Input("audio", "", FALSE) ELSE Input("old", "", FALSE)]
                  ELSE [n \in {"desktop"} |-> Input("audio", "", FALSE)]
       /\ items = IF old THEN <<[name |-> "screen-0", on |-> TRUE], [name |-> "desktop", on |-> TRUE]>>
                  ELSE <<[name |-> "desktop", on |-> TRUE]>>
  /\ canvas = <<>> /\ home = <<>> /\ stash = {} /\ present = Displays
  /\ verb = Idle /\ result = [end |-> "none", config |-> None] /\ applies = 0 /\ obsEdits = 0 /\ obsFaults = 0

(***************************************************************************)
(* The plan.                                                               *)
(***************************************************************************)
KindOf(n) == IF n \in Audio THEN "audio" ELSE "now"
Planned(n, setting, on) == [name |-> n, kind |-> KindOf(n), setting |-> setting, on |-> on]
\* BuildScenePlan: two selectors that resolve to one display and crop are one slot.
Slots(c) == FoldLeft(LAMBDA acc, s : IF Contains(acc, s) THEN acc ELSE Append(acc, s), <<>>, c.screens)
Resolves(c) == \A i \in DOMAIN c.screens : c.screens[i].display \in present
CamOn(c) == c.webcam \notin {"", "off"}
LemmingsOn(c) == c.lemmings /\ CamOn(c)
\* A knob the configuration leaves unset takes its input down rather than out, when there is one.
Lowered(n) == IF n \in DOMAIN input THEN <<[Planned(n, None, FALSE) EXCEPT !.kind = input[n].kind]>> ELSE <<>>
ScreenInputs(c) == [i \in DOMAIN Slots(c) |-> Planned(Screen[i], Slots(c)[i].display, TRUE)]
MicInputs(c) == IF c.audio = "device" THEN <<Planned("mic", "device", TRUE)>> ELSE <<>>
CamInputs(c) ==
  IF c.webcam = "" THEN Lowered("cam") ELSE <<Planned("cam", IF c.camera = "" THEN None ELSE c.camera, CamOn(c))>>
LemmingsInputs(c) == IF LemmingsOn(c) THEN <<Planned("lemmings", "page", TRUE)>> ELSE Lowered("lemmings")
Mutes(c) ==
  CASE c.audio = "" -> [n \in DOMAIN input \cap {"mic"} |-> TRUE]
    [] c.audio = "none" -> [n \in DOMAIN input \cap Audio |-> TRUE]
    [] OTHER -> [n \in {"mic"} |-> FALSE]
Plan(c) ==
  [inputs |-> ScreenInputs(c) \o MicInputs(c) \o CamInputs(c) \o LemmingsInputs(c),
   slots  |-> Slots(c),
   stack  |-> [i \in DOMAIN Slots(c) |-> Screen[i]] \o (IF CamOn(c) THEN <<"cam">> ELSE <<>>)
              \o (IF LemmingsOn(c) THEN <<"lemmings">> ELSE <<>>),
   remove |-> {n \in DOMAIN input \cap Screens : input[n].kind = "now" /\ n \notin {Screen[i] : i \in DOMAIN Slots(c)}},
   mutes  |-> Mutes(c)]

(***************************************************************************)
(* Requests to OBS.                                                        *)
(***************************************************************************)
HasItem(n) == \E i \in DOMAIN items : items[i].name = n
Without(s, n) == SelectSeq(s, LAMBDA it : it.name # n)
With(f, n, v) == [m \in DOMAIN f \cup {n} |-> IF m = n THEN v ELSE f[m]]
Shown(s, n, on) == [i \in DOMAIN s |-> IF s[i].name = n THEN [s[i] EXCEPT !.on = on] ELSE s[i]]
Request == UNCHANGED obsFaults
Ends(end) == verb' = Idle /\ result' = [end |-> end, config |-> verb.config]
Unchanged == UNCHANGED <<stash, home, present, applies, obsEdits>>

Apply(c) ==
  /\ verb.at = "idle" /\ applies < MaxApplies /\ applies' = applies + 1
  /\ verb' = [Idle EXCEPT !.at = "probe", !.config = c] /\ result' = [end |-> "none", config |-> None]
  /\ UNCHANGED <<input, items, canvas, stash, home, present, obsEdits, obsFaults>>
\* ProbeEnv creates the skeleton inputs, disabled, that it needs to enumerate devices; then
\* the plan is made, or refused.
Skeleton == SelectSeq(<<"screen-0", "mic", "cam">>, LAMBDA n : n \notin DOMAIN input)
Probe ==
  /\ verb.at = "probe" /\ Request
  /\ input' = [n \in DOMAIN input \cup Range(Skeleton) |-> IF n \in DOMAIN input THEN input[n] ELSE Input(KindOf(n), "", FALSE)]
  /\ items' = items \o [i \in DOMAIN Skeleton |-> [name |-> Skeleton[i], on |-> FALSE]]
  /\ verb' = [verb EXCEPT !.at = "plan"]
  /\ UNCHANGED <<canvas, result>> /\ Unchanged
MakePlan ==
  /\ verb.at = "plan" /\ Request
  /\ IF Resolves(verb.config) THEN verb' = [verb EXCEPT !.at = "inputs", !.plan = Plan(verb.config)] /\ UNCHANGED result
     ELSE Ends("failed")
  /\ UNCHANGED <<input, items, canvas>> /\ Unchanged
\* ApplyRecordConfig, one planned input: an input of another kind is recreated, on top of
\* the scene; settings are written only where the plan has some; the item is put in the
\* scene when it is missing, and shown or hidden.
Place(in) ==
  LET keeps == in.name \in DOMAIN input /\ input[in.name].kind = in.kind
      was == IF keeps THEN input[in.name].setting ELSE ""
      set == IF in.setting = None THEN was ELSE in.setting
      left == IF keeps THEN items ELSE Without(items, in.name)
      has == \E i \in DOMAIN left : left[i].name = in.name
  IN /\ input' = With(input, in.name, Input(in.kind, set, keeps /\ input[in.name].muted))
     /\ items' = Shown(IF has THEN left ELSE Append(left, [name |-> in.name, on |-> TRUE]), in.name, in.on)
PlaceNext ==
  /\ verb.at = "inputs" /\ Request
  /\ IF verb.next > Len(verb.plan.inputs)
     THEN verb' = [verb EXCEPT !.at = "canvas", !.next = 1] /\ UNCHANGED <<input, items>>
     ELSE Place(verb.plan.inputs[verb.next]) /\ verb' = [verb EXCEPT !.next = @ + 1]
  /\ UNCHANGED <<canvas, result>> /\ Unchanged

\* fitCanvas: the canvas follows the screens. The one OBS had is stashed once, before the
\* first resize.
FaultStashed == {canvas}
Stashed == IF stash = {} THEN {canvas} ELSE stash
FitCanvas ==
  /\ verb.at = "canvas" /\ Request
  /\ IF verb.plan.slots = <<>> \/ verb.plan.slots = canvas THEN UNCHANGED <<canvas, stash>>
     ELSE stash' = Stashed /\ canvas' = verb.plan.slots
  /\ verb' = [verb EXCEPT !.at = "remove"]
  /\ UNCHANGED <<input, items, home, present, applies, obsEdits, result>>
\* The canvas that did not take, or whose transforms failed: stashed all the same.
CanvasFails ==
  /\ verb.at = "canvas" /\ obsFaults < MaxRequestFaults /\ obsFaults' = obsFaults + 1
  /\ verb.plan.slots # <<>> /\ verb.plan.slots # canvas /\ stash' = Stashed
  /\ canvas' \in {canvas, verb.plan.slots}
  /\ Ends("failed") /\ UNCHANGED <<input, items, home, present, applies, obsEdits>>
\* Stale screens of a wider configuration, in any order.
RemoveStale ==
  /\ verb.at = "remove" /\ Request
  /\ IF verb.plan.remove = {} THEN verb' = [verb EXCEPT !.at = "mute"] /\ UNCHANGED <<input, items>>
     ELSE \E n \in verb.plan.remove :
            /\ input' = [m \in DOMAIN input \ {n} |-> input[m]] /\ items' = Without(items, n)
            /\ verb' = [verb EXCEPT !.plan.remove = @ \ {n}]
  /\ UNCHANGED <<canvas, result>> /\ Unchanged
MuteNext ==
  /\ verb.at = "mute" /\ Request
  /\ IF DOMAIN verb.plan.mutes = {} THEN verb' = [verb EXCEPT !.at = "stack"] /\ UNCHANGED input
     ELSE \E n \in DOMAIN verb.plan.mutes :
            /\ input' = [input EXCEPT ![n].muted = verb.plan.mutes[n]]
            /\ verb' = [verb EXCEPT !.plan.mutes = [m \in DOMAIN @ \ {n} |-> @[m]]]
  /\ UNCHANGED <<items, canvas, result>> /\ Unchanged
\* applyStack: item i of the stack goes to index i. What is not in the stack floats above.
MoveTo(s, n, i) ==
  LET it == SelectSeq(s, LAMBDA x : x.name = n) IN SubSeq(Without(s, n), 1, i - 1) \o it \o SubSeq(Without(s, n), i, Len(s) - 1)
StackTo(s) == MoveTo(s, verb.plan.stack[verb.next], verb.next)
StackNext ==
  /\ verb.at = "stack" /\ Request
  /\ IF verb.next > Len(verb.plan.stack) THEN Ends("ok") /\ UNCHANGED items
     ELSE items' = StackTo(items) /\ verb' = [verb EXCEPT !.next = @ + 1] /\ UNCHANGED result
  /\ UNCHANGED <<input, canvas>> /\ Unchanged
\* Any request may fail; the apply ends there.
RequestFails ==
  /\ verb.at # "idle" /\ obsFaults < MaxRequestFaults /\ obsFaults' = obsFaults + 1
  /\ Ends("failed") /\ UNCHANGED <<input, items, canvas>> /\ Unchanged

\* releaseHardware: every item of ours goes down, whatever fails, and the canvas goes back.
\* restoreCanvas forgets the stash before it writes the canvas.
Released(kept) == [i \in DOMAIN items |-> IF items[i].name \in Ours \ kept THEN [name |-> items[i].name, on |-> FALSE] ELSE items[i]]
Restored(done) == IF stash # {} /\ done THEN CHOOSE c \in stash : TRUE ELSE canvas
Release(kept, restored) ==
  /\ verb.at = "idle" /\ applies > 0
  /\ IF kept = {} /\ restored THEN Request ELSE obsFaults < MaxRequestFaults /\ obsFaults' = obsFaults + 1
  /\ items' = Released(kept) /\ stash' = {}
  /\ canvas' = Restored(restored)
  /\ home' = IF stash # {} /\ ~restored THEN canvas ELSE home     \* what OBS shows is now what there is
  /\ result' = [end |-> IF kept = {} /\ restored THEN "released" ELSE "failed", config |-> None]
  /\ UNCHANGED <<input, verb, present, applies, obsEdits>>

\* The user's own hand, between two verbs: an item shown, hidden, restacked or unmuted, a
\* display unplugged.
HandEdit ==
  /\ verb.at = "idle" /\ obsEdits < MaxEdits /\ obsEdits' = obsEdits + 1
  /\ \/ /\ \E n \in {items[i].name : i \in DOMAIN items} :
             \E on \in BOOLEAN, i \in DOMAIN items : items' = MoveTo(Shown(items, n, on), n, i)
        /\ UNCHANGED <<input, present>>
     \/ /\ \E n \in DOMAIN input : input' = [input EXCEPT ![n].muted = ~@]
        /\ UNCHANGED <<items, present>>
     \/ /\ \E d \in Displays : present' = present \ {d}
        /\ UNCHANGED <<input, items>>
  /\ result' = [end |-> "none", config |-> None]
  /\ UNCHANGED <<canvas, stash, home, verb, applies, obsFaults>>

Next ==
  \/ \E c \in Wanted : Apply(c)
  \/ Probe \/ MakePlan \/ PlaceNext \/ FitCanvas \/ CanvasFails \/ RemoveStale \/ MuteNext \/ StackNext \/ RequestFails
  \/ \E kept \in SUBSET Ours, restored \in BOOLEAN : Cardinality(kept) <= 1 /\ Release(kept, restored)
  \/ HandEdit
Spec == Init /\ [][Next]_vars

(***************************************************************************)
(* Properties.                                                             *)
(***************************************************************************)
On == {items[i].name : i \in {j \in DOMAIN items : items[j].on}}
Stack(c) == Plan(c).stack
\* An apply that reports ok has made the scene what was asked for, whatever it found
\* (ApplyRecordConfig): the screens, camera and overlay asked for are the visual items
\* shown, bottom first and under everything else, each with its device; the canvas is
\* theirs; and no microphone is hot that was not asked for. (A slot of an older capture
\* kind that the configuration has no screen for is left as it is.)
AppliedIsWanted ==
  result.end = "ok" =>
    LET c == result.config IN
    /\ {n \in On \cap Visual : input[n].kind = "now"} = Range(Stack(c))
    /\ Cardinality({n \in On \cap Screens : input[n].kind = "now"}) = Cardinality(Range(c.screens))
    /\ \A i \in DOMAIN Stack(c) : items[i].name = Stack(c)[i]
    /\ \A i \in DOMAIN Slots(c) : input[Screen[i]].setting = Slots(c)[i].display
    /\ CamOn(c) /\ c.camera # "" => input["cam"].setting = c.camera
    /\ Slots(c) # <<>> => canvas = Slots(c)
    /\ input["mic"].muted <=> c.audio # "device"
    /\ c.audio = "none" => input["desktop"].muted
\* A release that reports no failure leaves nothing of ours shown, and the canvas the user had.
ReleasedIsDown == result.end = "released" => On \cap Ours = {} /\ canvas = home
\* The stash is the canvas the user had before the first resize, never one reno chose.
StashIsHome == stash \subseteq {home}
\* The scene as a whole (renoscene.go).
SceneSafe == AppliedIsWanted /\ ReleasedIsDown /\ StashIsHome

\* The user's own source in the scene is his (releaseSceneItems, the plan): no verb removes
\* it, hides it or unmutes it.
UsersOwn ==
  [][obsEdits' = obsEdits =>
       /\ "desktop" \in DOMAIN input' /\ (input["desktop"].muted => input'["desktop"].muted)
       /\ ("desktop" \in On) = ("desktop" \in On')]_vars
=============================================================================
