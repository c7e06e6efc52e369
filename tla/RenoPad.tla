------------------------------- MODULE RenoPad -------------------------------
(***************************************************************************)
(* The recorder pad (module/reno/view.go, adhoc.go): the recording posture *)
(* chosen from tiles, drawn against the devices OBS was last probed for    *)
(* while displays come and go, and the two latched switches of OBS itself. *)
(* A selector of a screen is a display and how it is spelled: the value    *)
(* the pad writes, or the name a command line may have used.               *)
(***************************************************************************)
EXTENDS Naturals, Sequences, FiniteSets, SequencesExt

CONSTANTS Attachable,       \* displays that may be attached
          MaxPadTaps, MaxPlugs, MaxPadRestarts

VARIABLES
  attached,   \* the displays CoreGraphics enumerates, in order
  inv,        \* the cached enumeration of OBS: probed, its displays, their labels
  desired,    \* the pending posture
  saved,      \* config.json and inventory.json
  win,        \* OBS's window: the verbs in flight, the latch, the state shown and the one there is
  lapsed,     \* a latch was given up while its verb was running
  padTaps, plugs, padRestarts
vars == <<attached, inv, desired, saved, win, lapsed, padTaps, plugs, padRestarts>>

Spellings == {"value", "name"}
Corners == {"tl", "br"}
Placement(c, g) == IF ~g THEN c ELSE IF c = "tl" THEN "tl+" ELSE "br+"
Placements == {"unset", "off", "big"} \cup {Placement(c, g) : c \in Corners, g \in BOOLEAN}
Selector(d, by) == [display |-> d, by |-> by]
Postures ==
  [screens : Seq([display : Attachable, by : Spellings]), audio : {"unset", "none", "mic"}, webcam : Placements,
   lemmings : BOOLEAN]
NoConfig == [screens |-> <<>>, audio |-> "unset", webcam |-> "unset", lemmings |-> FALSE]
NoInventory == [probed |-> FALSE, screens |-> <<>>, named |-> {}]
TypeOK ==
  /\ attached \in Seq(Attachable) /\ inv.screens \in Seq(Attachable) /\ inv.named \subseteq Attachable
  /\ desired \in Postures
  /\ win \in [flying : Nat, latch : BOOLEAN, tile : {"?", "shown", "hidden", "error"}, real : {"shown", "hidden"}]

Distinct(s) == \A i, j \in DOMAIN s : s[i] = s[j] => i = j
Init ==
  /\ attached \in UNION {[1..n -> Attachable] : n \in 0..Cardinality(Attachable)} /\ Distinct(attached)
  /\ inv = NoInventory /\ desired = NoConfig
  /\ saved = [config |-> NoConfig, inv |-> NoInventory] /\ lapsed = FALSE
  /\ win = [flying |-> 0, latch |-> FALSE, tile |-> "?", real |-> "shown"]
  /\ padTaps = 0 /\ plugs = 0 /\ padRestarts = 0

(***************************************************************************)
(* The enumeration.                                                        *)
(***************************************************************************)
\* A display is plugged in or out, between two polls.
Plug ==
  /\ plugs < MaxPlugs /\ plugs' = plugs + 1
  /\ \/ \E i \in DOMAIN attached : attached' = RemoveAt(attached, i)
     \/ \E d \in Attachable \ Range(attached) : attached' = Append(attached, d)
  /\ UNCHANGED <<inv, desired, saved, win, lapsed, padTaps, padRestarts>>
\* displaysMoved: with nothing probed or nothing enumerated there is nothing to judge.
DisplaysMoved(i, local) ==
  /\ i.probed /\ local # <<>>
  /\ Len(local) # Len(i.screens) \/ \E k \in DOMAIN i.screens : ~Contains(local, i.screens[k])
\* healDisplaysLocked: the list is rebuilt from what is attached; a display still known
\* keeps its label.
Healed(i, local) ==
  IF DisplaysMoved(i, local) THEN [i EXCEPT !.screens = local, !.named = @ \cap Range(i.screens) \cap Range(local)] ELSE i
Poll ==
  /\ inv' = Healed(inv, attached)
  /\ saved' = IF inv' # inv THEN [saved EXCEPT !.inv = inv'] ELSE saved
  /\ UNCHANGED <<attached, desired, win, lapsed, padTaps, plugs, padRestarts>>
\* The probe verb notes what OBS lists.
Probed ==
  /\ padTaps < MaxPadTaps /\ padTaps' = padTaps + 1
  /\ inv' = [probed |-> TRUE, screens |-> attached, named |-> Range(attached)]
  /\ saved' = [saved EXCEPT !.inv = inv']
  /\ UNCHANGED <<attached, desired, win, lapsed, plugs, padRestarts>>

(***************************************************************************)
(* The tiles.                                                              *)
(***************************************************************************)
\* ResolveItem: by value, by name, never to what is not listed.
Resolves(i, s) == Contains(i.screens, s.display) /\ (s.by = "value" \/ s.display \in i.named)
Lit(i, c, d) == \E k \in DOMAIN c.screens : c.screens[k].display = d /\ Resolves(i, c.screens[k])
Missing(i, c) == {c.screens[k] : k \in {j \in DOMAIN c.screens : ~Resolves(i, c.screens[j])}}
Tile(section, value, lit, act) == [section |-> section, value |-> value, lit |-> lit, act |-> act]
ScreenTiles(i, c) ==
  {Tile("screens", Selector(d, "value"), Lit(i, c, d), "screen") : d \in Range(i.screens)}
  \cup {Tile("screens", s, FALSE, "screen") : s \in Missing(i, c)}
ChoiceTiles(c) == {Tile("mic", v, c.audio = v, "audio") : v \in {"unset", "none", "mic"}}
\* slidePad, sizeStepper: the corner stays when the size changes, and the size when the
\* corner does; an end that would move nothing is dim.
Sits(w, c) == \E g \in BOOLEAN : w = Placement(c, g)
Corner(w) == IF \E c \in Corners : Sits(w, c) THEN CHOOSE c \in Corners : Sits(w, c) ELSE "none"
Grown(w) == \E c \in Corners : w = Placement(c, TRUE)
SlideTiles(c) == {Tile("fx", Placement(k, Grown(c.webcam)), k = Corner(c.webcam), "move") : k \in Corners}
SizeTiles(c) ==
  IF Corner(c.webcam) = "none" THEN {} ELSE {Tile("fx", Placement(Corner(c.webcam), ~Grown(c.webcam)), FALSE, "move")}
LemmingsTile(c) ==
  Tile("fx", IF ~c.lemmings THEN "off" ELSE IF c.webcam \in {"unset", "off"} THEN "no cam" ELSE "on", c.lemmings, "lemmings")
\* recorderTiles: without an inventory only the probe is offered.
Tiles(i, c) ==
  IF ~i.probed THEN {}
  ELSE ScreenTiles(i, c) \cup ChoiceTiles(c) \cup SlideTiles(c) \cup SizeTiles(c)
       \cup {Tile("fx", "big", c.webcam = "big", "move"), Tile("fx", "off", FALSE, "hide"), LemmingsTile(c)}

(***************************************************************************)
(* Taps.                                                                   *)
(***************************************************************************)
\* toggleScreenLocked compares spellings.
ToggleScreen(ss, s) ==
  LET same == {k \in DOMAIN ss : ss[k].display = s.display /\ ss[k].by = s.by}
  IN IF same # {} THEN RemoveAt(ss, CHOOSE k \in same : \A j \in same : k <= j) ELSE Append(ss, s)
Acted(c, t) ==
  CASE t.act = "screen" -> [c EXCEPT !.screens = ToggleScreen(@, t.value)]
    [] t.act = "audio" -> [c EXCEPT !.audio = t.value]
    [] t.act = "move" -> [c EXCEPT !.webcam = t.value]
    [] t.act = "hide" -> [c EXCEPT !.webcam = IF @ = "unset" THEN @ ELSE "off"]
    [] t.act = "lemmings" -> [c EXCEPT !.lemmings = ~@]
\* Every change of the posture is saved before it is driven into OBS (applyEffectsLocked,
\* fxEffectsLocked).
Saves(c) == saved' = [saved EXCEPT !.config = c]
Tap(t) ==
  /\ padTaps < MaxPadTaps /\ padTaps' = padTaps + 1 /\ t \in Tiles(inv, desired)
  /\ desired' = Acted(desired, t) /\ Saves(desired')
  /\ UNCHANGED <<attached, inv, win, lapsed, plugs, padRestarts>>
\* The command line hands a whole posture over (setRecordConfigLocked), screens by name.
Configure(ss) ==
  /\ padTaps < MaxPadTaps /\ padTaps' = padTaps + 1
  /\ desired' = [desired EXCEPT !.screens = ss] /\ Saves(desired')
  /\ UNCHANGED <<attached, inv, win, lapsed, plugs, padRestarts>>

(***************************************************************************)
(* OBS's window; the virtual camera's switch has the same latch.           *)
(***************************************************************************)
\* windowEffectsLocked: a tap while a toggle is in flight is dropped, until its wedge lapses.
MayToggle == ~win.latch
TapWindow ==
  /\ padTaps < MaxPadTaps /\ padTaps' = padTaps + 1 /\ MayToggle
  /\ win' = [win EXCEPT !.latch = TRUE, !.flying = @ + 1]
  /\ UNCHANGED <<attached, inv, desired, saved, lapsed, plugs, padRestarts>>
Wedge ==
  /\ win.latch /\ win.flying > 0 /\ ~lapsed /\ lapsed' = TRUE /\ win' = [win EXCEPT !.latch = FALSE]
  /\ UNCHANGED <<attached, inv, desired, saved, padTaps, plugs, padRestarts>>
\* The verb toggles and notes the state it resolved, or that it failed.
Noted(ok) ==
  IF ok THEN LET to == IF win.real = "shown" THEN "hidden" ELSE "shown"
             IN [win EXCEPT !.flying = @ - 1, !.latch = FALSE, !.real = to, !.tile = to]
  ELSE [win EXCEPT !.flying = @ - 1, !.latch = FALSE, !.tile = "error"]
NoteWindow(ok) ==
  /\ win.flying > 0 /\ win' = Noted(ok)
  /\ UNCHANGED <<attached, inv, desired, saved, lapsed, padTaps, plugs, padRestarts>>

\* New: inventory and posture are read back; the queue of the owner died with it, its
\* latches too.
Restart ==
  /\ padRestarts < MaxPadRestarts /\ padRestarts' = padRestarts + 1
  /\ desired' = saved.config /\ inv' = saved.inv
  /\ win' = [win EXCEPT !.flying = 0, !.latch = FALSE, !.tile = "?"]
  /\ UNCHANGED <<attached, saved, lapsed, padTaps, plugs>>

Named(ds) == [i \in DOMAIN ds |-> Selector(ds[i], "name")]
Next ==
  \/ Plug \/ Poll \/ Probed \/ TapWindow \/ Wedge \/ Restart
  \/ \E t \in Tiles(inv, desired) : Tap(t)
  \/ \E d \in Attachable : Configure(Named(<<d>>))
  \/ \E ok \in BOOLEAN : NoteWindow(ok)
Spec == Init /\ [][Next]_vars

(***************************************************************************)
(* Properties.                                                             *)
(***************************************************************************)
\* What is drawn: the tiles of a poll, whose enumeration has been healed.
Drawn == Tiles(Healed(inv, attached), desired)
\* What the plan would record of what is attached (BuildScenePlan).
Recorded == {s.display : s \in {t \in Range(desired.screens) : Resolves(Healed(inv, attached), t)}}
\* The pad and the recording agree whatever was unplugged: the lit screens are those that
\* would be recorded, all of them attached, and every other screen asked for has a tile
\* that says it is not there. Nothing asked for vanishes from the pad.
PadIsPlan ==
  inv.probed /\ attached # <<>> =>
    /\ {t.value.display : t \in {u \in Drawn : u.section = "screens" /\ u.lit}} = Recorded
    /\ Recorded \subseteq Range(attached)
    /\ \A s \in Range(desired.screens) :
         s.display \in Recorded \/ \E t \in Drawn : t.section = "screens" /\ t.value = s /\ ~t.lit
    /\ \A d \in Range(attached) : \E t \in Drawn : t.section = "screens" /\ t.value = Selector(d, "value")
\* Healing settles: it leaves nothing moved and invents no label.
HealSettles ==
  /\ ~DisplaysMoved(Healed(inv, attached), attached)
  /\ \A d \in inv.named : d \in Range(Healed(inv, attached).screens) => d \in Healed(inv, attached).named
\* The camera's controls keep what they do not change: a slide keeps the size, and a size
\* the corner (slidePad, sizeStepper).
SlideKeepsSize ==
  \A t \in SlideTiles(desired) \cup SizeTiles(desired) :
    IF t \in SlideTiles(desired) THEN Grown(t.value) = Grown(desired.webcam) ELSE Corner(t.value) = Corner(desired.webcam)
\* The posture outlives the owner at once (configFile).
PostureIsSaved == saved.config = desired
\* Two taps on the window's tile do not undo each other, and a tile that claims a state
\* with nothing in flight is right.
WindowTileTrue ==
  ~lapsed => /\ win.flying <= 1
             /\ win.flying = 0 /\ win.tile \in {"shown", "hidden"} => win.tile = win.real
\* The recorder pad as a whole (view.go, adhoc.go).
PadSafe == PadIsPlan /\ HealSettles /\ SlideKeepsSize /\ PostureIsSaved /\ WindowTileTrue

\* What is on disk is what the owner has, no display is listed twice, only a listed one is
\* labelled, and at most one toggle flies, behind its latch: inductive.
Listing == [probed : BOOLEAN, screens : Seq(Attachable), named : SUBSET Attachable]
IInv ==
  /\ attached \in Seq(Attachable) /\ Distinct(attached)
  /\ inv \in Listing /\ Distinct(inv.screens) /\ inv.named \subseteq Range(inv.screens)
  /\ desired \in Postures /\ saved = [config |-> desired, inv |-> inv]
  /\ win \in [flying : Nat, latch : BOOLEAN, tile : {"?", "shown", "hidden", "error"}, real : {"shown", "hidden"}]
  /\ ~lapsed => win.flying <= 1 /\ (win.flying > 0 => win.latch)
  /\ win.tile \in {"shown", "hidden"} => win.tile = win.real
=============================================================================
