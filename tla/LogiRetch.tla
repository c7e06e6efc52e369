---------------------------- MODULE LogiRetch ----------------------------
(* The mouse module of touchd (logiretch.go): it resolves the features of   *)
(* the mouse, takes the controls over, applies the configured settings,     *)
(* retries what the link lost on the next battery ticks, applies everything *)
(* again when the mouse says it came back, and retains a line with what it  *)
(* believes the device holds.  Every request ends as the device leaves it:  *)
(* ok, refused (an HID++ error), lost (no answer in time, written or not)   *)
(* or dead (the reader has ended).                                          *)
EXTENDS Naturals, Sequences

CONSTANTS
  Controls,     \* the controls of 0x1B04, in order
  Remap,        \* the configured remaps: a function on some controls
  Wanted,       \* the configured settings: name |-> value
  Order,        \* their names, in the order of applySteps
  DpiList,      \* what getSensorDpiList answers, never empty
  Retries,      \* logiApplyRetries
  MaxTrouble    \* bound: naps, losses, resets and lost or refused requests

None == "none"
Settings == DOMAIN Wanted
Cids == {Controls[i] : i \in DOMAIN Controls}
Takeover == "takeover"
Steps == Settings \cup {Takeover}
Battery == "battery"

LogiAssumption == /\ Retries \in Nat \ {0} /\ MaxTrouble \in Nat
                  /\ Settings = {Order[i] : i \in DOMAIN Order}
                  /\ Takeover \notin Settings \cup Cids /\ Settings \cap Cids = {}

VARIABLES
  mouse,     \* "gone", "asleep", "awake"
  session,   \* "none" (no handle), "resolve", "apply", "steady"
  dead,      \* the reader of the handle has ended (readError)
  feats,     \* the resolved features, {} before (nil)
  todo,      \* the set of what is left of the pass: steps and controls
  failed,    \* steps of the pass that failed on the transport
  mode,      \* the pass: "connect", "reapply" or "retry"
  pending, retries,
  watching,  \* onEvent knows the index of 0x1D4B
  reconf,    \* the coalesced signal of a reconnection
  device,    \* the settings the mouse holds
  control,   \* the reporting of each control: diverted, target of a remap
  view,      \* the state line being built
  shown,     \* the state line retained on the socket
  missed,    \* history: the mouse reset itself and nobody was told
  excused,   \* history: steps the mouse refused or that ran out of retries
  trouble
vars == <<mouse, session, dead, feats, todo, failed, mode, pending, retries, watching, reconf, device, control, view, shown, missed, excused, trouble>>

Down == [connected |-> FALSE, settings |-> [s \in {} |-> None], pending |-> {}]
Factory == [s \in Settings |-> 0]
\* what another program left: some controls diverted
Untouched == [c \in Cids |-> [diverted |-> TRUE, target |-> None]]

Init == /\ mouse \in {"gone", "awake"} /\ session = "none" /\ dead = FALSE /\ feats = {}
        /\ todo = {} /\ failed = {} /\ mode = "connect" /\ pending = {} /\ retries = 0
        /\ watching = FALSE /\ reconf = FALSE /\ device = Factory /\ control = Untouched
        /\ view = Down /\ shown = Down
        /\ missed = FALSE /\ excused = {} /\ trouble = 0

Unlucky == trouble < MaxTrouble /\ trouble' = trouble + 1
Lucky == UNCHANGED trouble

---------------------------------------------------------------------------
\* Values on the wire.
Distance(a, b) == IF a > b THEN a - b ELSE b - a
\* snapDPI: the first entry of the list that is closest to the wish
SnapDPI(list, want) ==
  IF list = <<>> THEN want
  ELSE LET best == CHOOSE i \in DOMAIN list :
                     /\ \A j \in DOMAIN list : Distance(list[i], want) <= Distance(list[j], want)
                     /\ \A j \in 1..(i - 1) : Distance(list[j], want) > Distance(list[i], want)
       IN list[best]
\* applySmartShift: 50 and above select the largest threshold
Threshold(t) == IF t >= 50 THEN 255 ELSE t
\* applyHaptic
Level(l) == IF l > 100 THEN 100 ELSE l
\* What the frame of a setting carries; read is the list the device gave.
Frame(s, read) ==
  CASE s = "dpi" -> SnapDPI(read, Wanted[s])
    [] s = "smartShift" -> Threshold(Wanted[s])
    [] s = "haptic" -> Level(Wanted[s])
    [] OTHER -> Wanted[s]
Accepts(s, v) == s = "dpi" => \E i \in DOMAIN DpiList : v = DpiList[i]

---------------------------------------------------------------------------
\* The state line.
NoteSetting(v, s, note) ==
  [v EXCEPT !.settings = [x \in DOMAIN v.settings \cup {s} |-> IF x = s THEN note ELSE v.settings[x]]]
PublishState(v, p) == shown' = [v EXCEPT !.pending = p]
PublishDown == shown' = Down

---------------------------------------------------------------------------
\* A session.

\* Run: the device is there, it is opened shared and a session begins.
Open == /\ session = "none" /\ mouse # "gone"
        /\ session' = "resolve"
        /\ dead' = FALSE /\ feats' = {} /\ pending' = {} /\ retries' = 0 /\ watching' = FALSE
        /\ reconf' = FALSE /\ view' = Down /\ missed' = FALSE /\ excused' = {} /\ Lucky
        /\ UNCHANGED <<mouse, todo, failed, mode, device, control, shown>>

\* Run: the session is over; the handle is closed and the line says so.
Close == /\ session = "steady" /\ dead
         /\ session' = "none"
         /\ PublishDown /\ Lucky
         /\ UNCHANGED <<mouse, dead, feats, todo, failed, mode, pending, retries, watching, reconf, device, control, view, missed, excused>>

\* watchReconf: from now on a reconnection is heard.
Watches == watching' = (watching \/ "0x1D4B" \in feats')

\* ping, resolveFeatures: features may be dropped on the way; a walk that
\* dropped some and lacks the battery is not committed.
ResolveFails == /\ session = "resolve"
                /\ session' = "steady"
                /\ IF dead \/ mouse = "asleep" THEN Lucky ELSE Unlucky
                /\ UNCHANGED <<mouse, dead, feats, todo, failed, mode, pending, retries, watching, reconf, device, control, view, shown, missed, excused>>

Present == Steps \cup {Battery, "0x1D4B"}
Committed(f) == Battery \in f \/ f = Present
\* The order of a pass: the takeover, the controls it found, the settings.
InOrder == <<Takeover>> \o Controls \o Order
Turn(s) == s \in todo /\ \A i, j \in DOMAIN InOrder : i < j /\ s = InOrder[j] => InOrder[i] \notin todo
StartApply(m) == /\ todo' = Steps
                 /\ failed' = {} /\ mode' = m /\ excused' = {}
                 /\ session' = "apply"
ResolveFeatures == /\ session = "resolve" /\ ~dead /\ mouse = "awake"
                   /\ \E dropped \in {{}} \cup {{f} : f \in Present} :
                        /\ Committed(Present \ dropped)
                        /\ feats' = Present \ dropped
                        /\ IF dropped = {} THEN Lucky ELSE Unlucky
                   /\ view' = [Down EXCEPT !.connected = TRUE]
                   /\ StartApply("connect")
                   /\ UNCHANGED <<mouse, dead, pending, retries, watching, reconf, device, control, shown, missed>>

---------------------------------------------------------------------------
\* One request.
Answer(how) == CASE how = "ok" -> ~dead /\ mouse = "awake" /\ Lucky
                 [] how = "refused" -> ~dead /\ mouse = "awake" /\ Unlucky
                 [] how = "lost" -> ~dead /\ (IF mouse = "awake" THEN Unlucky ELSE Lucky)
                 [] how = "dead" -> dead /\ Lucky
Fate == {"ok", "refused", "lost", "dead"}
\* transportErr
TransportErr(how) == how \in {"lost", "dead"}

Pass(s, how) == /\ failed' = IF TransportErr(how) THEN failed \cup {s} ELSE failed
                /\ excused' = IF how = "refused" THEN excused \cup {s} ELSE excused

\* takeoverReset: reads how many controls there are, then walks them.
Walk == /\ session = "apply" /\ Turn(Takeover)
        /\ IF Takeover \notin feats
           THEN /\ todo' = todo \ {Takeover}
                /\ excused' = excused \cup {Takeover} /\ Lucky
                /\ UNCHANGED failed
           ELSE \E how \in Fate :
                  /\ Answer(how)
                  /\ todo' = (todo \ {Takeover}) \cup (IF how = "ok" THEN Cids ELSE {})
                  /\ Pass(Takeover, how)
        /\ UNCHANGED <<mouse, session, dead, feats, mode, pending, retries, watching, reconf, device, control, view, shown, missed>>

\* setCidReporting: a configured remap, or the divert residue cleared; the
\* frame may have arrived although its answer did not.
Written(c) == IF c \in DOMAIN Remap THEN [control[c] EXCEPT !.target = Remap[c]]
              ELSE [control[c] EXCEPT !.diverted = FALSE]
SetCidReporting(c, how) ==
  CASE how = "ok" -> control' = [control EXCEPT ![c] = Written(c)]
    [] how = "lost" -> control' \in {control, IF mouse = "awake" THEN [control EXCEPT ![c] = Written(c)] ELSE control}
    [] OTHER -> UNCHANGED control

\* takeoverReset, one control: its info and reporting are read; a control that
\* is neither remapped nor diverted is left alone.
Control == /\ session = "apply"
           /\ \E c \in Cids, how \in Fate :
                /\ Turn(c) /\ todo' = todo \ {c}
                /\ Answer(how)
                /\ \/ SetCidReporting(c, how) /\ (c \in DOMAIN Remap \/ control[c].diverted)
                   \/ UNCHANGED control /\ (how # "ok" \/ (c \notin DOMAIN Remap /\ ~control[c].diverted))
                /\ Pass(Takeover, how)
           /\ UNCHANGED <<mouse, session, dead, feats, mode, pending, retries, watching, reconf, device, view, shown, missed>>

\* applyDPI: the list is read first, and a list that was not read snaps to
\* nothing; the device refuses a value it does not list.
ApplyDPI(how, v) == \E list \in {DpiList, <<>>} :
                      /\ v = Frame("dpi", list)
                      /\ (how = "ok") => Accepts("dpi", v)
\* applySmartShift, applyHires, applyThumb, applyHaptic
ApplyPlain(s, v) == v = Frame(s, <<>>)

\* applySteps, one setting: absent features are noted, a refusal is noted and
\* dropped, a failure of the transport is noted and left for the retries.
Sent(s, how, v) == CASE how = "ok" -> device' = [device EXCEPT ![s] = v]
                     [] how = "lost" /\ mouse = "awake" -> device' \in {device, [device EXCEPT ![s] = v]}
                     [] OTHER -> UNCHANGED device
Note(how) == IF how = "ok" THEN "clean" ELSE "error"
ApplyStep == /\ session = "apply"
             /\ \E s \in Settings :
                /\ Turn(s) /\ todo' = todo \ {s}
                /\ IF s \notin feats
                   THEN /\ view' = NoteSetting(view, s, "absent") /\ Lucky
                        /\ UNCHANGED <<failed, excused, device>>
                   ELSE \E how \in Fate, v \in {Frame(s, DpiList), Frame(s, <<>>)} :
                          /\ Answer(how)
                          /\ IF s = "dpi" THEN ApplyDPI(how, v) ELSE ApplyPlain(s, v)
                          /\ Accepts(s, v) => Sent(s, how, v)
                          /\ ~Accepts(s, v) => UNCHANGED device
                          /\ view' = NoteSetting(view, s, Note(how))
                          /\ Pass(s, how)
             /\ UNCHANGED <<mouse, session, dead, feats, mode, pending, retries, watching, reconf, control, shown, missed>>

\* startApply: what failed is pending, with all its retries; connect then
\* reads the battery.
Applied == /\ session = "apply" /\ todo = {} /\ mode # "retry"
           /\ pending' = failed /\ retries' = Retries
           /\ PublishState(view, failed)
           /\ session' = "steady"
           /\ Lucky
           /\ UNCHANGED <<mouse, dead, feats, todo, failed, mode, reconf, device, control, view, missed, excused>>
           /\ IF mode = "connect" /\ ~dead THEN Watches ELSE UNCHANGED watching

\* retryApply: a failing pass spends one retry, and the last one drops the
\* remainder.
Left == IF failed # {} /\ retries = 1 THEN {} ELSE failed
Retried == /\ session = "apply" /\ todo = {} /\ mode = "retry"
           /\ pending' = Left
           /\ retries' = IF failed = {} THEN retries ELSE retries - 1
           /\ excused' = excused \cup (failed \ Left)
           /\ PublishState(view, Left)
           /\ session' = "steady" /\ Lucky
           /\ UNCHANGED <<mouse, dead, feats, todo, failed, mode, watching, reconf, device, control, view, missed>>

---------------------------------------------------------------------------
\* The steady state.

\* The timer: connect again when it never completed, else pollBattery; a mouse
\* that answered gets the pending steps.
Alive(how) == how \in {"ok", "refused"}
Reconnect == /\ session = "steady" /\ ~dead /\ feats = {}
             /\ session' = "resolve" /\ Lucky
             /\ UNCHANGED <<mouse, dead, feats, todo, failed, mode, pending, retries, watching, reconf, device, control, view, shown, missed, excused>>
RetryApply(todoSteps) == /\ todo' = todoSteps /\ failed' = {} /\ mode' = "retry"
                         /\ session' = IF todoSteps = {} THEN "steady" ELSE "apply"
PollBattery == /\ session = "steady" /\ ~dead /\ feats # {}
               /\ \E how \in Fate \ {"dead"} :
                    /\ Battery \in feats /\ Answer(how)
                    /\ IF Alive(how) THEN RetryApply(pending) ELSE UNCHANGED <<session, todo, failed, mode>>
               /\ UNCHANGED <<mouse, dead, feats, pending, retries, watching, reconf, device, control, view, shown, missed, excused>>
\* without the battery feature the poll counts as answered
RetryBlind == /\ session = "steady" /\ ~dead /\ feats # {} /\ Battery \notin feats /\ pending # {}
              /\ RetryApply(pending) /\ Lucky
              /\ UNCHANGED <<mouse, dead, feats, pending, retries, watching, reconf, device, control, view, shown, missed, excused>>

\* reapply: the mouse said that it came back.
Reapplies == Steps
Reapply == /\ session = "steady" /\ ~dead /\ reconf
           /\ reconf' = FALSE
           /\ IF feats = {} THEN UNCHANGED <<session, todo, failed, mode, excused>>
              ELSE /\ todo' = Reapplies /\ failed' = {} /\ mode' = "reapply" /\ excused' = {}
                   /\ session' = "apply"
           /\ Lucky
           /\ UNCHANGED <<mouse, dead, feats, pending, retries, watching, device, control, view, shown, missed>>

---------------------------------------------------------------------------
\* The mouse.
Nap == /\ mouse = "awake" /\ Unlucky /\ mouse' = "asleep"
       /\ UNCHANGED <<session, dead, feats, todo, failed, mode, pending, retries, watching, reconf, device, control, view, shown, missed, excused>>
Wake == /\ mouse = "asleep" /\ Lucky /\ mouse' = "awake"
        /\ UNCHANGED <<session, dead, feats, todo, failed, mode, pending, retries, watching, reconf, device, control, view, shown, missed, excused>>
\* The link drops: the reader of an open handle ends.
Vanish == /\ mouse # "gone" /\ Unlucky /\ mouse' = "gone"
          /\ dead' = (session # "none")
          /\ UNCHANGED <<session, feats, todo, failed, mode, pending, retries, watching, reconf, device, control, view, shown, missed, excused>>
\* It comes back, with its settings or without.
Return == /\ mouse = "gone" /\ Lucky /\ mouse' = "awake"
          /\ device' \in {device, Factory} /\ control' \in {control, Untouched}
          /\ UNCHANGED <<session, dead, feats, todo, failed, mode, pending, retries, watching, reconf, view, shown, missed, excused>>
\* It resets behind an open handle and says so (0x1D4B, isWirelessReconf): the
\* event is lost unless the module is watching.
IsWirelessReconf == watching
Reset == /\ mouse = "awake" /\ session # "none" /\ ~dead /\ Unlucky
         /\ device' = Factory /\ control' = Untouched
         /\ reconf' = (reconf \/ IsWirelessReconf)
         /\ missed' = (missed \/ ~watching)
         /\ UNCHANGED <<mouse, session, dead, feats, todo, failed, mode, pending, retries, watching, view, shown, excused>>

Next == \/ Open \/ Close \/ ResolveFails \/ ResolveFeatures \/ Walk \/ Control \/ ApplyStep \/ Applied \/ Retried
        \/ Reconnect \/ PollBattery \/ RetryBlind \/ Reapply \/ Nap \/ Wake \/ Vanish \/ Return \/ Reset

Spec == Init /\ [][Next]_vars

---------------------------------------------------------------------------
TypeOK == /\ mouse \in {"gone", "asleep", "awake"} /\ dead \in BOOLEAN
          /\ session \in {"none", "resolve", "apply", "steady"}
          /\ failed \subseteq Steps /\ pending \subseteq Steps /\ excused \subseteq Steps
          /\ retries \in 0..Retries
          /\ DOMAIN shown.settings \subseteq Settings

AtRest == session = "steady" /\ ~dead /\ feats # {} /\ ~reconf /\ ~missed
Holds(s) == device[s] \in {Frame(s, DpiList), Frame(s, <<>>)} /\ Accepts(s, device[s])
NoteOf(s) == IF s \in DOMAIN shown.settings THEN shown.settings[s] ELSE None

\* The state line is true: a setting it shows clean is what the mouse holds,
\* and one it shows with an error is pending, refused or out of retries
\* (noteSetting, startApply, retryApply).
LineIsTrue == AtRest /\ shown.connected =>
                \A s \in Settings : /\ NoteOf(s) = "clean" => Holds(s)
                                    /\ NoteOf(s) = "error" => s \in pending \cup excused
                                    /\ shown.pending = pending

Configured(c) == IF c \in DOMAIN Remap THEN control[c].target = Remap[c] ELSE ~control[c].diverted

\* The baseline: when nothing is pending and no step was refused or given up,
\* every control is remapped as configured and no other is diverted.
Baseline == AtRest /\ shown.connected /\ Takeover \notin pending \cup excused =>
              \A c \in Cids : Configured(c)

\* The pending steps never outlive their retries (retryApply).
PendingHasRetries == session = "steady" => (pending # {} => retries > 0)

\* A viewer is never told of a connected mouse when no handle is open.
DownIsShown == session \in {"none", "resolve"} => (shown.connected => feats # {})

---------------------------------------------------------------------------
\* The inductive invariant.

Targets == {None} \cup {Remap[c] : c \in DOMAIN Remap}
Values == {0} \cup {Frame(s, DpiList) : s \in Settings} \cup {Frame(s, <<>>) : s \in Settings}
Lines == [connected : BOOLEAN, settings : UNION {[D -> {"clean", "error", "absent"}] : D \in SUBSET Settings},
          pending : SUBSET Steps]
Shapes == /\ todo \subseteq Steps \cup Cids
          /\ device \in [Settings -> Values] /\ control \in [Cids -> [diverted : BOOLEAN, target : Targets]]
          /\ view \in Lines /\ shown \in Lines

\* Where a session stands: a pass belongs to the session that applies, a walk comes before any feature, the
\* pending steps have retries, the retained line is the view that was published last.
Stands == /\ mouse = "gone" /\ session # "none" => dead
          /\ session # "apply" => todo = {}
          /\ session = "resolve" => feats = {}
          /\ session = "apply" => feats # {} /\ (mode = "retry" => retries > 0)
          /\ session \in {"resolve", "steady"} => pending = {} \/ retries > 0
          /\ session = "none" \/ feats = {} => ~shown.connected
          /\ session = "steady" /\ feats # {} => shown = [view EXCEPT !.pending = pending]

\* What is claimed of a mouse that was heard of since it last reset: each control is configured and each
\* setting is as noted, or the pass has yet to come to it, or the step failed.
Heard == ~dead /\ ~reconf /\ ~missed /\ feats # {} /\ session \in {"apply", "steady"}
Unsettled == todo \cup (IF session = "apply" THEN failed ELSE pending) \cup excused
Taken == Heard => \A c \in Cids : Configured(c) \/ c \in todo \/ Takeover \in Unsettled
Noted == Heard => \A s \in DOMAIN view.settings : s \notin todo =>
           /\ view.settings[s] = "clean" => Holds(s)
           /\ view.settings[s] = "error" => s \in Unsettled
IInv == TypeOK /\ Shapes /\ Stands /\ Taken /\ Noted
=============================================================================
