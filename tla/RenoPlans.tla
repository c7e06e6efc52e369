------------------------------ MODULE RenoPlans ------------------------------
(***************************************************************************)
(* One camera effect as OBS runs it (reno/fx.go, renocontrol/obsbatch.go): *)
(* the verb is parsed, its plan built from what OBS reported, and the plan *)
(* sent as one batch that OBS runs a request a frame and stops at the first*)
(* it cannot do.  The user may meanwhile touch the same camera, and the    *)
(* connection may break.  Poses lie on one axis of the canvas.             *)
(***************************************************************************)
EXTENDS Integers, Sequences, FiniteSets, SequencesExt

CONSTANTS
  Canvas,           \* the width of the canvas
  FXMaxLevel,
  FXMaxSamples,     \* the samples of one span
  Kinds,            \* the filter kinds OBS advertises
  MaxFX, MaxTouches

Placements == {"tl", "br", "big"}
Eases == {"linear", "smooth"}
Durations == {0, 1, 2}     \* of a move: none, a legal one, one beyond FXMaxDur
Levelled == {"pixelate", "purple", "jitter", "lava"}
FX(k, p, d, e, l) == [kind |-> k, preset |-> p, dur |-> d, ease |-> e, level |-> l]

VARIABLES
  enabled,    \* the camera's scene item is shown
  pose,       \* where it is, and how wide its box; 0 without bounds
  chain,      \* the filters of the source, in order
  fx,         \* the effect being run, none between two
  env,        \* what OBS reported when its plan was built
  plan,       \* the requests still to run
  disturbed,  \* the user touched the camera since
  outcome,    \* of the last effect
  fxs, touches
vars == <<enabled, pose, chain, fx, env, plan, disturbed, outcome, fxs, touches>>

Nothing == FX("none", "", 0, "", 0)
NoEnv == [from |-> [x |-> 0, w |-> 0], filters |-> <<>>]
Filter(n, on, l) == [name |-> n, on |-> on, level |-> l]
Poses == {[x |-> x, w |-> w] : x \in {-1, 1, Canvas}, w \in {0, 4}}
TypeOK ==
  /\ enabled \in BOOLEAN /\ pose.x \in Int /\ pose.w \in Nat /\ disturbed \in BOOLEAN
  /\ \A i \in DOMAIN chain : chain[i].on \in BOOLEAN /\ chain[i].level \in 0 .. FXMaxLevel
  /\ outcome \in {"", "ok", "refused", "halted", "lost"}

Init ==
  /\ enabled \in BOOLEAN /\ pose \in Poses
  /\ chain \in {<<>>, <<Filter("mine", TRUE, 0)>>, <<Filter("up", FALSE, 1), Filter("mine", TRUE, 0), Filter("down", FALSE, 1)>>}
  /\ fx = Nothing /\ env = NoEnv /\ plan = <<>> /\ disturbed = FALSE /\ outcome = "" /\ fxs = 0 /\ touches = 0

(***************************************************************************)
(* Spelling.                                                               *)
(***************************************************************************)
\* CheckCamFX.
Legal(f) ==
  CASE f.kind \in {"show", "hide"} -> TRUE
    [] f.kind = "jump" -> f.preset \in Placements
    [] f.kind = "move" -> f.preset \in Placements /\ f.dur = 1 /\ f.ease \in Eases
    [] f.kind \in Levelled -> f.level \in 0 .. FXMaxLevel
    [] OTHER -> FALSE
\* Args, and ParseCamFX of it; a token is a duration, or else an ease.
Dur(d) == [dur |-> d]
Word(w) == [word |-> w]
Level(l) == [level |-> l]
Args(f) ==
  CASE f.kind = "move" -> <<Word(f.preset), Dur(f.dur), Word(f.ease)>>
    [] f.kind = "jump" -> <<Word(f.preset)>>
    [] f.kind \in Levelled -> <<Level(f.level)>>
    [] OTHER -> <<>>
IsDur(t) == DOMAIN t = {"dur"}
LastOr(ts, P(_), d) == LET hits == {i \in DOMAIN ts : P(ts[i])} IN IF hits = {} THEN d ELSE ts[CHOOSE i \in hits : \A j \in hits : j <= i]
ParsedMove(ts) ==
  FX("move", ts[1].word, LastOr(Tail(ts), IsDur, Dur(1)).dur, LastOr(Tail(ts), LAMBDA t : ~IsDur(t), Word("smooth")).word, 0)
Parsed(kind, ts) ==
  CASE kind = "move" /\ Len(ts) \in 1 .. 3 -> ParsedMove(ts)
    [] kind = "jump" /\ Len(ts) = 1 -> FX("jump", ts[1].word, 0, "", 0)
    [] kind \in Levelled /\ Len(ts) = 1 -> FX(kind, "", 0, "", ts[1].level)
    [] kind \in {"show", "hide"} /\ ts = <<>> -> FX(kind, "", 0, "", 0)
    [] OTHER -> Nothing
Effects ==
  {FX(k, "", 0, "", 0) : k \in {"show", "hide"}} \cup {FX("jump", p, 0, "", 0) : p \in Placements}
  \cup {FX("move", p, d, e, 0) : p \in Placements, d \in Durations, e \in Eases \cup {"elastic"}}
  \cup {FX(k, "", 0, "", l) : k \in Levelled, l \in 0 .. FXMaxLevel + 1}

(***************************************************************************)
(* Plans.                                                                  *)
(***************************************************************************)
Enable(on) == [type |-> "enable", on |-> on]
Place(p) == [type |-> "place", pose |-> p]
FilterReq(t, n, v) == [type |-> t, name |-> n, value |-> v]
CamTransform(p) == CASE p = "tl" -> [x |-> 0, w |-> 4] [] p = "br" -> [x |-> Canvas - 4, w |-> 4] [] OTHER -> [x |-> 1, w |-> Canvas - 2]
Small(a, b) == IF a < b THEN a ELSE b
Large(a, b) == IF a > b THEN a ELSE b
\* addMove: the last sample is the target.
Along(from, to, i) == from + ((to - from) * i) \div FXMaxSamples
MovePlan(f, e) ==
  LET to == CamTransform(f.preset)
  IN <<Enable(TRUE)>> \o [i \in 1 .. FXMaxSamples |-> Place([x |-> Along(e.from.x, to.x, i), w |-> Along(e.from.w, to.w, i)])]
\* sustainSampler, clampAxis, headroom: the shake is cut to the room there is.
Headroom(e) == Large(Small(e.from.x, Canvas - (e.from.x + e.from.w)), 0)
Clamped(x, w) == Small(Large(x, 0), Large(Canvas - w, 0))
Sin(i) == <<1, 0, -1, 0>>[((i - 1) % 4) + 1]
Shaken(f, e, i) ==
  [e.from EXCEPT !.x = Clamped(e.from.x + Small((f.level * e.from.w) \div FXMaxLevel, Headroom(e)) * Sin(i), e.from.w)]
\* SustainHome: the base pose again.
Home(e) == <<Place(e.from)>>
ShakePlan(f, e) == <<Enable(TRUE)>> \o [i \in 1 .. FXMaxSamples |-> Place(Shaken(f, e, i))] \o Home(e)
\* The filters of a levelled effect, in the order they must apply.
Stages(k) == CASE k = "pixelate" -> <<"down", "up">> [] k = "purple" -> <<"tint">> [] OTHER -> <<"lava">>
KindOf(k) == IF k = "pixelate" THEN "scale" ELSE "color"
Has(e, n) == Contains(e.filters, n)
\* addStageOrder: the chain as it will be, and the stages out of order sorted to its tail.
After(k, e) == e.filters \o SelectSeq(Stages(k), LAMBDA n : ~Has(e, n))
OrderPlan(k, e) ==
  IF SelectSeq(After(k, e), LAMBDA n : Contains(Stages(k), n)) = Stages(k) THEN <<>>
  ELSE [i \in DOMAIN Stages(k) |-> FilterReq("index", Stages(k)[i], Len(After(k, e)) - Len(Stages(k)) + i)]
\* addLevel.
Each(k, R(_)) == [i \in DOMAIN Stages(k) |-> R(Stages(k)[i])]
LevelPlan(f, e) ==
  IF f.level = 0
  THEN SelectSeq(Each(f.kind, LAMBDA n : FilterReq("on", n, FALSE)), LAMBDA r : Has(e, r.name))
  ELSE Each(f.kind, LAMBDA n : FilterReq(IF Has(e, n) THEN "set" ELSE "create", n, f.level))
       \o OrderPlan(f.kind, e) \o Each(f.kind, LAMBDA n : FilterReq("on", n, TRUE))
\* addSustainOneShot of the hue: on for its span, and then off.
HuePlan(f, e) ==
  IF f.level = 0 THEN LevelPlan(f, e) ELSE <<Enable(TRUE)>> \o LevelPlan(f, e) \o <<FilterReq("on", "lava", FALSE)>>
Refused(f, e) ==
  \/ ~Legal(f)
  \/ f.kind \in {"move", "jitter"} /\ (f.kind = "jitter" => f.level > 0) /\ e.from.w = 0
  \/ f.kind \in {"pixelate", "purple", "lava"} /\ f.level > 0 /\ KindOf(f.kind) \notin Kinds
PlanOf(f, e) ==
  CASE f.kind \in {"show", "hide"} -> <<Enable(f.kind = "show")>>
    [] f.kind = "jump" -> <<Enable(TRUE), Place(CamTransform(f.preset))>>
    [] f.kind = "move" -> MovePlan(f, e)
    [] f.kind = "jitter" -> IF f.level = 0 THEN <<>> ELSE ShakePlan(f, e)
    [] f.kind = "lava" -> HuePlan(f, e)
    [] OTHER -> LevelPlan(f, e)

(***************************************************************************)
(* Running one.                                                            *)
(***************************************************************************)
Names == [i \in DOMAIN chain |-> chain[i].name]
Begin(f) ==
  /\ fx = Nothing /\ fxs < MaxFX /\ fxs' = fxs + 1
  /\ env' = [from |-> pose, filters |-> Names] /\ disturbed' = FALSE
  /\ IF Refused(f, env') THEN outcome' = "refused" /\ UNCHANGED <<fx, plan>>
     ELSE fx' = f /\ plan' = PlanOf(f, env') /\ UNCHANGED outcome
  /\ UNCHANGED <<enabled, pose, chain, touches>>
Index(n) == CHOOSE i \in DOMAIN chain : chain[i].name = n
Without(n) == SelectSeq(chain, LAMBDA c : c.name # n)
\* A request OBS cannot do: a filter to create is there, or one to set is not.
Impossible(r) ==
  \/ r.type = "create" /\ Contains(Names, r.name)
  \/ r.type \in {"set", "on", "index"} /\ ~Contains(Names, r.name)
Done(r) ==
  CASE r.type = "create" -> Append(chain, Filter(r.name, TRUE, r.value))
    [] r.type = "set" -> [chain EXCEPT ![Index(r.name)].level = r.value]
    [] r.type = "on" -> [chain EXCEPT ![Index(r.name)].on = r.value]
    [] r.type = "index" -> InsertAt(Without(r.name), Small(r.value, Len(chain)), chain[Index(r.name)])
    [] OTHER -> chain
Frame ==
  /\ plan # <<>> /\ LET r == Head(plan) IN
       IF Impossible(r) THEN plan' = <<>> /\ fx' = Nothing /\ outcome' = "halted" /\ UNCHANGED <<enabled, pose, chain>>
       ELSE /\ plan' = Tail(plan) /\ chain' = Done(r) /\ UNCHANGED <<fx, outcome>>
            /\ enabled' = (IF r.type = "enable" THEN r.on ELSE enabled) /\ pose' = (IF r.type = "place" THEN r.pose ELSE pose)
  /\ UNCHANGED <<env, disturbed, fxs, touches>>
\* The response to the whole batch.
End ==
  /\ fx # Nothing /\ plan = <<>> /\ fx' = Nothing /\ outcome' = "ok"
  /\ UNCHANGED <<enabled, pose, chain, env, plan, disturbed, fxs, touches>>
\* The deadline passes or OBS dies: what was run stays run.
Lose ==
  /\ fx # Nothing /\ touches < MaxTouches /\ touches' = touches + 1 /\ fx' = Nothing /\ plan' = <<>> /\ outcome' = "lost"
  /\ UNCHANGED <<enabled, pose, chain, env, disturbed, fxs>>
Touch ==
  /\ touches < MaxTouches /\ touches' = touches + 1 /\ disturbed' = TRUE
  /\ \/ pose' \in Poses /\ UNCHANGED <<enabled, chain>>
     \/ enabled' = ~enabled /\ UNCHANGED <<pose, chain>>
     \/ \E n \in Range(Names) : chain' = Without(n) /\ UNCHANGED <<enabled, pose>>
     \/ \E n \in Range(Names) : chain' = <<chain[Index(n)]>> \o Without(n) /\ UNCHANGED <<enabled, pose>>
  /\ UNCHANGED <<fx, env, plan, outcome, fxs>>

Next == Frame \/ End \/ Lose \/ Touch \/ \E f \in Effects : Begin(f)
Spec == Init /\ [][Next]_vars

(***************************************************************************)
(* Properties.                                                             *)
(***************************************************************************)
On(n) == Contains(Names, n) /\ chain[Index(n)].on
\* Undisturbed and run to its end, an effect leaves the camera as its name says: where it
\* was told to go, back where it was after a shake, its filters on in the order they need
\* or all off, wherever the camera and its filters were before (addMove, addLevel,
\* addStageOrder, SustainHome, addSustainOneShot).
Leaves(f) ==
  /\ f.kind = "hide" => ~enabled
  /\ f.kind \in {"show", "jump", "move"} \/ (f.kind = "jitter" /\ f.level > 0) => enabled
  /\ f.kind \in {"jump", "move"} => pose = CamTransform(f.preset)
  /\ f.kind \notin {"jump", "move"} => pose = env.from
  /\ f.kind \in {"pixelate", "purple"} /\ f.level > 0 =>
       /\ \A n \in Range(Stages(f.kind)) : On(n) /\ chain[Index(n)].level = f.level
       /\ f.kind = "pixelate" => Index("down") < Index("up")
  /\ f.kind = "lava" \/ (f.kind \in {"pixelate", "purple"} /\ f.level = 0) => \A n \in Range(Stages(f.kind)) : ~On(n)
\* An effect that ran to its end undisturbed leaves what it promised (BuildCamFXPlan).
EffectsLand == fx # Nothing /\ plan = <<>> /\ ~disturbed => Leaves(fx)
\* A shake is seen on the canvas in every frame, even off a pose that hangs over its edge,
\* and off one that does not it swings as far one way as the other.
ShakesOnCanvas ==
  fx.kind = "jitter" /\ env.from.w <= Canvas =>
    LET swings == {plan[i].pose.x : i \in {j \in DOMAIN plan \ {Len(plan)} : plan[j].type = "place"}}
    IN /\ \A x \in swings : x >= 0 /\ x + env.from.w <= Canvas
       /\ Len(plan) = FXMaxSamples + 2 /\ env.from.x >= 0 /\ env.from.x + env.from.w <= Canvas =>
            \A x \in swings : 2 * env.from.x - x \in swings
\* What the module writes on the verb's command line is what the verb does (Args, ParseCamFX).
SpellingHolds == \A f \in Effects : Legal(f) => Parsed(f.kind, Args(f)) = f
\* The plans of camera effects as a whole (fx.go).
PlanSafe == EffectsLand /\ ShakesOnCanvas /\ SpellingHolds
\* An effect leaves the user's own filters alone, and their order, even when it is cut.
OthersUntouched ==
  [][disturbed' = disturbed => SelectSeq(chain', LAMBDA c : c.name = "mine") = SelectSeq(chain, LAMBDA c : c.name = "mine")]_vars
=============================================================================
