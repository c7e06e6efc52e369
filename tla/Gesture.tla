----------------------------- MODULE Gesture -----------------------------
(* Touches of the glass: a report of the digitizer becomes a frame          *)
(* (frame.go), the bus queues frames with drop-oldest and feeds them to one *)
(* recognizer (consumeFrames), which turns them into presses, taps, long    *)
(* presses, drags and swipes (recognizer.go).                               *)
EXTENDS Integers, Sequences, FiniteSets

CONSTANTS
  Points,     \* where a finger may be, in panel pixels
  CellW, CellH, SlopW, SlopH, SwipeCells, SwipeRows,
  LongPress,  \* the hold, in ticks
  QueueLen,   \* the bound of the frame channel
  MaxReports  \* bound: reports

GestureAssumption == /\ Points \subseteq Int \X Int /\ CellW \in Nat \ {0} /\ CellH \in Nat \ {0}
                     /\ QueueLen \in Nat \ {0} /\ MaxReports \in Nat

None == <<-1, -1>>
Ids == {1, 2}

VARIABLES
  fingers,  \* what is on the glass: id |-> point, or None
  queue,    \* frames the bus has read and not handled
  r,        \* the recognizer
  touch,    \* history: the kinds of event since the recognizer was last idle
  two,      \* history: a second finger was down in this touch
  cut,      \* history: cancelled, a frame dropped, or a finger that landed as another
            \* lifted is not yet seen
  rolled,   \* history: the cells all wheel events of this drag add up to
  reports
vars == <<fingers, queue, r, touch, two, cut, rolled, reports>>

---------------------------------------------------------------------------
\* Geometry.
Abs(n) == IF n < 0 THEN -n ELSE n
Col(p) == p[1] \div CellW
Row(p) == p[2] \div CellH
BeyondSlop(a, b) == Abs(a[1] - b[1]) > SlopW \/ Abs(a[2] - b[2]) > SlopH
\* classifySwipe: the axis of the larger physical travel, held to its own
\* threshold.
ClassifySwipe(a, b) ==
  LET dc == Col(b) - Col(a)
      dr == Row(b) - Row(a) IN
  IF Abs(dc) * CellW >= Abs(dr) * CellH
  THEN IF Abs(dc) < SwipeCells THEN "none" ELSE IF dc < 0 THEN "left" ELSE "right"
  ELSE IF Abs(dr) < SwipeRows THEN "none" ELSE IF dr < 0 THEN "up" ELSE "down"
SwipeOf(kind, a, b) == IF ClassifySwipe(a, b) = "none" THEN <<>> ELSE <<kind>>

---------------------------------------------------------------------------
\* A report has two slots and a count; a slot past the count is stale unless
\* its tip switch is set (parseTouchReport). A frame is the slots by their ids.
Slot(i, f, stale) == [tip |-> f[i] # None, at |-> IF f[i] # None THEN f[i] ELSE stale]
ParseReport(f, was, count) == [i \in {k \in Ids : f[k] # None \/ k <= count} |-> Slot(i, f, was[i])]
\* the contacts whose tip is down: id |-> where
TipContacts(frame) == [i \in {k \in DOMAIN frame : frame[k].tip} |-> frame[i].at]
NoTip(tips) == DOMAIN tips = {}
TwoTips(tips) == DOMAIN tips = Ids
FindContact(tips, id) == id \in DOMAIN tips
Centroid(tips) == << (tips[1][1] + tips[2][1]) \div 2, (tips[1][2] + tips[2][2]) \div 2 >>

---------------------------------------------------------------------------
\* The recognizer: a state, and what it emits on a frame or a tick: events,
\* and a wheel when a drag (which moves on its every frame) crossed cells.
New == [state |-> "idle", primary |-> 0, start |-> None, last |-> None, age |-> 0,
        multiStart |-> None, multiLast |-> None, dropped |-> FALSE]
Out(s, events) == [r |-> s, events |-> events, wheel |-> FALSE]

DragMove(s, p, events) == [r |-> [s EXCEPT !.last = p, !.state = "drag"], events |-> events,
                           wheel |-> ~(Col(p) = Col(s.last) /\ Row(p) = Row(s.last))]

\* one finger at most is down (its order in the report does not matter)
FrameIdle(s, tips) ==
  IF NoTip(tips) THEN Out(s, <<>>)
  ELSE LET i == CHOOSE i \in DOMAIN tips : TRUE IN
       Out([s EXCEPT !.state = "pending", !.primary = i, !.start = tips[i], !.last = tips[i], !.age = 0], <<"press">>)

FramePending(s, tips) ==
  LET p == tips[s.primary]
      due == s.age >= LongPress IN
  IF ~FindContact(tips, s.primary) THEN Out([s EXCEPT !.state = "idle"], IF due THEN <<"long">> ELSE <<"tap">>)
  ELSE IF BeyondSlop(p, s.start) THEN DragMove(s, p, <<"drag">>)
  ELSE IF due THEN Out([s EXCEPT !.state = "held"], <<"long">>)
  ELSE Out(s, <<>>)

FrameHeld(s, tips) == Out(IF FindContact(tips, s.primary) THEN s ELSE [s EXCEPT !.state = "idle"], <<>>)

FrameDrag(s, tips) ==
  IF FindContact(tips, s.primary) THEN DragMove(s, tips[s.primary], <<>>)
  ELSE Out([s EXCEPT !.state = "idle"], <<"dragEnd">> \o SwipeOf("swipe", s.start, s.last))

\* frameSingle
FrameSingle(s, tips) ==
  CASE s.state = "idle" -> FrameIdle(s, tips)
    [] s.state = "pending" -> FramePending(s, tips)
    [] s.state = "held" -> FrameHeld(s, tips)
    [] s.state = "drag" -> FrameDrag(s, tips)

\* frameMulti: a drag is closed first; the centroid is tracked while two are
\* down, a finger that lands again opens a new stroke, and the stroke is
\* classified when everything has lifted.
FaultClosing(s) == <<>>
Closing(s) == IF s.state = "drag" THEN <<"dragEnd">> ELSE <<>>
Tracked(s, c) == [s EXCEPT !.state = "multi", !.dropped = FALSE, !.multiLast = c,
                           !.multiStart = IF s.state # "multi" \/ s.dropped THEN c ELSE @]
FrameMulti(s, tips) ==
  CASE TwoTips(tips) -> Out(Tracked(s, Centroid(tips)), Closing(s))
    [] NoTip(tips) ->
         Out([s EXCEPT !.state = "idle", !.dropped = FALSE], SwipeOf("two", s.multiStart, s.multiLast))
    [] OTHER -> Out([s EXCEPT !.dropped = TRUE], <<>>)

\* Frame
Frame(s, frame) ==
  LET tips == TipContacts(frame) IN
  IF TwoTips(tips) \/ s.state = "multi" THEN FrameMulti(s, tips) ELSE FrameSingle(s, tips)

\* Tick, at the deadline of a pending press
Tick(s) == IF s.state = "pending" /\ s.age >= LongPress
           THEN Out([s EXCEPT !.state = "held"], <<"long">>) ELSE Out(s, <<>>)

---------------------------------------------------------------------------
Init == /\ fingers = [i \in Ids |-> None] /\ queue = <<>> /\ r = New
        /\ touch = <<>> /\ two = FALSE /\ cut = FALSE /\ rolled = <<0, 0>> /\ reports = 0

\* offer: the reader never blocks; a full channel loses its oldest frame
Offer(q, f) == IF Len(q) < QueueLen THEN Append(q, f) ELSE Append(Tail(q), f)

\* A finger lands, moves or lifts, the digitizer reports and the reader queues
\* the frame; a lifted slot is reported up to the count.
Report == /\ reports < MaxReports /\ reports' = reports + 1
          /\ \E now \in [Ids -> Points \cup {None}], count \in 0..2 :
               /\ fingers' = now
               /\ queue' = Offer(queue, ParseReport(now, fingers, count))
               /\ count >= Cardinality({k \in Ids : now[k] # None})
          /\ cut' = (cut \/ Len(queue) = QueueLen)
          /\ UNCHANGED <<r, touch, two, rolled>>

\* what a step of the recognizer adds to the histories
Kinds == {"press", "tap", "long", "drag", "dragEnd", "swipe", "two"}
Record(o) ==
  /\ r' = o.r
  /\ touch' = (IF r.state = "idle" THEN <<>> ELSE touch) \o o.events
  /\ two' = ((r.state # "idle" /\ two) \/ o.r.state = "multi")
  /\ rolled' = IF o.wheel
               THEN << (IF r.state = "drag" THEN rolled[1] ELSE 0) + Col(o.r.last) - Col(r.last),
                       (IF r.state = "drag" THEN rolled[2] ELSE 0) + Row(o.r.last) - Row(r.last) >>
               ELSE IF r.state = "pending" /\ o.r.state = "drag" THEN <<0, 0>> ELSE rolled

\* consumeFrames: the next frame
Handle == /\ queue # <<>>
          /\ queue' = Tail(queue)
          /\ Record(Frame(r, Head(queue)))
          /\ cut' = IF r'.state = "idle" THEN ~NoTip(TipContacts(Head(queue))) ELSE cut
          /\ UNCHANGED <<fingers, reports>>

\* Time: the pending press ages; its deadline is armed as long as it is due.
Wait == /\ r.state = "pending" /\ r.age < LongPress /\ queue = <<>>
        /\ r' = [r EXCEPT !.age = @ + 1]
        /\ UNCHANGED <<fingers, queue, touch, two, cut, rolled, reports>>
Deadline == /\ r.state = "pending" /\ r.age >= LongPress
            /\ Record(Tick(r))
            /\ UNCHANGED <<fingers, queue, cut, reports>>

\* The connection to touchd ends, or the active dock changes its grid: the
\* contact is forgotten without a gesture (Cancel, setGrid).
Cancel == /\ r' = New /\ r # New
          /\ touch' = <<>> /\ two' = FALSE /\ rolled' = <<0, 0>>
          /\ \/ queue' = <<>> \/ queue' = queue
          /\ cut' = TRUE
          /\ UNCHANGED <<fingers, reports>>

Next == Report \/ Handle \/ Wait \/ Deadline \/ Cancel

Spec == Init /\ [][Next]_vars

---------------------------------------------------------------------------
TypeOK == /\ r.state \in {"idle", "pending", "held", "drag", "multi"}
          /\ Len(queue) <= QueueLen /\ reports \in 0..MaxReports
          /\ \A i \in DOMAIN touch : touch[i] \in Kinds

Times(kind) == Cardinality({i \in DOMAIN touch : touch[i] = kind})

\* A touch of one finger opens with one press and is resolved by exactly one of
\* tap, long press and drag (the comment on Press); with a second finger it is
\* never resolved twice.
OneResolution == LET resolved == Times("tap") + Times("long") + Times("drag") IN
                 /\ resolved <= Times("press") /\ Times("press") <= 1
                 /\ r.state = "idle" /\ touch # <<>> /\ ~two => resolved = 1 /\ Times("press") = 1

\* A drag that was opened is closed when the recognizer leaves it, whether the
\* finger lifts or a second one lands (frameMulti).
DragsClose == Times("drag") = Times("dragEnd") + (IF r.state = "drag" THEN 1 ELSE 0)

\* A swipe closes a drag and a two-finger swipe never comes of one finger.
SwipesHaveFingers == /\ Times("swipe") <= Times("dragEnd")
                     /\ Times("two") > 0 => two

\* What a drag scrolled adds up to the cells the finger travelled.
WheelsAddUp == r.state = "drag" =>
                 rolled = <<Col(r.last) - Col(r.start), Row(r.last) - Row(r.start)>>

\* When every frame is handled and none was lost the recognizer agrees with the
\* glass: it is idle exactly when no finger is down.
FollowsGlass == queue = <<>> /\ ~cut =>
                  ((r.state = "idle") <=> (\A i \in Ids : fingers[i] = None))

---------------------------------------------------------------------------
\* What the proofs need besides: what was said of a touch fits the state.
Told == {<<"press", "tap">>, <<"press", "long">>, <<"press", "drag", "dragEnd">>,
         <<"press", "drag", "dragEnd", "swipe">>}
Broken == {<<>>, <<"press">>, <<"press", "long">>, <<"press", "drag", "dragEnd">>}
Doubled == touch \in Broken \/ \E w \in Broken : touch = Append(w, "two")
Story == /\ r.state = "pending" => touch = <<"press">>
         /\ r.state = "held" => touch = <<"press", "long">>
         /\ r.state = "drag" => touch = <<"press", "drag">>
         /\ r.state = "multi" => two /\ touch \in Broken
         /\ r.state = "idle" => touch = <<>> \/ touch \in Told \/ (two /\ Doubled)
States == [state : {"idle", "pending", "held", "drag", "multi"}, primary : 0..2, start : Int \X Int,
           last : Int \X Int, age : Nat, multiStart : Int \X Int, multiLast : Int \X Int, dropped : BOOLEAN]
Placed == /\ r \in States
          /\ r.state = "pending" => r.last = r.start
          /\ two \in BOOLEAN /\ cut \in BOOLEAN
FrameSet == UNION {[D -> [tip : BOOLEAN, at : Int \X Int]] : D \in SUBSET Ids}
\* the newest frame in the queue is the glass as it is
Newest == /\ queue \in Seq(FrameSet) /\ fingers \in [Ids -> Points \cup {None}]
          /\ queue # <<>> => DOMAIN TipContacts(queue[Len(queue)]) = {i \in Ids : fingers[i] # None}
IInv == TypeOK /\ Story /\ Placed /\ Newest /\ WheelsAddUp /\ FollowsGlass
=============================================================================
