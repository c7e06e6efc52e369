------------------------------ MODULE KeyView ------------------------------
(* The keyboard on the glass (kbview.go, pending.go, surface/kb.go): the    *)
(* fold of key events into held keys and a layer, also before the first     *)
(* board is known, the bridge from the matrix of the firmware to the slots  *)
(* of the layout (matrix.go, geometry.go), and where tabs and keys are      *)
(* drawn and tapped.                                                        *)
EXTENDS Integers, Sequences, FiniteSets, SequencesExt, FiniteSetsExt

CONSTANTS
  Coords,     \* matrix coordinates the firmware may report
  Boards,     \* boards that may be adopted: the widths of the titles of their layers
  Widths,     \* columns of the window
  ButtonW,    \* columns of the oryx button
  MaxEvents, MaxBoards   \* bounds

Unset == -1
Halves == {"left", "right"}

VARIABLES
  down, link, queue,  \* keys that are down, the feed, its events in order
  board,    \* the adopted board: an index of Boards, 0 before the first
  held, layer,        \* slots shown as held, and the layer
  pending, pendingLayer,  \* PendingKeys
  win,      \* the window: width and height class
  hits,     \* the hit table of the last render
  before,   \* history: keys down when the first board came
  events, adopted
vars == <<down, link, queue, board, held, layer, pending, pendingLayer, win, hits, before, events, adopted>>

---------------------------------------------------------------------------
\* Geometry: five main rows and the thumb cluster of each half.
RowLen == <<7, 7, 7, 6, 5>>
MainCols == 7
Main(h) == {[half |-> h, row |-> r - 1, col |-> c, thumb |-> Unset] : r \in 1..5, c \in 0..6}
HalfSlots(h) == {s \in Main(h) : s.col < RowLen[s.row + 1]}
                  \cup {[half |-> h, row |-> Unset, col |-> Unset, thumb |-> t] : t \in 0..3}
MoonlanderSlots == HalfSlots("left") \cup HalfSlots("right")
\* matrixOf: short rows of the right half lose their inner keys
Base(s) == IF s.half = "right" THEN 6 ELSE 0
MatrixOf(s) ==
  CASE s.thumb = 0 -> <<Base(s) + 5, 3>>
    [] s.thumb > 0 -> <<Base(s) + 5, IF s.half = "left" THEN s.thumb - 1 ELSE s.thumb + 3>>
    [] OTHER -> <<Base(s) + s.row, s.col + (IF s.half = "right" THEN MainCols - RowLen[s.row + 1] ELSE 0)>>
\* slotAt, built once: {} for a coordinate without a key
BuildSlotAt == [c \in Coords |-> {s \in MoonlanderSlots : MatrixOf(s) = c}]
SlotAt(c) == BuildSlotAt[c]

\* keyW and layerGrid: the cells a slot takes, in a full or a compact render
Least(a, b) == IF a < b THEN a ELSE b
Most(a, b) == IF a < b THEN b ELSE a
KeyW(cols) == Most(4, Least(11, (cols - 5 - 12) \div 14))
HalfW(kw) == MainCols * kw + 6
Origin(h, cols, kw) == LET pad == Most(0, (cols - (2 * HalfW(kw) + 5)) \div 2)
                       IN IF h = "left" THEN pad ELSE pad + HalfW(kw) + 5
ArcOffset(h, kw) == IF h = "left" THEN Most(0, HalfW(kw) - (3 * kw + 2)) ELSE 0
FlatOffset(h, kw) == IF h = "left" THEN Most(0, HalfW(kw) - (4 * kw + 3)) ELSE 0
Cells(s, cols, compact) ==
  LET kw == KeyW(cols)
      x0 == Origin(s.half, cols, kw)
      inRow(j) == x0 + j * (kw + 1)
      piano == 2 * kw + 1 IN
  CASE s.thumb = Unset ->
         [x |-> inRow(s.col + (IF s.half = "right" THEN MainCols - RowLen[s.row + 1] ELSE 0)),
          y |-> IF compact THEN s.row ELSE 2 * s.row, w |-> kw]
    [] s.thumb # Unset /\ compact ->
         LET place == IF s.half = "left" THEN (IF s.thumb = 0 THEN 3 ELSE s.thumb - 1) ELSE s.thumb
         IN [x |-> FlatOffset(s.half, kw) + inRow(place), y |-> 5, w |-> kw]
    [] s.thumb = 0 /\ ~compact ->
         [x |-> x0 + ArcOffset(s.half, kw) + (IF s.half = "left" THEN 0 ELSE 3 * kw + 2 - piano), y |-> 10, w |-> piano]
    [] OTHER -> [x |-> ArcOffset(s.half, kw) + inRow(s.thumb - 1), y |-> 12, w |-> kw]

\* Bar: tabs from the left as long as they fit beside the button
Layers == IF board = 0 THEN <<>> ELSE Boards[board]
TabX(titles, i) == FoldLeft(LAMBDA a, w : a + w + 2, 0, SubSeq(titles, 1, i - 1))
Fits(titles, i, w) == TabX(titles, i) + titles[i] + 2 <= w - ButtonW - 1
Tabs(titles, w) == {i \in DOMAIN titles : \A j \in 1..i : Fits(titles, j, w)}
TabEnd(titles, w) == IF Tabs(titles, w) = {} THEN 0 ELSE LET i == Max(Tabs(titles, w)) IN TabX(titles, i) + titles[i] + 2
Button(titles, w) == IF TabEnd(titles, w) <= w - ButtonW THEN {[kind |-> "oryx", x |-> w - ButtonW, w |-> ButtonW, layer |-> 0]} ELSE {}
Bar(titles, w) == {[kind |-> "tab", x |-> TabX(titles, i), w |-> titles[i] + 2, layer |-> i - 1] : i \in Tabs(titles, w)}
                    \cup Button(titles, w)

---------------------------------------------------------------------------
Init == /\ down = {} /\ link = TRUE /\ queue = <<>> /\ board = 0 /\ held = {} /\ layer = 0
        /\ pending = {} /\ pendingLayer = Unset /\ win \in [w : Widths, compact : BOOLEAN] /\ hits = {}
        /\ before = {} /\ events = 0 /\ adopted = 0
view == <<board, held, layer, pending, pendingLayer, win, hits, before, adopted>>

Event(kind, c, l) == [kind |-> kind, at |-> c, layer |-> l]
Say(e) == /\ events < MaxEvents /\ events' = events + 1
          /\ queue' = IF link THEN Append(queue, e) ELSE queue
\* The firmware reports a key; a layer switch names a layer the board may not
\* have yet.
Press(c) == c \notin down /\ down' = down \cup {c} /\ Say(Event("press", c, 0)) /\ UNCHANGED <<link, view>>
Release(c) == c \in down /\ down' = down \ {c} /\ Say(Event("release", c, 0)) /\ UNCHANGED <<link, view>>
Switch(l) == Say(Event("layer", <<0, 0>>, l)) /\ UNCHANGED <<down, link, view>>
\* The feed is lost, which the reader tells as a clear, and found again.
Lose == link /\ Say(Event("clear", <<0, 0>>, 0)) /\ link' = FALSE /\ UNCHANGED <<down, view>>
Find == ~link /\ link' = TRUE /\ UNCHANGED <<down, queue, events, view>>

---------------------------------------------------------------------------
\* ApplyKey: onto a board
InRange(l) == l >= 0 /\ l < Len(Layers)
ApplyKey(e) ==
  /\ held' = CASE e.kind = "press" -> held \cup SlotAt(e.at)
               [] e.kind = "release" -> held \ SlotAt(e.at)
               [] e.kind = "clear" -> {}
               [] OTHER -> held
  /\ layer' = IF e.kind = "layer" /\ InRange(e.layer) THEN e.layer ELSE layer
\* PendingKeys.Apply: while no board is known
Forgets(e) == IF e.kind = "clear" THEN {} ELSE pending \ SlotAt(e.at)
Retain(e) ==
  /\ pending' = IF e.kind = "press" THEN pending \cup SlotAt(e.at)
                ELSE IF e.kind = "layer" THEN pending ELSE Forgets(e)
  /\ pendingLayer' = CASE e.kind = "layer" -> e.layer [] e.kind = "clear" -> Unset [] OTHER -> pendingLayer
Handle == /\ queue # <<>> /\ queue' = Tail(queue)
          /\ IF board # 0 THEN ApplyKey(Head(queue)) /\ UNCHANGED <<pending, pendingLayer>>
             ELSE Retain(Head(queue)) /\ UNCHANGED <<held, layer>>
          /\ UNCHANGED <<down, link, board, win, hits, before, events, adopted>>

\* ensureBoard: a new board starts without held keys; what was retained is
\* replayed onto it, and a layer it does not have is left.
Adopt(b) ==
  /\ b # board /\ adopted < MaxBoards /\ adopted' = adopted + 1
  /\ board' = b
  /\ held' = pending
  /\ LET n == Len(Boards[b])
         to == IF pendingLayer >= 0 /\ pendingLayer < n THEN pendingLayer ELSE layer
     IN layer' = IF to >= n THEN 0 ELSE to
  /\ before' = IF board = 0 THEN pending ELSE {}
  /\ pending' = {} /\ pendingLayer' = Unset
  /\ UNCHANGED <<down, link, queue, win, hits, events>>

\* renderKeyboard: the body clamps a layer that is out of range
Drawn == IF layer >= Len(Layers) THEN 0 ELSE layer
Render == /\ hits' = IF board = 0 THEN {} ELSE Bar(Layers, win.w)
          /\ hits' # hits
          /\ UNCHANGED <<down, link, queue, board, held, layer, pending, pendingLayer, win, before, events, adopted>>
Resize == /\ win' \in [w : Widths, compact : BOOLEAN] /\ win' # win
          /\ UNCHANGED <<down, link, queue, board, held, layer, pending, pendingLayer, hits, before, events, adopted>>
\* A tap: the first hit under it, else the cycle of the band and the body.
Cycle == (layer + 1) % Len(Layers)
Tap(x) == /\ hits # {} /\ events < MaxEvents /\ events' = events + 1
          /\ LET under == {h \in hits : x >= h.x /\ x < h.x + h.w} IN
             layer' = IF under = {} THEN Cycle
                      ELSE IF \E h \in under : h.kind = "tab" THEN (CHOOSE h \in under : h.kind = "tab").layer ELSE layer
          /\ UNCHANGED <<down, link, queue, board, held, pending, pendingLayer, win, hits, before, adopted>>

Next == \/ \E c \in Coords : Press(c) \/ Release(c)
        \/ \E l \in 0..2 : Switch(l)
        \/ Lose \/ Find \/ Handle
        \/ \E b \in DOMAIN Boards : Adopt(b)
        \/ Render \/ Resize
        \/ \E x \in Widths \cup {0, 5} : Tap(x)

Spec == Init /\ [][Next]_vars

---------------------------------------------------------------------------
TypeOK == /\ held \subseteq MoonlanderSlots /\ pending \subseteq MoonlanderSlots
          /\ layer \in 0..10 /\ board \in {0} \cup DOMAIN Boards
          /\ (board # 0 => pending = {} /\ pendingLayer = Unset)

SlotsOf(cs) == UNION {SlotAt(c) : c \in cs}
\* No key is shown held that is not, once the feed is read: also before the
\* first board, over its adoption and over a feed that was lost (PendingKeys).
HeldIsDown == queue = <<>> /\ link => held \cup pending \subseteq SlotsOf(down)

\* Every key of the firmware has one slot and every slot one coordinate
\* (matrixOf, slotAt), and keys are drawn apart from each other and inside
\* their half, in every window the code lays out (layerGrid).
Apart(a, b) == a.y # b.y \/ a.x + a.w <= b.x \/ b.x + b.w <= a.x
LaidOut == [w \in Widths, compact \in BOOLEAN |->
  LET at == [s \in MoonlanderSlots |-> Cells(s, w, compact)] IN
  /\ \A s, t \in MoonlanderSlots : s # t => MatrixOf(s) # MatrixOf(t) /\ Apart(at[s], at[t])
  /\ \A s \in MoonlanderSlots : LET x0 == Origin(s.half, w, KeyW(w))
                                IN at[s].x >= x0 /\ at[s].x + at[s].w <= x0 + HalfW(KeyW(w))]
KeysApart == LaidOut[win.w, win.compact]

\* The tabs and the button of a bar do not overlap and stay on the bar (Bar).
TabsApart == LET bar == IF board = 0 THEN {} ELSE Bar(Layers, win.w) IN
             /\ \A g, h \in bar : g # h => g.x + g.w <= h.x \/ h.x + h.w <= g.x
             /\ \A h \in bar : h.kind = "tab" => h.x >= 0 /\ h.x + h.w <= win.w
=============================================================================
