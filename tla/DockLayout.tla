----------------------------- MODULE DockLayout -----------------------------
(* Where the HUD puts things (surface/home.go, pad.go, overlay.go, dock.go):  *)
(* the regions of a layout, the tiles of the chrome widget in the last of     *)
(* them (a rail, a tray or a control pad), the strip below, and the menu a    *)
(* hold opens. All of it is arithmetic over the cells of the glass, done      *)
(* again by every View; the menu alone is placed once, when it opens. Colours *)
(* and texts are left out: a label is its width.                              *)
EXTENDS Integers, FiniteSets, SequencesExt

CONSTANTS
  Sizes,     \* sizes of the glass, <<columns, rows>>
  Regions,   \* the layouts of the config: regions [edge, size, up, down] in peel order
  LayoutSwipe,   \* [up, down] of every layout
  Strips,    \* [tabs, toggles, mod]: the strip of the config
  Fails,     \* widths of a failed act's message, 0 when there is none
  Widgets,   \* what the chrome widget of the last region shows
  Menus,     \* menus of rows: sequences of [w, destructive, section, argv]
  Strokes    \* cells a swipe starts in

railTileH == 3
railTileW == 11
railMaxRows == 4
homeTileH == 3
stripH == 1
stripIconW == 3
batteryCellW == 10
padTileMinW == 9
padTileMaxW == 22
padTileFloorH == 3
padGutterPad == 2
stepperEndW == 4
confirmPrefix == 8
swipeSlopCols == 6
swipeSlopRows == 2
soonW == 4
None == "none"

Least(a, b) == IF a < b THEN a ELSE b
Most(a, b) == IF a > b THEN a ELSE b
Total(ns) == FoldLeft(LAMBDA sum, n : sum + n, 0, ns)
Flat(seqs) == FlattenSeq(seqs)

VARIABLES
  size, layout, strip, fail, widget,
  soon,   \* the tab whose target is no layout, flashing for a moment
  menu    \* the popover as it was placed when it opened
vars == <<size, layout, strip, fail, widget, soon, menu>>

Width == size[1]
Height == size[2]
Shut == [anchor |-> [x |-> 0, y |-> 0, w |-> 0, h |-> 0], items |-> <<>>]

---------------------------------------------------------------------------
(* rect *)
Rect(x, y, w, h) == [x |-> x, y |-> y, w |-> w, h |-> h]
Holds(r, x, y) == x >= r.x /\ x < r.x + r.w /\ y >= r.y /\ y < r.y + r.h
Grow(r, dx, dy) ==
  LET x == Most(r.x - dx, 0)  y == Most(r.y - dy, 0) IN Rect(x, y, r.w + dx + (r.x - x), r.h + dy + (r.y - y))
Within(r, box) == r.x >= box.x /\ r.y >= box.y /\ r.x + r.w <= box.x + box.w /\ r.y + r.h <= box.y + box.h
Apart(r, s) == r.x + r.w <= s.x \/ s.x + s.w <= r.x \/ r.y + r.h <= s.y \/ s.y + s.h <= r.y
Spread(rs) == \A i, j \in DOMAIN rs : i < j => Apart(rs[i].area, rs[j].area)

---------------------------------------------------------------------------
(* renderRegions: the edged regions peel off in order, the fills share what   *)
(* is left and the leftmost take the odd columns.                             *)
Peel(acc, r) ==
  LET b == acc.box
      side == r.edge \in {"left", "right"}
      sz == Least(r.size, IF side THEN b.w ELSE b.h)
      at == CASE r.edge = "left" -> Rect(b.x, b.y, sz, b.h)
              [] r.edge = "right" -> Rect(b.x + b.w - sz, b.y, sz, b.h)
              [] r.edge = "top" -> Rect(b.x, b.y, b.w, sz)
              [] r.edge = "bottom" -> Rect(b.x, b.y + b.h - sz, b.w, sz)
      rest == CASE r.edge = "left" -> Rect(b.x + sz, b.y, b.w - sz, b.h)
                [] r.edge = "right" -> Rect(b.x, b.y, b.w - sz, b.h)
                [] r.edge = "top" -> Rect(b.x, b.y + sz, b.w, b.h - sz)
                [] r.edge = "bottom" -> Rect(b.x, b.y, b.w, b.h - sz)
  IN IF b.w <= 0 \/ b.h <= 0 THEN acc
     ELSE [box |-> rest, placed |-> Append(acc.placed, [of |-> r, area |-> at])]
Share(box, i, n) == (box.w \div n) + (IF i <= box.w % n THEN 1 ELSE 0)
\* renderFills
Fills(regs, box) ==
  LET n == Len(regs)
      x(i) == box.x + (i - 1) * (box.w \div n) + Least(i - 1, box.w % n)
      all == [i \in 1..n |-> [of |-> regs[i], area |-> Rect(x(i), box.y, Share(box, i, n), box.h)]]
  IN IF box.w <= 0 \/ box.h <= 0 THEN <<>> ELSE SelectSeq(all, LAMBDA p : p.area.w > 0)
Body == Rect(0, 0, Width, Height - stripH)
Peeled == FoldLeft(Peel, [box |-> Body, placed |-> <<>>], SelectSeq(Regions[layout], LAMBDA r : r.edge # "fill"))
Placed == LET p == Peeled IN p.placed \o Fills(SelectSeq(Regions[layout], LAMBDA r : r.edge = "fill"), p.box)
\* Where the chrome widget of the last region is drawn, when that region is.
Blank == [x |-> 0, y |-> 0, w |-> 0, h |-> 0]
Area == LET ps == Placed IN IF Len(ps) = Len(Regions[layout]) THEN ps[Len(ps)].area ELSE Blank
Drawn == Area # Blank

---------------------------------------------------------------------------
(* renderRail: as few columns as keep a tile within railTileW; what does not  *)
(* fit folds into the menu of a "+N" cell.                                    *)
RailCols(a) == Most((a.w + railTileW - 1) \div railTileW, 1)
RailRows(a, notes) == Least(Most((a.h - notes) \div railTileH, 0), railMaxRows)
RailCapacity(a, rail) == RailRows(a, rail.notes) * RailCols(a)
RailTiles(a, rail) == a.w \div RailCols(a) >= 4 /\ RailCapacity(a, rail) >= 1
RailShown(a, rail) == IF rail.apps > RailCapacity(a, rail) THEN RailCapacity(a, rail) - 1 ELSE rail.apps
RailCell(a, i) ==
  LET cols == RailCols(a)  bw == a.w \div cols IN
  Rect(a.x + ((a.w - bw * cols) \div 2) + (i % cols) * bw, a.y + (i \div cols) * railTileH, bw, railTileH)
Rail(a, rail) ==
  LET shown == RailShown(a, rail)
      tiles == [i \in 1..shown |-> [is |-> "app", id |-> i, area |-> RailCell(a, i - 1), weld |-> TRUE]]
  IN IF ~RailTiles(a, rail) THEN <<>>
     ELSE IF shown = rail.apps THEN tiles
     ELSE Append(tiles, [is |-> "more", id |-> shown, area |-> RailCell(a, shown), weld |-> TRUE])
\* The apps behind the "+N" cell.
RailRest(a, rail) == {i \in 1..rail.apps : i > RailShown(a, rail)}

---------------------------------------------------------------------------
(* renderTray: toggles keep their bands at the bottom, entries give way.      *)
TrayToggles(a, tray) == Least(tray.toggles, a.h \div homeTileH)
TrayEntries(a, tray) == Least(tray.entries, (a.h \div homeTileH) - TrayToggles(a, tray))
Tray(a, tray) ==
  LET n == TrayToggles(a, tray)
      band(y) == Rect(a.x, y, a.w, homeTileH)
  IN [i \in 1..TrayEntries(a, tray) |-> [is |-> "entry", id |-> i, area |-> band(a.y + (i - 1) * homeTileH), weld |-> FALSE]]
     \o [i \in 1..n |-> [is |-> "toggle", id |-> i, area |-> band(a.y + a.h - (n - i + 1) * homeTileH), weld |-> FALSE]]

---------------------------------------------------------------------------
(* renderPad: a band per section. A tile [section, minHeight, ends, act] has  *)
(* no ends, or a stepper's two, or a d-pad's four; an end is dim or not.      *)
\* splitPadBands: a tile without a section, or of the section in progress, joins it.
Bands(tiles) ==
  LET join(bs, t) ==
        IF bs # <<>> /\ (t.section = None \/ t.section = bs[Len(bs)].label)
        THEN [bs EXCEPT ![Len(bs)].tiles = Append(@, t)]
        ELSE Append(bs, [label |-> t.section, tiles |-> <<t>>])
  IN FoldLeft(join, <<>>, tiles)
Named(b) == b.label # None
LabelWidth(l) == 4   \* every section's name, for short
\* ask: the tallest MinHeight of a tile of the band, or the floor
Ask(b) == FoldLeft(LAMBDA h, t : Most(h, t.minHeight), padTileFloorH, b.tiles)
\* renderRenoRecorder: readouts above the pad, at most a third of the glass
HeaderLines(a, pad) == 1 + Least(pad.readouts, Most(a.h \div 3, 1))
GridH(a, pad) == a.h - HeaderLines(a, pad)
HasGrid(a, pad) == pad.tiles # <<>> /\ GridH(a, pad) >= padTileFloorH /\ a.w >= padTileMinW
Gutter(a, bs) ==
  LET g == FoldLeft(LAMBDA w, b : IF Named(b) THEN Most(w, LabelWidth(b.label) + padGutterPad) ELSE w, 0, bs)
  IN IF a.w - g < padTileMinW THEN 0 ELSE g
TileW(a, g) == Least(padTileMaxW, a.w - g)
PerRow(a, g) == Most((a.w - g) \div TileW(a, g), 1)
RowsOf(n, b) == (Len(b.tiles) + n - 1) \div n
\* The bands that keep a frame: the tail is dropped until the rest and a line
\* per dropped section fit.
Kept(bs, rows, h) ==
  LET framed(k) == Total([i \in 1..k |-> rows[i] * padTileFloorH])
      gone(k) == Cardinality({i \in (k + 1)..Len(bs) : Named(bs[i])})
  IN Max({k \in 0..Len(bs) : k = 0 \/ framed(k) <= h - gone(k)})
Dropped(bs, k) == {i \in DOMAIN bs : i > k /\ Named(bs[i])}
SaysDropped(bs, k) == k > 0 /\ Dropped(bs, k) # {}
FaultBudgetH(bs, k, h) == h   \* the line that names the dropped is not reserved
BudgetH(bs, k, h) == h - (IF Dropped(bs, k) # {} THEN 1 ELSE 0)
\* budgetBands: every band gets a frame, then asks are paid in publication order
BandHeights(bs, rows, budget) ==
  LET pay(acc, i) ==
        LET more == Most(Least(Ask(bs[i]) - padTileFloorH, acc.rem \div rows[i]), 0)
        IN [rem |-> acc.rem - more * rows[i], h |-> Append(acc.h, padTileFloorH + more)]
  IN FoldLeft(pay, [rem |-> budget - Total([i \in DOMAIN rows |-> rows[i] * padTileFloorH]), h |-> <<>>],
              [i \in DOMAIN bs |-> i]).h
\* The grid of a pad: its bands, the rows they wrap to, how many are kept, and how high.
Grid(bs, rows, g, h, k) ==
  [bands |-> bs, rows |-> rows, gutter |-> g, kept |-> k,
   heights |-> BandHeights(SubSeq(bs, 1, k), SubSeq(rows, 1, k), BudgetH(bs, k, h))]
Wrapped(bs, rows, g, h) == Grid(bs, rows, g, h, Kept(bs, rows, h))
Banded(a, bs, g, h) == Wrapped(bs, [i \in DOMAIN bs |-> RowsOf(PerRow(a, g), bs[i])], g, h)
GridIn(a, bs, h) == Banded(a, bs, Gutter(a, bs), h)
GridOf(a, pad) == GridIn(a, Bands(pad.tiles), GridH(a, pad))
\* registerEndsHits and endsTile: a tile too narrow for its ends and a middle,
\* or a d-pad too low for its corners, is a plain button with a menu of them.
stepperEnds(inner) == inner - 2 * stepperEndW - 4 >= 3
HasEnds(t, area) == t.ends # <<>> /\ stepperEnds(area.w - 2) /\ (Len(t.ends) = 4 => area.h >= 4)
EndsHits(t, id, area) ==
  LET left == area.x + 1
      right == area.x + area.w - 1 - stepperEndW
      waist == area.h \div 2
      spans == IF Len(t.ends) = 2
               THEN <<Rect(left, area.y, stepperEndW, area.h), Rect(right, area.y, stepperEndW, area.h)>>
               ELSE <<Rect(left, area.y, stepperEndW, waist), Rect(right, area.y, stepperEndW, waist),
                      Rect(left, area.y + waist, stepperEndW, area.h - waist),
                      Rect(right, area.y + waist, stepperEndW, area.h - waist)>>
      hits == [e \in DOMAIN t.ends |-> [is |-> "end", id |-> <<id, e>>, area |-> spans[e], weld |-> TRUE]]
  IN SelectSeq(hits, LAMBDA h : ~t.ends[h.id[2]])
\* endsAsMenu: the ends that are not dim
EndsMenu(t) == {e \in DOMAIN t.ends : ~t.ends[e]}
\* registerPadHit: an act answers the tap, else a menu, else nothing does
Answers(t) == t.act \/ EndsMenu(t) # {}
PadHits(t, id, area) ==
  IF HasEnds(t, area) THEN EndsHits(t, id, area)
  ELSE <<[is |-> IF Answers(t) THEN "tile" ELSE "dead", id |-> <<id, 0>>, area |-> area, weld |-> TRUE]>>
\* The tiles of band i, wrapped.
BandHits(a, top, grid, i) ==
  LET w == TileW(a, grid.gutter)
      n == PerRow(a, grid.gutter)
      h == grid.heights[i]
      y == top + Total([j \in 1..(i - 1) |-> grid.rows[j] * grid.heights[j]])
      area(k) == Rect(a.x + grid.gutter + ((k - 1) % n) * w, y + ((k - 1) \div n) * h, w, h)
  IN Flat([k \in DOMAIN grid.bands[i].tiles |-> PadHits(grid.bands[i].tiles[k], <<i, k>>, area(k))])
GridHits(a, top, grid) == Flat([i \in DOMAIN grid.heights |-> BandHits(a, top, grid, i)])
\* renderPad
Pad(a, pad) == IF HasGrid(a, pad) THEN GridHits(a, a.y + HeaderLines(a, pad), GridOf(a, pad)) ELSE <<>>

Tiles ==
  LET a == Area IN
  IF a = Blank THEN <<>>
  ELSE CASE widget.kind = "rail" -> Rail(a, widget)
         [] widget.kind = "tray" -> Tray(a, widget)
         [] widget.kind = "pad" -> Pad(a, widget)

---------------------------------------------------------------------------
(* renderStrip: the home icon, the tabs, the toggles, the kitty_mod note, the *)
(* battery, a failed act; each only as far as the width goes. A tab names the *)
(* side of its pair that shows and budgets the wider of the two names.        *)
TabText(t, l) == IF t.alt # None /\ l = t.alt /\ t.altLabel > 0 THEN t.altLabel ELSE t.label
TabBudget(t, l) == Most(TabText(t, l), Most(t.label, t.altLabel))
TabWidth(t, l) == 2 + (IF soon = t.target THEN soonW ELSE TabBudget(t, l))
\* Cells are placed while they fit: stop says whether one that does not ends the run.
Fit(acc, cell) ==
  IF acc.full \/ acc.x + cell.gap + cell.w > Width THEN [acc EXCEPT !.full = acc.full \/ cell.stops]
  ELSE [acc EXCEPT !.x = acc.x + cell.gap + cell.w,
                   !.cells = Append(@, [is |-> cell.is, id |-> cell.id, weld |-> FALSE,
                                        area |-> Rect(acc.x + cell.gap, Height - stripH, cell.w, stripH)])]
Cell(is, id, gap, w, stops) == [is |-> is, id |-> id, gap |-> gap, w |-> w, stops |-> stops]
Run(acc, cells) == FoldLeft(Fit, [acc EXCEPT !.full = FALSE], cells)
StripOf(l) ==
  LET icon == Run([x |-> 0, full |-> FALSE, cells |-> <<>>], <<Cell("home", 0, 0, stripIconW, TRUE)>>)
      tabs == Run(icon, [i \in DOMAIN strip.tabs |-> Cell("tab", i, 0, TabWidth(strip.tabs[i], l), TRUE)])
      cups == Run(tabs, [i \in 1..strip.toggles |-> Cell("cup", i, 1, stripIconW, TRUE)])
      note(acc, is, w) == IF w = 0 THEN acc ELSE Run(acc, <<Cell(is, 0, 0, w, FALSE)>>)
      mod == note(cups, "mod", IF strip.mod = 0 THEN 0 ELSE strip.mod + 2)
      bat == note(mod, "battery", batteryCellW)
  IN note(bat, "fail", IF fail = 0 THEN 0 ELSE fail + 2).cells
Strip == StripOf(layout)
TabActive(t) == t.target = layout \/ (t.alt # None /\ t.alt = layout)
TabTarget(t) == IF t.alt # None /\ layout = t.target THEN t.alt ELSE t.target

---------------------------------------------------------------------------
(* openOverlay: the box is welded to the tile it was held on, right of it or  *)
(* left of it, or clamped into the glass at the cell of the hold.             *)
Live(m) == SelectSeq(m, LAMBDA a : a.argv)
\* The rows of the first k items: one each, and a rule where the section changes.
RowsTo(items, k) == k + Cardinality({i \in 2..k : items[i].section # items[i - 1].section})
KeptItems(items) == LET fits == {k \in 0..Len(items) : RowsTo(items, k) + 2 <= Height \/ k = 0}
                    IN CHOOSE k \in fits : \A j \in fits : j <= k
LabelW(items) == FoldLeft(LAMBDA w, a : Most(w, a.w + (IF a.destructive THEN confirmPrefix ELSE 0)), 0, items)
Anchor(tile, weld, x, y, w, h) ==
  LET tall == Most(h, railTileH)
      welds == weld /\ tile.h = railTileH /\ tile.y + tall <= Height
  IN IF welds /\ tile.x + tile.w - 1 + w <= Width THEN Rect(tile.x + tile.w - 1, tile.y, w, tall)
     ELSE IF welds /\ tile.x + 1 - w >= 0 THEN Rect(tile.x + 1 - w, tile.y, w, tall)
     ELSE Rect(Least(Most(x, 0), Most(Width - w, 0)), Least(Most(y, 0), Most(Height - h, 0)), w, h)
Opened(m, tile, weld, x, y) ==
  LET all == Live(m)
      items == SubSeq(all, 1, KeptItems(all))
      w == Least(LabelW(all) + 4, Width)
      box == Anchor(tile, weld, x, y, w, RowsTo(items, Len(items)) + 2)
      at(i) == Rect(box.x, box.y + RowsTo(items, i), box.w, 1)
  IN IF items = <<>> THEN Shut
     ELSE [anchor |-> box, items |-> [i \in DOMAIN items |-> [area |-> at(i), section |-> items[i].section]]]

---------------------------------------------------------------------------
(* swipeTarget: the region the stroke starts in, else one it only just missed, *)
(* else the layout.                                                           *)
Binds(p) == p.of.up # None \/ p.of.down # None
Target(r, dir) == IF dir = "down" THEN r.down ELSE r.up
StartsIn(ps, x, y) == SelectInSeq(ps, LAMBDA p : Binds(p) /\ Holds(p.area, x, y))
NearMiss(ps, x, y, dir) ==
  SelectInSeq(ps, LAMBDA p : Target(p.of, dir) # None /\ Holds(Grow(p.area, swipeSlopCols, swipeSlopRows), x, y))
By(ps, p, dir) == [by |-> p, target |-> Target(IF p = 0 THEN LayoutSwipe[layout] ELSE ps[p].of, dir)]
SwipeTarget(ps, x, y, dir) ==
  LET in == StartsIn(ps, x, y) IN
  By(ps, IF in = 0 THEN NearMiss(ps, x, y, dir) ELSE IF Target(ps[in].of, dir) # None THEN in ELSE 0, dir)
\* swipeTab: home and the tabs that lead somewhere, as a ring
Home == "home"
Ring == <<Home>> \o [i \in DOMAIN SelectSeq(strip.tabs, LAMBDA t : t.target \in DOMAIN Regions) |->
                       SelectSeq(strip.tabs, LAMBDA t : t.target \in DOMAIN Regions)[i].target]
Slot == LET tabs == SelectSeq(strip.tabs, LAMBDA t : t.target \in DOMAIN Regions)
            at == SelectLastInSeq(tabs, TabActive)
        IN IF at > 0 THEN at + 1 ELSE IF layout = Home THEN 1 ELSE 0

---------------------------------------------------------------------------
Init == /\ size \in Sizes /\ layout \in DOMAIN Regions /\ strip \in Strips /\ fail \in Fails /\ widget \in Widgets
        /\ soon = None /\ menu = Shut

\* Update, WindowSizeMsg: the rects of a menu are those of the old glass
Resize == \E s \in Sizes \ {size} : size' = s /\ menu' = Shut /\ UNCHANGED <<layout, strip, fail, widget, soon>>
WidgetData == \E w \in {v \in Widgets : v.kind = widget.kind} : widget' = w /\ UNCHANGED <<size, layout, strip, fail, soon, menu>>
\* handleBusMsg: a layout the bus chose, and another configuration
BusLayout == \E l \in DOMAIN Regions : layout' = l /\ menu' = Shut /\ UNCHANGED <<size, strip, fail, widget, soon>>
Reload == \E l \in DOMAIN Regions, s \in Strips, w \in Widgets :
  layout' = l /\ strip' = s /\ widget' = w /\ soon' = None /\ menu' = Shut /\ UNCHANGED <<size, fail>>
ActFail == \E n \in Fails : fail' = n /\ UNCHANGED <<size, layout, strip, widget, soon, menu>>
FlashTick == soon # None /\ soon' = None /\ UNCHANGED <<size, layout, strip, fail, widget, menu>>
\* trayActivate: a layout that is not there flashes "soon"
TrayActivate(target, t) ==
  IF target \in DOMAIN Regions THEN layout' = target /\ menu' = Shut /\ UNCHANGED <<size, strip, fail, widget, soon>>
  ELSE soon' = t.target /\ UNCHANGED <<size, layout, strip, fail, widget, menu>>
TapTab == /\ menu = Shut
          /\ \E c \in ToSet(Strip) : c.is = "tab" /\ TrayActivate(TabTarget(strip.tabs[c.id]), strip.tabs[c.id])
SwipeTab == /\ menu = Shut /\ Slot > 0 /\ Len(Ring) >= 2
            /\ \E step \in {1, -1} : layout' = Ring[((Slot - 1 + step + Len(Ring)) % Len(Ring)) + 1]
            /\ UNCHANGED <<size, strip, fail, widget, soon, menu>>
Swipe == /\ menu = Shut
         /\ LET ps == Placed IN \E c \in Strokes, dir \in {"up", "down"} :
              LET s == SwipeTarget(ps, c[1], c[2], dir) IN s.target \in DOMAIN Regions /\ layout' = s.target
         /\ UNCHANGED <<size, strip, fail, widget, soon, menu>>
\* What a hold opens: the menu of an app or of a button; the "+N" cell's apps; the ends of an
\* element too small to draw them, as the items of one section.
Plain(n) == [i \in 1..n |-> [w |-> 6, destructive |-> FALSE, section |-> None, argv |-> TRUE]]
RestMenu == Plain(Cardinality(RailRest(Area, widget)))
PadRow(t) == Bands(widget.tiles)[t.id[1][1]].tiles[t.id[1][2]]
MenusOf(t) == CASE t.is = "more" -> {RestMenu}
                [] t.is = "app" -> Menus
                [] t.is = "tile" -> IF PadRow(t).ends = <<>> THEN Menus ELSE {Plain(Cardinality(EndsMenu(PadRow(t))))}
                [] OTHER -> {}
OpenOverlay == /\ menu = Shut
               /\ \E t \in ToSet(Tiles) : \E m \in MenusOf(t) : \E x \in {t.area.x, t.area.x + t.area.w - 1} :
                    menu' = Opened(m, t.area, t.weld, x, t.area.y + t.area.h - 1)
               /\ UNCHANGED <<size, layout, strip, fail, widget, soon>>
Dismiss == menu # Shut /\ menu' = Shut /\ UNCHANGED <<size, layout, strip, fail, widget, soon>>
Next == Resize \/ WidgetData \/ BusLayout \/ Reload \/ ActFail \/ FlashTick \/ TapTab \/ SwipeTab \/ Swipe \/ OpenOverlay \/ Dismiss
Spec == Init /\ [][Next]_vars

---------------------------------------------------------------------------
(* Properties.                                                               *)
\* Types; a menu without items is shut.
TypeOK == /\ size \in Sizes /\ layout \in DOMAIN Regions /\ strip \in Strips /\ fail \in Fails /\ widget \in Widgets
          /\ menu = Shut <=> menu.items = <<>>

\* Regions never overlap and never leave the body, on any glass; one that is not drawn
\* was squeezed out by those before it, which then cover the whole body (home.go renderRegions).
RegionsTile ==
  LET ps == Placed IN
  /\ \A i \in DOMAIN ps : Within(ps[i].area, Body)
  /\ Spread(ps)
  /\ ~Drawn => Total([i \in DOMAIN ps |-> ps[i].area.w * ps[i].area.h]) = Body.w * Body.h

\* Whatever the widget shows and however small its region, its buttons stay inside it and no
\* two answer for one cell: a first-match table would give the tap to the wrong one.
TilesApart == LET ts == Tiles  a == Area IN Spread(ts) /\ \A i \in DOMAIN ts : Within(ts[i].area, a)

\* Folding never loses an app: it has a tile, or it is behind the one "+N" cell (renderRail).
RailReachesAll ==
  (Drawn /\ widget.kind = "rail" /\ RailTiles(Area, widget)) =>
     LET ts == ToSet(Tiles)
         tiled == {t.id : t \in {u \in ts : u.is = "app"}}
         more == {u \in ts : u.is = "more"}
     IN /\ (1..widget.apps) \ tiled = IF more = {} THEN {} ELSE RailRest(Area, widget)
        /\ tiled \cap RailRest(Area, widget) = {}

GridWhole(a, grid, hits) ==
  LET lines == HeaderLines(a, widget) + Total([i \in DOMAIN grid.heights |-> grid.rows[i] * grid.heights[i]])
               + (IF SaysDropped(grid.bands, grid.kept) THEN 1 ELSE 0)
      answers(id, t) ==
        \/ \E u \in hits : u.is = "tile" /\ u.id = <<id, 0>>
        \/ \A e \in DOMAIN t.ends : t.ends[e] \/ \E u \in hits : u.is = "end" /\ u.id = <<id, e>>
  IN lines <= a.h /\ \A i \in DOMAIN grid.heights : \A k \in DOMAIN grid.bands[i].tiles : answers(<<i, k>>, grid.bands[i].tiles[k])
\* A pad never draws half a band: a band it keeps has every press of every tile within the
\* glass, dead buttons only where the module published nothing to do, and the line that names
\* what was dropped has a row of its own (renderPad, registerEndsHits, endsAsMenu).
PadWhole ==
  LET a == Area IN
  (Drawn /\ widget.kind = "pad" /\ HasGrid(a, widget)) => GridWhole(a, GridOf(a, widget), ToSet(Tiles))

\* The strip's cells stay on the glass and apart, at any width and with any of them missing.
StripFits == LET cs == Strip IN Spread(cs) /\ \A i \in DOMAIN cs : Within(cs[i].area, Rect(0, Height - stripH, Width, stripH))

\* An open menu lies on the glass it opened on, its items inside its frame, one row each, with a
\* rule's row between sections: no item is drawn where another is tapped (openOverlay).
MenuOnGlass ==
  menu # Shut =>
    /\ Within(menu.anchor, Rect(0, 0, Width, Height))
    /\ Spread(menu.items)
    /\ \A i \in DOMAIN menu.items :
         /\ menu.items[i].area.y > menu.anchor.y
         /\ menu.items[i].area.y < menu.anchor.y + menu.anchor.h - 1
         /\ (i > 1 /\ menu.items[i].section # menu.items[i - 1].section) =>
              menu.items[i].area.y > menu.items[i - 1].area.y + 1

\* A stroke that starts in a region with a swipe of its own is never answered by a neighbour,
\* though the widened rects overlap (swipeTarget).
SwipeKeepsColumn ==
  LET ps == Placed IN
  \A c \in Strokes, dir \in {"up", "down"} :
    LET in == StartsIn(ps, c[1], c[2]) IN in > 0 => SwipeTarget(ps, c[1], c[2], dir).by \in {0, in}

\* Whatever layout shows, the strip's cells are in the same places: flipping a pair moves no
\* cell out from under the thumb that flipped it (dock.go renderStrip).
StripSteady == LET cs == Strip IN \A l \in DOMAIN Regions : StripOf(l) = cs

\* The parts together: every box of the glass (home.go, pad.go, overlay.go, dock.go).
LayoutSound == /\ RegionsTile /\ TilesApart /\ RailReachesAll /\ PadWhole /\ StripFits /\ StripSteady
               /\ MenuOnGlass /\ SwipeKeepsColumn
=============================================================================
