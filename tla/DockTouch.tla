----------------------------- MODULE DockTouch -----------------------------
(***************************************************************************)
(* What a touch does to the HUD and what the HUD then shows (surface/      *)
(* dock.go, home.go, overlay.go, resources.go, xition.go, kb.go): the memo *)
(* of the composed body, press lights and tap flashes, the modal menu with *)
(* its destructive items, the deferred bloom of the resources card, and    *)
(* the wash of a swipe. Every message ends with View, so the hit table is  *)
(* that of the glass. The strip is drawn afresh by each View and is left   *)
(* out, as are the messages that only it shows.                            *)
(***************************************************************************)
EXTENDS Integers, FiniteSets

CONSTANTS
  Kind,       \* the kind of every layout of the config
  Places,     \* the widgets a layout places: the resources card, kb-live
  SwipeTo,    \* the target of a swipe in each layout and direction
  Datas, Themes, Keys,   \* what the card publishes, palettes, what a keyboard shows
  MaxWash, MaxTicks,   \* bounds: washes of a run, timers of a kind at once
  MaxChanges, MaxTouches  \* bounds: what the bus says, what a finger does

Layouts == DOMAIN Kind
Dirs == {"side", "up"}
None == "none"

VARIABLES
  layout, bus,      \* the layout, and busConnected
  data, stale, theme, caff, keys, size,  \* what a frame shows
  press,            \* pressed: none, a lit tile or strip key, or a tile past pressHoldMax
  flash,            \* keys of trayFlash that have not expired by m.now
  flashTicks,       \* one-shot ticks of flashes that run
  overlay,          \* the modal menu or the info bloom
  pending, bloomTicks,   \* resPending and its ticks
  wash, washGen, washTicks,   \* xition: its generation and frame; the ticks of each generation
  cache, glass,     \* homeCache, and the body on the glass
  changes, touches
vars == <<layout, bus, data, stale, theme, caff, keys, size, press, flash, flashTicks,
          overlay, pending, bloomTicks, wash, washGen, washTicks, cache, glass, changes, touches>>
shown == <<data, stale, theme, caff, keys, size>>
washing == <<wash, washGen, washTicks>>
blooming == <<pending, bloomTicks>>
flashing == <<flash, flashTicks>>

\* layoutKind: a layout the config lacks is drawn as a home without regions
KindOf(l) == IF l \in Layouts THEN Kind[l] ELSE "home"
Placed(w) == layout \in Layouts /\ w \in Places[layout]
Home == layout \in Layouts /\ Kind[layout] = "home"
\* renderHome and renderKeyboard: what the body of a frame depends on
NoKeys == None
Blank == [layout |-> None, data |-> None, stale |-> FALSE, theme |-> None, caff |-> FALSE, keys |-> NoKeys, size |-> 0, lit |-> {}]
Lit == (flash \ {"tab"}) \cup (IF press = "tile" THEN {"tile"} ELSE {})
Frame == LET drawn == [Blank EXCEPT !.layout = layout, !.theme = theme, !.size = size] IN
         CASE Home -> [drawn EXCEPT !.caff = caff, !.lit = Lit,
                                    !.data = IF Placed("card") THEN data ELSE None, !.stale = Placed("card") /\ stale,
                                    !.keys = IF Placed("kb-live") THEN keys ELSE NoKeys]
           [] KindOf(layout) = "keyboard" -> [drawn EXCEPT !.keys = keys]
           [] OTHER -> drawn
\* attentionLive: a frame that marches with the clock
Attention == Home /\ Placed("card") /\ data = "hot"
\* View, with the memo still valid or not. A kind without a renderer is a stub.
View(ok) ==
  IF KindOf(layout') \notin {"home", "keyboard"} THEN glass' = Frame' /\ cache' = [cache EXCEPT !.ok = ok]
  ELSE IF flash' # {} \/ Attention' THEN glass' = Frame' /\ cache' = [cache EXCEPT !.ok = FALSE]
  ELSE IF ok THEN glass' = cache.frame /\ UNCHANGED cache
  ELSE glass' = Frame' /\ cache' = [ok |-> TRUE, frame |-> Frame']

Closed == [kind |-> None, confirm |-> None, layout |-> None, size |-> 0, blooms |-> FALSE]
Init == /\ layout = "home" /\ bus = FALSE /\ data = None /\ stale = FALSE /\ caff = FALSE /\ keys = NoKeys /\ size = 1
        /\ theme = None /\ press = None /\ flash = {} /\ flashTicks = 0 /\ overlay = Closed
        /\ pending = None /\ bloomTicks = 0 /\ wash = [gen |-> 0, frame |-> 0] /\ washGen = 0
        /\ washTicks = [g \in 1..MaxWash |-> 0]
        /\ cache = [ok |-> TRUE, frame |-> Frame] /\ glass = Frame /\ changes = 0 /\ touches = 0

Open == overlay.kind # None
Opened(kind) == [kind |-> kind, confirm |-> None, layout |-> layout, size |-> size, blooms |-> kind = "menu"]

---------------------------------------------------------------------------
\* m.now moves on: flashes expire, a press light grows old
Expires == \E old \in SUBSET flash : flash' = flash \ old
Ages == press' = press \/ (press = "tile" /\ press' = "aged")
\* flash: m.now is set, keys light and the tick of a tap flash, not of a
\* "soon", is drained by Update
Flash(lit) == /\ \E old \in SUBSET flash : flash' = (flash \ old) \cup lit
              /\ IF lit = {"soon"} THEN UNCHANGED flashTicks ELSE flashTicks < MaxTicks /\ flashTicks' = flashTicks + 1
NoFlash == UNCHANGED flashing /\ (press' = "aged" => press = "aged")
\* resetLayout: what was anchored in the old layout goes with it
ResetLayout == overlay' = Closed /\ pending' = None /\ UNCHANGED bloomTicks
Stays == UNCHANGED <<overlay, blooming>>
\* navigateTo: through the bus when it is there, which answers with a layout
Navigate(l, ok) == IF bus THEN UNCHANGED layout /\ Stays /\ View(ok) ELSE layout' = l /\ ResetLayout /\ View(FALSE)

\* overlayTap and fireOverlayItem. A destructive item is fired by a second
\* tap on it, confirmArmDelay after the first; the bloom closes on any tap,
\* and inside doubleTapWindow converts.
Fire == (Flash({"tile"}) \/ NoFlash) /\ overlay' = Closed
Danger == CASE overlay.confirm = None -> overlay' = [overlay EXCEPT !.confirm = "fresh"] /\ NoFlash
            [] overlay.confirm = "fresh" -> UNCHANGED overlay /\ NoFlash
            [] OTHER -> Fire
OverlayTap(at, ok) ==
  \/ /\ \/ overlay.kind = "menu" /\ at = "item" /\ Fire
        \/ overlay.kind = "menu" /\ at = "danger" /\ Danger
        \/ overlay.kind = "menu" /\ at = "inside" /\ NoFlash /\ UNCHANGED overlay
        \/ (at = "outside" \/ (overlay.kind = "info" /\ at = "inside")) /\ NoFlash /\ overlay' = Closed
     /\ UNCHANGED <<layout, blooming>> /\ View(ok /\ flash' = flash)
  \/ /\ overlay.kind = "info" /\ at = "inside" /\ NoFlash /\ ~bus
     /\ layout' = "monitor" /\ ResetLayout /\ View(FALSE)
\* The hits of the body and of the strip. tapResources: a fast second tap
\* converts, the first one arms the bloom.
BaseTap(at, ok) ==
  \/ at = "tile" /\ Home /\ Flash({"tile"}) /\ UNCHANGED layout /\ Stays /\ View(FALSE)
  \/ /\ at = "card" /\ Home /\ Placed("card") /\ data # None /\ NoFlash
     /\ IF pending = None
        THEN /\ bloomTicks < MaxTicks /\ pending' = layout /\ bloomTicks' = bloomTicks + 1
             /\ UNCHANGED <<layout, overlay>> /\ View(ok)
        ELSE IF bus THEN pending' = None /\ UNCHANGED <<layout, overlay, bloomTicks>> /\ View(ok)
        ELSE layout' = "monitor" /\ ResetLayout /\ View(FALSE)
  \/ at = "tab" /\ Flash({"tab"}) /\ \E l \in Layouts : Navigate(l, FALSE)
  \/ at = "cup" /\ Flash({"tab"}) /\ UNCHANGED layout /\ Stays /\ View(FALSE)
  \/ at = "stub" /\ (\E lit \in {{"soon"}, {"tab", "soon"}} : Flash(lit)) /\ UNCHANGED layout /\ Stays /\ View(FALSE)
  \/ at = "outside" /\ NoFlash /\ UNCHANGED layout /\ Stays /\ View(ok)
Targets == {"item", "danger", "inside", "outside", "tile", "card", "tab", "cup", "stub"}
\* A gesture comes over the bus and ends the press light, a mouse click does not.
Ends(mouse) == IF mouse THEN Ages ELSE bus /\ press' = None
Keeps(mouse) == cache.ok /\ (mouse \/ press = None)
\* resolveTap: an open menu owns every tap
Tap(at, mouse) ==
  /\ Ends(mouse) /\ UNCHANGED <<bus, shown, washing>>
  /\ IF Open THEN OverlayTap(at, Keeps(mouse)) ELSE BaseTap(at, Keeps(mouse))
\* kbCycleHit and the layer tabs
KeyboardTap(mouse) ==
  /\ ~Open /\ (KindOf(layout) = "keyboard" \/ (Home /\ Placed("kb-live")))
  /\ Ends(mouse) /\ NoFlash /\ keys' \in Keys
  /\ UNCHANGED <<layout, bus, data, stale, theme, caff, size, overlay, blooming, washing>>
  /\ View(FALSE)
\* pressAt, from the GesturePress of a touch; strip keys light the strip
Press(at) == /\ bus /\ ~Open /\ (at = "tile" => Home) /\ press' = at /\ Expires
             /\ UNCHANGED <<layout, bus, shown, flashTicks, overlay, blooming, washing>> /\ View(FALSE)
\* resolveLongPress: it closes what is open and opens the menu of the tile,
\* if one fits, which arms a tick to settle; a right click of the mouse is one too.
LongPress(at, mouse) ==
  /\ IF mouse THEN UNCHANGED press ELSE bus /\ press' = None
  /\ \/ /\ at = "tile" /\ Home /\ overlay' = Opened("menu")
        /\ flashTicks < MaxTicks /\ flashTicks' = flashTicks + 1 /\ UNCHANGED flash
     \/ overlay' = Closed /\ UNCHANGED flashing
  /\ UNCHANGED <<layout, bus, shown, blooming, washing>>
  /\ View(Keeps(mouse))

\* swipeTab and swipeVertical: the wash over what changes, then the target
NextGen == washGen + 1
StartXition == /\ washGen < MaxWash /\ washGen' = NextGen /\ wash' = [gen |-> NextGen, frame |-> 0]
               /\ washTicks' = [washTicks EXCEPT ![NextGen] = @ + 1]
Swipe(dir) ==
  /\ bus /\ press' = None /\ UNCHANGED <<bus, shown>>
  /\ IF Open \/ layout \notin Layouts \/ (layout \in Layouts /\ SwipeTo[layout][dir] = None)
     THEN UNCHANGED <<flashing, layout, washing>> /\ Stays /\ View(Keeps(FALSE))
     ELSE LET to == SwipeTo[layout][dir] IN
          /\ StartXition
          /\ IF dir = "side" THEN Flash({"tab"}) ELSE IF to \in Layouts THEN NoFlash ELSE Flash({"soon"})
          /\ IF to \in Layouts THEN Navigate(to, Keeps(FALSE) /\ dir # "side")
             ELSE UNCHANGED layout /\ Stays /\ View(FALSE)

---------------------------------------------------------------------------
\* Update: the ticks, each of which moves m.now. The last tick of the flashes
\* comes after every one of them has expired.
ClockTick == /\ Expires /\ Ages
             /\ UNCHANGED <<layout, bus, shown, flashTicks, overlay, blooming, washing>> /\ View(cache.ok)
FlashTick == /\ flashTicks > 0 /\ flashTicks' = flashTicks - 1 /\ Expires /\ Ages
             /\ flashTicks = 1 => flash' \subseteq {"soon"}
             /\ \/ overlay' = [overlay EXCEPT !.blooms = FALSE]
                \/ flashTicks > 1 /\ UNCHANGED overlay   \* a menu whose own tick is still to come
             /\ UNCHANGED <<layout, bus, shown, blooming, washing>> /\ View(cache.ok)
\* openPendingBloom: not before bloomDelay, which a tick of an older bloom
\* may be, and only if there is room for it
BloomTick ==
  /\ bloomTicks > 0 /\ bloomTicks' = bloomTicks - 1 /\ Expires /\ Ages
  /\ \/ pending # None /\ pending' = None /\ (overlay' = [Opened("info") EXCEPT !.layout = pending] \/ UNCHANGED overlay)
     \/ (pending = None \/ bloomTicks > 1) /\ UNCHANGED <<overlay, pending>>
  /\ UNCHANGED <<layout, bus, shown, flashTicks, washing>> /\ View(cache.ok)
\* A tick of a retired wash is dropped; the live one re-arms until the end.
Live(g) == wash.gen = g
xitionFrames == 5
XitionTick(g) ==
  /\ washTicks[g] > 0
  /\ LET left == [washTicks EXCEPT ![g] = @ - 1] IN
     IF ~Live(g) THEN washTicks' = left /\ UNCHANGED <<wash, flash, press>>
     ELSE /\ Expires /\ Ages
          /\ IF wash.frame + 1 < xitionFrames
             THEN wash' = [wash EXCEPT !.frame = @ + 1] /\ washTicks' = [left EXCEPT ![wash.gen] = @ + 1]
             ELSE wash' = [gen |-> 0, frame |-> 0] /\ washTicks' = left
  /\ UNCHANGED <<layout, bus, shown, flashTicks, overlay, blooming, washGen>> /\ View(cache.ok)
\* confirmArmDelay passes
Armed == /\ overlay.confirm = "fresh" /\ overlay' = [overlay EXCEPT !.confirm = "ready"]
         /\ UNCHANGED <<layout, bus, shown, press, flashing, blooming, washing, cache, glass>>

---------------------------------------------------------------------------
\* handleBusMsg
Said == bus /\ UNCHANGED <<bus, press, washing>>
BusLayout(l) ==
  /\ Said /\ UNCHANGED <<shown, flashing>>
  /\ IF l \in Layouts THEN layout' = l /\ ResetLayout /\ View(FALSE)
     ELSE UNCHANGED layout /\ Stays /\ \E again \in BOOLEAN : View(again /\ cache.ok)   \* skew
Reload(l) == /\ Said /\ UNCHANGED <<shown, flashTicks>> /\ flash' = {}
             /\ layout' = l /\ ResetLayout /\ View(FALSE)
\* What the bus says of one thing a frame shows
Says(others) == Said /\ UNCHANGED <<layout, flashing, others>> /\ Stays
\* invalidateHome: widgets the layout does not place keep the memo
FaultInvalidates == FALSE
Invalidates == Placed("card")
WidgetData(d) == data' = d /\ Says(<<stale, theme, caff, keys, size>>) /\ View(cache.ok /\ ~Invalidates)
Snapshot(s) == stale' = s /\ Says(<<data, theme, caff, keys, size>>) /\ View(cache.ok /\ ~(s # stale /\ Invalidates))
Theme(t) == theme' = t /\ Says(<<data, stale, caff, keys, size>>) /\ View(FALSE)
Caffeinate == caff' = ~caff /\ Says(<<data, stale, theme, keys, size>>) /\ View(FALSE)
Notice == Says(shown) /\ View(FALSE)
\* handleKeyMsg
KeysShown == KindOf(layout) = "keyboard" \/ Placed("kb-live")
KeyMsg(k) == keys' = k /\ Says(<<data, stale, theme, caff, size>>) /\ View(cache.ok /\ ~(k # keys /\ KeysShown))
\* A board arrives: ensureBoard
Board(k) == /\ keys' = k /\ UNCHANGED <<layout, bus, data, stale, theme, caff, size, press, flashing, overlay, blooming, washing>>
            /\ View(FALSE)
\* Update, on a change of visibility of a view the bus knows
Visibility == Said /\ UNCHANGED <<layout, shown, flashing>> /\ ResetLayout /\ View(FALSE)
\* A new size closes the menu, whose rectangles are of the old one.
Resize == /\ size' = 3 - size /\ overlay' = Closed
          /\ UNCHANGED <<layout, bus, data, stale, theme, caff, keys, press, flashing, blooming, washing>> /\ View(FALSE)
Link == /\ bus' = ~bus /\ UNCHANGED <<layout, shown, press, flashing, overlay, blooming, washing>> /\ View(FALSE)

Touch == touches < MaxTouches /\ touches' = touches + 1 /\ UNCHANGED changes
Change == changes < MaxChanges /\ changes' = changes + 1 /\ UNCHANGED touches
Next == \/ Touch /\ \/ \E at \in Targets, m \in BOOLEAN : Tap(at, m)
                    \/ \E at \in {"tile", "tab"} : Press(at) \/ \E m \in BOOLEAN : LongPress(at, m)
                    \/ (\E m \in BOOLEAN : KeyboardTap(m)) \/ (\E d \in Dirs : Swipe(d))
        \/ /\ ClockTick \/ FlashTick \/ BloomTick \/ Armed \/ (\E g \in 1..MaxWash : XitionTick(g))
           /\ UNCHANGED <<changes, touches>>
        \/ Change /\ \/ \E l \in Layouts \cup {"unknown"} : BusLayout(l) \/ Reload(l)
                     \/ \E d \in Datas : WidgetData(d)
                     \/ \E x \in BOOLEAN : Snapshot(x)
                     \/ \E t \in Themes : Theme(t)
                     \/ \E k \in Keys : KeyMsg(k) \/ Board(k)
                     \/ Caffeinate \/ Notice \/ Visibility \/ Resize \/ Link

Spec == Init /\ [][Next]_vars

---------------------------------------------------------------------------
TypeOK == /\ layout \in Layouts \cup {"unknown"} /\ press \in {None, "tile", "tab", "aged"}
          /\ flashTicks \in 0..MaxTicks /\ bloomTicks \in 0..MaxTicks
          /\ flash \subseteq {"tile", "tab", "soon"} /\ wash.gen \in 0..washGen

\* What is on the glass is what a fresh render would draw, whether it was
\* composed or came from the memo, but for a press light past its time (View,
\* homeCache).
FrameIsFresh == press = "aged" \/ glass = Frame

\* A menu on the glass is of the layout and the size that are shown, also one
\* that was armed before they changed (resetLayout, openPendingBloom).
MenuOfThisGlass == Open => overlay.layout = layout /\ overlay.size = size

\* One chain of ticks drives a wash and ends it, also when swipes overtake it;
\* a menu that blooms has the tick that settles it (startXition, openOverlay).
TicksAreArmed == /\ wash.gen # 0 => washTicks[wash.gen] = 1
                 /\ Open /\ overlay.blooms => flashTicks > 0

\* Nothing under an open menu is touched: as long as it stays as it is, no
\* touch lights a key, arms a bloom or leaves the layout (resolveTap).
MenuIsModal == [][Open /\ overlay' = overlay /\ touches' # touches =>
                    flash' = flash /\ layout' = layout /\ pending' = pending]_vars
=============================================================================
