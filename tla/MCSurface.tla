------------------------------ MODULE MCSurface ------------------------------
(***************************************************************************)
(* The HUD surface and the keyboard view on small instances, side by side: *)
(* a behaviour picks its part and the others keep their initial state.     *)
(***************************************************************************)
EXTENDS Integers, Sequences, FiniteSets, TLC

VARIABLES
  part,
  width, gen, link, dialed, client, waits, inbox, retries, seen, sending, committed, wire, open, working, acts, sizes,
  linkTrouble,                                                                                    \* link
  layout, bus, data, stale, theme, caff, keys, size, press, flash, flashTicks, overlay, pending, bloomTicks,
  wash, washGen, washTicks, cache, glass, changes, touches,                                       \* touch
  cells, tab, strip, fail, widget, soon, menu,                                                    \* layout
  usb, poll, docs, store, local, probed, cold, backoff, generation, inFlight, fetches, visible, shows, wake, loop,
  updates, check, told, message, window, refreshes, started, loadTrouble,                         \* loader
  down, lineUp, queue, board, held, kbLayer, pressed, pendingLayer, win, hits, before, events, adopted   \* keys

linkVars == <<width, gen, link, dialed, client, waits, inbox, retries, seen, sending, committed, wire, open,
              working, acts, sizes, linkTrouble>>
touchVars == <<layout, bus, data, stale, theme, caff, keys, size, press, flash, flashTicks, overlay, pending,
               bloomTicks, wash, washGen, washTicks, cache, glass, changes, touches>>
layoutVars == <<cells, tab, strip, fail, widget, soon, menu>>
loaderVars == <<usb, poll, docs, store, local, probed, cold, backoff, generation, inFlight, fetches, visible, shows,
                wake, loop, updates, check, told, message, window, refreshes, started, loadTrouble>>
keyVars == <<down, lineUp, queue, board, held, kbLayer, pressed, pendingLayer, win, hits, before, events, adopted>>
vars == <<part, linkVars, touchVars, layoutVars, loaderVars, keyVars>>

Link == INSTANCE DockLink WITH
  ChCap <- 1, QueueLen <- 1, MaxGens <- 2, MaxMsgs <- 2, MaxActs <- 2, MaxSizes <- 3, MaxTrouble <- 1,
  bus <- link, conn <- dialed, queue <- sending, trouble <- linkTrouble

\* Homes, a keyboard and a kind nothing draws, between which swipes lead, and one swipe that leads nowhere.
Kinds == ("home" :> "home") @@ ("kb" :> "keyboard") @@ ("monitor" :> "home") @@ ("later" :> "stub")
Placed == ("home" :> {"card", "kb-live"}) @@ ("kb" :> {}) @@ ("monitor" :> {}) @@ ("later" :> {"card"})
Swipes == ("home" :> [side |-> "kb", up |-> "missing"]) @@ ("kb" :> [side |-> "home", up |-> "monitor"])
          @@ ("monitor" :> [side |-> "none", up |-> "none"]) @@ ("later" :> [side |-> "home", up |-> "none"])
Touched == INSTANCE DockTouch WITH
  Kind <- Kinds, Places <- Placed, SwipeTo <- Swipes, Datas <- {"v1", "hot"}, Themes <- {"day"}, Keys <- {"l0", "l1"},
  MaxWash <- 2, MaxTicks <- 2, MaxChanges <- 3, MaxTouches <- 2

\* Regions on every edge with fills beside them, and a lone fill; swipes of columns that border.
Region(edge, n, up, dn) == [edge |-> edge, size |-> n, up |-> up, down |-> dn]
Layouts ==
  ("home" :> <<Region("left", 9, "none", "none"), Region("top", 2, "deck", "none"), Region("fill", 0, "none", "none"),
               Region("fill", 0, "deck", "home")>>)
  @@ ("deck" :> <<Region("right", 30, "none", "home"), Region("bottom", 3, "home", "none"), Region("fill", 0, "none", "none")>>)
  @@ ("pad" :> <<Region("fill", 0, "none", "home")>>)
LayoutSwipes ==
  ("home" :> [up |-> "deck", down |-> "none"]) @@ ("deck" :> [up |-> "none", down |-> "pad"])
  @@ ("pad" :> [up |-> "none", down |-> "none"])
\* A pair, a stub and home; two cups and a kitty_mod note.
Tab(target, label, alt, altLabel) == [target |-> target, label |-> label, alt |-> alt, altLabel |-> altLabel]
TheStrip == [tabs |-> <<Tab("deck", 4, "pad", 9), Tab("later", 5, "none", 0), Tab("home", 4, "none", 0)>>,
             toggles |-> 2, mod |-> 14]
\* Rails and trays that fit and that overflow; pads with wrapped bands, asks, steppers and d-pads.
Tile(section, h, ends, act) == [section |-> section, minHeight |-> h, ends |-> ends, act |-> act]
Mixer == <<Tile("take", 5, <<>>, TRUE), Tile("none", 3, <<FALSE, FALSE, TRUE, FALSE>>, FALSE),
           Tile("mic", 3, <<FALSE, TRUE>>, FALSE), Tile("mic", 3, <<>>, TRUE), Tile("mic", 3, <<>>, TRUE),
           Tile("mic", 3, <<>>, TRUE), Tile("fx", 6, <<>>, TRUE)>>
Remote == <<Tile("zoom", 3, <<FALSE, FALSE, FALSE, FALSE>>, FALSE), Tile("zoom", 4, <<TRUE, FALSE>>, FALSE),
            Tile("cam", 3, <<>>, TRUE)>>
TheWidgets ==
  {[kind |-> "rail", apps |-> n, notes |-> k] : n \in {3, 30}, k \in {0, 2}}
  \cup {[kind |-> "tray", entries |-> 5, toggles |-> k] : k \in {1, 3}}
  \cup {[kind |-> "pad", readouts |-> n, tiles |-> t] : n \in {0, 4}, t \in {<<>>, Mixer, Remote}}
Item(w, destructive, section, argv) == [w |-> w, destructive |-> destructive, section |-> section, argv |-> argv]
TheMenus == {<<Item(5, FALSE, "a", TRUE)>>,
             <<Item(8, TRUE, "a", TRUE), Item(4, FALSE, "b", TRUE), Item(3, FALSE, "b", TRUE), Item(20, FALSE, "c", TRUE),
               Item(40, FALSE, "c", FALSE)>>}
Placing == INSTANCE DockLayout WITH
  Sizes <- {<<7, 4>>, <<24, 9>>, <<60, 14>>, <<90, 26>>}, Regions <- Layouts, LayoutSwipe <- LayoutSwipes,
  Strips <- {TheStrip}, Fails <- {0, 12}, Widgets <- TheWidgets, Menus <- TheMenus,
  Strokes <- {<<3, 2>>, <<12, 1>>, <<50, 9>>, <<31, 3>>}, size <- cells, layout <- tab

Loader == INSTANCE KeyLoader WITH
  Revs <- {"r1", "r2"}, Newest <- "r2", MaxShows <- 2, MaxRefreshes <- 1, MaxFetches <- 1, MaxTrouble <- 1,
  bus <- usb, cache <- docs, held <- local, trouble <- loadTrouble
Keys == INSTANCE KeyView WITH
  Coords <- {<<0, 0>>, <<11, 4>>, <<3, 6>>}, Boards <- <<<<4, 6>>, <<9, 6, 3>>>>, Widths <- {60, 10, 120}, ButtonW <- 6,
  MaxEvents <- 3, MaxBoards <- 2, link <- lineUp, layer <- kbLayer, pending <- pressed

Parts == {"link", "touch", "layout", "loader", "keys"}
\* Each part's initial states; a part that is not running keeps one of them.
Init ==
  /\ part \in Parts
  /\ Link!Init
  /\ Touched!Init
  /\ Placing!Init /\ (part # "layout" => cells = <<7, 4>> /\ tab = "home" /\ fail = 0
                                         /\ widget = [kind |-> "tray", entries |-> 5, toggles |-> 1])
  /\ Loader!Init  /\ (part # "loader" => usb = "r1" /\ docs = "r1" /\ store = "r1")
  /\ Keys!Init    /\ (part # "keys" => win = [w |-> 60, compact |-> FALSE])

Links   == part = "link" /\ Link!Next /\ UNCHANGED <<part, touchVars, layoutVars, loaderVars, keyVars>>
Taps    == part = "touch" /\ Touched!Next /\ UNCHANGED <<part, linkVars, layoutVars, loaderVars, keyVars>>
Places  == part = "layout" /\ Placing!Next /\ UNCHANGED <<part, linkVars, touchVars, loaderVars, keyVars>>
Loads   == part = "loader" /\ Loader!Next /\ UNCHANGED <<part, linkVars, touchVars, layoutVars, keyVars>>
Lights  == part = "keys" /\ Keys!Next /\ UNCHANGED <<part, linkVars, touchVars, layoutVars, loaderVars>>
Next == Links \/ Taps \/ Places \/ Loads \/ Lights
Spec == Init /\ [][Next]_vars

(***************************************************************************)
(* Properties: those of the parts.                                         *)
(***************************************************************************)
\* A dock that redials leaks no connection, never ends up without a dial to wait for, and keeps
\* a frame only under the size it was made for (dock.go, connection.go).  What is on the glass is
\* what the state says although frames are memoised, a menu belongs to the layout and size it
\* opened on, and whatever has to expire has its tick (dock.go, home.go).
SurfaceSafe ==
  /\ part = "link" => Link!TypeOK /\ Link!NoLeakedClient /\ Link!NeverStranded /\ Link!CommittedFirst
  /\ part = "touch" => Touched!TypeOK /\ Touched!FrameIsFresh /\ Touched!MenuOfThisGlass /\ Touched!TicksAreArmed

\* On any glass: no two buttons share a cell, none leaves its region, a rail folds no app away
\* and a pad that still shows a band shows whole ones (home.go, pad.go, overlay.go).
LayoutSound == part = "layout" => Placing!TypeOK /\ Placing!LayoutSound

\* One fetch at a time, none whose answer predates the refresh or the board it is shown for
\* (loader.go), and a key that is down is lit, the tabs and keys apart (kbview.go).
KeyboardSafe ==
  /\ part = "loader" => Loader!TypeOK /\ Loader!OneFetch /\ Loader!FreshAfterRefresh /\ Loader!NothingFromBefore
                        /\ Loader!NewestIsShown
  /\ part = "keys" => Keys!TypeOK /\ Keys!HeldIsDown /\ Keys!TabsApart /\ (events = 0 => Keys!KeysApart)

\* What no step may do: skip a message of the bus on a connection, let a tap through an open menu.
SurfaceSteps == Link!NoGap /\ Touched!MenuIsModal
=============================================================================
