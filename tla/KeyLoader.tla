----------------------------- MODULE KeyLoader -----------------------------
(* What kuiboard and the dock show of the keyboard: the polled identity     *)
(* (usbserial.go), the loader with its background fetch (loader.go), the    *)
(* check for a newer revision (update.go), and the watcher that owns them   *)
(* for a window that is shown and hidden (watcher.go).                      *)
EXTENDS Naturals, FiniteSets

CONSTANTS
  Revs,
  Newest,   \* what Oryx says is the newest
  MaxShows, MaxRefreshes, MaxFetches, MaxTrouble  \* bounds

None == "none"

VARIABLES
  bus,       \* the revision on the board, or None
  poll,      \* the poller: id (None = not present), fresh
  cache, store,   \* the disk cache and the newest generation, revisions or None
  held,      \* the loader's board: rev, and the refresh it was read after (a ghost)
  probed, cold,   \* probedRev, coldProbed
  backoff,   \* failedAt is recent
  generation, inFlight,
  fetches,   \* goroutines of kickFetch
  visible, shows, \* the watcher: visible, its generation
  wake,
  loop,      \* run: at, what it read
  updates,   \* the channel: at most one observation
  check,     \* UpdateCheck: the revision it keeps
  told,      \* history: the newest observation that was sent
  message,   \* an observation the window has received and not handled
  window,    \* what is shown: rev, and whether it was loaded before the window was last shown (history)
  refreshes, started, trouble
vars == <<bus, poll, cache, store, held, probed, cold, backoff, generation, inFlight, fetches, visible, shows,
          wake, loop, updates, check, told, message, window, refreshes, started, trouble>>
disk == <<cache, store>>
loader == <<held, probed, cold, backoff, generation, inFlight, fetches, started>>
watch == <<visible, shows, wake, loop, updates, check, told>>
ui == <<message, window>>

Nothing == [rev |-> None, after |-> 0]
Observation == [board |-> None, present |-> FALSE, gen |-> 0, latest |-> None]
NoObs == [Observation EXCEPT !.board = "empty"]
Idle == [at |-> "idle", gen |-> 0, obs |-> NoObs]

Init == /\ bus \in Revs \cup {None} /\ poll = [id |-> None, fresh |-> FALSE]
        /\ cache \in Revs \cup {None} /\ store \in Revs \cup {None}
        /\ held = Nothing /\ probed = None /\ cold = FALSE /\ backoff = FALSE
        /\ generation = 0 /\ inFlight = FALSE /\ fetches = {}
        /\ visible = FALSE /\ shows = 0 /\ wake = FALSE /\ loop = Idle /\ updates = NoObs
        /\ check = None
        /\ told = Observation /\ message = NoObs /\ window = [rev |-> None, late |-> FALSE]
        /\ refreshes = 0 /\ started = 0 /\ trouble = 0

Unlucky == trouble < MaxTrouble /\ trouble' = trouble + 1
Lucky == UNCHANGED trouble
\* the context of the visible period with this generation
Alive(gen) == visible /\ gen = shows

---------------------------------------------------------------------------
\* The world, and time.
Plug(r) == /\ bus # r /\ Unlucky /\ bus' = r
           /\ UNCHANGED <<poll, disk, loader, watch, ui, refreshes>>
BackoffLapses == /\ backoff /\ backoff' = FALSE
                 /\ UNCHANGED <<bus, poll, disk, held, probed, cold, generation, inFlight, fetches, started, watch, ui, refreshes, trouble>>

---------------------------------------------------------------------------
\* The loader.
Board(r) == [rev |-> r, after |-> refreshes]
\* Get: what is kept answers until its TTL has lapsed; nothing is kept of a
\* read whose context ended
Get(gen, lapsed) == IF poll.fresh /\ ~lapsed THEN poll.id ELSE IF Alive(gen) THEN bus ELSE None
Remember(gen, lapsed) == poll' = IF (lapsed \/ ~poll.fresh) /\ Alive(gen) THEN [id |-> bus, fresh |-> TRUE] ELSE poll
\* localPayload: the cache if it is of this revision, else a generation
Local(r) == r \in {cache, store}
\* kickFetch: one at a time, not while a failure is recent, not for a window
\* that was hidden
MayFetch(gen) == Alive(gen) /\ ~inFlight /\ ~backoff
KickFetch(gen, r) ==
  IF MayFetch(gen) /\ started < MaxFetches
  THEN /\ inFlight' = TRUE /\ started' = started + 1
       /\ fetches' = fetches \cup {[rev |-> r, show |-> gen, gen |-> generation, at |-> "net", after |-> refreshes]}
  ELSE UNCHANGED <<inFlight, started, fetches>>

\* Load: without an identity the newest generation once, else the board of
\* this revision, else the disk once, else a fetch beside the older board.
LoadWithout(gen) == /\ held' = IF held.rev = None /\ ~cold THEN Board(store) ELSE held
                    /\ cold' = (cold \/ held.rev = None)
                    /\ UNCHANGED <<probed, inFlight, fetches, started>>
LoadWith(gen, id) ==
  /\ UNCHANGED cold
  /\ IF held.rev = id THEN UNCHANGED <<held, probed, inFlight, fetches, started>>
     ELSE /\ probed' = id
          /\ IF probed # id /\ Local(id)
             THEN held' = Board(id) /\ UNCHANGED <<inFlight, fetches, started>>
             ELSE UNCHANGED held /\ KickFetch(gen, id)
Load == /\ loop.at = "load"
        /\ \E lapsed \in BOOLEAN : LET id == Get(loop.gen, lapsed) IN
           /\ Remember(loop.gen, lapsed)
           /\ IF id = None THEN LoadWithout(loop.gen) ELSE LoadWith(loop.gen, id)
           /\ loop' = [loop EXCEPT !.at = "check",
                         !.obs = [board |-> held'.rev, present |-> id # None, gen |-> loop.gen, latest |-> None]]
        /\ UNCHANGED <<bus, disk, backoff, generation, visible, shows, wake, updates, check, told, ui, refreshes, trouble>>

\* A fetch: the network answers and the cache is written, or it fails; then,
\* under the lock, the payload is installed unless it is too late.
FetchEnds(f) == /\ f \in fetches /\ f.at = "net"
                /\ \/ /\ fetches' = (fetches \ {f}) \cup {[f EXCEPT !.at = "payload"]}
                      /\ \/ cache' = f.rev /\ Lucky
                         \/ UNCHANGED cache /\ Unlucky
                   \/ /\ fetches' = (fetches \ {f}) \cup {[f EXCEPT !.at = "failed"]}
                      /\ UNCHANGED cache /\ IF Alive(f.show) THEN Unlucky ELSE Lucky
                /\ UNCHANGED <<bus, poll, store, held, probed, cold, backoff, generation, inFlight, started, watch, ui, refreshes>>
FaultTooLate(f) == ~Alive(f.show)
TooLate(f) == ~Alive(f.show) \/ f.gen # generation
Install(f) == /\ f \in fetches /\ f.at \in {"payload", "failed"}
              /\ fetches' = fetches \ {f} /\ inFlight' = FALSE
              /\ held' = IF ~TooLate(f) /\ f.at = "payload" THEN [rev |-> f.rev, after |-> f.after] ELSE held
              /\ backoff' = (backoff \/ (~TooLate(f) /\ f.at = "failed"))
              /\ UNCHANGED <<bus, poll, disk, probed, cold, generation, started, watch, ui, refreshes, trouble>>

\* Invalidate, by a Refresh after a deploy; the board may be flashed by then.
Refresh == /\ refreshes < MaxRefreshes /\ refreshes' = refreshes + 1
           /\ poll' = [poll EXCEPT !.fresh = FALSE]
           /\ generation' = generation + 1 /\ held' = Nothing /\ backoff' = FALSE
           /\ probed' = None /\ cold' = FALSE /\ wake' = TRUE
           /\ UNCHANGED <<bus, disk, inFlight, fetches, started, visible, shows, loop, updates, check, told, ui, trouble>>

---------------------------------------------------------------------------
\* The watcher.

\* Visible: what the period before has under way is cancelled (Suspend).
Visible == /\ shows < MaxShows
           /\ visible' = ~visible /\ shows' = shows + 1 /\ wake' = TRUE
           /\ generation' = IF visible THEN generation + 1 ELSE generation
           /\ UNCHANGED <<bus, poll, disk, held, probed, cold, backoff, inFlight, fetches, started, loop, updates, check, told, ui, refreshes, trouble>>
\* run: woken, or at the next tick, the period is noted; a hidden window stops
\* the ticks.
Wakes == /\ loop.at \in {"idle", "ticking"} /\ (wake \/ loop.at = "ticking")
         /\ wake' = FALSE
         /\ loop' = IF visible THEN [Idle EXCEPT !.at = "load", !.gen = shows] ELSE Idle
         /\ UNCHANGED <<bus, poll, disk, loader, visible, shows, updates, check, told, ui, refreshes, trouble>>
\* Get of the update check: nothing is kept of a check whose context ended
Check == /\ loop.at = "check"
         /\ \E r \in {Newest, None, check} :
              /\ ~loop.obs.present \/ ~Alive(loop.gen) => r = check
              /\ check' = r
              /\ loop' = [loop EXCEPT !.at = "send", !.obs.latest = IF loop.obs.present /\ Alive(loop.gen) THEN r ELSE None]
         /\ UNCHANGED <<bus, poll, disk, loader, visible, shows, wake, updates, told, ui, refreshes, trouble>>
\* the older observation gives way; what was hidden meanwhile is not sent,
\* though the window may hide between the question and the send
Kept(o) == o
Send == /\ loop.at \in {"send", "sending"}
        /\ IF loop.at = "send"
           THEN loop' = [loop EXCEPT !.at = IF Alive(loop.gen) THEN "sending" ELSE "ticking", !.obs = IF Alive(loop.gen) THEN @ ELSE NoObs]
                /\ UNCHANGED <<updates, told>>
           ELSE updates' = Kept(loop.obs) /\ told' = loop.obs /\ loop' = [loop EXCEPT !.at = "ticking", !.obs = NoObs]
        /\ UNCHANGED <<bus, poll, disk, loader, visible, shows, wake, check, ui, refreshes, trouble>>

---------------------------------------------------------------------------
\* The window: an observation is received, and handled as a message of its own.
Receive == /\ message = NoObs /\ updates # NoObs
           /\ message' = updates /\ updates' = NoObs
           /\ UNCHANGED <<bus, poll, disk, loader, visible, shows, wake, loop, check, told, window, refreshes, trouble>>
\* Current and adoptBoard: a board is kept when none came with the news
Current(gen) == Alive(gen)
Adopt == /\ message # NoObs
         /\ window' = IF Current(message.gen) /\ message.board # None
                      THEN [rev |-> message.board, late |-> message.gen # shows] ELSE window
         /\ message' = NoObs
         /\ UNCHANGED <<bus, poll, disk, loader, watch, refreshes, trouble>>

Next == \/ \E r \in Revs \cup {None} : Plug(r)
        \/ BackoffLapses
        \/ Load \/ \E f \in fetches : FetchEnds(f) \/ Install(f)
        \/ Refresh \/ Visible \/ Wakes \/ Check \/ Send \/ Receive \/ Adopt

Spec == Init /\ [][Next]_vars

---------------------------------------------------------------------------
TypeOK == /\ held.rev \in Revs \cup {None} /\ started \in 0..MaxFetches
          /\ loop.at \in {"idle", "load", "check", "send", "sending", "ticking"}
          /\ window.rev \in Revs \cup {None}

\* One fetch at a time, whatever is shown, hidden and refreshed meanwhile, and
\* the next is not blocked by one that has ended (kickFetch).
OneFetch == Cardinality(fetches) = IF inFlight THEN 1 ELSE 0

\* After a refresh nothing read before it is shown: the board the loader holds
\* was read or fetched since (generation in kickFetch).
FreshAfterRefresh == held.rev # None => held.after = refreshes

\* A window never adopts what was loaded before it was last shown (Current).
NothingFromBefore == ~window.late

\* What the watcher sent last is what the window shows once it has handled its
\* messages: the observation that gives way in the channel is the older one,
\* and a Current that drops one drops only those of a period that is over.
NewestIsShown == visible /\ told.gen = shows /\ told.board # None /\ updates = NoObs /\ message = NoObs
                   => window.rev = told.board
=============================================================================
