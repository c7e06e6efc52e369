------------------------------ MODULE MCDevices ------------------------------
(***************************************************************************)
(* The parts of touchd and the flash jobs of the keyboard on small         *)
(* instances, side by side: a behaviour picks its part and the others keep *)
(* their initial state.                                                    *)
(***************************************************************************)
EXTENDS Integers, Sequences, FiniteSets

CONSTANTS
  Callers, Calls, SwIds, MaxRequests, MaxFrames,               \* conn
  Controls, Remap, Wanted, Order, DpiList, Retries, MaxMouseTrouble,                    \* mouse
  Points, CellW, CellH, SlopW, SlopH, SwipeCells, SwipeRows, LongPress, FrameQueueLen, MaxReports,  \* gesture
  Waiters, ReconnectCap, AbsentCap, EnumRetry, MaxScanTime, MaxScanTrouble,             \* scanner
  Daemons, Clients, Keys, FeedQueueLen, MaxClients, MaxLines, MaxFeedTrouble,           \* feed
  Sources, WedgeIdle, WedgeFresh, Buttons, Deltas, MaxPolls, MaxInputs,                 \* input
  Terms, Revs, MaxJobs, MaxHides, MaxCalls, MaxFlashTrouble    \* flash

VARIABLES
  part,
  seq, asked, ring, place, mine, box, got, due, wire, reader, readErr, stop, seenEvents, foreign,  \* conn
  mouse, session, dead, feats, todo, failed, mode, pending, retries, watching, reconf, mouseState, control,
  view, shown, missed, excused, mouseTrouble,                                                    \* mouse
  fingers, frames, r, touch, two, cut, rolled, reports,                                           \* gesture
  now, device, at, bo, reopenAt, armed, handedAt, wake, enumRetry, scan, scanning, daemon, tries, since, present,
  scanTrouble,                                                                                   \* scanner
  lock, socket, backlog, claim, down, keyboard, lines, retained, conn, queue, heard, from, held, feedTrouble,  \* feed
  clock, counter, last, logged, idle, stalled, prev, lastSeen, onset, stalledFor, deliveredSince, everStalled,
  heldNow, acc, flushArmed, shownHeld, sent, fed, inputs,                                         \* input
  jobs, owner, job, before, verdict, board, image, archive, gens, row, latest, calls, zapps, proven, prompts,
  flashTrouble                                                                                   \* flash

\* Where a finger may be, and what a report of the mouse may move by, in the checked instance.
MCPoints == {<<0, 0>>, <<1, 0>>, <<4, 4>>, <<0, 12>>}
MCDeltas == {-1, 0, 2}
\* The controls and settings of the mouse in the checked instance.
MCControls == <<"c1", "c2">>
MCRemap == [c1 |-> "left"]
MCWanted == [dpi |-> 7, haptic |-> 120]
MCOrder == <<"dpi", "haptic">>
MCDpiList == <<4, 6, 8>>

connVars == <<seq, asked, ring, place, mine, box, got, due, wire, reader, readErr, stop, seenEvents, foreign>>
mouseVars == <<mouse, session, dead, feats, todo, failed, mode, pending, retries, watching, reconf, mouseState,
               control, view, shown, missed, excused, mouseTrouble>>
gestureVars == <<fingers, frames, r, touch, two, cut, rolled, reports>>
scannerVars == <<now, device, at, bo, reopenAt, armed, handedAt, wake, enumRetry, scan, scanning, daemon, tries,
                 since, present, scanTrouble>>
feedVars == <<lock, socket, backlog, claim, down, keyboard, lines, retained, conn, queue, heard, from, held,
              feedTrouble>>
inputVars == <<clock, counter, last, logged, idle, stalled, prev, lastSeen, onset, stalledFor, deliveredSince,
               everStalled, heldNow, acc, flushArmed, shownHeld, sent, fed, inputs>>
flashVars == <<jobs, owner, job, before, verdict, board, image, archive, gens, row, latest, calls, zapps, proven,
               prompts, flashTrouble>>
vars == <<part, connVars, mouseVars, gestureVars, scannerVars, feedVars, inputVars, flashVars>>

Conn == INSTANCE HidppConn WITH pending <- ring, at <- place, events <- seenEvents
ASSUME ConnInstance == Conn!ConnAssumption
Mouse == INSTANCE LogiRetch WITH
  MaxTrouble <- MaxMouseTrouble, device <- mouseState, trouble <- mouseTrouble
ASSUME MouseInstance == Mouse!LogiAssumption
Finger == INSTANCE Gesture WITH QueueLen <- FrameQueueLen, queue <- frames
ASSUME FingerInstance == Finger!GestureAssumption
Scanner == INSTANCE TouchScanner WITH
  MaxTime <- MaxScanTime, MaxTrouble <- MaxScanTrouble, due <- reopenAt, trouble <- scanTrouble
ASSUME ScannerInstance == Scanner!ScannerAssumption
Feed == INSTANCE TouchFeed WITH
  QueueLen <- FeedQueueLen, MaxTrouble <- MaxFeedTrouble, board <- keyboard, got <- heard, trouble <- feedTrouble
ASSUME FeedInstance == Feed!FeedAssumption
Input == INSTANCE InputWatch WITH
  MaxTime <- MaxPolls, MaxReports <- MaxInputs, now <- clock, reports <- inputs
ASSUME InputInstance == Input!InputAssumption
Flash == INSTANCE KeyFlash WITH
  MaxTrouble <- MaxFlashTrouble, lock <- owner, at <- job, prev <- before, trouble <- flashTrouble
ASSUME FlashInstance == Flash!FlashAssumption

Parts == {"conn", "mouse", "gesture", "scanner", "feed", "input", "flash"}
\* Each part's initial states; a part that is not running keeps one of them.
Init ==
  /\ part \in Parts
  /\ Conn!Init /\ Finger!Init
  /\ Mouse!Init /\ (part # "mouse" => mouse = "gone")
  /\ Scanner!Init /\ (part # "scanner" => \A w \in DOMAIN device : device[w] = "absent")
  /\ Feed!Init /\ (part # "feed" => socket = "none")
  /\ Input!Init /\ (part # "input" => idle = 0)
  /\ Flash!Init /\ (part # "flash" => board = latest /\ latest = CHOOSE v \in Revs : TRUE)

Asks     == part = "conn" /\ Conn!Next
            /\ UNCHANGED <<part, mouseVars, gestureVars, scannerVars, feedVars, inputVars, flashVars>>
Holds    == part = "mouse" /\ Mouse!Next
            /\ UNCHANGED <<part, connVars, gestureVars, scannerVars, feedVars, inputVars, flashVars>>
Touches  == part = "gesture" /\ Finger!Next
            /\ UNCHANGED <<part, connVars, mouseVars, scannerVars, feedVars, inputVars, flashVars>>
Attaches == part = "scanner" /\ Scanner!Next
            /\ UNCHANGED <<part, connVars, mouseVars, gestureVars, feedVars, inputVars, flashVars>>
Feeds    == part = "feed" /\ Feed!Next
            /\ UNCHANGED <<part, connVars, mouseVars, gestureVars, scannerVars, inputVars, flashVars>>
Counts   == part = "input" /\ Input!Next
            /\ UNCHANGED <<part, connVars, mouseVars, gestureVars, scannerVars, feedVars, flashVars>>
Flashes  == part = "flash" /\ Flash!Next
            /\ UNCHANGED <<part, connVars, mouseVars, gestureVars, scannerVars, feedVars, inputVars>>
Next == Asks \/ Holds \/ Touches \/ Attaches \/ Feeds \/ Counts \/ Flashes
Spec == Init /\ [][Next]_vars

(***************************************************************************)
(* Properties: those of the parts.                                         *)
(***************************************************************************)
\* A late reply never answers another request and no caller waits for ever (hidppconn.go); the
\* handle's line tells the mouse's true state, and what it changed is put back (logiretch.go).
MouseSafe ==
  /\ part = "conn" => /\ Conn!TypeOK /\ Conn!OwnAnswer /\ Conn!SlotIsHeld /\ Conn!WaiterIsHeard
                      /\ Conn!OwnRequest
  /\ part = "mouse" => Mouse!TypeOK /\ Mouse!LineIsTrue /\ Mouse!Baseline /\ Mouse!PendingHasRetries /\ Mouse!DownIsShown

\* A touch resolves once, as what the finger did (recognizer.go); a device that is not there is
\* tried at its pace and taken when it comes (scanner.go); clients hear every line from the one
\* they were let in at, or are cut off (broadcast.go); input that arrives is counted, a wedged pipeline
\* is seen and an idle user is no wedge (wedge.go), and the motion of a mouse adds up (logiretchinput.go).
TouchSafe ==
  /\ part = "gesture" => Finger!TypeOK /\ Finger!OneResolution /\ Finger!DragsClose /\ Finger!SwipesHaveFingers
                         /\ Finger!WheelsAddUp /\ Finger!FollowsGlass
  /\ part = "scanner" => Scanner!TypeOK /\ Scanner!NotHammered /\ Scanner!Reattaches /\ Scanner!ExitsClean
  /\ part = "feed" => Feed!TypeOK /\ Feed!OneServer /\ Feed!NoGap /\ Feed!HeldIsTrue
  /\ part = "input" => Input!TypeOK /\ Input!NothingUncounted /\ Input!NoFalseAlarm /\ Input!StallIsSeen /\ Input!MotionAddsUp

\* A flash is never started twice for one confirmation, runs only what was reviewed, and its
\* outcome is what the board's serial says (job.go, flash.go).
FlashSafe == part = "flash" => Flash!TypeOK /\ Flash!NeverReplayed /\ Flash!ReviewedFirst /\ Flash!QuietAfterReview
                               /\ Flash!OnlyTheSerialCounts /\ Flash!NeverStuckFlashing

\* What no step may do: scan twice for one wake, take the socket of a daemon that serves, end a
\* stall without a delivery.
DeviceSteps == Scanner!NoSpin /\ Feed!LiveSocketStays /\ Input!EndsByDelivery
=============================================================================
