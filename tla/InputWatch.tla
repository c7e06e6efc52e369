---------------------------- MODULE InputWatch ----------------------------
(* What touchd watches about its own input: reports counted per source and  *)
(* drained into a log line (inputrate.go), the disagreement of reports with *)
(* the idle clock of the session (wedge.go), and the activity lines of the  *)
(* mouse, coalesced over a window (logiretchinput.go).                      *)
EXTENDS Integers, FiniteSets, Functions

CONSTANTS
  Sources,
  WedgeIdle, WedgeFresh,  \* in polls
  Buttons, Deltas,        \* bits of a mouse report and the motion it may carry
  MaxTime, MaxReports     \* bounds

\* A report is fresh for a shorter time than the idle clock must run; no delta of the mouse is a fraction.
InputAssumption == /\ IsFiniteSet(Sources) /\ WedgeIdle \in Nat /\ WedgeFresh \in Nat /\ WedgeFresh < WedgeIdle
                   /\ MaxTime \in Nat /\ MaxReports \in Nat /\ Deltas \subseteq Int

Never == -100

VARIABLES
  now,       \* polls
  counter, last, logged,   \* inputRate: cumulative, at the last drain, history: all lines
  idle,      \* the idle clock of the session, in polls
  stalled,   \* nothing that arrives is delivered
  prev, lastSeen, onset,   \* wedgeWatch
  stalledFor, deliveredSince, \* history: polls of this stall with reports; something was delivered since the onset
  everStalled,
  heldNow, acc, flushArmed, \* inputTracker
  shownHeld, sent, fed,    \* what clients were told, history: motion sent and fed
  reports
vars == <<now, counter, last, logged, idle, stalled, prev, lastSeen, onset, stalledFor, deliveredSince, everStalled, heldNow, acc, flushArmed, shownHeld, sent, fed, reports>>
rates == <<counter, last, logged>>
wedge == <<now, idle, stalled, prev, lastSeen, onset, stalledFor, deliveredSince, everStalled>>
mouse == <<heldNow, acc, flushArmed, shownHeld, sent, fed>>

Zero == [s \in Sources |-> 0]
Init == /\ now = 0 /\ counter = Zero /\ last = Zero /\ logged = Zero
        /\ idle \in {0, WedgeIdle} /\ stalled = FALSE /\ prev = 0 /\ lastSeen = Never /\ onset = Never
        /\ stalledFor = 0 /\ deliveredSince = FALSE /\ everStalled = FALSE
        /\ heldNow = {} /\ acc = 0 /\ flushArmed = FALSE /\ shownHeld = {} /\ sent = 0 /\ fed = 0
        /\ reports = 0

---------------------------------------------------------------------------
\* total: the sum of the live counters, without draining them
Total == SumFunction(counter)

\* readLoop counts a report; the pipeline above delivers it unless it stalls.
Report(s) == /\ reports < MaxReports /\ reports' = reports + 1
             /\ counter' = [counter EXCEPT ![s] = @ + 1]
             /\ idle' = IF stalled THEN idle ELSE 0
             /\ deliveredSince' = (deliveredSince \/ ~stalled)
             /\ UNCHANGED <<last, logged, now, stalled, prev, lastSeen, onset, stalledFor, everStalled, mouse>>

\* drain: the line holds what came since the line before
Drain == /\ logged' = [s \in Sources |-> logged[s] + counter[s] - last[s]]
         /\ last' = counter
         /\ logged' # logged
         /\ UNCHANGED <<counter, wedge, mouse, reports>>

\* The pipeline stalls, or recovers.
Stall == /\ ~stalled /\ stalled' = TRUE /\ everStalled' = TRUE
         /\ stalledFor' = 0
         /\ UNCHANGED <<rates, now, idle, prev, lastSeen, onset, deliveredSince, mouse, reports>>
Recover == /\ stalled /\ stalled' = FALSE
           /\ UNCHANGED <<rates, now, idle, prev, lastSeen, onset, stalledFor, deliveredSince, everStalled, mouse, reports>>

\* tick: both halves enter, only the idle clock leaves.
Seen == IF Total > prev THEN now ELSE lastSeen
Sending == Seen # Never /\ now - Seen <= WedgeFresh
Ends == idle < WedgeIdle
Onset == IF onset = Never THEN IF Sending /\ idle >= WedgeIdle THEN now ELSE Never
         ELSE IF Ends THEN Never ELSE onset
Tick == /\ now < MaxTime /\ now' = now + 1
        /\ prev' = Total /\ lastSeen' = Seen /\ onset' = Onset
        /\ idle' = IF idle < WedgeIdle THEN idle + 1 ELSE idle
        /\ stalledFor' = IF stalled /\ Total > prev THEN stalledFor + 1 ELSE 0
        /\ deliveredSince' = (IF onset = Never THEN FALSE ELSE deliveredSince)
        /\ UNCHANGED <<rates, stalled, everStalled, mouse, reports>>

---------------------------------------------------------------------------
\* frame: an edge of the buttons is told at once, motion is gathered and a
\* flush armed.
Gather(d) == acc' = acc + d
Frame(b, d) == /\ reports < MaxReports /\ reports' = reports + 1
               /\ heldNow' = b
               /\ shownHeld' = IF b # heldNow THEN b ELSE shownHeld
               /\ Gather(d) /\ fed' = fed + d
               /\ flushArmed' = (flushArmed \/ acc' # 0)
               /\ UNCHANGED <<sent, rates, wedge>>
Flush == /\ flushArmed
         /\ sent' = sent + acc /\ acc' = 0 /\ flushArmed' = FALSE
         /\ UNCHANGED <<heldNow, shownHeld, fed, rates, wedge, reports>>

Next == \/ \E s \in Sources : Report(s)
        \/ Drain \/ Stall \/ Recover \/ Tick
        \/ \E b \in SUBSET Buttons, d \in Deltas : Frame(b, d)
        \/ Flush

Spec == Init /\ [][Next]_vars

---------------------------------------------------------------------------
TypeOK == /\ counter \in [Sources -> 0..MaxReports] /\ idle \in 0..WedgeIdle
          /\ onset \in {Never} \cup 0..MaxTime /\ flushArmed \in BOOLEAN

\* The lines of the log and what is not yet drained add up to the counters.
NothingUncounted == \A s \in Sources : logged[s] = last[s] /\ last[s] <= counter[s]

\* A machine that delivers what arrives is never called wedged.
NoFalseAlarm == ~everStalled /\ idle < WedgeIdle => onset = Never

\* A stall under steady reports is noticed once the idle clock has run.
StallIsSeen == stalledFor > WedgeIdle => onset # Never

\* An episode is not called over because the user gave up: it ends only after
\* something was delivered (tick).
EndsByDelivery == [][onset # Never /\ onset' = Never => deliveredSince]_vars

\* Motion is neither lost nor told twice, and what is gathered has a flush
\* armed; the buttons clients were told are the buttons that are down.
MotionAddsUp == /\ sent + acc = fed /\ (acc # 0 => flushArmed)
                /\ shownHeld = heldNow

---------------------------------------------------------------------------
(* The inductive invariant: while the machine delivers, the idle clock is   *)
(* no longer than the time since reports were last seen; in a stall it runs *)
(* as long as the stall has had reports.                                    *)
Counted == /\ counter \in [Sources -> Nat] /\ last \in [Sources -> Nat] /\ logged \in [Sources -> Nat]
           /\ \A s \in Sources : counter[s] <= reports /\ logged[s] = last[s] /\ last[s] <= counter[s]
           /\ reports \in 0..MaxReports
Clocks == /\ now \in 0..MaxTime /\ idle \in 0..WedgeIdle /\ stalledFor \in Nat
          /\ lastSeen \in {Never} \cup 0..MaxTime /\ onset \in {Never} \cup 0..MaxTime
Flags == stalled \in BOOLEAN /\ everStalled \in BOOLEAN /\ deliveredSince \in BOOLEAN /\ (stalled => everStalled)
Delivering == ~everStalled => /\ Total > prev => idle = 0
                              /\ lastSeen # Never => lastSeen < now /\ idle <= now - lastSeen
                              /\ onset = Never
Stalling == /\ stalled => idle >= WedgeIdle \/ idle >= stalledFor
            /\ stalledFor > WedgeIdle => onset # Never
Delivered == onset # Never /\ idle < WedgeIdle => deliveredSince
Motion == acc \in Int /\ sent \in Int /\ fed \in Int /\ sent + acc = fed
Flushing == flushArmed \in BOOLEAN /\ (acc # 0 => flushArmed) /\ shownHeld = heldNow
IInv == Counted /\ Clocks /\ Flags /\ Delivering /\ Stalling /\ Delivered /\ Motion /\ Flushing
=============================================================================
