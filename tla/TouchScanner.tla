--------------------------- MODULE TouchScanner ---------------------------
(* The arrival scanner of touchd (scanner.go) with the loops that use it    *)
(* (edge.go, moonlander.go) and the daemon around them (module.go): one     *)
(* enumeration serves every parked waiter, and each waiter backs off by     *)
(* itself: doubling, up to a cap that depends on whether the device is      *)
(* absent or present and not openable.  Time is counted in reconnectMin.    *)
EXTENDS Integers, FiniteSets, FiniteSetsExt

CONSTANTS
  Waiters,
  ReconnectCap, AbsentCap,
  EnumRetry,  \* how long a failed enumeration is not repeated
  MaxTime, MaxTrouble   \* bounds: ticks, changes of the devices

VARIABLES
  now,
  device,    \* "absent", "seized" (does not open), "mute" (opens, no session), "ok"
  at,        \* the loop of a waiter: "free", "parked", "handed", "session", "over"
  bo,        \* reopenBackoff: the next wait (0 = fresh) and the class
  due, armed, handedAt,
  wake, enumRetry,
  scan,      \* the waiters the running enumeration serves, {} when none runs
  scanning,
  daemon,    \* "up", "stopping", "exited"
  tries,     \* history: opens that failed in a row of a device that stayed
  since,     \* history: when the first of them was
  present,   \* history: since when a parked waiter's device can be seen
  trouble
vars == <<now, device, at, bo, due, armed, handedAt, wake, enumRetry, scan, scanning, daemon, tries, since, present, trouble>>

Least(a, b) == IF a < b THEN a ELSE b
Parked == {w \in Waiters : at[w] = "parked"}

Init == /\ now = 0 /\ device \in [Waiters -> {"absent", "seized", "mute", "ok"}]
        /\ at = [w \in Waiters |-> "free"]
        /\ bo = [w \in Waiters |-> [next |-> 0, absent |-> FALSE]]
        /\ due = [w \in Waiters |-> 0] /\ armed = [w \in Waiters |-> FALSE] /\ handedAt = [w \in Waiters |-> 0]
        /\ wake = FALSE /\ enumRetry = 0 /\ scan = {} /\ scanning = FALSE /\ daemon = "up"
        /\ tries = [w \in Waiters |-> 0] /\ since = [w \in Waiters |-> 0] /\ present = [w \in Waiters |-> 0]
        /\ trouble = 0

---------------------------------------------------------------------------
\* fail: the wait doubles up to the cap of its class; a flip of the class
\* starts again from the floor.
Cap(absent) == IF absent THEN AbsentCap ELSE ReconnectCap
From(b, absent) == IF b.next = 0 \/ b.absent # absent THEN 1 ELSE b.next
WaitOf(b, absent) == Least(From(b, absent), Cap(absent))
Fail(b, absent) == [next |-> Least(2 * From(b, absent), Cap(absent)), absent |-> absent]
Reset(b) == [b EXCEPT !.next = 0]

\* nextDue: the earliest attempt of a parked waiter, not before the retry of a
\* failed enumeration
NextDue == LET first == Min({due[w] : w \in Parked}) IN IF first < enumRetry THEN enumRetry ELSE first

---------------------------------------------------------------------------
\* await: an open that led to no session counts as seized, a session that ran
\* resets the ramp.
Rapid(w) == now - handedAt[w] < 1
Await(w) == /\ at[w] = "free" /\ daemon = "up"
            /\ at' = [at EXCEPT ![w] = "parked"]
            /\ armed' = [armed EXCEPT ![w] = FALSE]
            /\ IF ~armed[w] THEN UNCHANGED <<bo, due>>
               ELSE IF Rapid(w)
               THEN /\ due' = [due EXCEPT ![w] = now + WaitOf(bo[w], FALSE)]
                    /\ bo' = [bo EXCEPT ![w] = Fail(@, FALSE)]
               ELSE /\ due' = [due EXCEPT ![w] = now]
                    /\ bo' = [bo EXCEPT ![w] = Reset(@)]
            /\ wake' = TRUE
            /\ present' = [present EXCEPT ![w] = now]
            /\ UNCHANGED <<now, device, handedAt, enumRetry, scan, scanning, daemon, tries, since, trouble>>

\* reportOpen, after the open of the path that was handed out
Open(w) == /\ at[w] = "handed"
           /\ IF device[w] \in {"absent", "seized"}
              THEN /\ at' = [at EXCEPT ![w] = "free"]
                   /\ due' = [due EXCEPT ![w] = now + WaitOf(bo[w], FALSE)]
                   /\ bo' = [bo EXCEPT ![w] = Fail(@, FALSE)]
                   /\ armed' = [armed EXCEPT ![w] = FALSE]
                   /\ tries' = [tries EXCEPT ![w] = @ + 1]
                   /\ since' = [since EXCEPT ![w] = IF tries[w] = 0 THEN now ELSE @]
              ELSE /\ at' = [at EXCEPT ![w] = "session"]
                   /\ armed' = [armed EXCEPT ![w] = TRUE]
                   /\ UNCHANGED <<due, bo, tries, since>>
           /\ UNCHANGED <<now, device, handedAt, wake, enumRetry, scan, scanning, daemon, present, trouble>>

\* collectionLoop, moonModule.Run: the session ends with the device, at once
\* when it cannot be initialised, or because the daemon stops.
SessionEnds(w) == /\ at[w] = "session"
                  /\ \/ device[w] \in {"absent", "mute", "seized"} /\ at' = [at EXCEPT ![w] = "free"]
                     \/ daemon = "stopping" /\ at' = [at EXCEPT ![w] = "over"]
                  /\ tries' = [tries EXCEPT ![w] = IF device[w] = "mute" /\ Rapid(w) THEN @ + 1 ELSE 0]
                  /\ since' = [since EXCEPT ![w] = IF tries[w] = 0 THEN now ELSE @]
                  /\ UNCHANGED <<now, device, bo, due, armed, handedAt, wake, enumRetry, scan, scanning, daemon, present, trouble>>

---------------------------------------------------------------------------
\* run and tick: woken, or at the next due time, the parked waiters are noted
\* and the devices enumerated without the lock.
ScanDue == wake \/ (Parked # {} /\ NextDue <= now)
ScanBegin == /\ daemon = "up" /\ ~scanning /\ ScanDue
             /\ wake' = FALSE
             /\ IF now < enumRetry \/ Parked = {} THEN UNCHANGED <<scan, scanning>>
                ELSE scan' = Parked /\ scanning' = TRUE
             /\ UNCHANGED <<now, device, at, bo, due, armed, handedAt, enumRetry, daemon, tries, since, present, trouble>>

ScanFails == /\ scanning /\ trouble < MaxTrouble /\ trouble' = trouble + 1
             /\ enumRetry' = now + EnumRetry
             /\ scan' = {} /\ scanning' = FALSE
             /\ UNCHANGED <<now, device, at, bo, due, armed, handedAt, wake, daemon, tries, since, present>>

\* tick, the second half: a device is handed out when its waiter is due, or at
\* once for the absent class; an attempt that missed advances the absent ramp.
Found(w) == device[w] # "absent"
BacksOff(w) == due[w] > now /\ ~bo[w].absent /\ bo[w].next # 0
Handed == {w \in scan : at[w] = "parked" /\ Found(w) /\ ~BacksOff(w)}
MissedIt == {w \in scan : at[w] = "parked" /\ ~Found(w) /\ due[w] <= now}
ScanEnd == /\ scanning
           /\ at' = [w \in Waiters |-> IF w \in Handed THEN "handed" ELSE at[w]]
           /\ handedAt' = [w \in Waiters |-> IF w \in Handed THEN now ELSE handedAt[w]]
           /\ due' = [w \in Waiters |-> IF w \in MissedIt THEN now + WaitOf(bo[w], TRUE) ELSE due[w]]
           /\ bo' = [w \in Waiters |-> IF w \in MissedIt THEN Fail(bo[w], TRUE) ELSE bo[w]]
           /\ enumRetry' = 0 /\ scan' = {} /\ scanning' = FALSE
           /\ tries' = [w \in Waiters |-> IF w \in MissedIt THEN 0 ELSE tries[w]]
           /\ UNCHANGED <<now, device, armed, wake, daemon, since, present, trouble>>

---------------------------------------------------------------------------
\* The devices, and time: a tick passes only when nothing is due.
Change(w) == /\ trouble < MaxTrouble /\ trouble' = trouble + 1
             /\ \E d \in {"absent", "seized", "mute", "ok"} \ {device[w]} : device' = [device EXCEPT ![w] = d]
             /\ tries' = [tries EXCEPT ![w] = 0]
             /\ present' = [present EXCEPT ![w] = IF device[w] = "absent" THEN now ELSE @]
             /\ UNCHANGED <<now, at, bo, due, armed, handedAt, wake, enumRetry, scan, scanning, daemon, since>>
Quiet == /\ ~scanning /\ ~ScanDue
         /\ \A w \in Waiters : at[w] \in {"parked", "session", "over"}
         /\ \A w \in Waiters : at[w] = "session" => device[w] = "ok"
Pass == /\ now < MaxTime /\ Quiet /\ daemon = "up"
        /\ now' = now + 1
        /\ UNCHANGED <<device, at, bo, due, armed, handedAt, wake, enumRetry, scan, scanning, daemon, tries, since, present, trouble>>

\* runModules: the daemon is told to stop, or a module fails in a way nobody
\* classified; parked and handed waiters return, and the scanner is joined
\* before the HID library is given up.
Stop == /\ daemon = "up" /\ trouble < MaxTrouble /\ trouble' = trouble + 1
        /\ daemon' = "stopping"
        /\ UNCHANGED <<now, device, at, bo, due, armed, handedAt, wake, enumRetry, scan, scanning, tries, since, present>>
Leave(w) == /\ daemon = "stopping" /\ at[w] \in {"free", "parked", "handed"}
            /\ at' = [at EXCEPT ![w] = "over"]
            /\ UNCHANGED <<now, device, bo, due, armed, handedAt, wake, enumRetry, scan, scanning, daemon, tries, since, present, trouble>>
Exit == /\ daemon = "stopping" /\ \A w \in Waiters : at[w] = "over"
        /\ ~scanning
        /\ daemon' = "exited"
        /\ UNCHANGED <<now, device, at, bo, due, armed, handedAt, wake, enumRetry, scan, scanning, tries, since, present, trouble>>

Next == \/ \E w \in Waiters : Await(w) \/ Open(w) \/ SessionEnds(w) \/ Change(w) \/ Leave(w)
        \/ ScanBegin \/ ScanFails \/ ScanEnd \/ Pass \/ Stop \/ Exit

Spec == Init /\ [][Next]_vars

---------------------------------------------------------------------------
TypeOK == /\ now \in 0..MaxTime /\ \A w \in Waiters : bo[w].next \in 0..ReconnectCap
          /\ at \in [Waiters -> {"free", "parked", "handed", "session", "over"}]
          /\ scan \subseteq Waiters /\ daemon \in {"up", "stopping", "exited"}

\* How often a device may have been opened in vain d ticks after the first
\* time: the attempts double their distance up to the cap.
Schedule[n \in 1..(MaxTime + 1)] == IF n = 1 THEN 1 ELSE Least(2 * Schedule[n - 1], ReconnectCap)
AttemptAt[n \in 1..(MaxTime + 1)] == IF n = 1 THEN 0 ELSE AttemptAt[n - 1] + Schedule[n - 1]

\* A device that is present and does not open is not hammered: its n-th open in
\* a row comes no earlier than the doubling schedule allows (reopenBackoff).
NotHammered == \A w \in Waiters : tries[w] > 0 /\ tries[w] <= MaxTime => now - since[w] >= AttemptAt[tries[w]]

\* The cap of the absent class is the worst latency: a device that can be seen
\* for longer than that is not waited for (absentCap), unless its last open
\* failed or an enumeration did.
Reattaches == \A w \in Waiters :
                at[w] = "parked" /\ Found(w) /\ bo[w].absent /\ enumRetry = 0 /\ Quiet /\ daemon = "up"
                  => now - present[w] <= AbsentCap + EnumRetry

\* No busy loop: a finished scan leaves nothing due (run, nextDue).
NoSpin == [][ScanEnd => wake' \/ Parked' = {} \/ NextDue' > now]_vars

\* The HID library is never given up under an enumeration (runModules).
ExitsClean == daemon = "exited" => ~scanning

---------------------------------------------------------------------------
\* What the proofs need besides.
ScannerAssumption ==
  /\ ReconnectCap \in Nat \ {0} /\ AbsentCap \in Nat \ {0} /\ AbsentCap <= ReconnectCap
  /\ EnumRetry \in Nat /\ MaxTime \in Nat /\ MaxTrouble \in Nat

Waits == [next : 0..ReconnectCap, absent : BOOLEAN]
Clocks == /\ device \in [Waiters -> {"absent", "seized", "mute", "ok"}]
          /\ bo \in [Waiters -> Waits] /\ due \in [Waiters -> Nat] /\ handedAt \in [Waiters -> Nat]
          /\ enumRetry \in Nat /\ tries \in [Waiters -> Nat] /\ since \in [Waiters -> Nat]
          /\ present \in [Waiters -> Nat]
Switches == wake \in BOOLEAN /\ scanning \in BOOLEAN /\ armed \in [Waiters -> BOOLEAN]
\* whoever parks during an enumeration wakes the scanner
Served == scanning /\ ~wake => Parked \subseteq scan
\* in the absent class a wait ends within its cap, counted from when the device came
SoonOf(w) == /\ present[w] <= now
             /\ bo[w].absent => due[w] <= (IF Found(w) THEN present[w] ELSE now) + AbsentCap
Soon == \A w \in Waiters : SoonOf(w)
\* a wait after n opens in vain is no shorter than the schedule says
Ready(w, n) == n <= MaxTime /\ n > 0 => now - since[w] >= AttemptAt[n]
Ramped(w, n) == n <= MaxTime /\ n > 0 => bo[w].absent = FALSE /\ bo[w].next >= Schedule[n + 1]
PacedOf(w) == LET n == tries[w] IN
  /\ n > 0 => since[w] <= now
  /\ Ready(w, n)
  /\ at[w] = "free" /\ armed[w] => (n > 0 => Rapid(w)) /\ Ramped(w, n - 1)
  /\ at[w] = "parked" \/ (at[w] = "free" /\ ~armed[w]) =>
       Ramped(w, n) /\ (n <= MaxTime /\ n > 0 => due[w] - since[w] >= AttemptAt[n + 1])
  /\ at[w] \in {"handed", "session"} => Ramped(w, n) /\ (n < MaxTime /\ n > 0 => Ready(w, n + 1))
  /\ at[w] = "session" => armed[w]
Paced == \A w \in Waiters : PacedOf(w)
IInv == TypeOK /\ Clocks /\ Switches /\ Served /\ Soon /\ Paced /\ ExitsClean
=============================================================================
