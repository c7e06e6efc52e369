---------------------------- MODULE HidppConn ----------------------------
(***************************************************************************)
(* One HID++ handle: its reader goroutine and the request correlator of    *)
(* hidppconn.go.  One request is in flight.  It carries a software id that *)
(* cycles through a nibble, so that the answer of a request that has timed *)
(* out is not taken for the answer of the next one.  A caller takes the    *)
(* slot, writes, waits and, when it gives up, hands the slot back in four  *)
(* steps; the reader and the other callers come between them.              *)
(***************************************************************************)
EXTENDS Integers, Sequences

CONSTANTS
  Callers,      \* goroutines that ask
  Calls,        \* what they may ask: a device, a feature and a function
  SwIds,        \* hidppSwIDLen: how many software ids there are
  MaxRequests,  \* bound: requests on one handle
  MaxFrames     \* bound: frames that answer nothing of ours

\* What the code gives: hidppSwIDLen is 8.
ConnAssumption == SwIds \in Nat \ {0}

SwIdLo == 8     \* hidppSwIDLo

VARIABLES
  seq,      \* swSeq; a byte in the code, which wraps at a multiple of SwIds
  asked,    \* history: what request n asked
  pending,  \* the request in flight, 0 if none
  at,       \* at[k]: where caller k is in request
  mine,     \* mine[k]: its request, 0 before it has one
  box,      \* box[n]: the channel of request n, which holds one frame
  got,      \* history: what request n returned
  due,      \* requests the device has received and not answered
  wire,     \* frames of the device that the reader has not read
  reader,   \* where the reader is
  readErr, stop,
  events, foreign   \* the tallies of tallyUnrouted
vars == <<seq, asked, pending, at, mine, box, got, due, wire, reader, readErr, stop, events, foreign>>
callers == <<at, mine, got>>
device == <<due, wire>>

\* A frame has the call and the software id it echoes; "motion" is a report
\* that is not HID++.  `of` is a ghost: the request the frame answers.
SwIdOf(n) == SwIdLo + (n % SwIds)
Frame(n, kind) == [call |-> asked[n], sw |-> SwIdOf(n), kind |-> kind, of |-> n]
Stray(c, sw, kind) == [call |-> c, sw |-> sw, kind |-> kind, of |-> 0]
Nothing == [kind |-> "none", of |-> 0]
Open == [kind |-> "open", of |-> 0]
GaveUp == [kind |-> "gave up", of |-> 0]

Init == /\ seq = 0 /\ asked = <<>> /\ pending = 0 /\ box = <<>> /\ got = <<>>
        /\ at = [k \in Callers |-> "idle"] /\ mine = [k \in Callers |-> 0]
        /\ due = {} /\ wire = <<>> /\ events = 0 /\ foreign = 0
        /\ reader = "top" /\ readErr = FALSE /\ stop = FALSE

---------------------------------------------------------------------------
To(k, place) == at' = [at EXCEPT ![k] = place]

\* request: a handle that is stopped or whose reader has ended is refused
\* before the lock.
Call(k) == /\ at[k] = "idle" /\ ~stop /\ reader # "done"
           /\ To(k, "enter")
           /\ UNCHANGED <<seq, asked, pending, mine, box, got, device, reader, readErr, stop, events, foreign>>

\* Under the lock: a dead reader and a request in flight refuse, else the
\* request takes the next software id and the slot.
Refused(k) == /\ at[k] = "enter" /\ (readErr \/ pending # 0)
              /\ To(k, "idle")
              /\ UNCHANGED <<seq, asked, pending, mine, box, got, device, reader, readErr, stop, events, foreign>>
\* An answer is late by fewer than SwIds requests: the range within which the
\* ids tell answers apart, an assumption about the device.
InTime(n, newest) == newest - n < SwIds
NextSwId == seq + 1
Enter(k, c) == /\ at[k] = "enter" /\ ~readErr /\ pending = 0 /\ seq < MaxRequests
               /\ \A i \in DOMAIN wire : wire[i].of # 0 => InTime(wire[i].of, NextSwId)
               /\ seq' = NextSwId /\ pending' = NextSwId
               /\ asked' = Append(asked, c)
               /\ box' = Append(box, Nothing) /\ got' = Append(got, Open)
               /\ mine' = [mine EXCEPT ![k] = NextSwId]
               /\ To(k, "write")
               /\ UNCHANGED <<device, reader, readErr, stop, events, foreign>>

\* The write, outside the lock; one that fails may have reached the device.
Write(k) == /\ at[k] = "write"
            /\ \/ To(k, "wait") /\ due' = due \cup {mine[k]} /\ UNCHANGED got
               \/ /\ To(k, "clear") /\ due' \in {due, due \cup {mine[k]}}
                  /\ got' = [got EXCEPT ![mine[k]] = GaveUp]
            /\ UNCHANGED <<seq, asked, pending, mine, box, wire, reader, readErr, stop, events, foreign>>

\* The select: the reply, or a reason to give up (the reply deadline or the
\* context at any time, a reader that has ended, a close); when both are
\* ready, either.
Take(k) == /\ at[k] = "wait" /\ box[mine[k]] # Nothing
           /\ got' = [got EXCEPT ![mine[k]] = box[mine[k]]]
           /\ To(k, "idle") /\ mine' = [mine EXCEPT ![k] = 0]
           /\ UNCHANGED <<seq, asked, pending, box, device, reader, readErr, stop, events, foreign>>
GiveUp(k) == /\ at[k] = "wait"
             /\ got' = [got EXCEPT ![mine[k]] = GaveUp]
             /\ To(k, "clear")
             /\ UNCHANGED <<seq, asked, pending, mine, box, device, reader, readErr, stop, events, foreign>>

\* clearPending: the slot may be the next caller's by now
FaultLeft(n) == 0   \* whoever holds it
Left(n) == IF pending = n THEN 0 ELSE pending
ClearPending(k) == /\ at[k] = "clear"
                   /\ pending' = Left(mine[k])
                   /\ To(k, "idle") /\ mine' = [mine EXCEPT ![k] = 0]
                   /\ UNCHANGED <<seq, asked, box, got, device, reader, readErr, stop, events, foreign>>

---------------------------------------------------------------------------
\* classifyReply: a HID++ frame that echoes the call and the software id of
\* the pending request is its reply or its error, anything else is foreign.
Matches(f, n) == /\ f.kind # "motion"
                 /\ f.call = asked[n]
                 /\ f.sw = SwIdOf(n)

\* tallyUnrouted
Tally(f) == /\ events' = IF f.kind # "motion" /\ f.sw = 0 THEN events + 1 ELSE events
            /\ foreign' = IF f.kind # "motion" /\ f.sw # 0 THEN foreign + 1 ELSE foreign

\* route: the pending request gets its answer and leaves the slot, any other
\* frame is tallied (and handed to onEvent, which only signals).
Route == /\ reader = "read" /\ wire # <<>>
         /\ reader' = "top" /\ wire' = Tail(wire)
         /\ LET f == Head(wire) IN
              IF pending # 0 /\ Matches(f, pending)
              THEN /\ box' = [box EXCEPT ![pending] = [kind |-> f.kind, of |-> f.of]]
                   /\ pending' = 0
                   /\ UNCHANGED <<events, foreign>>
              ELSE Tally(f) /\ UNCHANGED <<box, pending>>
         /\ UNCHANGED <<seq, asked, callers, due, readErr, stop>>

\* loop: a look at stop, then a read, which may time out or fail; the error
\* is there before done is closed.
Turn == /\ \/ reader = "top" /\ reader' = IF stop THEN "done" ELSE "read"
           \/ reader = "read" /\ reader' = "top"
           \/ reader = "failed" /\ reader' = "done"
        /\ UNCHANGED <<seq, asked, pending, box, callers, device, readErr, stop, events, foreign>>
ReadFails == /\ reader = "read" /\ reader' = "failed" /\ readErr' = TRUE
             /\ UNCHANGED <<seq, asked, pending, box, callers, device, stop, events, foreign>>
Close == /\ ~stop /\ stop' = TRUE
         /\ UNCHANGED <<seq, asked, pending, box, callers, device, reader, readErr, events, foreign>>

---------------------------------------------------------------------------
\* The device answers what it has received, in any order and with any delay
\* within InTime, and sends events, motion and the answers of other masters.
Answer(n, kind) == /\ n \in due /\ Len(wire) < 2 /\ InTime(n, seq)
                   /\ due' = due \ {n} /\ wire' = Append(wire, Frame(n, kind))
                   /\ UNCHANGED <<seq, asked, pending, box, callers, reader, readErr, stop, events, foreign>>
Strays == {Stray(c, 0, "ok") : c \in Calls} \cup {Stray(c, 1, "ok") : c \in Calls}
            \cup {Stray(c, SwIdLo, "motion") : c \in Calls}
Emit(f) == /\ Len(wire) < 2 /\ events + foreign + Len(wire) < MaxFrames
           /\ wire' = Append(wire, f)
           /\ UNCHANGED <<seq, asked, pending, box, callers, due, reader, readErr, stop, events, foreign>>

Next == \/ \E k \in Callers : \/ Call(k) \/ Refused(k) \/ \E c \in Calls : Enter(k, c)
                              \/ Write(k) \/ Take(k) \/ GiveUp(k) \/ ClearPending(k)
        \/ Route \/ Turn \/ ReadFails \/ Close
        \/ \E n \in due, kind \in {"ok", "err"} : Answer(n, kind)
        \/ \E f \in Strays : Emit(f)

Spec == Init /\ [][Next]_vars

---------------------------------------------------------------------------
Places == {"idle", "enter", "write", "wait", "clear"}
Results == {"none", "open", "gave up", "ok", "err"}
TypeOK == /\ seq \in Nat /\ pending \in 0..seq
          /\ asked \in Seq(Calls) /\ Len(asked) = seq
          /\ at \in [Callers -> Places] /\ mine \in [Callers -> 0..seq]
          /\ box \in Seq([kind : Results, of : Nat]) /\ Len(box) = seq
          /\ got \in Seq([kind : Results, of : Nat]) /\ Len(got) = seq
          /\ due \subseteq 1..seq
          /\ wire \in Seq([call : Calls, sw : Nat, kind : {"ok", "err", "motion"}, of : 0..seq])
          /\ reader \in {"top", "read", "failed", "done"}
          /\ readErr \in BOOLEAN /\ stop \in BOOLEAN /\ events \in Nat /\ foreign \in Nat

\* The answer handed to a caller is the answer of its own request, also when
\* the answers of requests that timed out arrive after it (classifyReply).
OwnAnswer == \A n \in DOMAIN got : got[n].kind \in {"ok", "err"} => got[n].of = n

\* The slot is held by a caller that will give it back, so no request is
\* refused for ever, and the one send of the reader, which it makes with the
\* lock held, finds the channel empty (request, clearPending).
SlotIsHeld == pending # 0 => /\ \E k \in Callers : mine[k] = pending /\ at[k] \in {"write", "wait", "clear"}
                             /\ box[pending] = Nothing

\* A caller that waits has its answer or is the one the reader answers: what
\* another caller clears late is never its slot (clearPending).
WaiterIsHeard == \A k \in Callers : at[k] = "wait" => box[mine[k]] # Nothing \/ pending = mine[k]

\* Two callers never have one request.
OwnRequest == \A j, k \in Callers : mine[j] # 0 /\ mine[j] = mine[k] => j = k

---------------------------------------------------------------------------
(* The inductive invariant: the request in flight is the newest, a frame on *)
(* the wire is less than a cycle of software ids old, and no two callers    *)
(* have one request.                                                        *)
Newest == pending \in {0, seq}
Served == \A k \in Callers : mine[k] # 0 <=> at[k] \in {"write", "wait", "clear"}
Boxed == \A n \in DOMAIN box : box[n] # Nothing => box[n].of = n /\ box[n].kind \in {"ok", "err"}
FrameOK(f) == IF f.of = 0 THEN f.kind = "motion" \/ f.sw < SwIdLo
                          ELSE InTime(f.of, seq) /\ f.sw = SwIdOf(f.of) /\ f.kind # "motion"
Framed == \A i \in DOMAIN wire : FrameOK(wire[i])
Heard == \A k \in Callers : at[k] \in {"write", "wait"} => box[mine[k]] # Nothing \/ pending = mine[k]
IInv == TypeOK /\ Newest /\ Served /\ Boxed /\ Framed /\ Heard /\ OwnAnswer /\ SlotIsHeld /\ OwnRequest
=============================================================================
