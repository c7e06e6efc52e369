------------------------------ MODULE DeviceProofs ------------------------------
(***************************************************************************)
(* The parts of touchd and the flash jobs of the keyboard are safe         *)
(* whatever their constants, each by an induction of its own.              *)
(***************************************************************************)
EXTENDS MCDevices, SequenceTheorems, FiniteSetTheorems, WellFoundedInduction, TLAPS

(***************************************************************************)
(* The correlator of a HID++ handle: Conn!IInv is inductive.               *)
(***************************************************************************)
LEMMA ConnDivision ==
  ASSUME NEW S \in Nat \ {0}, NEW n \in Nat
  PROVE  n = (S * (n \div S)) + (n % S) /\ n \div S \in Int
OBVIOUS

\* Within one cycle a software id names one request.
LEMMA ConnOneCycle ==
  ASSUME NEW S \in Nat \ {0}, NEW n \in Nat, NEW p \in Nat, n <= p, p - n < S, n % S = p % S
  PROVE  n = p
<1> DEFINE q == n \div S
           rr == p \div S
<1>1. n = (S * q) + (n % S) /\ p = (S * rr) + (p % S) /\ q \in Int /\ rr \in Int
  BY ConnDivision
<1> HIDE DEF q, rr
<1>2. (S * rr) - (S * q) = S * (rr - q)
  BY <1>1
<1>3. rr - q >= 1 => S * (rr - q) >= S
  BY <1>1
<1>4. rr - q <= -1 => S * (rr - q) <= -S
  BY <1>1
<1>5. S * q \in Int /\ S * rr \in Int /\ n % S \in Int /\ p % S \in Int
  BY <1>1
<1>6. S * (rr - q) = p - n
  BY <1>1, <1>2, <1>5
<1> QED BY <1>1, <1>3, <1>4, <1>6

ConnOutcome == [kind : Conn!Results, of : Nat]
ConnFramesTo(n) == [call : Calls, sw : Nat, kind : {"ok", "err", "motion"}, of : 0..n]

LEMMA ConnSwIdTyped == ASSUME Conn!ConnAssumption, NEW n \in Nat PROVE Conn!SwIdOf(n) \in Nat /\ Conn!SwIdOf(n) >= Conn!SwIdLo
<1>1. n % SwIds \in Nat
  BY DEF Conn!ConnAssumption
<1> QED BY <1>1 DEF Conn!SwIdOf, Conn!SwIdLo

LEMMA ConnInitIInv == Conn!Init => Conn!IInv
<1> SUFFICES ASSUME Conn!Init PROVE Conn!IInv
  OBVIOUS
<1>1. /\ <<>> \in Seq(Calls) /\ <<>> \in Seq(ConnOutcome)
      /\ <<>> \in Seq(ConnFramesTo(0))
      /\ Len(<<>>) = 0 /\ DOMAIN <<>> = {}
  OBVIOUS
<1>2. /\ seq = 0 /\ ring = 0 /\ asked = <<>> /\ box = <<>> /\ got = <<>> /\ wire = <<>> /\ due = {}
      /\ mine \in [Callers -> 0..seq] /\ place \in [Callers -> Conn!Places]
  BY DEF Conn!Init, Conn!Places
<1>3. /\ asked \in Seq(Calls) /\ box \in Seq(ConnOutcome) /\ got \in Seq(ConnOutcome) /\ wire \in Seq(ConnFramesTo(seq))
      /\ Len(asked) = seq /\ Len(box) = seq /\ Len(got) = seq
  BY <1>1, <1>2
<1>4. reader \in {"top", "read", "failed", "done"} /\ seenEvents \in Nat /\ foreign \in Nat
  BY DEF Conn!Init
<1>5. readErr \in BOOLEAN /\ stop \in BOOLEAN
  BY DEF Conn!Init
<1>6. seq \in Nat /\ ring \in 0..seq /\ due \subseteq 1..seq
  BY <1>2
<1>7. Conn!TypeOK
  BY <1>2, <1>3, <1>4, <1>5, <1>6 DEF Conn!TypeOK, ConnOutcome, ConnFramesTo
<1> QED BY <1>1, <1>7 DEF Conn!Init, Conn!IInv, Conn!Newest, Conn!Served, Conn!Boxed, Conn!Framed, Conn!Heard,
      Conn!OwnAnswer, Conn!SlotIsHeld, Conn!OwnRequest

\* Every step of a caller, of the reader and of the device keeps all of it.
LEMMA ConnStepIInv == Conn!ConnAssumption /\ Conn!IInv /\ [Conn!Next]_(Conn!vars) => Conn!IInv'
<1> SUFFICES ASSUME Conn!ConnAssumption, Conn!IInv, [Conn!Next]_(Conn!vars) PROVE Conn!IInv'
  OBVIOUS
<1>1. /\ seq \in Nat /\ ring \in 0..seq
      /\ place \in [Callers -> Conn!Places] /\ mine \in [Callers -> 0..seq]
      /\ box \in Seq(ConnOutcome) /\ Len(box) = seq /\ DOMAIN box = 1..seq
      /\ got \in Seq(ConnOutcome) /\ Len(got) = seq /\ DOMAIN got = 1..seq
      /\ wire \in Seq(ConnFramesTo(seq))
      /\ asked \in Seq(Calls) /\ Len(asked) = seq /\ due \subseteq 1..seq
  BY LenProperties DEF Conn!IInv, Conn!TypeOK, ConnOutcome, ConnFramesTo
<1>2. \A n \in 1..seq : box[n] \in ConnOutcome /\ got[n] \in ConnOutcome /\ asked[n] \in Calls
  BY <1>1, ElementOfSeq
<1>3. \A k \in Callers : place[k] \in {"write", "wait", "clear"} => mine[k] \in 1..seq
  BY <1>1 DEF Conn!IInv, Conn!Served
<1>4. ASSUME NEW k \in Callers, Conn!Call(k) PROVE Conn!IInv'
  <2>1. Conn!TypeOK'
    BY <1>4 DEF Conn!Call, Conn!To, Conn!IInv, Conn!TypeOK, Conn!Places, Conn!device, ConnFramesTo
  <2>2. /\ place[k] = "idle" /\ place'[k] = "enter" /\ \A j \in Callers \ {k} : place'[j] = place[j]
        /\ UNCHANGED <<seq, asked, ring, mine, box, got, due, wire>>
    BY <1>1, <1>4 DEF Conn!Call, Conn!To, Conn!device
  <2> QED BY <2>1, <2>2 DEF Conn!IInv, Conn!Newest, Conn!Served, Conn!Boxed, Conn!Framed, Conn!FrameOK, Conn!Heard,
        Conn!OwnAnswer, Conn!SlotIsHeld, Conn!OwnRequest, Conn!InTime
<1>5. ASSUME NEW k \in Callers, Conn!Refused(k) PROVE Conn!IInv'
  <2>1. Conn!TypeOK'
    BY <1>5 DEF Conn!Refused, Conn!To, Conn!IInv, Conn!TypeOK, Conn!Places, Conn!device, ConnFramesTo
  <2>2. /\ place[k] = "enter" /\ place'[k] = "idle" /\ \A j \in Callers \ {k} : place'[j] = place[j]
        /\ UNCHANGED <<seq, asked, ring, mine, box, got, due, wire>>
    BY <1>1, <1>5 DEF Conn!Refused, Conn!To, Conn!device
  <2> QED BY <2>1, <2>2 DEF Conn!IInv, Conn!Newest, Conn!Served, Conn!Boxed, Conn!Framed, Conn!FrameOK, Conn!Heard,
        Conn!OwnAnswer, Conn!SlotIsHeld, Conn!OwnRequest, Conn!InTime
<1>6. ASSUME NEW k \in Callers, NEW c \in Calls, Conn!Enter(k, c) PROVE Conn!IInv'
  <2>1. /\ place[k] = "enter" /\ ring = 0 /\ seq' = seq + 1 /\ ring' = seq + 1
        /\ asked' = Append(asked, c) /\ box' = Append(box, Conn!Nothing) /\ got' = Append(got, Conn!Open)
        /\ mine' = [mine EXCEPT ![k] = seq + 1] /\ place' = [place EXCEPT ![k] = "write"]
        /\ UNCHANGED <<due, wire, reader, readErr, stop, seenEvents, foreign>>
        /\ \A i \in DOMAIN wire : wire[i].of # 0 => Conn!InTime(wire[i].of, seq + 1)
    BY <1>6 DEF Conn!Enter, Conn!NextSwId, Conn!To, Conn!device
  <2>2. Conn!Nothing \in ConnOutcome /\ Conn!Open \in ConnOutcome
    BY DEF Conn!Nothing, Conn!Open, ConnOutcome, Conn!Results
  <2>3. /\ box' \in Seq(ConnOutcome) /\ got' \in Seq(ConnOutcome) /\ asked' \in Seq(Calls)
        /\ Len(box') = seq' /\ Len(got') = seq' /\ Len(asked') = seq'
        /\ DOMAIN box' = 1..seq' /\ DOMAIN got' = 1..seq'
        /\ \A n \in 1..seq : box'[n] = box[n] /\ got'[n] = got[n]
        /\ box'[seq'] = Conn!Nothing /\ got'[seq'] = Conn!Open
    BY <1>1, <2>1, <2>2, AppendProperties, LenProperties
  <2>4. wire' \in Seq(ConnFramesTo(seq'))
    <3>1. ConnFramesTo(seq) \subseteq ConnFramesTo(seq')
      BY <1>1, <2>1 DEF ConnFramesTo
    <3>2. wire \in Seq(ConnFramesTo(seq'))
      BY <1>1, <3>1, SeqMonotonic
    <3> QED BY <2>1, <3>2
  <2>5. /\ seq' \in Nat /\ ring' \in 0..seq' /\ place' \in [Callers -> Conn!Places]
        /\ mine' \in [Callers -> 0..seq'] /\ due' \subseteq 1..seq'
    BY <1>1, <2>1 DEF Conn!Places
  <2>6. Conn!TypeOK'
    BY <2>1, <2>3, <2>4, <2>5 DEF Conn!TypeOK, Conn!IInv, ConnOutcome, ConnFramesTo
  <2>7. /\ mine'[k] = seq' /\ place'[k] = "write"
        /\ \A j \in Callers \ {k} : mine'[j] = mine[j] /\ place'[j] = place[j]
    BY <1>1, <2>1
  <2>8. Conn!Newest' /\ Conn!Served'
    BY <1>1, <2>1, <2>7 DEF Conn!IInv, Conn!Newest, Conn!Served
  <2>9. Conn!Boxed' /\ Conn!OwnAnswer'
    BY <1>1, <2>1, <2>3 DEF Conn!IInv, Conn!Boxed, Conn!OwnAnswer, Conn!Nothing, Conn!Open
  <2>10. Conn!Framed'
    BY <1>1, <2>1 DEF Conn!IInv, Conn!Framed, Conn!FrameOK
  <2>11. Conn!Heard'
    BY <1>1, <1>3, <2>1, <2>3, <2>7 DEF Conn!IInv, Conn!Heard
  <2>12. Conn!SlotIsHeld' /\ Conn!OwnRequest'
    BY <1>1, <2>1, <2>3, <2>7 DEF Conn!IInv, Conn!SlotIsHeld, Conn!OwnRequest
  <2> QED BY <2>6, <2>8, <2>9, <2>10, <2>11, <2>12 DEF Conn!IInv
<1>7. ASSUME NEW k \in Callers, Conn!Write(k) \/ Conn!GiveUp(k) PROVE Conn!IInv'
  <2>1. /\ place[k] \in {"write", "wait"} /\ UNCHANGED <<seq, asked, ring, mine, box, wire, reader, readErr, stop, seenEvents, foreign>>
        /\ due' \subseteq due \cup {mine[k]}
        /\ \/ place' = [place EXCEPT ![k] = "wait"] /\ got' = got /\ place[k] = "write"
           \/ place' = [place EXCEPT ![k] = "clear"] /\ got' = [got EXCEPT ![mine[k]] = Conn!GaveUp]
    BY <1>7 DEF Conn!Write, Conn!GiveUp, Conn!To, Conn!device
  <2>2. mine[k] \in 1..seq /\ Conn!GaveUp \in ConnOutcome
    BY <1>3, <2>1 DEF Conn!GaveUp, ConnOutcome, Conn!Results
  <2>3. /\ got' \in Seq(ConnOutcome) /\ Len(got') = seq /\ DOMAIN got' = 1..seq
        /\ \A n \in 1..seq : got'[n] = got[n] \/ got'[n] = Conn!GaveUp
    <3>1. CASE got' = got
      BY <1>1, <3>1
    <3>2. CASE got' = [got EXCEPT ![mine[k]] = Conn!GaveUp]
      BY <1>1, <2>2, <3>2, ExceptSeq, LenProperties
    <3> QED BY <2>1, <3>1, <3>2
  <2>4. place' \in [Callers -> Conn!Places] /\ due' \subseteq 1..seq
    BY <1>1, <2>1, <2>2 DEF Conn!Places
  <2>5. Conn!TypeOK'
    BY <2>1, <2>3, <2>4 DEF Conn!TypeOK, Conn!IInv, ConnOutcome, ConnFramesTo
  <2>6. place'[k] \in {"wait", "clear"} /\ (place'[k] = "wait" => place[k] = "write")
          /\ \A j \in Callers \ {k} : place'[j] = place[j]
    BY <1>1, <2>1
  <2>7. Conn!OwnAnswer'
    <3>1. Conn!GaveUp.kind \notin {"ok", "err"}
      BY DEF Conn!GaveUp
    <3> QED BY <1>1, <2>3, <3>1 DEF Conn!IInv, Conn!OwnAnswer
  <2>8. Conn!Newest' /\ Conn!Served' /\ Conn!Boxed' /\ Conn!Framed' /\ Conn!OwnRequest'
    BY <2>1, <2>6 DEF Conn!IInv, Conn!Newest, Conn!Served, Conn!Boxed, Conn!Framed, Conn!FrameOK, Conn!InTime,
          Conn!OwnRequest
  <2>9. Conn!Heard' /\ Conn!SlotIsHeld'
    BY <2>1, <2>6 DEF Conn!IInv, Conn!Heard, Conn!SlotIsHeld
  <2> QED BY <2>5, <2>7, <2>8, <2>9 DEF Conn!IInv
<1>8. ASSUME NEW k \in Callers, Conn!Take(k) PROVE Conn!IInv'
  <2>1. /\ place[k] = "wait" /\ box[mine[k]] # Conn!Nothing
        /\ UNCHANGED <<seq, asked, ring, box, due, wire, reader, readErr, stop, seenEvents, foreign>>
        /\ got' = [got EXCEPT ![mine[k]] = box[mine[k]]]
        /\ place' = [place EXCEPT ![k] = "idle"] /\ mine' = [mine EXCEPT ![k] = 0]
    BY <1>8 DEF Conn!Take, Conn!To, Conn!device
  <2>2. mine[k] \in 1..seq /\ box[mine[k]] \in ConnOutcome
    BY <1>2, <1>3, <2>1
  <2>3. /\ got' \in Seq(ConnOutcome) /\ Len(got') = seq /\ DOMAIN got' = 1..seq
        /\ \A n \in 1..seq : got'[n] = IF n = mine[k] THEN box[mine[k]] ELSE got[n]
    BY <1>1, <2>1, <2>2, ExceptSeq, LenProperties
  <2>4. place' \in [Callers -> Conn!Places] /\ mine' \in [Callers -> 0..seq]
    BY <1>1, <2>1 DEF Conn!Places
  <2>5. Conn!TypeOK'
    BY <2>1, <2>3, <2>4 DEF Conn!TypeOK, Conn!IInv, ConnOutcome, ConnFramesTo
  <2>6. place'[k] = "idle" /\ mine'[k] = 0 /\ \A j \in Callers \ {k} : place'[j] = place[j] /\ mine'[j] = mine[j]
    BY <1>1, <2>1
  <2>7. Conn!OwnAnswer'
    BY <1>1, <2>1, <2>2, <2>3 DEF Conn!IInv, Conn!OwnAnswer, Conn!Boxed
  <2>8. Conn!Newest' /\ Conn!Served' /\ Conn!Boxed' /\ Conn!Framed' /\ Conn!OwnRequest' /\ Conn!Heard'
    BY <2>1, <2>6 DEF Conn!IInv, Conn!Newest, Conn!Served, Conn!Boxed, Conn!Framed, Conn!FrameOK, Conn!InTime,
          Conn!OwnRequest, Conn!Heard
  <2>9. Conn!SlotIsHeld'
    BY <2>1, <2>6 DEF Conn!IInv, Conn!SlotIsHeld
  <2> QED BY <2>5, <2>7, <2>8, <2>9 DEF Conn!IInv
<1>9. ASSUME NEW k \in Callers, Conn!ClearPending(k) PROVE Conn!IInv'
  <2>1. /\ place[k] = "clear" /\ ring' = IF ring = mine[k] THEN 0 ELSE ring
        /\ UNCHANGED <<seq, asked, box, got, due, wire, reader, readErr, stop, seenEvents, foreign>>
        /\ place' = [place EXCEPT ![k] = "idle"] /\ mine' = [mine EXCEPT ![k] = 0]
    BY <1>9 DEF Conn!ClearPending, Conn!Left, Conn!To, Conn!device
  <2>2. mine[k] \in 1..seq
    BY <1>3, <2>1
  <2>3. place' \in [Callers -> Conn!Places] /\ mine' \in [Callers -> 0..seq] /\ ring' \in 0..seq
    BY <1>1, <2>1 DEF Conn!Places
  <2>4. Conn!TypeOK'
    BY <2>1, <2>3 DEF Conn!TypeOK, Conn!IInv, ConnFramesTo
  <2>5. place'[k] = "idle" /\ mine'[k] = 0 /\ \A j \in Callers \ {k} : place'[j] = place[j] /\ mine'[j] = mine[j]
    BY <1>1, <2>1
  <2>6. Conn!Newest' /\ Conn!Served' /\ Conn!Boxed' /\ Conn!Framed' /\ Conn!OwnRequest' /\ Conn!OwnAnswer'
    BY <2>1, <2>5 DEF Conn!IInv, Conn!Newest, Conn!Served, Conn!Boxed, Conn!Framed, Conn!FrameOK, Conn!InTime,
          Conn!OwnRequest, Conn!OwnAnswer
  <2>7. Conn!Heard'
    BY <2>1, <2>2, <2>5 DEF Conn!IInv, Conn!Heard, Conn!OwnRequest
  <2>8. Conn!SlotIsHeld'
    BY <2>1, <2>5 DEF Conn!IInv, Conn!SlotIsHeld
  <2> QED BY <2>4, <2>6, <2>7, <2>8 DEF Conn!IInv
<1>10. CASE Conn!Route
  <2> DEFINE f == Head(wire)
  <2>1. /\ wire # <<>> /\ wire' = Tail(wire) /\ reader' = "top"
        /\ UNCHANGED <<seq, asked, place, mine, got, due, readErr, stop>>
        /\ \/ /\ ring # 0 /\ Conn!Matches(f, ring)
              /\ box' = [box EXCEPT ![ring] = [kind |-> f.kind, of |-> f.of]]
              /\ ring' = 0 /\ UNCHANGED <<seenEvents, foreign>>
           \/ Conn!Tally(f) /\ UNCHANGED <<box, ring>>
    BY <1>10 DEF Conn!Route, Conn!callers
  <2>2. /\ f \in ConnFramesTo(seq) /\ f = wire[1]
        /\ wire' \in Seq(ConnFramesTo(seq))
        /\ Len(wire) \in Nat \ {0} /\ DOMAIN wire = 1..Len(wire) /\ DOMAIN wire' = 1..(Len(wire) - 1)
        /\ \A i \in 1..(Len(wire) - 1) : wire'[i] = wire[i + 1]
    <3>1. /\ f \in ConnFramesTo(seq) /\ wire' \in Seq(ConnFramesTo(seq)) /\ Len(wire') = Len(wire) - 1
          /\ \A i \in 1..Len(wire') : wire'[i] = wire[i + 1]
      BY <1>1, <2>1, HeadTailProperties
    <3>2. Len(wire) \in Nat \ {0} /\ DOMAIN wire = 1..Len(wire)
      BY <1>1, <2>1, LenProperties, EmptySeq
    <3>3. DOMAIN wire' = 1..Len(wire')
      BY <3>1, LenProperties
    <3> QED BY <3>1, <3>2, <3>3
  <2>3. seenEvents' \in Nat /\ foreign' \in Nat
    BY <2>1 DEF Conn!Tally, Conn!IInv, Conn!TypeOK
  <2> HIDE DEF f
  <2>4. Conn!Framed'
    BY <2>1, <2>2 DEF Conn!IInv, Conn!Framed, Conn!FrameOK, Conn!InTime
  <2>5. Conn!FrameOK(f)
    BY <2>2 DEF Conn!IInv, Conn!Framed
  <2>6. CASE UNCHANGED <<box, ring>>
    <3>1. Conn!TypeOK'
      BY <2>1, <2>2, <2>3, <2>6 DEF Conn!IInv, Conn!TypeOK, ConnFramesTo
    <3> QED BY <2>1, <2>4, <2>6, <3>1 DEF Conn!IInv, Conn!Newest, Conn!Served, Conn!Boxed, Conn!OwnRequest,
          Conn!OwnAnswer, Conn!Heard, Conn!SlotIsHeld
  <2>7. CASE /\ ring # 0 /\ Conn!Matches(f, ring)
             /\ box' = [box EXCEPT ![ring] = [kind |-> f.kind, of |-> f.of]]
             /\ ring' = 0
    <3>1. ring = seq /\ ring \in 1..seq
      BY <1>1, <2>7 DEF Conn!IInv, Conn!Newest
    <3>2. f.kind \in {"ok", "err"} /\ f.sw = Conn!SwIdOf(ring) /\ f.of \in 0..seq
      BY <2>2, <2>7 DEF Conn!Matches, ConnFramesTo
    <3>3. f.of # 0
      <4>1. ring \in Nat
        BY <1>1, <3>1
      <4>2. Conn!SwIdOf(ring) \in Nat /\ Conn!SwIdOf(ring) >= 8
        BY <4>1, ConnSwIdTyped DEF Conn!SwIdLo
      <4> QED BY <2>5, <3>2, <4>2 DEF Conn!FrameOK, Conn!SwIdLo
    <3>4. Conn!InTime(f.of, seq) /\ Conn!SwIdOf(f.of) = Conn!SwIdOf(ring)
      BY <2>5, <3>2, <3>3 DEF Conn!FrameOK
    <3>5. f.of = ring
      <4>1. f.of % SwIds = ring % SwIds
        <5>1. f.of % SwIds \in Int /\ ring % SwIds \in Int
          BY <1>1, <3>1, <3>2 DEF Conn!ConnAssumption
        <5> QED BY <3>4, <5>1 DEF Conn!SwIdOf, Conn!SwIdLo
      <4>2. f.of <= ring /\ ring - f.of < SwIds /\ f.of \in Nat /\ ring \in Nat
        BY <1>1, <3>1, <3>2, <3>4 DEF Conn!InTime
      <4> QED BY <4>1, <4>2, ConnOneCycle DEF Conn!ConnAssumption
    <3>6. [kind |-> f.kind, of |-> f.of] \in ConnOutcome
      <4>1. f.of \in Nat
        BY <1>1, <3>2
      <4> QED BY <3>2, <4>1 DEF ConnOutcome, Conn!Results
    <3>7. /\ box' \in Seq(ConnOutcome) /\ Len(box') = seq /\ DOMAIN box' = 1..seq
          /\ \A n \in 1..seq : n # ring => box'[n] = box[n]
          /\ box'[ring].of = ring /\ box'[ring].kind \in {"ok", "err"} /\ box'[ring] # Conn!Nothing
      <4>1. box'[ring] = [kind |-> f.kind, of |-> f.of]
        BY <1>1, <2>7, <3>1
      <4> QED BY <1>1, <2>7, <3>1, <3>2, <3>5, <3>6, <4>1, ExceptSeq, LenProperties DEF Conn!Nothing
    <3>8. Conn!TypeOK'
      BY <2>1, <2>2, <2>3, <2>7, <3>7 DEF Conn!IInv, Conn!TypeOK, ConnOutcome, ConnFramesTo
    <3>9. Conn!Newest' /\ Conn!Served' /\ Conn!OwnRequest' /\ Conn!OwnAnswer' /\ Conn!SlotIsHeld'
      BY <2>1, <2>7 DEF Conn!IInv, Conn!Newest, Conn!Served, Conn!OwnRequest, Conn!OwnAnswer, Conn!SlotIsHeld
    <3>10. Conn!Boxed'
      BY <1>1, <3>7 DEF Conn!IInv, Conn!Boxed
    <3>11. Conn!Heard'
      BY <1>3, <2>1, <2>7, <3>7 DEF Conn!IInv, Conn!Heard
    <3> QED BY <2>4, <3>8, <3>9, <3>10, <3>11 DEF Conn!IInv
  <2> QED BY <2>1, <2>6, <2>7
<1>11. CASE Conn!Turn \/ Conn!ReadFails \/ Conn!Close
  <2>1. /\ UNCHANGED <<seq, asked, ring, place, mine, box, got, due, wire, seenEvents, foreign>>
        /\ reader' \in {"top", "read", "failed", "done"} /\ readErr' \in BOOLEAN /\ stop' \in BOOLEAN
    BY <1>11 DEF Conn!Turn, Conn!ReadFails, Conn!Close, Conn!callers, Conn!device, Conn!IInv, Conn!TypeOK
  <2>2. Conn!TypeOK'
    BY <2>1 DEF Conn!IInv, Conn!TypeOK, ConnFramesTo
  <2> QED BY <2>1, <2>2 DEF Conn!IInv, Conn!Newest, Conn!Served, Conn!Boxed, Conn!Framed, Conn!FrameOK, Conn!InTime,
        Conn!Heard, Conn!OwnAnswer, Conn!SlotIsHeld, Conn!OwnRequest
<1>12. ASSUME NEW f \in ConnFramesTo(seq), Conn!FrameOK(f),
              wire' = Append(wire, f), due' \subseteq due,
              UNCHANGED <<seq, asked, ring, place, mine, box, got, reader, readErr, stop, seenEvents, foreign>>
       PROVE  Conn!IInv'
  <2>1. /\ wire' \in Seq(ConnFramesTo(seq))
        /\ Len(wire) \in Nat /\ DOMAIN wire = 1..Len(wire) /\ DOMAIN wire' = 1..(Len(wire) + 1)
        /\ \A i \in 1..Len(wire) : wire'[i] = wire[i]
        /\ wire'[Len(wire) + 1] = f
    BY <1>1, <1>12, AppendProperties, LenProperties
  <2>2. Conn!TypeOK'
    BY <1>12, <2>1 DEF Conn!IInv, Conn!TypeOK, ConnFramesTo
  <2>3. Conn!Framed'
    BY <1>12, <2>1 DEF Conn!IInv, Conn!Framed, Conn!FrameOK, Conn!InTime
  <2> QED BY <1>12, <2>2, <2>3 DEF Conn!IInv, Conn!Newest, Conn!Served, Conn!Boxed, Conn!Heard, Conn!OwnAnswer,
        Conn!SlotIsHeld, Conn!OwnRequest
<1>13. ASSUME NEW n \in due, NEW kind \in {"ok", "err"}, Conn!Answer(n, kind) PROVE Conn!IInv'
  <2>1. n \in 1..seq /\ asked[n] \in Calls /\ Conn!SwIdOf(n) \in Nat
    BY <1>1, <1>2, ConnSwIdTyped
  <2>2. Conn!Frame(n, kind) \in ConnFramesTo(seq)
    BY <2>1 DEF Conn!Frame, ConnFramesTo
  <2>3. Conn!FrameOK(Conn!Frame(n, kind))
    BY <1>13, <2>1 DEF Conn!FrameOK, Conn!Frame, Conn!Answer
  <2> QED BY <1>12, <1>13, <2>2, <2>3 DEF Conn!Answer, Conn!callers
<1>14. ASSUME NEW f \in Conn!Strays, Conn!Emit(f) PROVE Conn!IInv'
  <2>1. PICK c \in Calls : f \in {Conn!Stray(c, 0, "ok"), Conn!Stray(c, 1, "ok"), Conn!Stray(c, Conn!SwIdLo, "motion")}
    BY DEF Conn!Strays
  <2>2. f \in ConnFramesTo(seq) /\ Conn!FrameOK(f)
    BY <1>1, <2>1 DEF Conn!Stray, Conn!FrameOK, Conn!SwIdLo, ConnFramesTo
  <2> QED BY <1>12, <1>14, <2>2 DEF Conn!Emit, Conn!callers
<1>15. CASE UNCHANGED Conn!vars
  BY <1>15 DEF Conn!vars, Conn!callers, Conn!device, Conn!IInv, Conn!TypeOK, Conn!Newest, Conn!Served, Conn!Boxed,
        Conn!Framed, Conn!FrameOK, Conn!InTime, Conn!Heard, Conn!OwnAnswer, Conn!SlotIsHeld, Conn!OwnRequest
<1> QED BY <1>4, <1>5, <1>6, <1>7, <1>8, <1>9, <1>10, <1>11, <1>13, <1>14, <1>15 DEF Conn!Next

\* A handle keeps its shape, for any callers and any number of requests.
THEOREM ConnTypeCorrect == ASSUME Conn!ConnAssumption PROVE Conn!Spec => []Conn!TypeOK
<1>1. Conn!IInv => Conn!TypeOK
  BY DEF Conn!IInv
<1> QED BY <1>1, ConnInitIInv, ConnStepIInv, PTL DEF Conn!Spec

\* No caller is handed the answer of another request, however late the answers
\* of the requests that timed out, as long as they are less than a cycle of
\* software ids late (hidppconn.go request, classifyReply, hidppSwIDLen).
THEOREM AnswersAreOwn == ASSUME Conn!ConnAssumption PROVE Conn!Spec => []Conn!OwnAnswer
<1>1. Conn!IInv => Conn!OwnAnswer
  BY DEF Conn!IInv
<1> QED BY <1>1, ConnInitIInv, ConnStepIInv, PTL DEF Conn!Spec

\* The slot is always held by a caller that gives it back, no two callers have
\* one request, and one that waits has its answer or is the one the reader
\* answers, whatever clearPending comes late (hidppconn.go clearPending, route).
THEOREM SlotIsShared == ASSUME Conn!ConnAssumption PROVE Conn!Spec => [](Conn!SlotIsHeld /\ Conn!OwnRequest /\ Conn!WaiterIsHeard)
<1>1. Conn!IInv => Conn!SlotIsHeld /\ Conn!OwnRequest /\ Conn!WaiterIsHeard
  BY DEF Conn!IInv, Conn!Heard, Conn!WaiterIsHeard
<1> QED BY <1>1, ConnInitIInv, ConnStepIInv, PTL DEF Conn!Spec

(***************************************************************************)
(* The flash jobs: Flash!IInv is inductive.                                *)
(***************************************************************************)
FlashStatuses == Revs \cup Flash!States \cup {Flash!None, "error", "nothing"}

\* What a command or a message turns into.
LEMMA FlashBecoming ==
  ASSUME Flash!Windows, NEW c \in calls, NEW kind \in Flash!Kinds, NEW status \in FlashStatuses, NEW n \in Nat
  PROVE  LET e == [c EXCEPT !.kind = kind, !.status = status, !.job = n] IN
           /\ e \in Flash!CallType /\ e.t = c.t /\ e.gen = c.gen /\ e.target = c.target
           /\ e.kind = kind /\ e.status = status /\ e.job = n
BY DEF Flash!Windows, Flash!CallType, FlashStatuses

\* A window goes on hearing of its flash when a call of the window gives way to another.
LEMMA FlashHeard ==
  ASSUME Flash!NeverStuckFlashing, Flash!Asked, UNCHANGED row, NEW c \in calls, NEW X,
         calls' = (calls \ {c}) \cup X,
         c.t \in Terms => \E e \in X : e.t = c.t /\ e.gen = c.gen
  PROVE  Flash!NeverStuckFlashing'
<1> SUFFICES ASSUME NEW t \in Terms, row[t].flashing /\ ~row[t].hidden
             PROVE  \E d \in calls' : d.t = t /\ d.gen = row[t].gen
  BY DEF Flash!NeverStuckFlashing
<1>1. PICK d \in calls : d.t = t /\ d.gen = row[t].gen
  BY DEF Flash!NeverStuckFlashing
<1> QED BY <1>1

LEMMA FlashInitIInv == Flash!Init => Flash!IInv
<1> SUFFICES ASSUME Flash!Init PROVE Flash!IInv
  OBVIOUS
<1>1. Flash!Journal
  BY FlashInstance, EmptySeq DEF Flash!Init, Flash!Journal, Flash!FlashAssumption
<1>2. Flash!Board
  BY FlashInstance, EmptySeq DEF Flash!Init, Flash!Board, Flash!FlashAssumption, Flash!None
<1>3. Flash!Workers /\ Flash!Windows
  BY DEF Flash!Init, Flash!Workers, Flash!Windows, Flash!Row, Flash!Rows
<1>4. Flash!Asked /\ Flash!Owned
  BY FlashInstance DEF Flash!Init, Flash!Asked, Flash!Inspecting, Flash!Owned, Flash!AtBoard, Flash!Flashing,
        Flash!None, Flash!FlashAssumption
<1> QED BY <1>1, <1>2, <1>3, <1>4 DEF Flash!Init, Flash!IInv, Flash!NeverReplayed, Flash!ReviewedFirst,
      Flash!OnlyTheSerialCounts, Flash!NeverStuckFlashing, Flash!Row

\* The windows do not touch the journal, the workers and the board.
FlashWatches == UNCHANGED <<Flash!journal, Flash!worker, prompts>>
LEMMA FlashWindowsApart ==
  ASSUME Flash!IInv, FlashWatches, Flash!Windows', Flash!Asked', Flash!NeverStuckFlashing'
  PROVE  Flash!IInv'
BY DEF FlashWatches, Flash!journal, Flash!worker, Flash!IInv, Flash!Journal, Flash!Board, Flash!Workers, Flash!Owned,
      Flash!NeverReplayed, Flash!ReviewedFirst, Flash!OnlyTheSerialCounts

LEMMA FlashWindowKeeps ==
  ASSUME Flash!IInv, NEW t \in Terms, Flash!Observe(t) \/ Flash!Tap(t) \/ Flash!ArmTimeout(t) \/ Flash!Visibility(t)
  PROVE  Flash!IInv'
<1>1. row[t] \in Flash!Rows /\ row \in [Terms -> Flash!Rows] /\ latest \in Revs /\ calls \subseteq Flash!CallType
  BY DEF Flash!IInv, Flash!Windows
<1>2. CASE Flash!Observe(t)
  <2>1. Flash!Windows' /\ Flash!Asked' /\ Flash!NeverStuckFlashing'
    BY <1>1, <1>2 DEF Flash!Observe, Flash!journal, Flash!worker, Flash!IInv, Flash!Windows, Flash!Rows, Flash!Asked,
          Flash!Inspecting, Flash!NeverStuckFlashing
  <2> QED BY <1>2, <2>1, FlashWindowsApart DEF Flash!Observe, FlashWatches
<1>3. CASE Flash!Tap(t)
  <2>1. ASSUME NEW v \in Flash!Rows, row' = [row EXCEPT ![t] = v], UNCHANGED calls,
               v.flashing = row[t].flashing, v.hidden = row[t].hidden, v.gen = row[t].gen
        PROVE  Flash!IInv'
    <3>1. Flash!Windows' /\ Flash!Asked' /\ Flash!NeverStuckFlashing'
      BY <1>1, <1>3, <2>1 DEF Flash!Tap, Flash!journal, Flash!IInv, Flash!Windows, Flash!Asked, Flash!Inspecting,
            Flash!NeverStuckFlashing
    <3> QED BY <1>3, <2>1, <3>1, FlashWindowsApart DEF Flash!Tap, FlashWatches
  <2>3. CASE row[t].notice
    <3> DEFINE v == [row[t] EXCEPT !.notice = FALSE]
    <3>1. row' = [row EXCEPT ![t] = v] /\ UNCHANGED calls
      BY <1>1, <1>3, <2>3 DEF Flash!Tap, Flash!Windows
    <3>2. v \in Flash!Rows /\ v.flashing = row[t].flashing /\ v.hidden = row[t].hidden /\ v.gen = row[t].gen
      BY <1>1 DEF Flash!Rows
    <3> QED BY <2>1, <3>1, <3>2
  <2>4. CASE ~row[t].notice /\ row[t].armed = Flash!None
    <3> DEFINE v == [row[t] EXCEPT !.armed = row[t].latest]
    <3>1. row' = [row EXCEPT ![t] = v] /\ UNCHANGED calls
      BY <1>1, <1>3, <2>4 DEF Flash!Tap, Flash!Windows
    <3>2. v \in Flash!Rows /\ v.flashing = row[t].flashing /\ v.hidden = row[t].hidden /\ v.gen = row[t].gen
      BY <1>1 DEF Flash!Rows
    <3> QED BY <2>1, <3>1, <3>2
  <2>2. CASE ~row[t].notice /\ row[t].armed # Flash!None
    <3> DEFINE e == [Flash!Call(t, "submit") EXCEPT !.target = Flash!Confirmed(t), !.status = row[t].armed]
    <3>1. /\ e \in Flash!CallType /\ e.t = t /\ e.gen = row[t].gen /\ e.kind = "submit"
          /\ e.target = row[t].armed /\ e.status = row[t].armed /\ row[t].armed \in Revs
      BY <1>1, <2>2, FlashInstance DEF Flash!Call, Flash!Confirmed, Flash!CallType, Flash!Kinds, Flash!Rows,
            Flash!FlashAssumption, Flash!Cli
    <3>2. calls' = calls \cup {e} /\ UNCHANGED owner /\ UNCHANGED jobs
          /\ row' = [row EXCEPT ![t].armed = Flash!None, ![t].flashing = TRUE]
      BY <1>3, <2>2 DEF Flash!StartFlash, Flash!Tap, Flash!journal
    <3>3. Flash!Windows'
      BY <1>1, <1>3, <3>1, <3>2 DEF Flash!Tap, Flash!Windows, Flash!Rows
    <3>4. Flash!Asked'
      BY <3>1, <3>2 DEF Flash!IInv, Flash!Asked, Flash!Inspecting
    <3>5. Flash!NeverStuckFlashing'
      BY <1>1, <3>1, <3>2 DEF Flash!IInv, Flash!NeverStuckFlashing, Flash!Rows
    <3> QED BY <1>3, <3>3, <3>4, <3>5, FlashWindowsApart DEF Flash!Tap, FlashWatches
  <2> QED BY <1>1, <2>3, <2>4, <2>2 DEF Flash!Rows
<1>4. CASE Flash!ArmTimeout(t)
  <2>1. Flash!Windows' /\ Flash!Asked' /\ Flash!NeverStuckFlashing'
    BY <1>1, <1>4 DEF Flash!ArmTimeout, Flash!journal, Flash!worker, Flash!IInv, Flash!Windows, Flash!Rows,
          Flash!Asked, Flash!Inspecting, Flash!NeverStuckFlashing
  <2> QED BY <1>4, <2>1, FlashWindowsApart DEF Flash!ArmTimeout, FlashWatches
<1>5. CASE Flash!Visibility(t)
  <2> DEFINE e == [Flash!Call(t, "inspect") EXCEPT !.gen = @ + 1]
  <2>1. e \in Flash!CallType /\ e.t = t /\ e.gen = row[t].gen + 1 /\ e.kind = "inspect"
    BY <1>1, FlashInstance DEF Flash!Call, Flash!CallType, Flash!Kinds, Flash!Rows, Flash!FlashAssumption, Flash!Cli
  <2>2. /\ row' = [row EXCEPT ![t].hidden = ~@, ![t].gen = @ + 1, ![t].armed = IF row[t].hidden THEN @ ELSE Flash!None]
        /\ calls' = IF row[t].hidden THEN calls \cup {e} ELSE calls
        /\ UNCHANGED <<Flash!journal, Flash!worker, latest, prompts>>
    BY <1>5 DEF Flash!Visibility
  <2>3. Flash!Windows'
    BY <1>1, <2>1, <2>2 DEF Flash!Windows, Flash!Rows
  <2>4. Flash!Asked'
    BY <2>1, <2>2 DEF Flash!IInv, Flash!Asked, Flash!Inspecting, Flash!journal
  <2>5. Flash!NeverStuckFlashing'
    BY <1>1, <2>1, <2>2 DEF Flash!IInv, Flash!NeverStuckFlashing, Flash!Rows
  <2> QED BY <2>2, <2>3, <2>4, <2>5, FlashWindowsApart DEF FlashWatches
<1> QED BY <1>2, <1>3, <1>4, <1>5

LEMMA FlashTickKeeps == ASSUME Flash!IInv, NEW c \in calls, Flash!Tick(c) PROVE Flash!IInv'
<1> DEFINE e == Flash!Call(c.t, "inspect")
<1>1. c.t \in Terms /\ row \in [Terms -> Flash!Rows] /\ calls \subseteq Flash!CallType /\ row[c.t] \in Flash!Rows
  BY DEF Flash!Tick, Flash!IInv, Flash!Asked, Flash!Windows
<1>2. e \in Flash!CallType /\ e.t = c.t /\ e.gen = row[c.t].gen /\ e.kind = "inspect"
  BY <1>1, FlashInstance DEF Flash!Call, Flash!CallType, Flash!Kinds, Flash!Rows, Flash!FlashAssumption, Flash!Cli
<1>3. /\ calls' = (calls \ {c}) \cup (IF c.gen = row[c.t].gen /\ ~row[c.t].hidden THEN {e} ELSE {})
      /\ UNCHANGED <<Flash!journal, Flash!worker, row, latest, prompts>>
  BY DEF Flash!Tick
<1>4. Flash!Windows' /\ Flash!Asked'
  BY <1>1, <1>2, <1>3 DEF Flash!IInv, Flash!Windows, Flash!Asked, Flash!Inspecting, Flash!journal
<1>5. Flash!NeverStuckFlashing'
  BY <1>1, <1>2, <1>3 DEF Flash!IInv, Flash!NeverStuckFlashing
<1> QED BY <1>3, <1>4, <1>5, FlashWindowsApart DEF FlashWatches

LEMMA FlashJobStatusKeeps == ASSUME Flash!IInv, NEW c \in calls, Flash!JobStatus(c) PROVE Flash!IInv'
<1> DEFINE e == Flash!Call(c.t, "tick")
           busy == c.status \in {"pending", "running"}
<1>1. c.t \in Terms /\ row \in [Terms -> Flash!Rows] /\ calls \subseteq Flash!CallType /\ row[c.t] \in Flash!Rows
  BY DEF Flash!JobStatus, Flash!IInv, Flash!Asked, Flash!Windows
<1>2. e \in Flash!CallType /\ e.t = c.t /\ e.gen = row[c.t].gen /\ e.kind = "tick"
  BY <1>1, FlashInstance DEF Flash!Call, Flash!CallType, Flash!Kinds, Flash!Rows, Flash!FlashAssumption, Flash!Cli
<1>3. UNCHANGED <<Flash!journal, Flash!worker, latest, prompts>>
  BY DEF Flash!JobStatus
<1>4. CASE c.gen # row[c.t].gen
  <2>1. UNCHANGED row /\ calls' = calls \ {c}
    BY <1>4 DEF Flash!JobStatus
  <2>2. Flash!Windows' /\ Flash!Asked' /\ Flash!NeverStuckFlashing'
    BY <1>3, <1>4, <2>1 DEF Flash!IInv, Flash!Windows, Flash!Asked, Flash!Inspecting, Flash!journal,
          Flash!NeverStuckFlashing
  <2> QED BY <1>3, <2>2, FlashWindowsApart DEF FlashWatches
<1>5. CASE c.gen = row[c.t].gen
  <2> DEFINE n == row[c.t].notice \/ c.status \in {"error", "uncertain"} \/ (c.status = "succeeded" /\ row[c.t].flashing)
             w == [row[c.t] EXCEPT !.flashing = busy, !.notice = n]
  <2>1. /\ row' = [row EXCEPT ![c.t] = w]
        /\ calls' = (calls \ {c}) \cup (IF busy \/ c.status = "error" THEN {e} ELSE {})
    BY <1>1, <1>5 DEF Flash!JobStatus
  <2>0. busy \in BOOLEAN /\ n \in BOOLEAN
    BY <1>1 DEF Flash!Rows
  <2> HIDE DEF n, busy
  <2>2. w \in Flash!Rows /\ w.flashing = busy /\ w.hidden = row[c.t].hidden /\ w.gen = row[c.t].gen
    BY <1>1, <2>0 DEF Flash!Rows
  <2> HIDE DEF w
  <2>3. Flash!Windows' /\ Flash!Asked'
    BY <1>1, <1>2, <1>3, <2>1, <2>2 DEF Flash!IInv, Flash!Windows, Flash!Asked, Flash!Inspecting, Flash!journal
  <2>4. Flash!NeverStuckFlashing'
    <3> SUFFICES ASSUME NEW t \in Terms, row'[t].flashing /\ ~row'[t].hidden
                 PROVE  \E d \in calls' : d.t = t /\ d.gen = row'[t].gen
      BY DEF Flash!NeverStuckFlashing
    <3>1. CASE t = c.t
      BY <1>1, <1>2, <2>1, <2>2, <3>1
    <3>2. CASE t # c.t
      BY <1>1, <2>1, <3>2 DEF Flash!IInv, Flash!NeverStuckFlashing
    <3> QED BY <3>1, <3>2
  <2> QED BY <1>3, <2>3, <2>4, FlashWindowsApart DEF FlashWatches
<1> QED BY <1>4, <1>5

LEMMA FlashStatusKeeps == ASSUME Flash!IInv, Flash!Status PROVE Flash!IInv'
<1> DEFINE e == Flash!Call(Flash!Cli, "inspect")
<1>1. e \in Flash!CallType /\ e.kind = "inspect"
  BY DEF Flash!Call, Flash!CallType, Flash!Kinds, Flash!Cli
<1>2. calls' = calls \cup {e} /\ UNCHANGED <<Flash!journal, Flash!worker, row, latest, prompts>>
  BY DEF Flash!Status
<1>3. Flash!Windows' /\ Flash!Asked' /\ Flash!NeverStuckFlashing'
  BY <1>1, <1>2 DEF Flash!IInv, Flash!Windows, Flash!Asked, Flash!Inspecting, Flash!journal, Flash!NeverStuckFlashing
<1> QED BY <1>2, <1>3, FlashWindowsApart DEF FlashWatches

LEMMA FlashReleaseKeeps == ASSUME Flash!IInv, NEW v \in Revs, Flash!Release(v) PROVE Flash!IInv'
<1>1. Flash!Windows' /\ Flash!Asked' /\ Flash!NeverStuckFlashing'
  BY DEF Flash!Release, Flash!IInv, Flash!Windows, Flash!Asked, Flash!Inspecting, Flash!journal,
        Flash!NeverStuckFlashing
<1> QED BY <1>1, FlashWindowsApart DEF Flash!Release, FlashWatches

(***************************************************************************)
(* The journal: a request is accepted, and the state of a job moves.       *)
(***************************************************************************)
FlashGrown == /\ Flash!Journal' /\ Flash!NeverReplayed' /\ Flash!ReviewedFirst' /\ Flash!OnlyTheSerialCounts'
         /\ Len(jobs') = Len(jobs) + 1 /\ \A j \in DOMAIN jobs : jobs'[j] = jobs[j]
LEMMA FlashAcceptGrows ==
  ASSUME Flash!IInv, NEW c \in calls, c.kind = "submit", Flash!Accept(c), UNCHANGED <<Flash!worker, owner>>
  PROVE  FlashGrown
<1> DEFINE x == [target |-> c.target, state |-> "pending", old |-> FALSE]
<1>1. x \in Flash!Job /\ x.target = c.status /\ x.state = "pending" /\ c.status \in Revs
  BY DEF Flash!IInv, Flash!Asked, Flash!Job, Flash!States
<1>2. jobs \in Seq(Flash!Job) /\ prompts \in Seq(Revs) /\ Len(prompts) = Len(jobs) /\ Len(jobs) < MaxJobs
  BY DEF Flash!IInv, Flash!Journal, Flash!Accept
<1>3. jobs' = Append(jobs, x) /\ prompts' = Append(prompts, c.status)
  BY DEF Flash!Accept
<1> HIDE DEF x
<1>4. /\ jobs' \in Seq(Flash!Job) /\ Len(jobs') = Len(jobs) + 1 /\ jobs'[Len(jobs) + 1] = x
      /\ \A j \in DOMAIN jobs : jobs'[j] = jobs[j]
  BY <1>1, <1>2, <1>3
<1>5. /\ prompts' \in Seq(Revs) /\ Len(prompts') = Len(jobs) + 1 /\ prompts'[Len(jobs) + 1] = c.status
      /\ \A j \in DOMAIN jobs : prompts'[j] = prompts[j]
  BY <1>1, <1>2, <1>3
<1>6. DOMAIN jobs' = 1..(Len(jobs) + 1) /\ DOMAIN jobs = 1..Len(jobs) /\ Len(jobs) \in Nat
  BY <1>2, <1>4
<1>7. Len(jobs) + 1 \in Flash!Ids /\ Len(jobs) + 1 \notin DOMAIN jobs
  BY <1>2, <1>6, FlashInstance DEF Flash!Ids, Flash!FlashAssumption
<1>8. zapps[Len(jobs) + 1] = 0
  BY <1>7 DEF Flash!IInv, Flash!Owned, Flash!Workers
<1>9. Flash!Journal'
  BY <1>2, <1>4, <1>5, FlashInstance DEF Flash!IInv, Flash!Journal, Flash!FlashAssumption
<1>10. Flash!NeverReplayed'
  BY <1>1, <1>4, <1>5, <1>6, <1>8 DEF Flash!IInv, Flash!NeverReplayed, Flash!worker
<1>11. Flash!ReviewedFirst'
  BY <1>4, <1>6 DEF Flash!Accept, Flash!Resolved, Flash!ReviewedFirst
<1>12. Flash!OnlyTheSerialCounts'
  BY <1>1, <1>4, <1>6 DEF Flash!IInv, Flash!OnlyTheSerialCounts, Flash!worker
<1> QED BY <1>4, <1>9, <1>10, <1>11, <1>12 DEF FlashGrown

LEMMA FlashStateMoves ==
  ASSUME Flash!IInv, NEW j \in DOMAIN jobs, NEW s \in Flash!States,
         jobs' = [jobs EXCEPT ![j].state = s], UNCHANGED <<prompts, zapps, gens>>, proven \subseteq proven',
         owner' \in {Flash!Free, Flash!Inspector} \cup Flash!Ids,
         zapps[j] > 0 => s # "pending", j < Len(jobs) => s \notin Flash!Unresolved, s = "succeeded" => j \in proven'
  PROVE  /\ Flash!Journal' /\ Flash!NeverReplayed' /\ Flash!ReviewedFirst' /\ Flash!OnlyTheSerialCounts'
         /\ DOMAIN jobs' = DOMAIN jobs /\ Len(jobs') = Len(jobs)
         /\ jobs'[j].state = s /\ jobs'[j].target = jobs[j].target
         /\ \A i \in DOMAIN jobs : i # j => jobs'[i] = jobs[i]
<1> DEFINE x == [jobs[j] EXCEPT !.state = s]
<1>1. jobs \in Seq(Flash!Job) /\ jobs[j] \in Flash!Job /\ DOMAIN jobs = 1..Len(jobs) /\ Len(jobs) \in Nat
  BY DEF Flash!IInv, Flash!Journal
<1>2. x \in Flash!Job /\ x.state = s /\ x.target = jobs[j].target
  BY <1>1 DEF Flash!Job
<1>3. jobs' = [jobs EXCEPT ![j] = x]
  BY <1>1
<1> HIDE DEF x
<1>4. /\ jobs' \in Seq(Flash!Job) /\ Len(jobs') = Len(jobs) /\ DOMAIN jobs' = DOMAIN jobs /\ jobs'[j] = x
      /\ \A i \in DOMAIN jobs : i # j => jobs'[i] = jobs[i]
  BY <1>1, <1>2, <1>3
<1>5. Flash!Journal'
  BY <1>4 DEF Flash!IInv, Flash!Journal
<1>6. Flash!NeverReplayed'
  BY <1>2, <1>4 DEF Flash!IInv, Flash!NeverReplayed
<1>7. Flash!ReviewedFirst'
  BY <1>2, <1>4 DEF Flash!IInv, Flash!ReviewedFirst
<1>8. Flash!OnlyTheSerialCounts'
  BY <1>2, <1>4 DEF Flash!IInv, Flash!OnlyTheSerialCounts
<1> QED BY <1>2, <1>4, <1>5, <1>6, <1>7, <1>8

\* What is left to show of a step that only concerns the journal.
LEMMA FlashJournalApart ==
  ASSUME Flash!IInv, UNCHANGED <<board, image, archive, gens, row, latest>>,
         Flash!Journal', Flash!NeverReplayed', Flash!ReviewedFirst', Flash!OnlyTheSerialCounts',
         Flash!Workers', Flash!Windows', Flash!Asked', Flash!Owned', Flash!NeverStuckFlashing'
  PROVE  Flash!IInv'
BY DEF Flash!IInv, Flash!Board

LEMMA FlashBecomes ==
  ASSUME Flash!IInv, NEW c \in calls, NEW kind \in Flash!Kinds, NEW status \in FlashStatuses, NEW n \in Nat,
         calls' = (calls \ {c}) \cup {[c EXCEPT !.kind = kind, !.status = status, !.job = n]}, UNCHANGED <<row, latest>>
  PROVE  Flash!Windows' /\ Flash!NeverStuckFlashing'
<1> DEFINE e == [c EXCEPT !.kind = kind, !.status = status, !.job = n]
<1>1. e \in Flash!CallType /\ e.t = c.t /\ e.gen = c.gen
  BY FlashBecoming DEF Flash!IInv
<1> HIDE DEF e
<1>2. Flash!Windows'
  BY <1>1 DEF Flash!IInv, Flash!Windows, e
<1>3. Flash!NeverStuckFlashing'
  <2>1. calls' = (calls \ {c}) \cup {e}
    BY DEF e
  <2> QED BY <1>1, <2>1, FlashHeard DEF Flash!IInv
<1> QED BY <1>2, <1>3
LEMMA FlashReplies ==
  ASSUME Flash!IInv, NEW c \in calls, NEW status \in FlashStatuses, Flash!Reply(c, status), UNCHANGED <<row, latest>>,
         DOMAIN jobs \subseteq DOMAIN jobs', c.kind # "inspecting" => UNCHANGED owner
  PROVE  Flash!Windows' /\ Flash!NeverStuckFlashing' /\ Flash!Asked'
<1>1. CASE c.t = Flash!Cli
  <2>1. c.t \notin Terms /\ calls' = calls \ {c}
    BY <1>1, FlashInstance DEF Flash!Reply, Flash!FlashAssumption, Flash!Cli
  <2>2. Flash!Windows' /\ Flash!Asked'
    BY <2>1 DEF Flash!IInv, Flash!Windows, Flash!Asked, Flash!Inspecting
  <2>3. Flash!NeverStuckFlashing'
    BY <2>1 DEF Flash!IInv, Flash!NeverStuckFlashing
  <2> QED BY <2>2, <2>3
<1>2. CASE c.t # Flash!Cli
  <2> DEFINE e == [c EXCEPT !.kind = "status", !.status = status, !.job = 0]
  <2>1. calls' = (calls \ {c}) \cup {e} /\ "status" \in Flash!Kinds
    BY <1>2 DEF Flash!Reply, Flash!Become, Flash!Kinds
  <2>2. e \in Flash!CallType /\ e.kind = "status" /\ e.t = c.t /\ c.t \in Terms
    BY <1>2, <2>1, FlashBecoming DEF Flash!IInv, Flash!Windows, Flash!CallType
  <2>3. Flash!Asked'
    BY <2>1, <2>2 DEF Flash!IInv, Flash!Asked, Flash!Inspecting
  <2> QED BY <2>1, <2>3, FlashBecomes
<1> QED BY <1>1, <1>2

\* A job that is added is no worker's yet.
LEMMA FlashOwnedApart ==
  ASSUME Flash!IInv, UNCHANGED <<Flash!worker, owner>>, DOMAIN jobs \subseteq DOMAIN jobs', \A j \in DOMAIN jobs : jobs'[j] = jobs[j]
  PROVE  Flash!Workers' /\ Flash!Owned'
<1>1. \A j \in Flash!Ids : job[j] \in Flash!AtBoard \cup Flash!Flashing => j \in DOMAIN jobs
  BY DEF Flash!IInv, Flash!Owned, Flash!AtBoard, Flash!Flashing, Flash!None
<1>2. UNCHANGED <<job, before, verdict, zapps, proven>>
  BY DEF Flash!worker
<1>3. Flash!Workers'
  BY <1>2 DEF Flash!IInv, Flash!Workers
<1>4. Flash!Owned'
  BY <1>1, <1>2 DEF Flash!IInv, Flash!Owned
<1> QED BY <1>3, <1>4

LEMMA FlashSubmitKeeps == ASSUME Flash!IInv, NEW c \in calls, Flash!Submit(c) PROVE Flash!IInv'
<1>1. /\ c.kind = "submit" /\ UNCHANGED <<owner, Flash!worker, row, latest>>
      /\ c \in Flash!CallType /\ Len(jobs) \in Nat /\ DOMAIN jobs = 1..Len(jobs)
  BY DEF Flash!Submit, Flash!IInv, Flash!Windows, Flash!Journal
<1>2. CASE Flash!Accept(c) /\ calls' = (calls \ {c}) \cup {[c EXCEPT !.kind = "spawn", !.status = Flash!None, !.job = Len(jobs) + 1]}
  <2> DEFINE e == [c EXCEPT !.kind = "spawn", !.status = Flash!None, !.job = Len(jobs) + 1]
  <2>1. FlashGrown
    BY <1>1, <1>2, FlashAcceptGrows
  <2>2. "spawn" \in Flash!Kinds /\ Flash!None \in FlashStatuses /\ Len(jobs) + 1 \in Nat
    BY <1>1 DEF Flash!Kinds, FlashStatuses
  <2>3. e.t = c.t /\ e.kind = "spawn" /\ e.job = Len(jobs) + 1 /\ c.t \in Terms
    BY <1>1 DEF Flash!IInv, Flash!Asked, Flash!CallType
  <2>4. Flash!Windows' /\ Flash!NeverStuckFlashing'
    BY <1>1, <1>2, <2>2, FlashBecomes
  <2>5. DOMAIN jobs' = 1..(Len(jobs) + 1)
    BY <2>1 DEF FlashGrown, Flash!Journal
  <2> HIDE DEF e
  <2>6. Flash!Asked'
    <3>1. calls' = (calls \ {c}) \cup {e}
      BY <1>2 DEF e
    <3> QED BY <1>1, <2>3, <2>5, <3>1 DEF Flash!IInv, Flash!Asked, Flash!Inspecting
  <2>7. Flash!Workers' /\ Flash!Owned'
    BY <1>1, <2>1, <2>5, FlashOwnedApart DEF FlashGrown
  <2> QED BY <1>1, <2>1, <2>4, <2>6, <2>7, FlashJournalApart DEF FlashGrown, Flash!worker
<1>3. CASE Flash!Reply(c, "error") /\ (Flash!Accept(c) \/ UNCHANGED <<jobs, prompts>>)
  <2>1. "error" \in FlashStatuses
    BY DEF FlashStatuses
  <2>2. CASE Flash!Accept(c)
    <3>1. FlashGrown
      BY <1>1, <2>2, FlashAcceptGrows
    <3>2. DOMAIN jobs' = 1..(Len(jobs) + 1)
      BY <3>1 DEF FlashGrown, Flash!Journal
    <3>3. Flash!Windows' /\ Flash!NeverStuckFlashing' /\ Flash!Asked'
      BY <1>1, <1>3, <2>1, <3>2, FlashReplies
    <3>4. Flash!Workers' /\ Flash!Owned'
      BY <1>1, <3>1, <3>2, FlashOwnedApart DEF FlashGrown
    <3> QED BY <1>1, <3>1, <3>3, <3>4, FlashJournalApart DEF FlashGrown, Flash!worker
  <2>3. CASE UNCHANGED <<jobs, prompts>>
    <3>1. Flash!Windows' /\ Flash!NeverStuckFlashing' /\ Flash!Asked'
      BY <1>1, <1>3, <2>1, <2>3, FlashReplies
    <3> QED BY <1>1, <2>3, <3>1, FlashWindowsApart DEF FlashWatches, Flash!journal
  <2> QED BY <1>3, <2>2, <2>3
<1> QED BY <1>2, <1>3 DEF Flash!Submit

LEMMA FlashSpawnKeeps == ASSUME Flash!IInv, NEW c \in calls, Flash!Spawn(c) PROVE Flash!IInv'
<1> DEFINE j == c.job
<1>1. /\ c.kind = "spawn" /\ j \in DOMAIN jobs /\ c \in Flash!CallType
      /\ UNCHANGED <<owner, before, verdict, board, image, archive, gens, zapps, proven, row, latest, prompts>>
  BY DEF Flash!Spawn, Flash!IInv, Flash!Asked, Flash!Windows
<1>2. j \in Flash!Ids /\ Len(jobs) \in Nat /\ DOMAIN jobs = 1..Len(jobs)
  BY <1>1, FlashInstance DEF Flash!IInv, Flash!Journal, Flash!Ids, Flash!FlashAssumption
<1>3. CASE job' = [job EXCEPT ![j] = "starting"] /\ Flash!Become(c, "inspect", Flash!None) /\ UNCHANGED jobs
  <2> DEFINE e == [c EXCEPT !.kind = "inspect", !.status = Flash!None, !.job = 0]
  <2>1. "inspect" \in Flash!Kinds /\ Flash!None \in FlashStatuses /\ calls' = (calls \ {c}) \cup {e}
    BY <1>3 DEF Flash!Kinds, FlashStatuses, Flash!Become
  <2>2. e.kind = "inspect"
    BY <1>1 DEF Flash!CallType
  <2>3. Flash!Windows' /\ Flash!NeverStuckFlashing'
    BY <1>1, <2>1, FlashBecomes
  <2> HIDE DEF e
  <2>4. Flash!Asked'
    BY <1>1, <1>3, <2>1, <2>2 DEF Flash!IInv, Flash!Asked, Flash!Inspecting
  <2>5. Flash!Workers' /\ Flash!Owned'
    BY <1>1, <1>2, <1>3 DEF Flash!IInv, Flash!Workers, Flash!Owned, Flash!AtBoard, Flash!Flashing, Flash!None
  <2>6. Flash!Journal' /\ Flash!NeverReplayed' /\ Flash!ReviewedFirst' /\ Flash!OnlyTheSerialCounts'
    BY <1>1, <1>3 DEF Flash!IInv, Flash!Journal, Flash!NeverReplayed, Flash!ReviewedFirst, Flash!OnlyTheSerialCounts
  <2> QED BY <1>1, <2>3, <2>4, <2>5, <2>6, FlashJournalApart
<1>4. CASE Flash!Reply(c, "error") /\ UNCHANGED job /\ (UNCHANGED jobs \/ jobs' = Flash!Moved(j, "pending", "discarded"))
  <2>1. CASE UNCHANGED jobs
    <3>1. Flash!Windows' /\ Flash!NeverStuckFlashing' /\ Flash!Asked'
      BY <1>1, <1>4, <2>1, FlashReplies DEF FlashStatuses
    <3> QED BY <1>1, <1>4, <2>1, <3>1, FlashWindowsApart DEF FlashWatches, Flash!journal, Flash!worker
  <2>2. CASE jobs' = [jobs EXCEPT ![j].state = "discarded"] /\ jobs[j].state = "pending"
    <3>1. /\ Flash!Journal' /\ Flash!NeverReplayed' /\ Flash!ReviewedFirst' /\ Flash!OnlyTheSerialCounts'
          /\ DOMAIN jobs' = DOMAIN jobs /\ \A i \in DOMAIN jobs : i # j => jobs'[i] = jobs[i]
      BY <1>1, <2>2, FlashStateMoves DEF Flash!States, Flash!Unresolved, Flash!IInv, Flash!Journal
    <3>2. Flash!Windows' /\ Flash!NeverStuckFlashing' /\ Flash!Asked'
      BY <1>1, <1>4, <3>1, FlashReplies DEF FlashStatuses
    <3>3. Flash!Workers' /\ Flash!Owned'
      BY <1>1, <1>4, <2>2, <3>1 DEF Flash!IInv, Flash!Workers, Flash!Owned, Flash!AtBoard, Flash!Flashing
    <3> QED BY <1>1, <3>1, <3>2, <3>3, FlashJournalApart
  <2> QED BY <1>4, <2>1, <2>2 DEF Flash!Moved
<1> QED BY <1>3, <1>4 DEF Flash!Spawn

LEMMA FlashInspectBeginKeeps == ASSUME Flash!IInv, NEW c \in calls, Flash!InspectBegin(c) PROVE Flash!IInv'
<1>1. c.kind = "inspect" /\ UNCHANGED <<jobs, Flash!worker, row, latest, prompts>> /\ c \in Flash!CallType
  BY DEF Flash!InspectBegin, Flash!IInv, Flash!Windows
<1>2. CASE owner = Flash!Free
  <2> DEFINE e == [c EXCEPT !.kind = "inspecting", !.status = Flash!None, !.job = 0]
  <2>1. "inspecting" \in Flash!Kinds /\ Flash!None \in FlashStatuses /\ owner' = Flash!Inspector /\ calls' = (calls \ {c}) \cup {e}
    BY <1>2 DEF Flash!InspectBegin, Flash!Kinds, FlashStatuses, Flash!Become
  <2>2. e.kind = "inspecting" /\ Flash!Free # Flash!Inspector /\ Flash!Free \notin Flash!Ids
    BY <1>1, FlashInstance DEF Flash!CallType, Flash!Free, Flash!Inspector, Flash!Ids, Flash!FlashAssumption
  <2>3. Flash!Windows' /\ Flash!NeverStuckFlashing'
    BY <1>1, <2>1, FlashBecomes
  <2> HIDE DEF e
  <2>4. Flash!Asked'
    BY <1>1, <1>2, <2>1, <2>2 DEF Flash!IInv, Flash!Asked, Flash!Inspecting
  <2>5. Flash!Workers' /\ Flash!Owned'
    BY <1>1, <1>2, <2>2 DEF Flash!IInv, Flash!Workers, Flash!Owned, Flash!worker
  <2>6. Flash!Journal' /\ Flash!NeverReplayed' /\ Flash!ReviewedFirst' /\ Flash!OnlyTheSerialCounts'
    BY <1>1, <2>1 DEF Flash!IInv, Flash!Journal, Flash!NeverReplayed, Flash!ReviewedFirst, Flash!OnlyTheSerialCounts,
          Flash!worker
  <2> QED BY <1>1, <2>3, <2>4, <2>5, <2>6, FlashJournalApart DEF Flash!worker
<1>3. CASE owner # Flash!Free
  <2> DEFINE e == [c EXCEPT !.kind = "looking", !.status = Flash!None, !.job = 0]
  <2>1. "looking" \in Flash!Kinds /\ Flash!None \in FlashStatuses /\ UNCHANGED owner /\ calls' = (calls \ {c}) \cup {e}
    BY <1>3 DEF Flash!InspectBegin, Flash!Kinds, FlashStatuses, Flash!Become
  <2>2. e.kind = "looking"
    BY <1>1 DEF Flash!CallType
  <2>3. Flash!Windows' /\ Flash!NeverStuckFlashing'
    BY <1>1, <2>1, FlashBecomes
  <2> HIDE DEF e
  <2>4. Flash!Asked'
    BY <1>1, <2>1, <2>2 DEF Flash!IInv, Flash!Asked, Flash!Inspecting
  <2> QED BY <1>1, <2>1, <2>3, <2>4, FlashWindowsApart DEF FlashWatches, Flash!journal
<1> QED BY <1>2, <1>3

\* While nobody or an inspector holds the lock, no worker is at the board.
LEMMA FlashNobodyAtBoard == ASSUME Flash!IInv, owner \in {Flash!Free, Flash!Inspector} PROVE \A j \in Flash!Ids : job[j] \notin Flash!AtBoard
BY FlashInstance DEF Flash!IInv, Flash!Owned, Flash!Free, Flash!Inspector, Flash!Ids, Flash!FlashAssumption

LEMMA FlashJobIds == ASSUME Flash!IInv PROVE /\ jobs \in Seq(Flash!Job) /\ Len(jobs) \in Nat /\ DOMAIN jobs = 1..Len(jobs)
                                  /\ DOMAIN jobs \subseteq Flash!Ids /\ \A j \in DOMAIN jobs : jobs[j] \in Flash!Job
BY FlashInstance DEF Flash!IInv, Flash!Journal, Flash!Ids, Flash!FlashAssumption

\* A job that is called uncertain, or discarded, while no worker is at the board.
LEMMA FlashReviewed ==
  ASSUME Flash!IInv, NEW j \in DOMAIN jobs, NEW s \in {"uncertain", "discarded"}, owner \in {Flash!Free, Flash!Inspector},
         jobs' = [jobs EXCEPT ![j].state = s], j < Len(jobs) => s = "discarded",
         UNCHANGED <<Flash!worker, prompts>>, owner' \in {Flash!Free, Flash!Inspector}
  PROVE  /\ Flash!Journal' /\ Flash!NeverReplayed' /\ Flash!ReviewedFirst' /\ Flash!OnlyTheSerialCounts' /\ Flash!Workers' /\ Flash!Owned'
         /\ DOMAIN jobs' = DOMAIN jobs
<1>1. UNCHANGED <<job, before, verdict, zapps, proven, gens>>
  BY DEF Flash!worker
<1>2. s \in Flash!States /\ s # "pending" /\ s # "succeeded" /\ (j < Len(jobs) => s \notin Flash!Unresolved)
  BY DEF Flash!States, Flash!Unresolved
<1>3. /\ Flash!Journal' /\ Flash!NeverReplayed' /\ Flash!ReviewedFirst' /\ Flash!OnlyTheSerialCounts'
      /\ DOMAIN jobs' = DOMAIN jobs /\ \A i \in DOMAIN jobs : i # j => jobs'[i] = jobs[i]
  BY <1>1, <1>2, FlashStateMoves
<1>4. Flash!Workers'
  BY <1>1 DEF Flash!IInv, Flash!Workers
<1>5. \A i \in Flash!Ids : job[i] \notin Flash!AtBoard /\ job[i] \notin Flash!Flashing
  BY FlashNobodyAtBoard DEF Flash!AtBoard, Flash!Flashing
<1>6. Flash!Owned'
  BY <1>1, <1>3, <1>5 DEF Flash!IInv, Flash!Owned
<1> QED BY <1>3, <1>4, <1>6

LEMMA FlashInspectEndKeeps == ASSUME Flash!IInv, NEW c \in calls, Flash!InspectEnd(c) PROVE Flash!IInv'
<1> DEFINE j == Len(jobs)
<1>1. /\ c.kind \in {"inspecting", "looking"} /\ UNCHANGED <<Flash!worker, row, latest, prompts>> /\ c \in Flash!CallType
      /\ c.kind = "inspecting" => owner = Flash!Inspector
      /\ owner' = IF c.kind = "inspecting" THEN Flash!Free ELSE owner
  BY DEF Flash!InspectEnd, Flash!IInv, Flash!Windows, Flash!Asked
<1>2. /\ jobs \in Seq(Flash!Job) /\ j \in Nat /\ DOMAIN jobs = 1..j /\ DOMAIN jobs \subseteq Flash!Ids
      /\ \A i \in DOMAIN jobs : jobs[i] \in Flash!Job
  BY FlashJobIds
<1>3. UNCHANGED <<job, before, verdict, zapps, proven, gens, board, image, archive>>
  BY <1>1 DEF Flash!worker
<1>4. CASE UNCHANGED jobs
  <2>1. Flash!Owned'
    <3>1. CASE c.kind = "inspecting"
      <4>1. \A i \in Flash!Ids : job[i] \notin Flash!AtBoard
        BY <1>1, <3>1, FlashNobodyAtBoard
      <4> QED BY <1>3, <1>4, <4>1 DEF Flash!IInv, Flash!Owned
    <3>2. CASE c.kind # "inspecting"
      BY <1>1, <1>3, <1>4, <3>2 DEF Flash!IInv, Flash!Owned
    <3> QED BY <3>1, <3>2
  <2>2. Flash!Journal' /\ Flash!NeverReplayed' /\ Flash!ReviewedFirst' /\ Flash!OnlyTheSerialCounts' /\ Flash!Workers'
    BY <1>1, <1>3, <1>4 DEF Flash!IInv, Flash!Journal, Flash!NeverReplayed, Flash!ReviewedFirst,
          Flash!OnlyTheSerialCounts, Flash!Workers
  <2>3. PICK s \in FlashStatuses : Flash!Reply(c, s)
    <3>1. CASE j = 0
      BY <3>1 DEF Flash!InspectEnd, FlashStatuses
    <3>2. CASE j # 0
      <4>1. jobs[j].state \in FlashStatuses
        BY <1>2, <3>2 DEF Flash!Job, FlashStatuses
      <4> QED BY <1>4, <3>2, <4>1 DEF Flash!InspectEnd
    <3> QED BY <3>1, <3>2
  <2>4. Flash!Windows' /\ Flash!NeverStuckFlashing' /\ Flash!Asked'
    BY <1>1, <1>4, <2>3, FlashReplies
  <2> QED BY <1>1, <1>3, <2>1, <2>2, <2>4, FlashJournalApart
<1>5. CASE j # 0 /\ Flash!Orphaned(c, j) /\ jobs' = [jobs EXCEPT ![j].state = "uncertain"]
  <2>1. c.kind = "inspecting" /\ j \in DOMAIN jobs /\ owner' = Flash!Free /\ owner = Flash!Inspector
    BY <1>1, <1>2, <1>5 DEF Flash!Orphaned
  <2>2. /\ Flash!Journal' /\ Flash!NeverReplayed' /\ Flash!ReviewedFirst' /\ Flash!OnlyTheSerialCounts' /\ Flash!Workers' /\ Flash!Owned'
        /\ DOMAIN jobs' = DOMAIN jobs
    <3>1. /\ ~(j < Len(jobs)) /\ UNCHANGED <<Flash!worker, prompts>> /\ "uncertain" \in {"uncertain", "discarded"}
          /\ owner \in {Flash!Free, Flash!Inspector} /\ owner' \in {Flash!Free, Flash!Inspector}
      BY <1>1, <1>2, <2>1
    <3> QED BY <1>5, <2>1, <3>1, FlashReviewed
  <2>3. jobs'[j].state = "uncertain"
    BY <1>2, <1>5, <2>1 DEF Flash!Job
  <2>4. Flash!Reply(c, "uncertain")
    BY <1>5, <2>3 DEF Flash!InspectEnd
  <2>5. Flash!Windows' /\ Flash!NeverStuckFlashing' /\ Flash!Asked'
    BY <1>1, <2>1, <2>2, <2>4, FlashReplies DEF FlashStatuses, Flash!States
  <2> QED BY <1>1, <1>3, <2>2, <2>5, FlashJournalApart
<1> QED BY <1>4, <1>5 DEF Flash!InspectEnd

LEMMA FlashDiscardKeeps == ASSUME Flash!IInv, NEW j \in Flash!Ids, Flash!Discard(j) PROVE Flash!IInv'
<1>1. /\ j \in DOMAIN jobs /\ owner = Flash!Free /\ jobs' = [jobs EXCEPT ![j].state = "discarded"]
      /\ UNCHANGED <<owner, Flash!worker, Flash!ui>>
  BY DEF Flash!Discard
<1>2. UNCHANGED <<board, image, archive, gens, row, latest, calls, prompts>>
  BY <1>1 DEF Flash!worker, Flash!ui
<1>3. /\ Flash!Journal' /\ Flash!NeverReplayed' /\ Flash!ReviewedFirst' /\ Flash!OnlyTheSerialCounts' /\ Flash!Workers' /\ Flash!Owned'
      /\ DOMAIN jobs' = DOMAIN jobs
  BY <1>1, <1>2, FlashReviewed
<1>4. Flash!Windows' /\ Flash!Asked' /\ Flash!NeverStuckFlashing'
  BY <1>1, <1>2, <1>3 DEF Flash!IInv, Flash!Windows, Flash!Asked, Flash!Inspecting, Flash!NeverStuckFlashing
<1> QED BY <1>2, <1>3, <1>4, FlashJournalApart

LEMMA FlashGraceKeeps == ASSUME Flash!IInv, Flash!GracePasses PROVE Flash!IInv'
<1> DEFINE n == Len(jobs)
           x == [jobs[n] EXCEPT !.old = TRUE]
<1>1. /\ jobs \in Seq(Flash!Job) /\ n \in Nat /\ DOMAIN jobs = 1..n /\ DOMAIN jobs \subseteq Flash!Ids
      /\ \A i \in DOMAIN jobs : jobs[i] \in Flash!Job
  BY FlashJobIds
<1>2. /\ jobs # <<>> /\ jobs' = [jobs EXCEPT ![n] = x] /\ UNCHANGED <<owner, Flash!worker, Flash!ui>>
      /\ UNCHANGED <<job, before, verdict, zapps, proven, gens, board, image, archive, row, latest, calls, prompts>>
  BY DEF Flash!GracePasses, Flash!worker, Flash!ui
<1>3. n \in DOMAIN jobs
  BY <1>1, <1>2
<1>4. x \in Flash!Job /\ x.state = jobs[n].state /\ x.target = jobs[n].target
  BY <1>1, <1>3 DEF Flash!Job
<1> HIDE DEF x
<1>5. /\ jobs' \in Seq(Flash!Job) /\ Len(jobs') = n /\ DOMAIN jobs' = DOMAIN jobs
      /\ \A j \in DOMAIN jobs : jobs'[j].state = jobs[j].state /\ jobs'[j].target = jobs[j].target
  BY <1>1, <1>2, <1>3, <1>4
<1>6. Flash!Journal' /\ Flash!NeverReplayed' /\ Flash!ReviewedFirst' /\ Flash!OnlyTheSerialCounts'
  BY <1>2, <1>5 DEF Flash!IInv, Flash!Journal, Flash!NeverReplayed, Flash!ReviewedFirst, Flash!OnlyTheSerialCounts
<1>7. Flash!Workers' /\ Flash!Windows' /\ Flash!Asked' /\ Flash!NeverStuckFlashing'
  BY <1>2, <1>5 DEF Flash!IInv, Flash!Workers, Flash!Windows, Flash!Asked, Flash!Inspecting, Flash!NeverStuckFlashing
<1>8. \A j \in Flash!Ids : job[j] \in Flash!AtBoard \cup Flash!Flashing => j \in DOMAIN jobs
  BY DEF Flash!IInv, Flash!Owned, Flash!AtBoard, Flash!Flashing, Flash!None
<1>9. Flash!Owned'
  BY <1>2, <1>5, <1>8 DEF Flash!IInv, Flash!Owned
<1> QED BY <1>2, <1>6, <1>7, <1>9, FlashJournalApart

(***************************************************************************)
(* The worker of a job.                                                    *)
(***************************************************************************)
\* A worker that is at the board has the newest job, which is running.
LEMMA FlashAtBoardHolds ==
  ASSUME Flash!IInv, NEW j \in Flash!Ids, job[j] \in Flash!AtBoard
  PROVE  j \in DOMAIN jobs /\ owner = j /\ jobs[j].state = "running" /\ jobs[j].target \in Revs
BY FlashJobIds DEF Flash!IInv, Flash!Owned, Flash!AtBoard, Flash!None, Flash!Job

\* The pipeline touches neither the journal nor the windows.
LEMMA FlashBoardApart ==
  ASSUME Flash!IInv, UNCHANGED <<Flash!journal, Flash!ui>>, Flash!Board', Flash!Workers', Flash!Owned',
         \A j \in DOMAIN jobs : zapps'[j] <= 1 /\ (zapps'[j] > 0 => jobs[j].state # "pending"),
         proven \subseteq proven', \A i \in DOMAIN gens' : gens'[i].of \in proven' /\ gens'[i].before # gens'[i].rev
  PROVE  Flash!IInv'
BY DEF Flash!journal, Flash!ui, Flash!IInv, Flash!Journal, Flash!Windows, Flash!Asked, Flash!Inspecting,
      Flash!NeverReplayed, Flash!ReviewedFirst, Flash!OnlyTheSerialCounts, Flash!NeverStuckFlashing

LEMMA FlashResolveKeeps == ASSUME Flash!IInv, NEW j \in Flash!Ids, Flash!Resolve(j) PROVE Flash!IInv'
<1>1. j \in DOMAIN jobs /\ owner = j /\ jobs[j].state = "running" /\ jobs[j].target \in Revs
  BY FlashAtBoardHolds DEF Flash!Resolve, Flash!AtBoard
<1>2. UNCHANGED <<Flash!journal, board, image, archive, gens, zapps, Flash!ui>> /\ UNCHANGED <<jobs, owner>> /\ job[j] = "resolve"
  BY DEF Flash!Resolve, Flash!journal
<1>3. Flash!Board'
  BY <1>2 DEF Flash!IInv, Flash!Board
<1>4. Flash!Workers' /\ proven \subseteq proven'
  BY <1>1, <1>2 DEF Flash!Resolve, Flash!Return, Flash!To, Flash!IInv, Flash!Workers, Flash!Board, Flash!AtBoard
<1>5. Flash!Owned'
  BY <1>1, <1>2, FlashInstance DEF Flash!Resolve, Flash!Return, Flash!To, Flash!IInv, Flash!Owned, Flash!Workers,
        Flash!Board, Flash!AtBoard, Flash!Flashing, Flash!Target, Flash!None, Flash!FlashAssumption
<1> QED BY <1>2, <1>3, <1>4, <1>5, FlashBoardApart DEF Flash!IInv, Flash!NeverReplayed, Flash!OnlyTheSerialCounts

LEMMA FlashDownloadKeeps == ASSUME Flash!IInv, NEW j \in Flash!Ids, Flash!Download(j) PROVE Flash!IInv'
<1>1. j \in DOMAIN jobs /\ owner = j /\ jobs[j].state = "running" /\ jobs[j].target \in Revs
  BY FlashAtBoardHolds DEF Flash!Download, Flash!AtBoard
<1>2. /\ UNCHANGED <<Flash!journal, before, board, image, gens, zapps, proven, Flash!ui>> /\ UNCHANGED <<jobs, owner>>
      /\ job[j] = "download"
  BY DEF Flash!Download, Flash!journal
<1>3. Flash!Board'
  BY <1>1, <1>2 DEF Flash!Download, Flash!Target, Flash!IInv, Flash!Board
<1>4. Flash!Workers'
  BY <1>1, <1>2 DEF Flash!Download, Flash!Return, Flash!To, Flash!IInv, Flash!Workers, Flash!AtBoard
<1>5. Flash!Owned'
  BY <1>1, <1>2 DEF Flash!Download, Flash!Return, Flash!To, Flash!IInv, Flash!Owned, Flash!Workers, Flash!AtBoard,
        Flash!Flashing, Flash!None
<1> QED BY <1>2, <1>3, <1>4, <1>5, FlashBoardApart DEF Flash!IInv, Flash!NeverReplayed, Flash!OnlyTheSerialCounts

LEMMA FlashZappWritesKeeps == ASSUME Flash!IInv, NEW j \in Flash!Ids, Flash!ZappWrites(j) PROVE Flash!IInv'
<1>1. j \in DOMAIN jobs /\ owner = j /\ jobs[j].state = "running" /\ jobs[j].target \in Revs
  BY FlashAtBoardHolds DEF Flash!ZappWrites, Flash!AtBoard
<1>2. /\ UNCHANGED <<Flash!journal, job, before, verdict, archive, gens, proven, Flash!ui>> /\ UNCHANGED <<jobs, owner>>
      /\ zapps[j] = 0 /\ zapps' = [zapps EXCEPT ![j] = @ + 1] /\ zapps \in [Flash!Ids -> Nat]
  BY DEF Flash!ZappWrites, Flash!journal, Flash!IInv, Flash!Workers
<1>3. Flash!Board'
  BY <1>1, <1>2, FlashInstance DEF Flash!ZappWrites, Flash!Target, Flash!IInv, Flash!Board, Flash!None,
        Flash!FlashAssumption
<1>4. Flash!Workers' /\ zapps'[j] = 1 /\ \A i \in Flash!Ids : i # j => zapps'[i] = zapps[i]
  BY <1>1, <1>2 DEF Flash!IInv, Flash!Workers
<1>5. Flash!Owned'
  BY <1>1, <1>2, <1>4 DEF Flash!IInv, Flash!Owned
<1>6. \A i \in DOMAIN jobs : zapps'[i] <= 1 /\ (zapps'[i] > 0 => jobs[i].state # "pending")
  BY <1>1, <1>4, FlashJobIds DEF Flash!IInv, Flash!NeverReplayed
<1> QED BY <1>2, <1>3, <1>4, <1>5, <1>6, FlashBoardApart DEF Flash!IInv, Flash!OnlyTheSerialCounts

LEMMA FlashZappEndsKeeps == ASSUME Flash!IInv, NEW j \in Flash!Ids, Flash!ZappEnds(j) PROVE Flash!IInv'
<1>1. j \in DOMAIN jobs /\ owner = j /\ jobs[j].state = "running" /\ jobs[j].target \in Revs
  BY FlashAtBoardHolds DEF Flash!ZappEnds, Flash!AtBoard
<1>2. /\ UNCHANGED <<Flash!journal, before, board, image, archive, gens, zapps, proven, Flash!ui>> /\ UNCHANGED <<jobs, owner>>
      /\ job[j] = "zapp"
  BY DEF Flash!ZappEnds, Flash!journal
<1>3. Flash!Board'
  BY <1>2 DEF Flash!IInv, Flash!Board
<1>4. Flash!Workers'
  BY <1>1, <1>2 DEF Flash!ZappEnds, Flash!Return, Flash!To, Flash!IInv, Flash!Workers, Flash!AtBoard
<1>5. Flash!Owned'
  BY <1>1, <1>2 DEF Flash!ZappEnds, Flash!Return, Flash!To, Flash!IInv, Flash!Owned, Flash!Workers, Flash!AtBoard,
        Flash!Flashing, Flash!None
<1> QED BY <1>2, <1>3, <1>4, <1>5, FlashBoardApart DEF Flash!IInv, Flash!NeverReplayed, Flash!OnlyTheSerialCounts

LEMMA FlashVerifyKeeps == ASSUME Flash!IInv, NEW j \in Flash!Ids, Flash!Verify(j) PROVE Flash!IInv'
<1>1. j \in DOMAIN jobs /\ owner = j /\ jobs[j].state = "running" /\ jobs[j].target \in Revs
  BY FlashAtBoardHolds DEF Flash!Verify, Flash!AtBoard
<1>2. /\ UNCHANGED <<Flash!journal, before, board, image, archive, gens, zapps, Flash!ui>> /\ UNCHANGED <<jobs, owner>>
      /\ job[j] = "verify"
  BY DEF Flash!Verify, Flash!journal
<1>3. Flash!Board'
  BY <1>2 DEF Flash!IInv, Flash!Board
<1>4. Flash!Workers' /\ proven \subseteq proven'
  BY <1>1, <1>2 DEF Flash!Verify, Flash!Return, Flash!To, Flash!IInv, Flash!Workers, Flash!AtBoard
<1>5. Flash!Owned'
  BY <1>1, <1>2 DEF Flash!Verify, Flash!Reported, Flash!Target, Flash!Return, Flash!To, Flash!IInv, Flash!Owned,
        Flash!Workers, Flash!AtBoard, Flash!Flashing, Flash!None
<1> QED BY <1>2, <1>3, <1>4, <1>5, FlashBoardApart DEF Flash!IInv, Flash!NeverReplayed, Flash!OnlyTheSerialCounts

LEMMA FlashRecordKeeps == ASSUME Flash!IInv, NEW j \in Flash!Ids, Flash!Record(j) PROVE Flash!IInv'
<1> DEFINE g == [rev |-> Flash!Target(j), before |-> before[j], of |-> j]
<1>1. /\ j \in DOMAIN jobs /\ owner = j /\ jobs[j].state = "running" /\ jobs[j].target \in Revs
      /\ before[j] \in Revs /\ before[j] # jobs[j].target /\ j \in proven
  BY FlashAtBoardHolds DEF Flash!Record, Flash!AtBoard, Flash!IInv, Flash!Owned, Flash!Flashing, Flash!Workers
<1>2. /\ UNCHANGED <<Flash!journal, before, board, image, archive, zapps, proven, Flash!ui>> /\ UNCHANGED <<jobs, owner>>
      /\ job[j] = "record" /\ (gens' = Append(gens, g) \/ UNCHANGED gens)
  BY DEF Flash!Record, Flash!journal
<1>3. /\ g \in [rev : Revs, before : Revs, of : Flash!Ids] /\ g.of \in proven /\ g.before # g.rev
      /\ gens \in Seq([rev : Revs, before : Revs, of : Flash!Ids])
  BY <1>1 DEF Flash!Target, Flash!IInv, Flash!Board
<1> HIDE DEF g
<1>4. Flash!Board'
  <2> DEFINE S == [rev : Revs, before : Revs, of : Flash!Ids]
  <2>1. gens \in Seq(S) /\ g \in S
    BY <1>3
  <2> HIDE DEF S
  <2>2. gens' \in Seq(S)
    BY <1>2, <2>1
  <2> QED BY <1>2, <2>2 DEF Flash!IInv, Flash!Board, S
<1>5. \A i \in DOMAIN gens' : gens'[i].of \in proven' /\ gens'[i].before # gens'[i].rev
  <2>1. CASE gens' = Append(gens, g)
    <3>1. DOMAIN gens' = 1..(Len(gens) + 1) /\ \A i \in 1..(Len(gens) + 1) : gens'[i] = g \/ (i \in DOMAIN gens /\ gens'[i] = gens[i])
      BY <1>3, <2>1
    <3> QED BY <1>2, <1>3, <3>1 DEF Flash!IInv, Flash!OnlyTheSerialCounts
  <2>2. CASE UNCHANGED gens
    BY <1>2, <2>2 DEF Flash!IInv, Flash!OnlyTheSerialCounts
  <2> QED BY <1>2, <2>1, <2>2
<1>6. Flash!Workers'
  BY <1>1, <1>2 DEF Flash!Record, Flash!Return, Flash!To, Flash!IInv, Flash!Workers, Flash!AtBoard
<1>7. Flash!Owned'
  BY <1>1, <1>2 DEF Flash!Record, Flash!Return, Flash!To, Flash!IInv, Flash!Owned, Flash!Workers, Flash!AtBoard,
        Flash!Flashing, Flash!None
<1> QED BY <1>2, <1>4, <1>5, <1>6, <1>7, FlashBoardApart DEF Flash!IInv, Flash!NeverReplayed

\* The windows look on while a worker moves its job.
LEMMA FlashWindowsLookOn ==
  ASSUME Flash!IInv, UNCHANGED <<row, latest, calls>>, DOMAIN jobs \subseteq DOMAIN jobs',
         (\E c \in calls : c.kind = "inspecting") => UNCHANGED owner
  PROVE  Flash!Windows' /\ Flash!Asked' /\ Flash!NeverStuckFlashing'
<1>1. Flash!Windows' /\ Flash!NeverStuckFlashing'
  BY DEF Flash!IInv, Flash!Windows, Flash!NeverStuckFlashing
<1>2. Flash!Asked'
  BY DEF Flash!IInv, Flash!Asked, Flash!Inspecting
<1> QED BY <1>1, <1>2

LEMMA FlashClaimKeeps == ASSUME Flash!IInv, NEW j \in Flash!Ids, Flash!Claim(j) PROVE Flash!IInv'
<1>1. /\ job[j] = "starting" /\ j \in DOMAIN jobs /\ job \in [Flash!Ids -> {Flash!None, "starting", "over"} \cup Flash!AtBoard]
      /\ UNCHANGED <<before, verdict, board, image, archive, gens, zapps, proven, Flash!ui>>
      /\ UNCHANGED <<row, latest, calls, prompts>>
  BY DEF Flash!Claim, Flash!IInv, Flash!Owned, Flash!None, Flash!ui, Flash!Workers
<1>2. CASE job' = [job EXCEPT ![j] = "over"] /\ UNCHANGED <<jobs, owner>>
  <2>1. Flash!Board' /\ Flash!Workers'
    BY <1>1, <1>2 DEF Flash!IInv, Flash!Board, Flash!Workers
  <2>2. Flash!Owned'
    BY <1>1, <1>2 DEF Flash!IInv, Flash!Owned, Flash!AtBoard, Flash!Flashing
  <2> QED BY <1>1, <1>2, <2>1, <2>2, FlashBoardApart DEF Flash!IInv, Flash!NeverReplayed, Flash!OnlyTheSerialCounts,
        Flash!journal
<1>3. CASE /\ owner = Flash!Free /\ jobs[j].state = "pending" /\ owner' = j
           /\ jobs' = [jobs EXCEPT ![j].state = "running"] /\ job' = [job EXCEPT ![j] = "resolve"]
  <2>1. ~(j < Len(jobs))
    BY <1>1, <1>3 DEF Flash!IInv, Flash!ReviewedFirst, Flash!Unresolved
  <2>2. /\ Flash!Journal' /\ Flash!NeverReplayed' /\ Flash!ReviewedFirst' /\ Flash!OnlyTheSerialCounts' /\ DOMAIN jobs' = DOMAIN jobs
        /\ jobs'[j].state = "running" /\ jobs'[j].target = jobs[j].target
        /\ \A i \in DOMAIN jobs : i # j => jobs'[i] = jobs[i]
    BY <1>1, <1>3, <2>1, FlashStateMoves DEF Flash!States
  <2>3. Flash!Board' /\ Flash!Workers'
    BY <1>1, <1>3 DEF Flash!IInv, Flash!Board, Flash!Workers, Flash!AtBoard
  <2>4. \A i \in Flash!Ids : job[i] \notin Flash!AtBoard /\ job[i] \notin Flash!Flashing
    BY <1>3, FlashNobodyAtBoard DEF Flash!AtBoard, Flash!Flashing
  <2>5. Flash!Owned'
    BY <1>1, <1>3, <2>2, <2>4 DEF Flash!IInv, Flash!Owned, Flash!AtBoard, Flash!Flashing
  <2>6. ~\E c \in calls : c.kind = "inspecting"
    BY <1>3, FlashInstance DEF Flash!IInv, Flash!Asked, Flash!Free, Flash!Inspector, Flash!FlashAssumption
  <2>7. Flash!Windows' /\ Flash!Asked' /\ Flash!NeverStuckFlashing'
    BY <1>1, <2>2, <2>6, FlashWindowsLookOn
  <2> QED BY <1>1, <2>2, <2>3, <2>5, <2>7, FlashJournalApart
<1> QED BY <1>2, <1>3 DEF Flash!Claim, Flash!Claimable, Flash!To

\* A worker that leaves the board gives the lock up.
LEMMA FlashLeaves ==
  ASSUME Flash!IInv, NEW j \in Flash!Ids, job[j] # Flash!None, job' = [job EXCEPT ![j] = "over"], Flash!Forget(j), UNCHANGED <<jobs, zapps, proven>>,
         UNCHANGED owner \/ owner = j
  PROVE  Flash!Workers' /\ Flash!Owned'
<1>1. Flash!Workers'
  BY DEF Flash!Forget, Flash!IInv, Flash!Workers, Flash!AtBoard
<1>2. \A i \in Flash!Ids : i # j /\ job[i] \in Flash!AtBoard => owner # j
  BY DEF Flash!IInv, Flash!Owned
<1>3. Flash!Owned'
  <2> SUFFICES ASSUME NEW i \in Flash!Ids
               PROVE  /\ job'[i] # Flash!None => i \in DOMAIN jobs
                      /\ job'[i] \in Flash!AtBoard => owner' = i /\ jobs[i].state = "running"
                      /\ job'[i] \in Flash!Flashing => before'[i] # Flash!None /\ before'[i] # jobs[i].target
                      /\ job'[i] = "record" \/ verdict'[i] = "ok" => i \in proven
                      /\ zapps[i] > 0 => i \in DOMAIN jobs
    BY DEF Flash!Owned
  <2>1. CASE i = j
    BY <2>1 DEF Flash!Forget, Flash!IInv, Flash!Owned, Flash!Workers, Flash!AtBoard, Flash!Flashing, Flash!None
  <2>2. CASE i # j
    BY <1>2, <2>2 DEF Flash!Forget, Flash!IInv, Flash!Owned, Flash!Workers
  <2> QED BY <2>1, <2>2
<1> QED BY <1>1, <1>3

LEMMA FlashCompleteKeeps == ASSUME Flash!IInv, NEW j \in Flash!Ids, Flash!Complete(j) PROVE Flash!IInv'
<1> DEFINE s == IF verdict[j] = "ok" THEN "succeeded" ELSE "uncertain"
<1>1. /\ j \in DOMAIN jobs /\ owner = j /\ jobs[j].state = "running" /\ job[j] \in Flash!AtBoard /\ job[j] # Flash!None
      /\ verdict[j] = "ok" => j \in proven
  BY FlashAtBoardHolds DEF Flash!Complete, Flash!AtBoard, Flash!IInv, Flash!Owned, Flash!None
<1>2. /\ jobs' = [jobs EXCEPT ![j].state = s] \/ UNCHANGED jobs
      /\ owner' = Flash!Free /\ job' = [job EXCEPT ![j] = "over"] /\ Flash!Forget(j)
      /\ UNCHANGED <<board, image, archive, gens, zapps, proven, Flash!ui>> /\ UNCHANGED <<row, latest, calls, prompts>>
  BY DEF Flash!Complete, Flash!To, Flash!ui
<1>3. ~\E c \in calls : c.kind = "inspecting"
  BY <1>1, FlashInstance DEF Flash!IInv, Flash!Asked, Flash!Inspector, Flash!Ids, Flash!FlashAssumption
<1>4. CASE UNCHANGED jobs
  <2>1. Flash!Workers' /\ Flash!Owned'
    BY <1>1, <1>2, <1>4, FlashLeaves
  <2>2. Flash!Windows' /\ Flash!Asked' /\ Flash!NeverStuckFlashing'
    BY <1>2, <1>3, <1>4, FlashWindowsLookOn
  <2>3. Flash!Journal' /\ Flash!NeverReplayed' /\ Flash!ReviewedFirst' /\ Flash!OnlyTheSerialCounts'
    BY <1>2, <1>4 DEF Flash!IInv, Flash!Journal, Flash!NeverReplayed, Flash!ReviewedFirst, Flash!OnlyTheSerialCounts
  <2> QED BY <1>2, <2>1, <2>2, <2>3, FlashJournalApart
<1>5. CASE jobs' = [jobs EXCEPT ![j].state = s]
  <2>1. ~(j < Len(jobs))
    BY <1>1 DEF Flash!IInv, Flash!ReviewedFirst, Flash!Unresolved
  <2>2. s \in Flash!States /\ s # "pending" /\ (s = "succeeded" => j \in proven)
    BY <1>1 DEF Flash!States
  <2> HIDE DEF s
  <2>3. /\ Flash!Journal' /\ Flash!NeverReplayed' /\ Flash!ReviewedFirst' /\ Flash!OnlyTheSerialCounts' /\ DOMAIN jobs' = DOMAIN jobs
        /\ \A i \in DOMAIN jobs : i # j => jobs'[i] = jobs[i]
    BY <1>1, <1>2, <1>5, <2>1, <2>2, FlashStateMoves
  <2>4. Flash!Workers'
    BY <1>2 DEF Flash!Forget, Flash!IInv, Flash!Workers, Flash!AtBoard
  <2>5. Flash!Owned'
    <3> SUFFICES ASSUME NEW i \in Flash!Ids
                 PROVE  /\ job'[i] # Flash!None => i \in DOMAIN jobs
                        /\ job'[i] \in Flash!AtBoard => owner' = i /\ jobs'[i].state = "running"
                        /\ job'[i] \in Flash!Flashing => before'[i] # Flash!None /\ before'[i] # jobs'[i].target
                        /\ job'[i] = "record" \/ verdict'[i] = "ok" => i \in proven
                        /\ zapps[i] > 0 => i \in DOMAIN jobs
      BY <1>2, <2>3 DEF Flash!Owned
    <3>1. CASE i = j
      BY <1>1, <1>2, <3>1 DEF Flash!Forget, Flash!IInv, Flash!Workers, Flash!AtBoard, Flash!Flashing, Flash!None
    <3>2. CASE i # j
      <4>1. job'[i] = job[i] /\ job[i] \notin Flash!AtBoard /\ job[i] \notin Flash!Flashing /\ verdict'[i] = verdict[i]
        BY <1>1, <1>2, <3>2 DEF Flash!Forget, Flash!IInv, Flash!Workers, Flash!Owned, Flash!AtBoard, Flash!Flashing
      <4> QED BY <1>2, <4>1 DEF Flash!IInv, Flash!Owned
    <3> QED BY <3>1, <3>2
  <2>6. Flash!Windows' /\ Flash!Asked' /\ Flash!NeverStuckFlashing'
    BY <1>2, <1>3, <2>3, FlashWindowsLookOn
  <2> QED BY <1>2, <2>3, <2>4, <2>5, <2>6, FlashJournalApart
<1> QED BY <1>2, <1>4, <1>5

LEMMA FlashWorkerDiesKeeps == ASSUME Flash!IInv, NEW j \in Flash!Ids, Flash!WorkerDies(j) PROVE Flash!IInv'
<1>1. /\ job[j] # Flash!None /\ job' = [job EXCEPT ![j] = "over"] /\ Flash!Forget(j) /\ owner' = (IF owner = j THEN Flash!Free ELSE owner)
      /\ UNCHANGED <<jobs, board, image, archive, gens, zapps, proven, Flash!ui>> /\ UNCHANGED <<row, latest, calls, prompts>>
  BY DEF Flash!WorkerDies, Flash!To, Flash!ui
<1>2. Flash!Workers' /\ Flash!Owned'
  BY <1>1, FlashLeaves
<1>3. (\E c \in calls : c.kind = "inspecting") => UNCHANGED owner
  BY <1>1, FlashInstance DEF Flash!IInv, Flash!Asked, Flash!Inspector, Flash!Ids, Flash!FlashAssumption
<1>4. Flash!Windows' /\ Flash!Asked' /\ Flash!NeverStuckFlashing'
  BY <1>1, <1>3, FlashWindowsLookOn
<1>5. Flash!Journal' /\ Flash!NeverReplayed' /\ Flash!ReviewedFirst' /\ Flash!OnlyTheSerialCounts'
  BY <1>1 DEF Flash!IInv, Flash!Journal, Flash!NeverReplayed, Flash!ReviewedFirst, Flash!OnlyTheSerialCounts
<1> QED BY <1>1, <1>2, <1>4, <1>5, FlashJournalApart

LEMMA FlashBoardKeeps == ASSUME Flash!IInv, Flash!Boot \/ \E v \in Revs : Flash!FlashedByHand(v) PROVE Flash!IInv'
<1>1. UNCHANGED <<Flash!journal, job, before, verdict, archive, gens, zapps, proven, Flash!ui>> /\ UNCHANGED <<jobs, owner>>
  BY DEF Flash!Boot, Flash!FlashedByHand, Flash!journal
<1>2. Flash!Board'
  BY <1>1, FlashInstance DEF Flash!Boot, Flash!FlashedByHand, Flash!IInv, Flash!Board, Flash!FlashAssumption
<1>3. Flash!Workers' /\ Flash!Owned'
  BY <1>1 DEF Flash!IInv, Flash!Workers, Flash!Owned
<1> QED BY <1>1, <1>2, <1>3, FlashBoardApart DEF Flash!IInv, Flash!NeverReplayed, Flash!OnlyTheSerialCounts

LEMMA FlashStepIInv == ASSUME Flash!IInv, [Flash!Next]_(Flash!vars) PROVE Flash!IInv'
<1>1. ASSUME NEW v \in Revs, Flash!Release(v) \/ Flash!FlashedByHand(v) PROVE Flash!IInv'
  BY <1>1, FlashReleaseKeeps, FlashBoardKeeps
<1>2. ASSUME NEW t \in Terms, Flash!Observe(t) \/ Flash!Tap(t) \/ Flash!ArmTimeout(t) \/ Flash!Visibility(t) PROVE Flash!IInv'
  BY <1>2, FlashWindowKeeps
<1>3. ASSUME NEW c \in calls, Flash!Tick(c) \/ Flash!JobStatus(c) \/ Flash!Submit(c) \/ Flash!Spawn(c) \/ Flash!InspectBegin(c) \/ Flash!InspectEnd(c)
      PROVE  Flash!IInv'
  BY <1>3, FlashTickKeeps, FlashJobStatusKeeps, FlashSubmitKeeps, FlashSpawnKeeps, FlashInspectBeginKeeps, FlashInspectEndKeeps
<1>4. ASSUME NEW j \in Flash!Ids, Flash!Discard(j) \/ Flash!Work(j) PROVE Flash!IInv'
  BY <1>4, FlashDiscardKeeps, FlashClaimKeeps, FlashResolveKeeps, FlashDownloadKeeps, FlashZappWritesKeeps, FlashZappEndsKeeps, FlashVerifyKeeps, FlashRecordKeeps,
     FlashCompleteKeeps, FlashWorkerDiesKeeps DEF Flash!Work
<1>5. CASE Flash!Status \/ Flash!GracePasses \/ Flash!Boot
  BY <1>5, FlashStatusKeeps, FlashGraceKeeps, FlashBoardKeeps
<1>6. CASE UNCHANGED Flash!vars
  <2>1. Flash!Windows' /\ Flash!Asked' /\ Flash!NeverStuckFlashing'
    BY <1>6 DEF Flash!vars, Flash!IInv, Flash!Windows, Flash!Asked, Flash!Inspecting, Flash!NeverStuckFlashing
  <2> QED BY <1>6, <2>1, FlashWindowsApart DEF Flash!vars, FlashWatches, Flash!journal, Flash!worker
<1> QED BY <1>1, <1>2, <1>3, <1>4, <1>5, <1>6 DEF Flash!Next

FlashProps == Flash!TypeOK /\ Flash!NeverReplayed /\ Flash!ReviewedFirst /\ Flash!QuietAfterReview /\ Flash!OnlyTheSerialCounts /\ Flash!NeverStuckFlashing
LEMMA FlashIInvImplies == Flash!IInv => FlashProps
<1> SUFFICES ASSUME Flash!IInv PROVE FlashProps
  OBVIOUS
<1>1. Flash!TypeOK
  BY DEF Flash!IInv, Flash!Journal, Flash!Board, Flash!TypeOK
<1>2. Flash!QuietAfterReview
  <2>1. \A j \in DOMAIN jobs : jobs[j].state \in {"uncertain", "discarded"} => job[j] \notin Flash!AtBoard
    BY FlashJobIds DEF Flash!IInv, Flash!Owned
  <2> QED BY <2>1, FlashJobIds DEF Flash!QuietAfterReview, Flash!IInv, Flash!Workers
<1> QED BY <1>1, <1>2 DEF Flash!IInv, FlashProps

LEMMA FlashRuns == Spec /\ part = "flash" => [](part = "flash") /\ Flash!Spec
<1>1. Init /\ part = "flash" => Flash!Init
  BY DEF Init
<1>2. part = "flash" /\ [Next]_vars => (part = "flash")' /\ [Flash!Next]_(Flash!vars)
  BY DEF Next, vars, flashVars, Flash!vars, Flash!journal, Flash!ui, Asks, Holds, Touches, Attaches, Feeds, Counts,
        Flashes
<1> QED BY <1>1, <1>2, PTL DEF Spec, Flash!Spec

LEMMA FlashRests == Spec /\ part # "flash" => [](part # "flash")
<1>1. part # "flash" /\ [Next]_vars => (part # "flash")'
  BY DEF Next, vars, Asks, Holds, Touches, Attaches, Feeds, Counts, Flashes
<1> QED BY <1>1, PTL DEF Spec

\* For any terminals, revisions, jobs and failures: a flash is never started twice for one
\* confirmation, what an interrupted flash left behind is reviewed before anything is flashed
\* again, a job that was reviewed has no worker at the board, only the serial of the board counts
\* as deployed, and a window that shows a flash under way still hears of it (job.go, flash.go,
\* flash_row.go).
THEOREM FlashIsSafe == Spec => []FlashSafe
<1>1. Flash!Spec => []FlashProps
  BY FlashInitIInv, FlashStepIInv, FlashIInvImplies, PTL DEF Flash!Spec
<1>2. (part = "flash" /\ FlashProps => FlashSafe) /\ (part # "flash" => FlashSafe)
  BY DEF FlashSafe, FlashProps
<1>3. part = "flash" \/ part # "flash"
  OBVIOUS
<1> QED BY <1>1, <1>2, <1>3, FlashRuns, FlashRests, PTL

(***************************************************************************)
(* The handle of the mouse: Mouse!IInv is inductive.                       *)
(***************************************************************************)
\* Lines: what a note, a publication and a fresh view make of one.
LEMMA MouseLines ==
  /\ Mouse!Down \in Mouse!Lines /\ ~Mouse!Down.connected /\ DOMAIN Mouse!Down.settings = {}
  /\ [Mouse!Down EXCEPT !.connected = TRUE] \in Mouse!Lines
  /\ DOMAIN [Mouse!Down EXCEPT !.connected = TRUE].settings = {}
<1>1. [s \in {} |-> Mouse!None] \in [{} -> {"clean", "error", "absent"}] /\ {} \in SUBSET Mouse!Settings
  OBVIOUS
<1>2. [s \in {} |-> Mouse!None] \in UNION {[D -> {"clean", "error", "absent"}] : D \in SUBSET Mouse!Settings}
  BY <1>1
<1>3. PICK q \in UNION {[D -> {"clean", "error", "absent"}] : D \in SUBSET Mouse!Settings} : q = [s \in {} |-> Mouse!None] /\ DOMAIN q = {}
  BY <1>2
<1> QED BY <1>3 DEF Mouse!Down, Mouse!Lines

LEMMA MousePublished ==
  ASSUME NEW v \in Mouse!Lines, NEW p \in SUBSET Mouse!Steps, NEW q, q = [v EXCEPT !.pending = p]
  PROVE  q \in Mouse!Lines /\ q.pending = p /\ q.settings = v.settings /\ q.connected = v.connected
BY DEF Mouse!Lines

LEMMA MouseNotes ==
  ASSUME NEW v \in Mouse!Lines, NEW s \in Mouse!Settings, NEW note \in {"clean", "error", "absent"}, NEW q, q = Mouse!NoteSetting(v, s, note)
  PROVE  /\ q \in Mouse!Lines /\ DOMAIN q.settings = DOMAIN v.settings \cup {s} /\ q.settings[s] = note
         /\ \A x \in DOMAIN v.settings : x # s => q.settings[x] = v.settings[x]
<1>1. PICK D \in SUBSET Mouse!Settings : v.settings \in [D -> {"clean", "error", "absent"}]
  BY DEF Mouse!Lines
<1>2. PICK m : m = [x \in D \cup {s} |-> IF x = s THEN note ELSE v.settings[x]]
  OBVIOUS
<1>3. m \in [D \cup {s} -> {"clean", "error", "absent"}] /\ D \cup {s} \in SUBSET Mouse!Settings
  BY <1>1, <1>2
<1>4. m \in UNION {[E -> {"clean", "error", "absent"}] : E \in SUBSET Mouse!Settings}
  BY <1>3
<1>5. q = [v EXCEPT !.settings = m]
  BY <1>1, <1>2 DEF Mouse!NoteSetting
<1>6. q \in Mouse!Lines /\ q.settings = m
  BY <1>4, <1>5 DEF Mouse!Lines
<1> QED BY <1>1, <1>2, <1>6

\* What is configured and held when a request was answered, and when it was lost.
LEMMA MouseSets ==
  ASSUME Mouse!Shapes, NEW c \in Mouse!Cids, NEW how \in Mouse!Fate, Mouse!SetCidReporting(c, how) \/ UNCHANGED control
  PROVE  /\ control' \in [Mouse!Cids -> [diverted : BOOLEAN, target : Mouse!Targets]]
         /\ \A d \in Mouse!Cids : Mouse!Configured(d) => Mouse!Configured(d)'
         /\ Mouse!SetCidReporting(c, how) /\ how = "ok" => Mouse!Configured(c)'
<1>1. control[c] \in [diverted : BOOLEAN, target : Mouse!Targets] /\ DOMAIN control = Mouse!Cids
  BY DEF Mouse!Shapes
<1>2. PICK q : q = Mouse!Written(c)
  OBVIOUS
<1>3. /\ q \in [diverted : BOOLEAN, target : Mouse!Targets]
      /\ c \in DOMAIN Remap => q.target = Remap[c]
      /\ c \notin DOMAIN Remap => q.diverted = FALSE
  BY <1>1, <1>2 DEF Mouse!Written, Mouse!Targets
<1>4. control' = control \/ control' = [control EXCEPT ![c] = q]
  BY <1>2 DEF Mouse!SetCidReporting, Mouse!Fate
<1>5. Mouse!SetCidReporting(c, how) /\ how = "ok" => control' = [control EXCEPT ![c] = q]
  BY <1>2 DEF Mouse!SetCidReporting
<1>6. CASE control' = [control EXCEPT ![c] = q]
  <2>1. control'[c] = q /\ \A d \in Mouse!Cids : d # c => control'[d] = control[d]
    BY <1>1, <1>6 DEF Mouse!Shapes
  <2>2. control' \in [Mouse!Cids -> [diverted : BOOLEAN, target : Mouse!Targets]]
    BY <1>3, <1>6 DEF Mouse!Shapes
  <2>3. Mouse!Configured(c)'
    BY <1>3, <2>1 DEF Mouse!Configured
  <2>4. ASSUME NEW d \in Mouse!Cids, Mouse!Configured(d) PROVE Mouse!Configured(d)'
    BY <2>1, <2>3, <2>4 DEF Mouse!Configured
  <2> QED BY <2>2, <2>3, <2>4
<1>7. CASE control' = control /\ ~(Mouse!SetCidReporting(c, how) /\ how = "ok")
  BY <1>7 DEF Mouse!Shapes, Mouse!Configured
<1> QED BY <1>4, <1>5, <1>6, <1>7

LEMMA MouseSends ==
  ASSUME Mouse!Shapes, NEW s \in Mouse!Settings, NEW how \in Mouse!Fate, NEW v \in {Mouse!Frame(s, DpiList), Mouse!Frame(s, <<>>)},
         IF s = "dpi" THEN Mouse!ApplyDPI(how, v) ELSE Mouse!ApplyPlain(s, v),
         Mouse!Accepts(s, v) => Mouse!Sent(s, how, v), ~Mouse!Accepts(s, v) => UNCHANGED mouseState
  PROVE  /\ mouseState' \in [Mouse!Settings -> Mouse!Values]
         /\ \A x \in Mouse!Settings : x # s => mouseState'[x] = mouseState[x]
         /\ how = "ok" => Mouse!Holds(s)'
<1>1. v \in Mouse!Values
  BY DEF Mouse!Values
<1>2. mouseState' = mouseState \/ mouseState' = [mouseState EXCEPT ![s] = v]
  BY DEF Mouse!Sent, Mouse!Fate
<1>3. mouseState' \in [Mouse!Settings -> Mouse!Values] /\ \A x \in Mouse!Settings : x # s => mouseState'[x] = mouseState[x]
  BY <1>1, <1>2 DEF Mouse!Shapes
<1>4. ASSUME how = "ok" PROVE Mouse!Holds(s)'
  <2>1. Mouse!Accepts(s, v)
    BY <1>4 DEF Mouse!ApplyDPI, Mouse!Accepts
  <2>2. mouseState' = [mouseState EXCEPT ![s] = v]
    BY <1>4, <2>1 DEF Mouse!Sent
  <2>3. mouseState'[s] = v
    BY <2>2 DEF Mouse!Shapes
  <2> QED BY <2>1, <2>3 DEF Mouse!Holds
<1> QED BY <1>3, <1>4

LEMMA MouseRetries == Retries \in Nat /\ Retries > 0 /\ Mouse!Takeover \notin Mouse!Settings
BY MouseInstance DEF Mouse!LogiAssumption

LEMMA MouseInitIInv == Mouse!Init => Mouse!IInv
<1> SUFFICES ASSUME Mouse!Init PROVE Mouse!IInv
  OBVIOUS
<1>1. Mouse!TypeOK
  <2>1. dead \in BOOLEAN /\ DOMAIN shown.settings \subseteq Mouse!Settings
    BY MouseLines DEF Mouse!Init
  <2>2. failed \subseteq Mouse!Steps /\ pending \subseteq Mouse!Steps /\ excused \subseteq Mouse!Steps /\ retries \in 0..Retries
    BY MouseRetries DEF Mouse!Init
  <2> QED BY <2>1, <2>2 DEF Mouse!Init, Mouse!TypeOK
<1>2. Mouse!Shapes
  BY MouseLines DEF Mouse!Init, Mouse!Shapes, Mouse!Factory, Mouse!Untouched, Mouse!Values, Mouse!Targets
<1>3. Mouse!Stands
  BY MouseLines DEF Mouse!Init, Mouse!Stands
<1> QED BY <1>1, <1>2, <1>3 DEF Mouse!Init, Mouse!IInv, Mouse!Taken, Mouse!Noted, Mouse!Heard

---------------------------------------------------------------------------
\* The session opens and ends, and its walk of the features.
LEMMA MouseOpens == Mouse!IInv /\ (Mouse!Open \/ Mouse!Close \/ Mouse!ResolveFails \/ Mouse!Reconnect) => Mouse!IInv'
<1> SUFFICES ASSUME Mouse!IInv, Mouse!Open \/ Mouse!Close \/ Mouse!ResolveFails \/ Mouse!Reconnect PROVE Mouse!IInv'
  OBVIOUS
<1>0. DOMAIN Mouse!Down.settings = {} /\ Mouse!Down \in Mouse!Lines /\ ~Mouse!Down.connected
  BY MouseLines
<1>1. Mouse!TypeOK'
  <2>1. dead' \in BOOLEAN /\ DOMAIN shown'.settings \subseteq Mouse!Settings
    BY <1>0 DEF Mouse!IInv, Mouse!TypeOK, Mouse!Open, Mouse!Close, Mouse!ResolveFails, Mouse!Reconnect,
          Mouse!PublishDown
  <2>2. failed' \subseteq Mouse!Steps /\ pending' \subseteq Mouse!Steps /\ excused' \subseteq Mouse!Steps /\ retries' \in 0..Retries
    BY MouseRetries DEF Mouse!IInv, Mouse!TypeOK, Mouse!Open, Mouse!Close, Mouse!ResolveFails, Mouse!Reconnect
  <2>3. mouse' \in {"gone", "asleep", "awake"} /\ session' \in {"none", "resolve", "apply", "steady"}
    BY DEF Mouse!IInv, Mouse!TypeOK, Mouse!Open, Mouse!Close, Mouse!ResolveFails, Mouse!Reconnect
  <2> QED BY <2>1, <2>2, <2>3 DEF Mouse!TypeOK
<1>2. Mouse!Shapes'
  BY <1>0 DEF Mouse!IInv, Mouse!Shapes, Mouse!Open, Mouse!Close, Mouse!ResolveFails, Mouse!Reconnect,
        Mouse!PublishDown
<1>3. Mouse!Stands'
  BY <1>0 DEF Mouse!IInv, Mouse!Stands, Mouse!Open, Mouse!Close, Mouse!ResolveFails, Mouse!Reconnect,
        Mouse!PublishDown
<1>4. ~Mouse!Heard'
  BY DEF Mouse!IInv, Mouse!Stands, Mouse!Heard, Mouse!Open, Mouse!Close, Mouse!ResolveFails, Mouse!Reconnect
<1> QED BY <1>1, <1>2, <1>3, <1>4 DEF Mouse!IInv, Mouse!Taken, Mouse!Noted

LEMMA MouseResolves == Mouse!IInv /\ Mouse!ResolveFeatures => Mouse!IInv'
<1> SUFFICES ASSUME Mouse!IInv, Mouse!ResolveFeatures PROVE Mouse!IInv'
  OBVIOUS
<1>1. /\ session = "resolve" /\ ~dead /\ mouse = "awake" /\ feats' # {}
      /\ todo' = Mouse!Steps /\ failed' = {} /\ mode' = "connect" /\ excused' = {} /\ session' = "apply"
      /\ UNCHANGED <<mouse, dead, pending, retries, watching, reconf, mouseState, control, shown, missed>>
      /\ view' = [Mouse!Down EXCEPT !.connected = TRUE]
  BY DEF Mouse!ResolveFeatures, Mouse!StartApply, Mouse!Committed, Mouse!Present
<1>2. view' \in Mouse!Lines /\ DOMAIN view'.settings = {}
  BY <1>1, MouseLines
<1>3. Mouse!TypeOK' /\ Mouse!Shapes'
  BY <1>1, <1>2 DEF Mouse!IInv, Mouse!TypeOK, Mouse!Shapes
<1>4. Mouse!Stands'
  BY <1>1 DEF Mouse!IInv, Mouse!Stands
<1>5. Mouse!Taken' /\ Mouse!Noted'
  BY <1>1, <1>2 DEF Mouse!Taken, Mouse!Noted, Mouse!Unsettled, Mouse!Steps
<1> QED BY <1>3, <1>4, <1>5 DEF Mouse!IInv

\* The pass: the walk of the controls, a control, a setting.
LEMMA MouseWalks == Mouse!IInv /\ Mouse!Walk => Mouse!IInv'
<1> SUFFICES ASSUME Mouse!IInv, Mouse!Walk PROVE Mouse!IInv'
  OBVIOUS
<1>1. /\ session = "apply" /\ Mouse!Takeover \in todo
      /\ UNCHANGED <<mouse, session, dead, feats, mode, pending, retries, watching, reconf, mouseState, control, view, shown, missed>>
  BY DEF Mouse!Walk, Mouse!Turn
<1>2. /\ failed' \subseteq failed \cup {Mouse!Takeover} /\ excused' \subseteq excused \cup {Mouse!Takeover}
      /\ failed \subseteq failed' /\ excused \subseteq excused'
      /\ todo' \subseteq todo \cup Mouse!Cids /\ todo \ {Mouse!Takeover} \subseteq todo'
      /\ Mouse!Cids \subseteq todo' \/ Mouse!Takeover \in failed' \cup excused'
  <2>1. CASE Mouse!Takeover \notin feats
    BY <2>1 DEF Mouse!Walk
  <2>2. ASSUME NEW how \in Mouse!Fate, todo' = (todo \ {Mouse!Takeover}) \cup (IF how = "ok" THEN Mouse!Cids ELSE {}), Mouse!Pass(Mouse!Takeover, how)
        PROVE  <1>2!:
    BY <2>2 DEF Mouse!Pass, Mouse!TransportErr, Mouse!Fate
  <2> QED BY <2>1, <2>2 DEF Mouse!Walk
<1>3. Mouse!TypeOK' /\ Mouse!Shapes'
  BY <1>1, <1>2 DEF Mouse!IInv, Mouse!TypeOK, Mouse!Shapes, Mouse!Steps
<1>4. Mouse!Stands'
  BY <1>1 DEF Mouse!IInv, Mouse!Stands
<1>5. Mouse!Unsettled \subseteq Mouse!Unsettled' \cup {Mouse!Takeover}
  BY <1>1, <1>2 DEF Mouse!Unsettled
<1>6. Mouse!Taken'
  BY <1>1, <1>2 DEF Mouse!Taken, Mouse!Unsettled
<1>7. Mouse!Noted'
  <2> SUFFICES ASSUME Mouse!Heard', NEW s \in DOMAIN view'.settings, s \notin todo'
               PROVE  (view'.settings[s] = "clean" => Mouse!Holds(s)') /\ (view'.settings[s] = "error" => s \in Mouse!Unsettled')
    BY DEF Mouse!Noted
  <2>1. s \in Mouse!Settings /\ s # Mouse!Takeover /\ s \notin todo /\ Mouse!Heard
    BY <1>1, <1>2, MouseRetries DEF Mouse!IInv, Mouse!Shapes, Mouse!Lines, Mouse!Heard
  <2> QED BY <1>1, <1>5, <2>1 DEF Mouse!IInv, Mouse!Noted, Mouse!Holds
<1> QED BY <1>3, <1>4, <1>6, <1>7 DEF Mouse!IInv

LEMMA MouseControls == Mouse!IInv /\ Mouse!Control => Mouse!IInv'
<1> SUFFICES ASSUME Mouse!IInv, Mouse!Control PROVE Mouse!IInv'
  OBVIOUS
<1>1. /\ session = "apply"
      /\ UNCHANGED <<mouse, session, dead, feats, mode, pending, retries, watching, reconf, mouseState, view, shown, missed>>
  BY DEF Mouse!Control
<1>2. PICK c \in Mouse!Cids, how \in Mouse!Fate :
        /\ todo' = todo \ {c} /\ Mouse!Pass(Mouse!Takeover, how)
        /\ \/ Mouse!SetCidReporting(c, how) /\ (c \in DOMAIN Remap \/ control[c].diverted)
           \/ UNCHANGED control /\ (how # "ok" \/ (c \notin DOMAIN Remap /\ ~control[c].diverted))
  BY DEF Mouse!Control
<1>3. /\ failed' \subseteq failed \cup {Mouse!Takeover} /\ excused' \subseteq excused \cup {Mouse!Takeover}
      /\ failed \subseteq failed' /\ excused \subseteq excused'
      /\ how # "ok" => Mouse!Takeover \in failed' \cup excused'
  BY <1>2 DEF Mouse!Pass, Mouse!TransportErr, Mouse!Fate
<1>4. /\ control' \in [Mouse!Cids -> [diverted : BOOLEAN, target : Mouse!Targets]]
      /\ \A d \in Mouse!Cids : Mouse!Configured(d) => Mouse!Configured(d)'
      /\ Mouse!SetCidReporting(c, how) /\ how = "ok" => Mouse!Configured(c)'
  <2>1. Mouse!SetCidReporting(c, how) \/ UNCHANGED control
    BY <1>2
  <2> QED BY <2>1, MouseSets DEF Mouse!IInv
<1>5. how = "ok" => Mouse!Configured(c)'
  <2>1. CASE UNCHANGED control /\ c \notin DOMAIN Remap /\ ~control[c].diverted
    BY <2>1 DEF Mouse!Configured
  <2> QED BY <1>2, <1>4, <2>1
<1>6. Mouse!TypeOK' /\ Mouse!Shapes'
  BY <1>1, <1>2, <1>3, <1>4 DEF Mouse!IInv, Mouse!TypeOK, Mouse!Shapes, Mouse!Steps
<1>7. Mouse!Stands'
  BY <1>1 DEF Mouse!IInv, Mouse!Stands
<1>8. Mouse!Unsettled \ {c} \subseteq Mouse!Unsettled'
  BY <1>1, <1>2, <1>3 DEF Mouse!Unsettled
<1>9. Mouse!Taken'
  <2> SUFFICES ASSUME Mouse!Heard', NEW d \in Mouse!Cids, d \notin todo', Mouse!Takeover \notin Mouse!Unsettled' PROVE Mouse!Configured(d)'
    BY DEF Mouse!Taken
  <2>1. how = "ok"
    BY <1>1, <1>3 DEF Mouse!Unsettled
  <2>2. CASE d = c
    BY <2>1, <2>2, <1>5
  <2>3. CASE d # c
    <3>1. Mouse!Heard /\ d \notin todo
      BY <1>1, <1>2, <2>3, <1>3 DEF Mouse!Heard
    <3>2. Mouse!Takeover \notin Mouse!Unsettled
      <4>1. Mouse!Takeover # c
        BY MouseInstance DEF Mouse!LogiAssumption
      <4> QED BY <1>8, <4>1
    <3> QED BY <1>4, <3>1, <3>2 DEF Mouse!IInv, Mouse!Taken
  <2> QED BY <2>2, <2>3
<1>10. Mouse!Noted'
  <2> SUFFICES ASSUME Mouse!Heard', NEW s \in DOMAIN view'.settings, s \notin todo'
               PROVE  (view'.settings[s] = "clean" => Mouse!Holds(s)') /\ (view'.settings[s] = "error" => s \in Mouse!Unsettled')
    BY DEF Mouse!Noted
  <2>1. s \in Mouse!Settings /\ s # c
    BY <1>1, MouseInstance DEF Mouse!IInv, Mouse!Shapes, Mouse!Lines, Mouse!LogiAssumption
  <2>2. s \notin todo /\ Mouse!Heard
    BY <1>1, <1>2, <2>1 DEF Mouse!Heard
  <2> QED BY <1>1, <1>8, <2>1, <2>2 DEF Mouse!IInv, Mouse!Noted, Mouse!Holds
<1> QED BY <1>6, <1>7, <1>9, <1>10 DEF Mouse!IInv

LEMMA MouseApplies == Mouse!IInv /\ Mouse!ApplyStep => Mouse!IInv'
<1> SUFFICES ASSUME Mouse!IInv, Mouse!ApplyStep PROVE Mouse!IInv'
  OBVIOUS
<1>1. /\ session = "apply"
      /\ UNCHANGED <<mouse, session, dead, feats, mode, pending, retries, watching, reconf, control, shown, missed>>
  BY DEF Mouse!ApplyStep
<1>2. PICK s \in Mouse!Settings, note \in {"clean", "error", "absent"} :
        /\ todo' = todo \ {s} /\ view' = Mouse!NoteSetting(view, s, note)
        /\ mouseState' \in [Mouse!Settings -> Mouse!Values] /\ \A x \in Mouse!Settings : x # s => mouseState'[x] = mouseState[x]
        /\ failed' \subseteq failed \cup {s} /\ excused' \subseteq excused \cup {s}
        /\ failed \subseteq failed' /\ excused \subseteq excused'
        /\ note = "clean" => Mouse!Holds(s)'
        /\ note = "error" => s \in failed' \cup excused'
  <2>1. PICK s \in Mouse!Settings :
          /\ todo' = todo \ {s}
          /\ IF s \notin feats
             THEN view' = Mouse!NoteSetting(view, s, "absent") /\ UNCHANGED <<failed, excused, mouseState>>
             ELSE \E how \in Mouse!Fate, v \in {Mouse!Frame(s, DpiList), Mouse!Frame(s, <<>>)} :
                    /\ IF s = "dpi" THEN Mouse!ApplyDPI(how, v) ELSE Mouse!ApplyPlain(s, v)
                    /\ Mouse!Accepts(s, v) => Mouse!Sent(s, how, v)
                    /\ ~Mouse!Accepts(s, v) => UNCHANGED mouseState
                    /\ view' = Mouse!NoteSetting(view, s, Mouse!Note(how))
                    /\ Mouse!Pass(s, how)
    BY DEF Mouse!ApplyStep
  <2>2. CASE s \notin feats
    <3>1. view' = Mouse!NoteSetting(view, s, "absent") /\ UNCHANGED <<failed, excused, mouseState>>
      BY <2>1, <2>2
    <3> QED BY <2>1, <3>1 DEF Mouse!IInv, Mouse!Shapes
  <2>3. CASE s \in feats
    <3>1. PICK how \in Mouse!Fate, v \in {Mouse!Frame(s, DpiList), Mouse!Frame(s, <<>>)} :
            /\ IF s = "dpi" THEN Mouse!ApplyDPI(how, v) ELSE Mouse!ApplyPlain(s, v)
            /\ Mouse!Accepts(s, v) => Mouse!Sent(s, how, v)
            /\ ~Mouse!Accepts(s, v) => UNCHANGED mouseState
            /\ view' = Mouse!NoteSetting(view, s, Mouse!Note(how))
            /\ Mouse!Pass(s, how)
      BY <2>1, <2>3
    <3>2. /\ mouseState' \in [Mouse!Settings -> Mouse!Values]
          /\ \A x \in Mouse!Settings : x # s => mouseState'[x] = mouseState[x]
          /\ how = "ok" => Mouse!Holds(s)'
      BY <3>1, MouseSends DEF Mouse!IInv
    <3>3. /\ failed' \subseteq failed \cup {s} /\ excused' \subseteq excused \cup {s}
          /\ failed \subseteq failed' /\ excused \subseteq excused'
          /\ how # "ok" => s \in failed' \cup excused'
      BY <3>1 DEF Mouse!Pass, Mouse!TransportErr, Mouse!Fate
    <3>4. PICK note \in {"clean", "error", "absent"} : note = Mouse!Note(how) /\ note = IF how = "ok" THEN "clean" ELSE "error"
      BY DEF Mouse!Note
    <3> QED BY <2>1, <3>1, <3>2, <3>3, <3>4
  <2> QED BY <2>2, <2>3
<1>3. /\ view' \in Mouse!Lines /\ DOMAIN view'.settings = DOMAIN view.settings \cup {s} /\ view'.settings[s] = note
      /\ \A x \in DOMAIN view.settings : x # s => view'.settings[x] = view.settings[x]
  BY <1>2, MouseNotes DEF Mouse!IInv, Mouse!Shapes
<1>4. Mouse!TypeOK' /\ Mouse!Shapes'
  BY <1>1, <1>2, <1>3 DEF Mouse!IInv, Mouse!TypeOK, Mouse!Shapes, Mouse!Steps
<1>5. Mouse!Stands'
  BY <1>1 DEF Mouse!IInv, Mouse!Stands
<1>6. Mouse!Unsettled \ {s} \subseteq Mouse!Unsettled' /\ (note = "error" => s \in Mouse!Unsettled')
  BY <1>1, <1>2 DEF Mouse!Unsettled
<1>7. Mouse!Taken'
  <2> SUFFICES ASSUME Mouse!Heard', NEW d \in Mouse!Cids, d \notin todo', Mouse!Takeover \notin Mouse!Unsettled' PROVE Mouse!Configured(d)'
    BY DEF Mouse!Taken
  <2>1. d # s /\ Mouse!Takeover # s
    BY MouseInstance DEF Mouse!LogiAssumption
  <2>2. Mouse!Heard /\ d \notin todo /\ Mouse!Takeover \notin Mouse!Unsettled
    BY <1>1, <1>2, <1>6, <2>1 DEF Mouse!Heard
  <2> QED BY <1>1, <2>2 DEF Mouse!IInv, Mouse!Taken, Mouse!Configured
<1>8. Mouse!Noted'
  <2> SUFFICES ASSUME Mouse!Heard', NEW x \in DOMAIN view'.settings, x \notin todo'
               PROVE  (view'.settings[x] = "clean" => Mouse!Holds(x)') /\ (view'.settings[x] = "error" => x \in Mouse!Unsettled')
    BY DEF Mouse!Noted
  <2>1. CASE x = s
    BY <1>2, <1>3, <1>6, <2>1
  <2>2. CASE x # s
    <3>1. x \in DOMAIN view.settings /\ x \in Mouse!Settings /\ Mouse!Heard /\ x \notin todo
      BY <1>1, <1>2, <1>3, <2>2 DEF Mouse!Heard, Mouse!IInv, Mouse!Shapes, Mouse!Lines
    <3>2. (view.settings[x] = "clean" => Mouse!Holds(x)) /\ (view.settings[x] = "error" => x \in Mouse!Unsettled)
      BY <3>1 DEF Mouse!IInv, Mouse!Noted
    <3>3. view'.settings[x] = view.settings[x] /\ (Mouse!Holds(x) => Mouse!Holds(x)')
      BY <1>2, <1>3, <2>2, <3>1 DEF Mouse!Holds
    <3> QED BY <1>6, <2>2, <3>2, <3>3
  <2> QED BY <2>1, <2>2
<1> QED BY <1>4, <1>5, <1>7, <1>8 DEF Mouse!IInv

\* The pass is over: what failed is pending.
LEMMA MouseEnds == Mouse!IInv /\ (Mouse!Applied \/ Mouse!Retried) => Mouse!IInv'
<1> SUFFICES ASSUME Mouse!IInv, Mouse!Applied \/ Mouse!Retried PROVE Mouse!IInv'
  OBVIOUS
<1>1. /\ session = "apply" /\ session' = "steady" /\ todo = {}
      /\ UNCHANGED <<mouse, dead, feats, todo, failed, mode, reconf, mouseState, control, view, missed>>
      /\ pending' \subseteq failed /\ excused' \subseteq excused \cup failed
      /\ pending' \cup excused' = failed \cup excused
      /\ shown' = [view EXCEPT !.pending = pending']
  <2>1. CASE Mouse!Applied
    BY <2>1 DEF Mouse!Applied, Mouse!PublishState
  <2>2. CASE Mouse!Retried
    BY <2>2 DEF Mouse!Retried, Mouse!PublishState, Mouse!Left
  <2> QED BY <2>1, <2>2
<1>2. retries' \in 0..Retries /\ (pending' = {} \/ retries' > 0)
  <2>1. CASE Mouse!Applied
    BY <2>1, MouseRetries DEF Mouse!Applied
  <2>2. CASE Mouse!Retried
    <3>1. retries \in 0..Retries /\ retries > 0 /\ Retries \in Nat
      BY <2>2, MouseRetries DEF Mouse!Retried, Mouse!IInv, Mouse!TypeOK, Mouse!Stands
    <3>2. pending' = Mouse!Left /\ retries' = IF failed = {} THEN retries ELSE retries - 1
      BY <2>2 DEF Mouse!Retried
    <3> QED BY <3>1, <3>2 DEF Mouse!Left
  <2> QED BY <2>1, <2>2
<1>3. shown' \in Mouse!Lines /\ shown'.settings = view.settings
  BY <1>1, MousePublished DEF Mouse!IInv, Mouse!Shapes, Mouse!TypeOK
<1>4. Mouse!TypeOK' /\ Mouse!Shapes'
  <2>1. DOMAIN shown'.settings \subseteq Mouse!Settings
    BY <1>3 DEF Mouse!Lines
  <2> QED BY <1>1, <1>2, <1>3, <2>1 DEF Mouse!IInv, Mouse!TypeOK, Mouse!Shapes
<1>5. Mouse!Stands'
  BY <1>1, <1>2 DEF Mouse!IInv, Mouse!Stands
<1>6. Mouse!Unsettled' = Mouse!Unsettled /\ (Mouse!Heard' => Mouse!Heard)
  BY <1>1 DEF Mouse!Unsettled, Mouse!Heard
<1>7. Mouse!Taken'
  BY <1>1, <1>6 DEF Mouse!IInv, Mouse!Taken, Mouse!Configured
<1>8. Mouse!Noted'
  BY <1>1, <1>6 DEF Mouse!IInv, Mouse!Noted, Mouse!Holds
<1> QED BY <1>4, <1>5, <1>7, <1>8 DEF Mouse!IInv

\* The steady state: the battery's tick, and the mouse that came back.
LEMMA MousePolls == Mouse!IInv /\ (Mouse!PollBattery \/ Mouse!RetryBlind) => Mouse!IInv'
<1> SUFFICES ASSUME Mouse!IInv, Mouse!PollBattery \/ Mouse!RetryBlind PROVE Mouse!IInv'
  OBVIOUS
<1>1. /\ session = "steady" /\ feats # {}
      /\ UNCHANGED <<mouse, dead, feats, pending, retries, reconf, mouseState, control, view, shown, missed, excused>>
      /\ Mouse!RetryApply(pending) \/ UNCHANGED <<session, todo, failed, mode>>
  BY DEF Mouse!PollBattery, Mouse!RetryBlind
<1>2. CASE UNCHANGED <<session, todo, failed, mode>>
  BY <1>1, <1>2 DEF Mouse!IInv, Mouse!TypeOK, Mouse!Shapes, Mouse!Stands, Mouse!Taken, Mouse!Noted, Mouse!Heard,
        Mouse!Unsettled, Mouse!Configured, Mouse!Holds
<1>3. CASE Mouse!RetryApply(pending)
  <2>1. todo' = pending /\ failed' = {} /\ mode' = "retry" /\ session' = IF pending = {} THEN "steady" ELSE "apply"
    BY <1>3 DEF Mouse!RetryApply
  <2>2. Mouse!TypeOK' /\ Mouse!Shapes'
    BY <1>1, <2>1 DEF Mouse!IInv, Mouse!TypeOK, Mouse!Shapes
  <2>3. Mouse!Stands'
    BY <1>1, <2>1 DEF Mouse!IInv, Mouse!Stands
  <2>4. Mouse!Unsettled' = pending \cup excused /\ Mouse!Unsettled = Mouse!Unsettled' /\ todo = {} /\ (Mouse!Heard' => Mouse!Heard)
    BY <1>1, <2>1 DEF Mouse!IInv, Mouse!Stands, Mouse!Unsettled, Mouse!Heard
  <2>5. Mouse!Taken'
    BY <1>1, <2>4 DEF Mouse!IInv, Mouse!Taken, Mouse!Configured
  <2>6. Mouse!Noted'
    BY <1>1, <2>4 DEF Mouse!IInv, Mouse!Noted, Mouse!Holds
  <2> QED BY <2>2, <2>3, <2>5, <2>6 DEF Mouse!IInv
<1> QED BY <1>1, <1>2, <1>3

LEMMA MouseReapplies == Mouse!IInv /\ Mouse!Reapply => Mouse!IInv'
<1> SUFFICES ASSUME Mouse!IInv, Mouse!Reapply PROVE Mouse!IInv'
  OBVIOUS
<1>1. /\ session = "steady"
      /\ UNCHANGED <<mouse, dead, feats, pending, retries, mouseState, control, view, shown, missed>>
  BY DEF Mouse!Reapply
<1>2. CASE feats = {}
  <2>1. UNCHANGED <<session, todo, failed, mode, excused>>
    BY <1>2 DEF Mouse!Reapply
  <2> QED BY <1>1, <1>2, <2>1 DEF Mouse!IInv, Mouse!TypeOK, Mouse!Shapes, Mouse!Stands, Mouse!Taken, Mouse!Noted,
        Mouse!Heard
<1>3. CASE feats # {}
  <2>1. todo' = Mouse!Steps /\ failed' = {} /\ mode' = "reapply" /\ excused' = {} /\ session' = "apply"
    BY <1>3 DEF Mouse!Reapply, Mouse!Reapplies
  <2>2. Mouse!TypeOK' /\ Mouse!Shapes'
    BY <1>1, <2>1 DEF Mouse!IInv, Mouse!TypeOK, Mouse!Shapes
  <2>3. Mouse!Stands'
    BY <1>1, <1>3, <2>1 DEF Mouse!IInv, Mouse!Stands
  <2>4. Mouse!Taken'
    BY <2>1 DEF Mouse!Taken, Mouse!Unsettled, Mouse!Steps
  <2>5. Mouse!Noted'
    BY <1>1, <2>1 DEF Mouse!IInv, Mouse!Shapes, Mouse!Lines, Mouse!Noted, Mouse!Steps
  <2> QED BY <2>2, <2>3, <2>4, <2>5 DEF Mouse!IInv
<1> QED BY <1>2, <1>3

\* The mouse: naps do not matter, a reset is heard of or missed, and it comes back to no handle.
LEMMA MouseNaps == Mouse!IInv /\ (Mouse!Nap \/ Mouse!Wake \/ Mouse!Vanish) => Mouse!IInv'
<1> SUFFICES ASSUME Mouse!IInv, Mouse!Nap \/ Mouse!Wake \/ Mouse!Vanish PROVE Mouse!IInv'
  OBVIOUS
<1>1. UNCHANGED <<session, feats, todo, failed, mode, pending, retries, watching, reconf, mouseState, control, view, shown, missed, excused>>
  BY DEF Mouse!Nap, Mouse!Wake, Mouse!Vanish
<1>2. mouse' \in {"gone", "asleep", "awake"} /\ dead' \in BOOLEAN
  BY DEF Mouse!Nap, Mouse!Wake, Mouse!Vanish, Mouse!IInv, Mouse!TypeOK
<1>3. mouse' = "gone" /\ session # "none" => dead'
  BY DEF Mouse!Nap, Mouse!Wake, Mouse!Vanish, Mouse!IInv, Mouse!Stands
<1>4. Mouse!Heard' => Mouse!Heard
  BY <1>1 DEF Mouse!Nap, Mouse!Wake, Mouse!Vanish, Mouse!IInv, Mouse!Stands, Mouse!Heard
<1>5. Mouse!TypeOK' /\ Mouse!Shapes'
  BY <1>1, <1>2 DEF Mouse!IInv, Mouse!TypeOK, Mouse!Shapes
<1>6. Mouse!Stands'
  BY <1>1, <1>3 DEF Mouse!IInv, Mouse!Stands
<1>7. Mouse!Taken' /\ Mouse!Noted'
  BY <1>1, <1>4 DEF Mouse!IInv, Mouse!Taken, Mouse!Noted, Mouse!Unsettled, Mouse!Configured, Mouse!Holds
<1> QED BY <1>5, <1>6, <1>7 DEF Mouse!IInv

LEMMA MouseReturns == Mouse!IInv /\ (Mouse!Return \/ Mouse!Reset) => Mouse!IInv'
<1> SUFFICES ASSUME Mouse!IInv, Mouse!Return \/ Mouse!Reset PROVE Mouse!IInv'
  OBVIOUS
<1>1. /\ UNCHANGED <<session, dead, feats, todo, failed, mode, pending, retries, view, shown, excused>>
      /\ mouse' = "awake" /\ mouseState' \in {mouseState, Mouse!Factory} /\ control' \in {control, Mouse!Untouched}
  BY DEF Mouse!Return, Mouse!Reset
<1>2. Mouse!Shapes'
  <2>1. Mouse!Factory \in [Mouse!Settings -> Mouse!Values] /\ Mouse!Untouched \in [Mouse!Cids -> [diverted : BOOLEAN, target : Mouse!Targets]]
    BY DEF Mouse!Factory, Mouse!Untouched, Mouse!Values, Mouse!Targets
  <2> QED BY <1>1, <2>1 DEF Mouse!IInv, Mouse!Shapes
<1>3. Mouse!TypeOK'
  BY <1>1 DEF Mouse!IInv, Mouse!TypeOK
<1>4. Mouse!Stands'
  BY <1>1 DEF Mouse!IInv, Mouse!Stands
<1>5. ~Mouse!Heard'
  <2>1. CASE Mouse!Return
    BY <2>1 DEF Mouse!Return, Mouse!IInv, Mouse!Stands, Mouse!Heard
  <2>2. CASE Mouse!Reset
    <3>1. reconf' \/ missed'
      BY <2>2 DEF Mouse!Reset, Mouse!IsWirelessReconf
    <3> QED BY <3>1 DEF Mouse!Heard
  <2> QED BY <2>1, <2>2
<1> QED BY <1>2, <1>3, <1>4, <1>5 DEF Mouse!IInv, Mouse!Taken, Mouse!Noted

LEMMA MouseStepIInv == Mouse!IInv /\ [Mouse!Next]_(Mouse!vars) => Mouse!IInv'
<1>1. Mouse!IInv /\ UNCHANGED Mouse!vars => Mouse!IInv'
  BY DEF Mouse!vars, Mouse!IInv, Mouse!TypeOK, Mouse!Shapes, Mouse!Stands, Mouse!Taken, Mouse!Noted, Mouse!Heard,
        Mouse!Unsettled, Mouse!Configured, Mouse!Holds
<1> QED BY <1>1, MouseOpens, MouseResolves, MouseWalks, MouseControls, MouseApplies, MouseEnds, MousePolls, MouseReapplies,
           MouseNaps, MouseReturns DEF Mouse!Next

MouseProps == Mouse!TypeOK /\ Mouse!LineIsTrue /\ Mouse!Baseline /\ Mouse!PendingHasRetries /\ Mouse!DownIsShown
LEMMA MouseImplies == Mouse!IInv => MouseProps
<1> SUFFICES ASSUME Mouse!IInv PROVE MouseProps
  OBVIOUS
<1>1. Mouse!LineIsTrue
  <2> SUFFICES ASSUME Mouse!AtRest, shown.connected, NEW s \in Mouse!Settings
               PROVE  /\ Mouse!NoteOf(s) = "clean" => Mouse!Holds(s)
                      /\ Mouse!NoteOf(s) = "error" => s \in pending \cup excused
                      /\ shown.pending = pending
    BY DEF Mouse!LineIsTrue
  <2>1. shown = [view EXCEPT !.pending = pending] /\ Mouse!Heard /\ todo = {} /\ Mouse!Unsettled = pending \cup excused
    BY DEF Mouse!AtRest, Mouse!IInv, Mouse!Stands, Mouse!Heard, Mouse!Unsettled
  <2>2. shown.pending = pending /\ shown.settings = view.settings
    BY <2>1, MousePublished DEF Mouse!IInv, Mouse!Shapes, Mouse!TypeOK
  <2>3. Mouse!NoteOf(s) # Mouse!None => s \in DOMAIN view.settings /\ Mouse!NoteOf(s) = view.settings[s]
    BY <2>2 DEF Mouse!NoteOf
  <2> QED BY <2>1, <2>2, <2>3 DEF Mouse!IInv, Mouse!Noted, Mouse!None
<1>2. Mouse!Baseline
  BY DEF Mouse!Baseline, Mouse!AtRest, Mouse!IInv, Mouse!Stands, Mouse!Taken, Mouse!Heard, Mouse!Unsettled
<1>3. Mouse!PendingHasRetries /\ Mouse!DownIsShown
  BY DEF Mouse!PendingHasRetries, Mouse!DownIsShown, Mouse!IInv, Mouse!Stands
<1> QED BY <1>1, <1>2, <1>3 DEF MouseProps, Mouse!IInv

(***************************************************************************)
(* The recognizer of touches: Finger!IInv is inductive.                    *)
(***************************************************************************)
\* Short sequences, one element at a time.
LEMMA FingerGestureLonger ==
  ASSUME NEW a \in Finger!Kinds, NEW b \in Finger!Kinds, NEW c \in Finger!Kinds
  PROVE  Append(<<a>>, b) = <<a, b>> /\ Append(<<a, b>>, c) = <<a, b, c>>
<1>1. ASSUME NEW s \in Seq(Finger!Kinds), NEW t \in Seq(Finger!Kinds), Len(s) = Len(t), \A i \in 1..Len(s) : s[i] = t[i] PROVE s = t
  BY <1>1, SeqEqual
<1>2. Append(<<a>>, b) = <<a, b>>
  <2>1. Append(<<a>>, b) \in Seq(Finger!Kinds) /\ Len(Append(<<a>>, b)) = 2 /\ Append(<<a>>, b)[1] = a /\ Append(<<a>>, b)[2] = b
    OBVIOUS
  <2>2. <<a, b>> \in Seq(Finger!Kinds) /\ Len(<<a, b>>) = 2 /\ <<a, b>>[1] = a /\ <<a, b>>[2] = b
    OBVIOUS
  <2>3. PICK s \in Seq(Finger!Kinds) : s = Append(<<a>>, b)
    BY <2>1
  <2>4. PICK t \in Seq(Finger!Kinds) : t = <<a, b>>
    BY <2>2
  <2>5. Len(s) = Len(t) /\ \A i \in 1..Len(s) : s[i] = t[i]
    BY <2>1, <2>2, <2>3, <2>4
  <2> QED BY <1>1, <2>3, <2>4, <2>5
<1>3. Append(<<a, b>>, c) = <<a, b, c>>
  <2>1. /\ Append(<<a, b>>, c) \in Seq(Finger!Kinds) /\ Len(Append(<<a, b>>, c)) = 3
        /\ Append(<<a, b>>, c)[1] = a /\ Append(<<a, b>>, c)[2] = b /\ Append(<<a, b>>, c)[3] = c
    OBVIOUS
  <2>2. <<a, b, c>> \in Seq(Finger!Kinds) /\ Len(<<a, b, c>>) = 3 /\ <<a, b, c>>[1] = a /\ <<a, b, c>>[2] = b /\ <<a, b, c>>[3] = c
    OBVIOUS
  <2>3. PICK s \in Seq(Finger!Kinds) : s = Append(<<a, b>>, c)
    BY <2>1
  <2>4. PICK t \in Seq(Finger!Kinds) : t = <<a, b, c>>
    BY <2>2
  <2>5. Len(s) = Len(t) /\ \A i \in 1..Len(s) : s[i] = t[i]
    BY <2>1, <2>2, <2>3, <2>4
  <2> QED BY <1>1, <2>3, <2>4, <2>5
<1> QED BY <1>2, <1>3

LEMMA FingerGestureJoins ==
  ASSUME NEW S, NEW s \in Seq(S), NEW a \in S, NEW b \in S
  PROVE  /\ s \o <<>> = s /\ <<>> \o s = s /\ s \o <<a>> = Append(s, a)
         /\ s \o <<a, b>> = Append(Append(s, a), b)
<1>1. s \o <<a, b>> = Append(Append(s, a), b)
  OBVIOUS
<1> QED BY <1>1, ConcatEmptySeq, AppendIsConcat

\* What may be said of a touch, as it grows.
LEMMA FingerGestureWords ==
  /\ \A w \in Finger!Broken \cup Finger!Told \cup {<<"press", "drag">>} : w \in Seq(Finger!Kinds) /\ w \o <<>> = w /\ <<>> \o w = w
  /\ \A w \in Finger!Broken : w \o <<"two">> = Append(w, "two")
  /\ <<"dragEnd">> \o <<>> = <<"dragEnd">>
  /\ <<"dragEnd">> \o <<"swipe">> = <<"dragEnd", "swipe">>
  /\ <<"press">> \o <<"tap">> = <<"press", "tap">>
  /\ <<"press">> \o <<"long">> = <<"press", "long">>
  /\ <<"press">> \o <<"drag">> = <<"press", "drag">>
  /\ <<"press", "drag">> \o <<"dragEnd">> = <<"press", "drag", "dragEnd">>
  /\ <<"press", "drag">> \o <<"dragEnd", "swipe">> = <<"press", "drag", "dragEnd", "swipe">>
<1>1. "press" \in Finger!Kinds /\ "tap" \in Finger!Kinds /\ "long" \in Finger!Kinds /\ "drag" \in Finger!Kinds /\ "dragEnd" \in Finger!Kinds /\ "swipe" \in Finger!Kinds /\ "two" \in Finger!Kinds
  BY DEF Finger!Kinds
<1>2. ASSUME NEW a \in Finger!Kinds, NEW b \in Finger!Kinds, NEW c \in Finger!Kinds, NEW d \in Finger!Kinds
      PROVE  <<>> \in Seq(Finger!Kinds) /\ <<a>> \in Seq(Finger!Kinds) /\ <<a, b>> \in Seq(Finger!Kinds) /\ <<a, b, c>> \in Seq(Finger!Kinds) /\ <<a, b, c, d>> \in Seq(Finger!Kinds)
  OBVIOUS
<1>3. ASSUME NEW w \in Finger!Broken \cup Finger!Told \cup {<<"press", "drag">>} PROVE w \in Seq(Finger!Kinds)
  <2>1. \/ w = <<>> \/ w = <<"press">> \/ w = <<"press", "long">> \/ w = <<"press", "drag", "dragEnd">> \/ w = <<"press", "tap">>
        \/ w = <<"press", "drag", "dragEnd", "swipe">> \/ w = <<"press", "drag">>
    BY DEF Finger!Broken, Finger!Told
  <2>2. /\ <<>> \in Seq(Finger!Kinds) /\ <<"press">> \in Seq(Finger!Kinds) /\ <<"press", "long">> \in Seq(Finger!Kinds)
        /\ <<"press", "drag", "dragEnd">> \in Seq(Finger!Kinds) /\ <<"press", "tap">> \in Seq(Finger!Kinds)
        /\ <<"press", "drag", "dragEnd", "swipe">> \in Seq(Finger!Kinds) /\ <<"press", "drag">> \in Seq(Finger!Kinds)
    BY <1>1, <1>2
  <2> QED BY <2>1, <2>2
<1>4. \A w \in Finger!Broken \cup Finger!Told \cup {<<"press", "drag">>} : w \o <<>> = w /\ <<>> \o w = w
  BY <1>3, ConcatEmptySeq
<1>5. \A w \in Finger!Broken : w \o <<"two">> = Append(w, "two")
  BY <1>1, <1>3, AppendIsConcat
<1>6. ASSUME NEW a \in Finger!Kinds, NEW b \in Finger!Kinds PROVE <<a>> \o <<b>> = <<a, b>>
  <2>1. <<a>> \in Seq(Finger!Kinds)
    BY <1>2
  <2>2. <<a>> \o <<b>> = Append(<<a>>, b)
    BY <2>1, FingerGestureJoins
  <2> QED BY <2>2, FingerGestureLonger
<1>7. ASSUME NEW a \in Finger!Kinds, NEW b \in Finger!Kinds, NEW c \in Finger!Kinds PROVE <<a, b>> \o <<c>> = <<a, b, c>>
  <2>1. <<a, b>> \in Seq(Finger!Kinds)
    BY <1>2
  <2>2. <<a, b>> \o <<c>> = Append(<<a, b>>, c)
    BY <2>1, FingerGestureJoins
  <2> QED BY <2>2, FingerGestureLonger
<1>8. ASSUME NEW a \in Finger!Kinds, NEW b \in Finger!Kinds, NEW c \in Finger!Kinds, NEW d \in Finger!Kinds PROVE <<a, b>> \o <<c, d>> = <<a, b, c, d>>
  <2>1. <<a, b>> \o <<c, d>> = Append(Append(<<a, b>>, c), d)
    <3>1. <<a, b>> \in Seq(Finger!Kinds)
      BY <1>2
    <3> QED BY <3>1, FingerGestureJoins
  <2>2. PICK s : s = Append(<<a, b>>, c)
    OBVIOUS
  <2>3. s = <<a, b, c>>
    BY <2>2, FingerGestureLonger
  <2>4. PICK t : t = Append(s, d)
    OBVIOUS
  <2>5. t = Append(<<a, b, c>>, d)
    BY ONLY <2>3, <2>4
  <2>6. t = <<a, b, c, d>>
    <3>1. /\ Append(<<a, b, c>>, d) \in Seq(Finger!Kinds) /\ Len(Append(<<a, b, c>>, d)) = 4
          /\ Append(<<a, b, c>>, d)[1] = a /\ Append(<<a, b, c>>, d)[2] = b /\ Append(<<a, b, c>>, d)[3] = c
          /\ Append(<<a, b, c>>, d)[4] = d
      OBVIOUS
    <3>2. /\ <<a, b, c, d>> \in Seq(Finger!Kinds) /\ Len(<<a, b, c, d>>) = 4
          /\ <<a, b, c, d>>[1] = a /\ <<a, b, c, d>>[2] = b /\ <<a, b, c, d>>[3] = c /\ <<a, b, c, d>>[4] = d
      OBVIOUS
    <3>3. t \in Seq(Finger!Kinds) /\ Len(t) = 4 /\ t[1] = a /\ t[2] = b /\ t[3] = c /\ t[4] = d
      BY <2>5, <3>1
    <3>4. PICK u \in Seq(Finger!Kinds) : u = <<a, b, c, d>>
      BY <3>2
    <3>5. Len(t) = Len(u) /\ \A i \in 1..Len(t) : t[i] = u[i]
      BY <3>2, <3>3, <3>4
    <3>6. t = u
      BY <3>3, <3>5, SeqEqual
    <3> QED BY <3>4, <3>6
  <2> QED BY ONLY <2>1, <2>2, <2>4, <2>6
<1>9. <<"dragEnd">> \o <<>> = <<"dragEnd">>
  <2>1. <<"dragEnd">> \in Seq(Finger!Kinds)
    BY <1>1, <1>2
  <2> QED BY <2>1, ConcatEmptySeq
<1> QED BY <1>1, <1>3, <1>4, <1>5, <1>6, <1>7, <1>8, <1>9

LEMMA FingerGestureCells ==
  ASSUME NEW p \in Int \X Int
  PROVE  Finger!Col(p) \in Int /\ Finger!Row(p) \in Int
<1>1. CellW \in Nat \ {0} /\ CellH \in Nat \ {0} /\ p[1] \in Int /\ p[2] \in Int
  BY FingerInstance DEF Finger!GestureAssumption
<1>2. ASSUME NEW n \in Int, NEW c \in Nat \ {0} PROVE n \div c \in Int
  OBVIOUS
<1> QED BY <1>1, <1>2 DEF Finger!Col, Finger!Row

\* Where a tip of a frame is.
LEMMA FingerGestureTips ==
  ASSUME NEW frame \in Finger!FrameSet
  PROVE  LET tips == Finger!TipContacts(frame) IN
         /\ DOMAIN tips \subseteq Finger!Ids
         /\ \A i \in DOMAIN tips : tips[i] \in Int \X Int
<1>1. PICK D \in SUBSET Finger!Ids : frame \in [D -> [tip : BOOLEAN, at : Int \X Int]]
  BY DEF Finger!FrameSet
<1> QED BY <1>1 DEF Finger!TipContacts

\* What a frame makes of the recognizer, and what is said of it.
FingerStarts(s, o) == o.r.state = "pending" /\ o.events = <<"press">> /\ o.r.last = o.r.start /\ o.r.start \in Int \X Int
FingerResolves(s, o) ==
  \/ o.r.state = "idle" /\ (o.events = <<"tap">> \/ o.events = <<"long">>)
  \/ o.r.state = "held" /\ o.events = <<"long">>
FingerDrags(s, o) == o.r.state = "drag" /\ o.r.start = s.start /\ o.r.last \in Int \X Int
               /\ (o.wheel <=> ~(Finger!Col(o.r.last) = Finger!Col(s.last) /\ Finger!Row(o.r.last) = Finger!Row(s.last)))
FingerEnds(s, o) == o.r.state = "idle" /\ (o.events = <<"dragEnd">> \/ o.events = <<"dragEnd", "swipe">>)
FingerSplits(s, o) == o.r.state = "multi" /\ o.events = IF s.state = "drag" THEN <<"dragEnd">> ELSE <<>>
FingerJoins(s, o) == o.r.state = "idle" /\ (o.events = <<>> \/ o.events = <<"two">>)
FingerStill(s, o) ==
  \/ o.r = s /\ o.events = <<>> /\ s.state # "multi"
  \/ s.state = "idle" /\ FingerStarts(s, o)
  \/ s.state = "pending" /\ FingerResolves(s, o)
  \/ s.state = "held" /\ o.r.state = "idle" /\ o.events = <<>>
  \/ s.state = "drag" /\ FingerEnds(s, o)
  \/ FingerSplits(s, o)
  \/ s.state = "multi" /\ FingerJoins(s, o)
FingerShifts(s, o) ==
  \/ ~o.wheel /\ FingerStill(s, o)
  \/ s.state = "pending" /\ FingerDrags(s, o) /\ o.events = <<"drag">>
  \/ s.state = "drag" /\ FingerDrags(s, o) /\ o.events = <<>>
FingerTurns(s, o, tips) == o.r \in Finger!States /\ FingerShifts(s, o) /\ (Finger!NoTip(tips) => o.r.state = "idle")

LEMMA FingerGestureOuts ==
  ASSUME NEW q, NEW e
  PROVE  Finger!Out(q, e).r = q /\ Finger!Out(q, e).events = e /\ ~Finger!Out(q, e).wheel
BY DEF Finger!Out

\* A frame of a drag: where the finger is now, and whether it crossed cells.
FingerMoves(s, o, e) == o.r \in Finger!States /\ FingerDrags(s, o) /\ o.events = e
LEMMA FingerGestureMoves ==
  ASSUME NEW s \in Finger!States, NEW p \in Int \X Int, NEW e
  PROVE  FingerMoves(s, Finger!DragMove(s, p, e), e)
<1>1. PICK q : q = [s EXCEPT !.last = p, !.state = "drag"]
  OBVIOUS
<1>2. q \in Finger!States /\ q.state = "drag" /\ q.start = s.start /\ q.last = p
  BY <1>1 DEF Finger!States
<1>3. Finger!DragMove(s, p, e) = [r |-> q, events |-> e, wheel |-> ~(Finger!Col(p) = Finger!Col(s.last) /\ Finger!Row(p) = Finger!Row(s.last))]
  BY <1>1 DEF Finger!DragMove
<1>4. PICK o : o = Finger!DragMove(s, p, e)
  OBVIOUS
<1>5. o.r = q /\ o.events = e
  BY <1>3, <1>4
<1>6. o.wheel <=> ~(Finger!Col(p) = Finger!Col(s.last) /\ Finger!Row(p) = Finger!Row(s.last))
  <2>1. PICK b \in BOOLEAN : b = ~(Finger!Col(p) = Finger!Col(s.last) /\ Finger!Row(p) = Finger!Row(s.last))
    OBVIOUS
  <2>2. o = [r |-> q, events |-> e, wheel |-> b]
    BY <1>3, <1>4, <2>1
  <2>3. o.wheel = b
    BY <2>2
  <2> QED BY <2>1, <2>3
<1> QED BY <1>2, <1>4, <1>5, <1>6 DEF FingerMoves, FingerDrags

LEMMA FingerGestureSingle ==
  ASSUME NEW s \in Finger!States, NEW tips, DOMAIN tips \subseteq Finger!Ids, DOMAIN tips # Finger!Ids, s.state # "multi",
         \A i \in DOMAIN tips : tips[i] \in Int \X Int, s.state = "pending" => s.last = s.start
  PROVE  FingerTurns(s, Finger!FrameSingle(s, tips), tips)
<1>1. CASE s.state = "idle"
  <2>1. Finger!FrameSingle(s, tips) = Finger!FrameIdle(s, tips)
    BY <1>1 DEF Finger!FrameSingle
  <2>2. CASE Finger!NoTip(tips)
    <3>1. Finger!FrameIdle(s, tips) = Finger!Out(s, <<>>)
      BY <2>2 DEF Finger!FrameIdle
    <3>2. FingerShifts(s, Finger!Out(s, <<>>))
      BY <1>1 DEF FingerShifts, FingerStill, Finger!Out
    <3> QED BY <1>1, <2>1, <3>1, <3>2, FingerGestureOuts DEF FingerTurns
  <2>3. CASE ~Finger!NoTip(tips)
    <3>1. PICK i : i = CHOOSE k \in DOMAIN tips : TRUE
      OBVIOUS
    <3>2. i \in DOMAIN tips /\ i \in 0..2
      BY <2>3, <3>1 DEF Finger!NoTip, Finger!Ids
    <3>3. Finger!FrameIdle(s, tips) = Finger!Out([s EXCEPT !.state = "pending", !.primary = i, !.start = tips[i], !.last = tips[i], !.age = 0], <<"press">>)
      BY <2>3, <3>1 DEF Finger!FrameIdle
    <3>4. PICK q : q = [s EXCEPT !.state = "pending", !.primary = i, !.start = tips[i], !.last = tips[i], !.age = 0]
      OBVIOUS
    <3>5. q \in Finger!States /\ q.state = "pending" /\ q.last = q.start /\ q.start \in Int \X Int
      BY <3>2, <3>4 DEF Finger!States
    <3>6. Finger!FrameSingle(s, tips) = Finger!Out(q, <<"press">>)
      BY <2>1, <3>3, <3>4
    <3>7. FingerShifts(s, Finger!Out(q, <<"press">>))
      BY <1>1, <3>5 DEF FingerShifts, FingerStill, FingerStarts, Finger!Out
    <3> QED BY <2>3, <3>5, <3>6, <3>7, FingerGestureOuts DEF FingerTurns
  <2> QED BY <2>2, <2>3
<1>2. CASE s.state = "pending"
  <2>1. Finger!FrameSingle(s, tips) = Finger!FramePending(s, tips)
    BY <1>2 DEF Finger!FrameSingle
  <2>2. CASE ~Finger!FindContact(tips, s.primary)
    <3>1. PICK q : q = [s EXCEPT !.state = "idle"]
      OBVIOUS
    <3>2. q \in Finger!States /\ q.state = "idle"
      BY <3>1 DEF Finger!States
    <3>3. PICK e \in {<<"long">>, <<"tap">>} : Finger!FramePending(s, tips) = Finger!Out(q, e)
      BY <2>2, <3>1 DEF Finger!FramePending
    <3>4. FingerShifts(s, Finger!Out(q, e))
      BY <1>2, <3>2 DEF FingerShifts, FingerStill, FingerResolves, Finger!Out
    <3> QED BY <2>1, <3>2, <3>3, <3>4, FingerGestureOuts DEF FingerTurns
  <2>3. CASE Finger!FindContact(tips, s.primary)
    <3>1. tips[s.primary] \in Int \X Int /\ ~Finger!NoTip(tips)
      BY <2>3 DEF Finger!FindContact, Finger!NoTip
    <3>2. CASE Finger!BeyondSlop(tips[s.primary], s.start)
      <4>1. Finger!FramePending(s, tips) = Finger!DragMove(s, tips[s.primary], <<"drag">>)
        BY <2>3, <3>2 DEF Finger!FramePending
      <4>2. FingerMoves(s, Finger!DragMove(s, tips[s.primary], <<"drag">>), <<"drag">>)
        BY <3>1, FingerGestureMoves
      <4> QED BY <1>2, <2>1, <3>1, <4>1, <4>2 DEF FingerTurns, FingerShifts, FingerMoves
    <3>3. CASE ~Finger!BeyondSlop(tips[s.primary], s.start) /\ s.age >= LongPress
      <4>1. PICK q : q = [s EXCEPT !.state = "held"]
        OBVIOUS
      <4>2. q \in Finger!States /\ q.state = "held"
        BY <4>1 DEF Finger!States
      <4>3. Finger!FramePending(s, tips) = Finger!Out(q, <<"long">>)
        BY <2>3, <3>3, <4>1 DEF Finger!FramePending
      <4>4. FingerShifts(s, Finger!Out(q, <<"long">>))
        BY <1>2, <4>2 DEF FingerShifts, FingerStill, FingerResolves, Finger!Out
      <4> QED BY <2>1, <3>1, <4>2, <4>3, <4>4, FingerGestureOuts DEF FingerTurns
    <3>4. CASE ~Finger!BeyondSlop(tips[s.primary], s.start) /\ ~(s.age >= LongPress)
      <4>1. Finger!FramePending(s, tips) = Finger!Out(s, <<>>)
        BY <2>3, <3>4 DEF Finger!FramePending
      <4>2. FingerShifts(s, Finger!Out(s, <<>>))
        BY <1>2 DEF FingerShifts, FingerStill, Finger!Out
      <4> QED BY <2>1, <3>1, <4>1, <4>2, FingerGestureOuts DEF FingerTurns
    <3> QED BY <3>2, <3>3, <3>4
  <2> QED BY <2>2, <2>3
<1>3. CASE s.state = "held"
  <2>1. Finger!FrameSingle(s, tips) = Finger!FrameHeld(s, tips)
    BY <1>3 DEF Finger!FrameSingle
  <2>2. CASE Finger!FindContact(tips, s.primary)
    <3>1. Finger!FrameHeld(s, tips) = Finger!Out(s, <<>>) /\ ~Finger!NoTip(tips)
      BY <2>2 DEF Finger!FrameHeld, Finger!FindContact, Finger!NoTip
    <3>2. FingerShifts(s, Finger!Out(s, <<>>))
      BY <1>3 DEF FingerShifts, FingerStill, Finger!Out
    <3> QED BY <2>1, <3>1, <3>2, FingerGestureOuts DEF FingerTurns
  <2>3. CASE ~Finger!FindContact(tips, s.primary)
    <3>1. PICK q : q = [s EXCEPT !.state = "idle"]
      OBVIOUS
    <3>2. q \in Finger!States /\ q.state = "idle"
      BY <3>1 DEF Finger!States
    <3>3. Finger!FrameHeld(s, tips) = Finger!Out(q, <<>>)
      BY <2>3, <3>1 DEF Finger!FrameHeld
    <3>4. FingerShifts(s, Finger!Out(q, <<>>))
      BY <1>3, <3>2 DEF FingerShifts, FingerStill, Finger!Out
    <3> QED BY <2>1, <3>2, <3>3, <3>4, FingerGestureOuts DEF FingerTurns
  <2> QED BY <2>2, <2>3
<1>4. CASE s.state = "drag"
  <2>1. Finger!FrameSingle(s, tips) = Finger!FrameDrag(s, tips)
    BY <1>4 DEF Finger!FrameSingle
  <2>2. CASE Finger!FindContact(tips, s.primary)
    <3>1. tips[s.primary] \in Int \X Int /\ ~Finger!NoTip(tips)
      BY <2>2 DEF Finger!FindContact, Finger!NoTip
    <3>2. Finger!FrameDrag(s, tips) = Finger!DragMove(s, tips[s.primary], <<>>)
      BY <2>2 DEF Finger!FrameDrag
    <3>3. FingerMoves(s, Finger!DragMove(s, tips[s.primary], <<>>), <<>>)
      BY <3>1, FingerGestureMoves
    <3> QED BY <1>4, <2>1, <3>1, <3>2, <3>3 DEF FingerTurns, FingerShifts, FingerMoves
  <2>3. CASE ~Finger!FindContact(tips, s.primary)
    <3>1. PICK q : q = [s EXCEPT !.state = "idle"]
      OBVIOUS
    <3>2. q \in Finger!States /\ q.state = "idle"
      BY <3>1 DEF Finger!States
    <3>3. <<"dragEnd">> \o Finger!SwipeOf("swipe", s.start, s.last) \in {<<"dragEnd">>, <<"dragEnd", "swipe">>}
      <4>1. <<"dragEnd">> \o <<>> = <<"dragEnd">> /\ <<"dragEnd">> \o <<"swipe">> = <<"dragEnd", "swipe">>
        BY FingerGestureWords
      <4> QED BY <4>1 DEF Finger!SwipeOf
    <3>4. PICK e \in {<<"dragEnd">>, <<"dragEnd", "swipe">>} : Finger!FrameDrag(s, tips) = Finger!Out(q, e)
      BY <2>3, <3>1, <3>3 DEF Finger!FrameDrag
    <3>5. FingerShifts(s, Finger!Out(q, e))
      BY <1>4, <3>2 DEF FingerShifts, FingerStill, FingerEnds, Finger!Out
    <3> QED BY <2>1, <3>2, <3>4, <3>5, FingerGestureOuts DEF FingerTurns
  <2> QED BY <2>2, <2>3
<1> QED BY <1>1, <1>2, <1>3, <1>4 DEF Finger!States

LEMMA FingerGestureMulti ==
  ASSUME NEW s \in Finger!States, NEW tips, DOMAIN tips \subseteq Finger!Ids, DOMAIN tips = Finger!Ids \/ s.state = "multi",
         \A i \in DOMAIN tips : tips[i] \in Int \X Int
  PROVE  FingerTurns(s, Finger!FrameMulti(s, tips), tips)
<1>1. CASE Finger!TwoTips(tips)
  <2>1. PICK c \in Int \X Int : c = Finger!Centroid(tips)
    <3>1. tips[1] \in Int \X Int /\ tips[2] \in Int \X Int
      BY <1>1 DEF Finger!TwoTips, Finger!Ids
    <3>2. /\ tips[1][1] \in Int /\ tips[1][2] \in Int /\ tips[2][1] \in Int /\ tips[2][2] \in Int
      BY <3>1
    <3>3. ASSUME NEW a \in Int, NEW b \in Int PROVE (a + b) \div 2 \in Int
      OBVIOUS
    <3>4. (tips[1][1] + tips[2][1]) \div 2 \in Int /\ (tips[1][2] + tips[2][2]) \div 2 \in Int
      BY ONLY <3>2, <3>3
    <3> QED BY <3>4 DEF Finger!Centroid
  <2>2. Finger!Tracked(s, c) \in Finger!States /\ Finger!Tracked(s, c).state = "multi"
    <3>1. PICK m \in Int \X Int : m = IF s.state # "multi" \/ s.dropped THEN c ELSE s.multiStart
      BY DEF Finger!States
    <3>2. Finger!Tracked(s, c) = [s EXCEPT !.state = "multi", !.dropped = FALSE, !.multiLast = c, !.multiStart = m]
      BY <3>1 DEF Finger!Tracked, Finger!States
    <3> QED BY <3>2 DEF Finger!States
  <2>3. PICK q : q = Finger!Tracked(s, c)
    OBVIOUS
  <2>4. q \in Finger!States /\ q.state = "multi"
    BY <2>2, <2>3
  <2>7. ~Finger!NoTip(tips)
    BY <1>1 DEF Finger!TwoTips, Finger!NoTip, Finger!Ids
  <2>6. Finger!FrameMulti(s, tips) = Finger!Out(q, Finger!Closing(s))
    BY <1>1, <2>1, <2>3, <2>7 DEF Finger!FrameMulti
  <2>8. FingerShifts(s, Finger!Out(q, Finger!Closing(s)))
    BY <2>4 DEF FingerShifts, FingerStill, FingerSplits, Finger!Closing, Finger!Out
  <2> QED BY <2>4, <2>6, <2>7, <2>8, FingerGestureOuts DEF FingerTurns
<1>2. CASE ~Finger!TwoTips(tips) /\ Finger!NoTip(tips)
  <2>1. PICK e \in {<<>>, <<"two">>} : e = Finger!SwipeOf("two", s.multiStart, s.multiLast)
    BY DEF Finger!SwipeOf
  <2>2. PICK q : q = [s EXCEPT !.state = "idle", !.dropped = FALSE]
    OBVIOUS
  <2>3. q \in Finger!States /\ q.state = "idle"
    BY <2>2 DEF Finger!States
  <2>4. Finger!FrameMulti(s, tips) = Finger!Out(q, e)
    BY <1>2, <2>1, <2>2 DEF Finger!FrameMulti
  <2>5. s.state = "multi"
    BY <1>2 DEF Finger!TwoTips
  <2>6. FingerShifts(s, Finger!Out(q, e))
    BY <2>3, <2>5 DEF FingerShifts, FingerStill, FingerJoins, Finger!Out
  <2> QED BY <2>3, <2>4, <2>6, FingerGestureOuts DEF FingerTurns
<1>3. CASE ~Finger!TwoTips(tips) /\ ~Finger!NoTip(tips)
  <2>1. PICK q : q = [s EXCEPT !.dropped = TRUE]
    OBVIOUS
  <2>2. s.state = "multi"
    BY <1>3 DEF Finger!TwoTips
  <2>3. q \in Finger!States /\ q.state = "multi"
    BY <2>1, <2>2 DEF Finger!States
  <2>4. Finger!FrameMulti(s, tips) = Finger!Out(q, <<>>)
    BY <1>3, <2>1 DEF Finger!FrameMulti
  <2>5. FingerShifts(s, Finger!Out(q, <<>>))
    BY <2>2, <2>3 DEF FingerShifts, FingerStill, FingerSplits, Finger!Out
  <2> QED BY <1>3, <2>3, <2>4, <2>5, FingerGestureOuts DEF FingerTurns
<1> QED BY <1>1, <1>2, <1>3

LEMMA FingerGestureFrames ==
  ASSUME Finger!IInv, NEW frame \in Finger!FrameSet
  PROVE  FingerTurns(r, Finger!Frame(r, frame), Finger!TipContacts(frame))
<1> DEFINE tips == Finger!TipContacts(frame)
<1>1. DOMAIN tips \subseteq Finger!Ids /\ \A i \in DOMAIN tips : tips[i] \in Int \X Int
  BY FingerGestureTips
<1>2. r \in Finger!States /\ (r.state = "pending" => r.last = r.start)
  BY DEF Finger!IInv, Finger!Placed
<1>3. Finger!Frame(r, frame) = IF Finger!TwoTips(tips) \/ r.state = "multi" THEN Finger!FrameMulti(r, tips) ELSE Finger!FrameSingle(r, tips)
  BY DEF Finger!Frame
<1> SUFFICES FingerTurns(r, Finger!Frame(r, frame), tips)
  OBVIOUS
<1> HIDE DEF tips
<1>4. CASE Finger!TwoTips(tips) \/ r.state = "multi"
  <2>1. Finger!Frame(r, frame) = Finger!FrameMulti(r, tips)
    BY <1>3, <1>4
  <2> QED BY <1>1, <1>2, <1>4, <2>1, FingerGestureMulti DEF Finger!TwoTips
<1>5. CASE ~(Finger!TwoTips(tips) \/ r.state = "multi")
  <2>1. Finger!Frame(r, frame) = Finger!FrameSingle(r, tips)
    BY <1>3, <1>5
  <2> QED BY <1>1, <1>2, <1>5, <2>1, FingerGestureSingle DEF Finger!TwoTips
<1> QED BY <1>4, <1>5

---------------------------------------------------------------------------
LEMMA FingerGestureInitIInv == Finger!Init => Finger!IInv
<1> SUFFICES ASSUME Finger!Init PROVE Finger!IInv
  OBVIOUS
<1>1. r = Finger!New /\ Finger!New.state = "idle" /\ Finger!New \in Finger!States
  <2>1. Finger!None \in Int \X Int
    BY DEF Finger!None
  <2> QED BY <2>1 DEF Finger!Init, Finger!New, Finger!States
<1>2. frames = <<>> /\ Len(frames) = 0 /\ frames \in Seq(Finger!FrameSet) /\ fingers \in [Finger!Ids -> Points \cup {Finger!None}]
  BY DEF Finger!Init
<1>3. Finger!TypeOK
  <2>1. 0 <= FrameQueueLen /\ 0 \in 0..MaxReports
    BY FingerInstance DEF Finger!GestureAssumption
  <2>2. touch = <<>> /\ DOMAIN touch = {}
    BY DEF Finger!Init
  <2> QED BY <1>1, <1>2, <2>1, <2>2 DEF Finger!Init, Finger!TypeOK
<1>4. Finger!Story /\ Finger!Placed
  BY <1>1 DEF Finger!Init, Finger!Story, Finger!Placed
<1>5. Finger!Newest
  BY <1>2 DEF Finger!Newest
<1>6. Finger!WheelsAddUp /\ Finger!FollowsGlass
  BY <1>1 DEF Finger!Init, Finger!WheelsAddUp, Finger!FollowsGlass
<1> QED BY <1>3, <1>4, <1>5, <1>6 DEF Finger!IInv

\* A step of the recognizer keeps what was said of the touch in step with its state.
LEMMA FingerGestureRecords ==
  ASSUME Finger!IInv, NEW o, NEW tips, FingerTurns(r, o, tips), Finger!Record(o)
  PROVE  Finger!Story' /\ Finger!WheelsAddUp' /\ r' \in Finger!States /\ (r'.state = "pending" => r'.last = r'.start) /\ two' \in BOOLEAN
<1>1. /\ r' = o.r /\ touch' = (IF r.state = "idle" THEN <<>> ELSE touch) \o o.events
      /\ two' = ((r.state # "idle" /\ two) \/ o.r.state = "multi")
  BY DEF Finger!Record
<1>2. r \in Finger!States /\ o.r \in Finger!States /\ FingerShifts(r, o) /\ two \in BOOLEAN /\ (r.state = "pending" => r.last = r.start)
  BY DEF FingerTurns, Finger!IInv, Finger!Placed
<1>3. /\ r.state = "pending" => touch = <<"press">>
      /\ r.state = "held" => touch = <<"press", "long">>
      /\ r.state = "drag" => touch = <<"press", "drag">>
      /\ r.state = "multi" => two /\ touch \in Finger!Broken
  BY DEF Finger!IInv, Finger!Story
<1>4. <<"press">> \in Finger!Broken /\ <<"press", "long">> \in Finger!Broken /\ <<>> \in Finger!Broken /\ <<"press", "drag", "dragEnd">> \in Finger!Broken
  BY DEF Finger!Broken
<1>5. <<>> \o <<>> = <<>> /\ <<>> \o <<"press">> = <<"press">> /\ <<"press", "drag">> \o <<>> = <<"press", "drag">>
      /\ (\A w \in Finger!Broken : w \o <<>> = w)
  BY <1>4, FingerGestureWords
<1>6. CASE ~o.wheel /\ o.r = r /\ o.events = <<>> /\ r.state # "multi"
  <2>1. r' = r /\ (r.state # "idle" => touch' = touch) /\ (r.state = "idle" => touch' = <<>>)
    BY <1>1, <1>2, <1>3, <1>4, <1>5, <1>6 DEF Finger!States
  <2>2. Finger!Story'
    BY <1>2, <1>3, <1>6, <2>1 DEF Finger!Story, Finger!States
  <2>3. Finger!WheelsAddUp'
    BY <1>6, <2>1 DEF Finger!Record, Finger!IInv, Finger!WheelsAddUp
  <2> QED BY <1>1, <1>2, <2>1, <2>2, <2>3
<1>7. CASE ~o.wheel /\ r.state = "idle" /\ FingerStarts(r, o)
  BY <1>1, <1>2, <1>5, <1>7 DEF FingerStarts, Finger!Story, Finger!WheelsAddUp
<1>8. CASE ~o.wheel /\ r.state = "pending" /\ FingerResolves(r, o)
  <2>1. touch' = <<"press", "tap">> \/ touch' = <<"press", "long">>
    BY <1>1, <1>3, <1>8, FingerGestureWords DEF FingerResolves
  <2>2. r'.state = "idle" \/ (r'.state = "held" /\ touch' = <<"press", "long">>)
    BY <1>1, <1>3, <1>8, FingerGestureWords DEF FingerResolves
  <2>3. touch' \in Finger!Told
    BY <2>1 DEF Finger!Told
  <2> QED BY <1>1, <1>2, <2>2, <2>3 DEF Finger!Story, Finger!WheelsAddUp
<1>9. CASE ~o.wheel /\ r.state = "held" /\ o.r.state = "idle" /\ o.events = <<>>
  <2>1. touch' = <<"press", "long">>
    BY <1>1, <1>3, <1>4, <1>5, <1>9
  <2>2. touch' \in Finger!Told
    BY <2>1 DEF Finger!Told
  <2> QED BY <1>1, <1>2, <1>9, <2>2 DEF Finger!Story, Finger!WheelsAddUp
<1>10. CASE ~o.wheel /\ r.state = "drag" /\ FingerEnds(r, o)
  <2>1. touch' = <<"press", "drag", "dragEnd">> \/ touch' = <<"press", "drag", "dragEnd", "swipe">>
    BY <1>1, <1>3, <1>10, FingerGestureWords DEF FingerEnds
  <2>2. touch' \in Finger!Told
    BY <2>1 DEF Finger!Told
  <2> QED BY <1>1, <1>2, <1>10, <2>2 DEF FingerEnds, Finger!Story, Finger!WheelsAddUp
<1>11. CASE ~o.wheel /\ FingerSplits(r, o)
  <2>1. o.r.state = "multi" /\ o.events = IF r.state = "drag" THEN <<"dragEnd">> ELSE <<>>
    BY <1>11 DEF FingerSplits
  <2>2. CASE r.state = "drag"
    BY <1>1, <1>2, <1>3, <1>4, <2>1, <2>2, FingerGestureWords DEF Finger!Story, Finger!WheelsAddUp
  <2>3. CASE r.state # "drag"
    <3>1. touch' \in Finger!Broken
      BY <1>1, <1>2, <1>3, <1>4, <1>5, <2>1, <2>3 DEF Finger!States
    <3> QED BY <1>1, <1>2, <2>1, <3>1 DEF Finger!Story, Finger!WheelsAddUp
  <2> QED BY <2>2, <2>3
<1>12. CASE ~o.wheel /\ r.state = "multi" /\ FingerJoins(r, o)
  <2>1. touch' = touch \/ touch' = Append(touch, "two")
    BY <1>1, <1>3, <1>5, <1>12, FingerGestureWords DEF FingerJoins
  <2>2. Finger!Doubled' /\ two'
    BY <1>1, <1>3, <1>12, <2>1 DEF Finger!Doubled
  <2> QED BY <1>1, <1>2, <1>12, <2>2 DEF FingerJoins, Finger!Story, Finger!WheelsAddUp
<1>13. CASE (r.state = "pending" /\ FingerDrags(r, o) /\ o.events = <<"drag">>) \/ (r.state = "drag" /\ FingerDrags(r, o) /\ o.events = <<>>)
  <2>1. touch' = <<"press", "drag">>
    <3>1. CASE r.state = "pending"
      <4>1. touch = <<"press">> /\ o.events = <<"drag">> /\ touch' = touch \o o.events
        BY <1>1, <1>3, <1>13, <3>1
      <4> QED BY <4>1, FingerGestureWords
    <3>2. CASE r.state = "drag"
      <4>1. touch = <<"press", "drag">> /\ o.events = <<>> /\ touch' = touch \o o.events
        BY <1>1, <1>3, <1>13, <3>2
      <4> QED BY <4>1, <1>5
    <3> QED BY <1>13, <3>1, <3>2
  <2>0. FingerDrags(r, o)
    BY <1>13
  <2>2. o.r.state = "drag" /\ o.r.start = r.start /\ (o.wheel <=> ~(Finger!Col(o.r.last) = Finger!Col(r.last) /\ Finger!Row(o.r.last) = Finger!Row(r.last)))
    BY ONLY <2>0 DEF FingerDrags
  <2>3. Finger!Story'
    BY <1>1, <2>1, <2>2 DEF Finger!Story
  <2>4. /\ Finger!Col(r.start) \in Int /\ Finger!Row(r.start) \in Int /\ Finger!Col(r.last) \in Int /\ Finger!Row(r.last) \in Int
        /\ Finger!Col(o.r.last) \in Int /\ Finger!Row(o.r.last) \in Int
    BY <1>2, FingerGestureCells DEF Finger!States
  <2>5. ASSUME r.state = "pending" PROVE rolled' = <<Finger!Col(o.r.last) - Finger!Col(r.start), Finger!Row(o.r.last) - Finger!Row(r.start)>>
    <3>1. CASE o.wheel
      <4>1. rolled' = <<0 + Finger!Col(o.r.last) - Finger!Col(r.last), 0 + Finger!Row(o.r.last) - Finger!Row(r.last)>>
        BY <2>5, <3>1 DEF Finger!Record
      <4>2. r.last = r.start
        BY <1>2, <2>5
      <4>3. ASSUME NEW a \in Int, NEW b \in Int PROVE 0 + a - b = a - b
        OBVIOUS
      <4> QED BY ONLY <2>4, <4>1, <4>2, <4>3
    <3>2. CASE ~o.wheel
      <4>1. rolled' = <<0, 0>>
        BY <2>2, <2>5, <3>2 DEF Finger!Record
      <4>2. Finger!Col(o.r.last) = Finger!Col(r.start) /\ Finger!Row(o.r.last) = Finger!Row(r.start)
        BY <1>2, <2>2, <2>5, <3>2
      <4>3. ASSUME NEW a \in Int PROVE 0 = a - a
        OBVIOUS
      <4>4. 0 = Finger!Col(r.start) - Finger!Col(r.start) /\ 0 = Finger!Row(r.start) - Finger!Row(r.start)
        BY ONLY <2>4, <4>3
      <4> QED BY ONLY <4>1, <4>2, <4>4
    <3> QED BY <3>1, <3>2
  <2>6. ASSUME r.state = "drag" PROVE rolled' = <<Finger!Col(o.r.last) - Finger!Col(r.start), Finger!Row(o.r.last) - Finger!Row(r.start)>>
    <3>1. rolled = <<Finger!Col(r.last) - Finger!Col(r.start), Finger!Row(r.last) - Finger!Row(r.start)>>
      BY <2>6 DEF Finger!IInv, Finger!WheelsAddUp
    <3>2. CASE o.wheel
      <4>1. rolled' = <<rolled[1] + Finger!Col(o.r.last) - Finger!Col(r.last), rolled[2] + Finger!Row(o.r.last) - Finger!Row(r.last)>>
        BY <2>6, <3>2 DEF Finger!Record
      <4>2. rolled[1] = Finger!Col(r.last) - Finger!Col(r.start) /\ rolled[2] = Finger!Row(r.last) - Finger!Row(r.start)
        BY <3>1
      <4>3. ASSUME NEW a \in Int, NEW b \in Int, NEW c \in Int PROVE (a - b) + c - a = c - b
        OBVIOUS
      <4> QED BY ONLY <2>4, <4>1, <4>2, <4>3
    <3>3. CASE ~o.wheel
      <4>1. rolled' = rolled
        BY <2>6, <3>3 DEF Finger!Record
      <4>2. Finger!Col(o.r.last) = Finger!Col(r.last) /\ Finger!Row(o.r.last) = Finger!Row(r.last)
        BY <2>2, <3>3
      <4> QED BY ONLY <3>1, <4>1, <4>2
    <3> QED BY <3>2, <3>3
  <2>7. Finger!WheelsAddUp'
    <3>1. rolled' = <<Finger!Col(o.r.last) - Finger!Col(o.r.start), Finger!Row(o.r.last) - Finger!Row(o.r.start)>>
      BY <1>13, <2>2, <2>5, <2>6
    <3> QED BY <1>1, <3>1 DEF Finger!WheelsAddUp
  <2> QED BY <1>1, <1>2, <2>2, <2>3, <2>7
<1> QED BY <1>2, <1>6, <1>7, <1>8, <1>9, <1>10, <1>11, <1>12, <1>13 DEF FingerShifts, FingerStill

\* Whatever was said is made of the kinds.
LEMMA FingerGestureSpoken ==
  ASSUME NEW w, w = <<>> \/ w \in Finger!Told \/ w \in Finger!Broken \/ w = <<"press", "drag">> \/ \E v \in Finger!Broken : w = Append(v, "two")
  PROVE  \A i \in DOMAIN w : w[i] \in Finger!Kinds
<1>1. ASSUME NEW v \in Seq(Finger!Kinds) PROVE \A i \in DOMAIN v : v[i] \in Finger!Kinds
  BY <1>1, ElementOfSeq, LenProperties
<1>2. <<>> \in Finger!Broken /\ "two" \in Finger!Kinds
  BY DEF Finger!Broken, Finger!Kinds
<1>3. w \in Seq(Finger!Kinds)
  <2>1. CASE w = <<>> \/ w \in Finger!Told \/ w \in Finger!Broken \/ w = <<"press", "drag">>
    BY <1>2, <2>1, FingerGestureWords
  <2>2. CASE \E v \in Finger!Broken : w = Append(v, "two")
    <3>1. PICK v \in Finger!Broken : w = Append(v, "two")
      BY <2>2
    <3>2. v \in Seq(Finger!Kinds)
      BY FingerGestureWords
    <3> QED BY <1>2, <3>1, <3>2, AppendProperties
  <2> QED BY <2>1, <2>2
<1> QED BY <1>1, <1>3

\* A report queues the glass as it is; a full queue loses its oldest frame.
LEMMA FingerGestureReports == Finger!IInv /\ Finger!Report => Finger!IInv'
<1> SUFFICES ASSUME Finger!IInv, Finger!Report PROVE Finger!IInv'
  OBVIOUS
<1>1. PICK glass \in [Finger!Ids -> Points \cup {Finger!None}], count \in 0..2 : fingers' = glass /\ frames' = Finger!Offer(frames, Finger!ParseReport(glass, fingers, count))
  BY DEF Finger!Report
<1>2. UNCHANGED <<r, touch, two, rolled>> /\ reports < MaxReports /\ reports' = reports + 1 /\ cut' = (cut \/ Len(frames) = FrameQueueLen)
  BY DEF Finger!Report
<1> DEFINE f == Finger!ParseReport(glass, fingers, count)
<1>3. f \in Finger!FrameSet
  <2>1. Finger!None \in Int \X Int /\ Points \subseteq Int \X Int
    BY FingerInstance DEF Finger!GestureAssumption, Finger!None
  <2>2. PICK D \in SUBSET Finger!Ids : D = {k \in Finger!Ids : glass[k] # Finger!None \/ k <= count}
    OBVIOUS
  <2>3. \A i \in D : Finger!Slot(i, glass, fingers[i]) \in [tip : BOOLEAN, at : Int \X Int]
    BY <1>1, <2>1, <2>2 DEF Finger!Slot, Finger!IInv, Finger!Newest
  <2>4. f \in [D -> [tip : BOOLEAN, at : Int \X Int]]
    BY <2>2, <2>3 DEF Finger!ParseReport
  <2> QED BY <2>4 DEF Finger!FrameSet
<1>4. DOMAIN Finger!TipContacts(f) = {i \in Finger!Ids : glass[i] # Finger!None}
  <2>1. \A i \in DOMAIN f : f[i].tip <=> glass[i] # Finger!None
    BY DEF Finger!ParseReport, Finger!Slot
  <2>2. DOMAIN f = {k \in Finger!Ids : glass[k] # Finger!None \/ k <= count}
    BY DEF Finger!ParseReport
  <2>3. DOMAIN Finger!TipContacts(f) = {k \in DOMAIN f : f[k].tip}
    BY DEF Finger!TipContacts
  <2> HIDE DEF f
  <2> QED BY <2>1, <2>2, <2>3
<1> HIDE DEF f
<1>5. frames \in Seq(Finger!FrameSet) /\ Len(frames) \in Nat /\ Len(frames) <= FrameQueueLen /\ FrameQueueLen \in Nat \ {0}
  BY FingerInstance, LenProperties DEF Finger!IInv, Finger!TypeOK, Finger!Newest, Finger!GestureAssumption
<1>6. frames' \in Seq(Finger!FrameSet) /\ frames' # <<>> /\ Len(frames') <= FrameQueueLen /\ frames'[Len(frames')] = f
  <2>1. CASE Len(frames) < FrameQueueLen
    <3>1. frames' = Append(frames, f)
      BY <1>1, <2>1 DEF Finger!Offer, f
    <3> QED BY <1>3, <1>5, <2>1, <3>1, AppendProperties
  <2>2. CASE ~(Len(frames) < FrameQueueLen)
    <3>1. frames' = Append(Tail(frames), f)
      BY <1>1, <2>2 DEF Finger!Offer, f
    <3>2. frames # <<>>
      BY <1>5, <2>2
    <3>3. Tail(frames) \in Seq(Finger!FrameSet) /\ Len(Tail(frames)) = Len(frames) - 1
      BY <1>5, <3>2
    <3> QED BY <1>3, <1>5, <3>1, <3>3, AppendProperties
  <2> QED BY <2>1, <2>2
<1>7. Finger!Newest'
  BY <1>1, <1>4, <1>6 DEF Finger!Newest
<1>8. Finger!TypeOK'
  BY <1>2, <1>6, FingerInstance DEF Finger!IInv, Finger!TypeOK, Finger!GestureAssumption
<1>9. Finger!Story' /\ Finger!WheelsAddUp'
  BY <1>2 DEF Finger!IInv, Finger!Story, Finger!Doubled, Finger!WheelsAddUp
<1>10. Finger!Placed'
  BY <1>2 DEF Finger!IInv, Finger!Placed
<1>11. Finger!FollowsGlass'
  BY <1>6 DEF Finger!FollowsGlass
<1> QED BY <1>7, <1>8, <1>9, <1>10, <1>11 DEF Finger!IInv

\* When the last frame is handled the recognizer has seen the glass as it is.
LEMMA FingerGestureHandles == Finger!IInv /\ Finger!Handle => Finger!IInv'
<1> SUFFICES ASSUME Finger!IInv, Finger!Handle PROVE Finger!IInv'
  OBVIOUS
<1>1. frames # <<>> /\ frames' = Tail(frames) /\ UNCHANGED <<fingers, reports>>
  BY DEF Finger!Handle
<1>2. frames \in Seq(Finger!FrameSet) /\ Len(frames) \in Nat \ {0} /\ Head(frames) = frames[1]
  BY <1>1, EmptySeq DEF Finger!IInv, Finger!Newest
<1>3. PICK frame \in Finger!FrameSet : frame = Head(frames)
  BY <1>1, <1>2
<1>4. PICK o : o = Finger!Frame(r, frame)
  OBVIOUS
<1>5. PICK tips : tips = Finger!TipContacts(frame)
  OBVIOUS
<1>6. FingerTurns(r, o, tips)
  BY <1>4, <1>5, FingerGestureFrames
<1>7. Finger!Record(o) /\ cut' = IF r'.state = "idle" THEN ~Finger!NoTip(tips) ELSE cut
  BY <1>3, <1>4, <1>5 DEF Finger!Handle
<1>8. Finger!Story' /\ Finger!WheelsAddUp' /\ r' \in Finger!States /\ (r'.state = "pending" => r'.last = r'.start) /\ two' \in BOOLEAN
  BY <1>6, <1>7, FingerGestureRecords
<1>9. Finger!Placed'
  BY <1>7, <1>8 DEF Finger!Placed, Finger!IInv, Finger!NoTip
<1>10. frames' \in Seq(Finger!FrameSet) /\ Len(frames') = Len(frames) - 1 /\ \A i \in 1..Len(frames') : frames'[i] = frames[i + 1]
  BY <1>1, <1>2
<1>11. Finger!TypeOK'
  <2>1. \A i \in DOMAIN touch' : touch'[i] \in Finger!Kinds
    <3>1. PICK w : w = touch'
      OBVIOUS
    <3>2. w = <<>> \/ w \in Finger!Told \/ w \in Finger!Broken \/ w = <<"press", "drag">> \/ \E v \in Finger!Broken : w = Append(v, "two")
      <4>1. <<"press">> \in Finger!Broken /\ <<"press", "long">> \in Finger!Broken
        BY DEF Finger!Broken
      <4> QED BY <4>1, <1>8, <3>1 DEF Finger!Story, Finger!Doubled, Finger!States
    <3> QED BY <3>1, <3>2, FingerGestureSpoken
  <2>2. Len(frames') <= FrameQueueLen /\ reports' \in 0..MaxReports
    BY <1>1, <1>2, <1>10, FingerInstance DEF Finger!IInv, Finger!TypeOK, Finger!GestureAssumption
  <2> QED BY <1>8, <2>1, <2>2 DEF Finger!TypeOK, Finger!States
<1>12. Finger!Newest'
  <2>1. ASSUME frames' # <<>> PROVE frames'[Len(frames')] = frames[Len(frames)]
    <3>1. Len(frames') \in Nat \ {0}
      BY <1>10, <2>1, EmptySeq
    <3> QED BY <1>2, <1>10, <3>1
  <2> QED BY <1>1, <1>10, <2>1 DEF Finger!IInv, Finger!Newest
<1>13. Finger!FollowsGlass'
  <2> SUFFICES ASSUME frames' = <<>>, ~cut' PROVE r'.state = "idle" <=> \A i \in Finger!Ids : fingers[i] = Finger!None
    BY <1>1 DEF Finger!FollowsGlass
  <2>1. Len(frames) = 1
    BY <1>2, <1>10
  <2>2. DOMAIN tips = {i \in Finger!Ids : fingers[i] # Finger!None}
    BY <1>1, <1>2, <1>3, <1>5, <2>1 DEF Finger!IInv, Finger!Newest
  <2>3. Finger!NoTip(tips) <=> \A i \in Finger!Ids : fingers[i] = Finger!None
    BY <2>2 DEF Finger!NoTip
  <2>4. Finger!NoTip(tips) => r'.state = "idle"
    BY <1>6, <1>7 DEF FingerTurns, Finger!Record
  <2>5. r'.state = "idle" => Finger!NoTip(tips)
    BY <1>7
  <2> QED BY <2>3, <2>4, <2>5
<1> QED BY <1>8, <1>9, <1>11, <1>12, <1>13 DEF Finger!IInv

LEMMA FingerGestureWaits == Finger!IInv /\ (Finger!Wait \/ Finger!Deadline \/ Finger!Cancel) => Finger!IInv'
<1> SUFFICES ASSUME Finger!IInv, Finger!Wait \/ Finger!Deadline \/ Finger!Cancel PROVE Finger!IInv'
  OBVIOUS
<1>1. CASE Finger!Wait
  <2>1. r' = [r EXCEPT !.age = @ + 1] /\ r.state = "pending" /\ UNCHANGED <<fingers, frames, touch, two, cut, rolled, reports>>
    BY <1>1 DEF Finger!Wait
  <2>2. /\ r' \in Finger!States /\ r'.state = r.state /\ r'.last = r.last /\ r'.start = r.start
    BY <2>1 DEF Finger!IInv, Finger!Placed, Finger!States
  <2>3. Finger!Story' /\ Finger!WheelsAddUp' /\ Finger!Placed'
    BY <2>1, <2>2 DEF Finger!IInv, Finger!Story, Finger!Doubled, Finger!WheelsAddUp, Finger!Placed
  <2>4. Finger!Newest' /\ Finger!TypeOK' /\ Finger!FollowsGlass'
    BY <2>1, <2>2 DEF Finger!IInv, Finger!Newest, Finger!TypeOK, Finger!FollowsGlass
  <2> QED BY <2>3, <2>4 DEF Finger!IInv
<1>2. CASE Finger!Deadline
  <2>1. r.state = "pending" /\ r.age >= LongPress /\ Finger!Record(Finger!Tick(r)) /\ UNCHANGED <<fingers, frames, cut, reports>>
    BY <1>2 DEF Finger!Deadline
  <2>2. PICK q : q = [r EXCEPT !.state = "held"]
    OBVIOUS
  <2>3. Finger!Tick(r) = Finger!Out(q, <<"long">>)
    BY <2>1, <2>2 DEF Finger!Tick
  <2>4. q \in Finger!States /\ q.state = "held"
    BY <2>2 DEF Finger!IInv, Finger!Placed, Finger!States
  <2>5. FingerShifts(r, Finger!Out(q, <<"long">>))
    BY <2>1, <2>4 DEF FingerShifts, FingerStill, FingerResolves, Finger!Out
  <2>6. PICK tips : tips = [i \in {1} |-> Finger!None]
    OBVIOUS
  <2>7. FingerTurns(r, Finger!Tick(r), tips)
    <3>1. ~Finger!NoTip(tips)
      BY <2>6 DEF Finger!NoTip
    <3> QED BY <2>3, <2>4, <2>5, <3>1, FingerGestureOuts DEF FingerTurns
  <2>8. Finger!Story' /\ Finger!WheelsAddUp' /\ r' \in Finger!States /\ (r'.state = "pending" => r'.last = r'.start) /\ two' \in BOOLEAN
    BY <2>1, <2>7, FingerGestureRecords
  <2>9. Finger!Placed'
    BY <2>1, <2>8 DEF Finger!Placed, Finger!IInv
  <2>10. Finger!TypeOK'
    <3>1. \A i \in DOMAIN touch' : touch'[i] \in Finger!Kinds
      <4>1. PICK w : w = touch'
        OBVIOUS
      <4>2. w = <<>> \/ w \in Finger!Told \/ w \in Finger!Broken \/ w = <<"press", "drag">> \/ \E v \in Finger!Broken : w = Append(v, "two")
        <5>1. <<"press">> \in Finger!Broken /\ <<"press", "long">> \in Finger!Broken
          BY DEF Finger!Broken
        <5> QED BY <5>1, <2>8, <4>1 DEF Finger!Story, Finger!Doubled, Finger!States
      <4> QED BY <4>1, <4>2, FingerGestureSpoken
    <3> QED BY <2>1, <2>8, <3>1 DEF Finger!TypeOK, Finger!States, Finger!IInv
  <2>11. r'.state = "held"
    BY <2>1, <2>3, <2>4, FingerGestureOuts DEF Finger!Record
  <2>12. Finger!Newest' /\ Finger!FollowsGlass'
    BY <2>1, <2>11 DEF Finger!IInv, Finger!Newest, Finger!FollowsGlass
  <2> QED BY <2>8, <2>9, <2>10, <2>12 DEF Finger!IInv
<1>3. CASE Finger!Cancel
  <2>1. r' = Finger!New /\ touch' = <<>> /\ two' = FALSE /\ (frames' = <<>> \/ frames' = frames) /\ cut' = TRUE /\ UNCHANGED <<fingers, reports>>
    BY <1>3 DEF Finger!Cancel
  <2>2. Finger!New.state = "idle" /\ Finger!New \in Finger!States
    <3>1. Finger!None \in Int \X Int
      BY DEF Finger!None
    <3> QED BY <3>1 DEF Finger!New, Finger!States
  <2>3. Finger!Story' /\ Finger!WheelsAddUp' /\ Finger!Placed'
    BY <2>1, <2>2 DEF Finger!Story, Finger!WheelsAddUp, Finger!Placed
  <2>4. Finger!FollowsGlass'
    BY <2>1 DEF Finger!FollowsGlass
  <2>5. Finger!Newest' /\ Len(frames') <= FrameQueueLen
    <3>1. Len(<<>>) = 0 /\ <<>> \in Seq(Finger!FrameSet) /\ 0 <= FrameQueueLen
      BY FingerInstance, EmptySeq DEF Finger!GestureAssumption
    <3> QED BY <2>1, <3>1 DEF Finger!IInv, Finger!Newest, Finger!TypeOK
  <2>6. Finger!TypeOK'
    <3>1. DOMAIN touch' = {}
      BY <2>1
    <3> QED BY <2>1, <2>2, <2>5, <3>1 DEF Finger!TypeOK, Finger!IInv
  <2> QED BY <2>3, <2>4, <2>5, <2>6 DEF Finger!IInv
<1> QED BY <1>1, <1>2, <1>3

LEMMA FingerGestureStepIInv == Finger!IInv /\ [Finger!Next]_(Finger!vars) => Finger!IInv'
<1> SUFFICES ASSUME Finger!IInv, [Finger!Next]_(Finger!vars) PROVE Finger!IInv'
  OBVIOUS
<1>1. CASE UNCHANGED Finger!vars
  BY <1>1 DEF Finger!vars, Finger!IInv, Finger!TypeOK, Finger!Story, Finger!Doubled, Finger!Placed, Finger!Newest,
        Finger!WheelsAddUp, Finger!FollowsGlass
<1> QED BY <1>1, FingerGestureReports, FingerGestureHandles, FingerGestureWaits DEF Finger!Next

---------------------------------------------------------------------------
\* Counting in the recognizer's instance is counting.
LEMMA FingerCounts == ASSUME NEW S PROVE Finger!Cardinality(S) = Cardinality(S)
BY DEF Finger!Cardinality, Cardinality

\* A word that says nothing twice holds a kind once, or not at all.
LEMMA FingerGestureTimes ==
  ASSUME NEW k, \A i, j \in DOMAIN touch : touch[i] = touch[j] => i = j
  PROVE  Finger!Times(k) = IF \E i \in DOMAIN touch : touch[i] = k THEN 1 ELSE 0
<1>1. CASE \E i \in DOMAIN touch : touch[i] = k
  <2>1. PICK i \in DOMAIN touch : touch[i] = k
    BY <1>1
  <2>2. {j \in DOMAIN touch : touch[j] = k} = {i}
    BY <2>1
  <2> QED BY <1>1, <2>2, FS_Singleton, FingerCounts DEF Finger!Times
<1>2. CASE ~ \E i \in DOMAIN touch : touch[i] = k
  <2>1. {j \in DOMAIN touch : touch[j] = k} = {}
    BY <1>2
  <2> QED BY <1>2, <2>1, FS_EmptySet, FingerCounts DEF Finger!Times
<1> QED BY <1>1, <1>2

FingerGestureProps == Finger!TypeOK /\ Finger!OneResolution /\ Finger!DragsClose /\ Finger!SwipesHaveFingers /\ Finger!WheelsAddUp /\ Finger!FollowsGlass
FingerSaid(ks) == \A k \in Finger!Kinds : Finger!Times(k) = IF k \in ks THEN 1 ELSE 0
LEMMA FingerGestureSays ==
  /\ touch = <<>> => FingerSaid({})
  /\ touch = <<"press">> => FingerSaid({"press"})
  /\ touch = <<"press", "tap">> => FingerSaid({"press", "tap"})
  /\ touch = <<"press", "long">> => FingerSaid({"press", "long"})
  /\ touch = <<"press", "drag">> => FingerSaid({"press", "drag"})
  /\ touch = <<"press", "drag", "dragEnd">> => FingerSaid({"press", "drag", "dragEnd"})
  /\ touch = <<"press", "drag", "dragEnd", "swipe">> => FingerSaid({"press", "drag", "dragEnd", "swipe"})
  /\ touch = Append(<<>>, "two") => FingerSaid({"two"})
  /\ touch = Append(<<"press">>, "two") => FingerSaid({"press", "two"})
  /\ touch = Append(<<"press", "long">>, "two") => FingerSaid({"press", "long", "two"})
  /\ touch = Append(<<"press", "drag", "dragEnd">>, "two") => FingerSaid({"press", "drag", "dragEnd", "two"})
<1>1. ASSUME NEW ks, \A i, j \in DOMAIN touch : touch[i] = touch[j] => i = j,
             \A k : (\E i \in DOMAIN touch : touch[i] = k) <=> k \in ks
      PROVE  FingerSaid(ks)
  BY <1>1, FingerGestureTimes DEF FingerSaid
<1>2. ASSUME touch = <<>> PROVE FingerSaid({})
  <2>1. DOMAIN touch = {}
    BY <1>2
  <2> QED BY <1>1, <2>1
<1>3. ASSUME touch = <<"press">> PROVE FingerSaid({"press"})
  <2>1. DOMAIN touch = {1} /\ touch[1] = "press"
    BY <1>3
  <2> QED BY <1>1, <2>1
<1>4. ASSUME NEW a, NEW b, a # b, touch = <<a, b>> PROVE FingerSaid({a, b})
  <2>1. DOMAIN touch = {1, 2} /\ touch[1] = a /\ touch[2] = b
    BY <1>4
  <2> QED BY <1>1, <1>4, <2>1
<1>5. ASSUME NEW a, NEW b, NEW c, a # b, a # c, b # c, DOMAIN touch = {1, 2, 3}, touch[1] = a, touch[2] = b, touch[3] = c PROVE FingerSaid({a, b, c})
  BY <1>1, <1>5
<1>6. ASSUME NEW a, NEW b, NEW c, NEW d, a # b, a # c, b # c, a # d, b # d, c # d,
             DOMAIN touch = {1, 2, 3, 4}, touch[1] = a, touch[2] = b, touch[3] = c, touch[4] = d PROVE FingerSaid({a, b, c, d})
  BY <1>1, <1>6
<1>7. ASSUME NEW s \in Seq(Finger!Kinds), Len(s) \in {0, 1, 2, 3}, touch = Append(s, "two")
      PROVE  DOMAIN touch = 1..Len(s) + 1 /\ (\A i \in 1..Len(s) : touch[i] = s[i]) /\ touch[Len(s) + 1] = "two"
  <2>1. "two" \in Finger!Kinds
    BY DEF Finger!Kinds
  <2>2. touch \in Seq(Finger!Kinds) /\ Len(touch) = Len(s) + 1
    BY <1>7, <2>1, AppendProperties
  <2>3. DOMAIN touch = 1..Len(s) + 1
    BY <2>2, LenProperties
  <2> QED BY <1>7, <2>1, <2>3, AppendProperties
<1>8. "press" \in Finger!Kinds /\ "long" \in Finger!Kinds /\ "drag" \in Finger!Kinds /\ "dragEnd" \in Finger!Kinds
  BY DEF Finger!Kinds
<1>9. ASSUME NEW a \in Finger!Kinds, NEW b \in Finger!Kinds, NEW c \in Finger!Kinds
      PROVE  /\ <<>> \in Seq(Finger!Kinds) /\ <<a>> \in Seq(Finger!Kinds) /\ <<a, b>> \in Seq(Finger!Kinds) /\ <<a, b, c>> \in Seq(Finger!Kinds)
             /\ Len(<<>>) = 0 /\ Len(<<a>>) = 1 /\ Len(<<a, b>>) = 2 /\ Len(<<a, b, c>>) = 3
             /\ <<a>>[1] = a /\ <<a, b>>[1] = a /\ <<a, b>>[2] = b /\ <<a, b, c>>[1] = a /\ <<a, b, c>>[2] = b /\ <<a, b, c>>[3] = c
  OBVIOUS
<1>10. ASSUME touch = Append(<<>>, "two") PROVE FingerSaid({"two"})
  <2>1. DOMAIN touch = {1} /\ touch[1] = "two"
    BY <1>7, <1>8, <1>9, <1>10
  <2> QED BY <1>1, <2>1
<1>11. ASSUME touch = Append(<<"press">>, "two") PROVE FingerSaid({"press", "two"})
  <2>1. <<"press">> \in Seq(Finger!Kinds) /\ Len(<<"press">>) = 1 /\ <<"press">>[1] = "press"
    BY <1>8, <1>9
  <2>2. DOMAIN touch = {1, 2} /\ touch[1] = "press" /\ touch[2] = "two"
    BY <1>7, <1>11, <2>1
  <2> QED BY <1>1, <2>2
<1>12. ASSUME touch = Append(<<"press", "long">>, "two") PROVE FingerSaid({"press", "long", "two"})
  <2>1. <<"press", "long">> \in Seq(Finger!Kinds) /\ Len(<<"press", "long">>) = 2 /\ <<"press", "long">>[1] = "press" /\ <<"press", "long">>[2] = "long"
    BY <1>8, <1>9
  <2>2. DOMAIN touch = {1, 2, 3} /\ touch[1] = "press" /\ touch[2] = "long" /\ touch[3] = "two"
    BY <1>7, <1>12, <2>1
  <2> QED BY <1>5, <2>2
<1>13. ASSUME touch = Append(<<"press", "drag", "dragEnd">>, "two") PROVE FingerSaid({"press", "drag", "dragEnd", "two"})
  <2> DEFINE s == <<"press", "drag", "dragEnd">>
  <2>1. s \in Seq(Finger!Kinds) /\ Len(s) = 3 /\ s[1] = "press" /\ s[2] = "drag" /\ s[3] = "dragEnd"
    BY <1>8, <1>9
  <2>2. DOMAIN touch = {1, 2, 3, 4} /\ touch[1] = "press" /\ touch[2] = "drag" /\ touch[3] = "dragEnd" /\ touch[4] = "two"
    BY <1>7, <1>13, <2>1
  <2> QED BY <1>6, <2>2
<1>14. ASSUME touch = <<"press", "drag", "dragEnd">> PROVE FingerSaid({"press", "drag", "dragEnd"})
  <2>1. DOMAIN touch = {1, 2, 3} /\ touch[1] = "press" /\ touch[2] = "drag" /\ touch[3] = "dragEnd"
    BY <1>14
  <2> QED BY <1>5, <2>1
<1>15. ASSUME touch = <<"press", "drag", "dragEnd", "swipe">> PROVE FingerSaid({"press", "drag", "dragEnd", "swipe"})
  <2>1. DOMAIN touch = {1, 2, 3, 4} /\ touch[1] = "press" /\ touch[2] = "drag" /\ touch[3] = "dragEnd" /\ touch[4] = "swipe"
    BY <1>15
  <2> QED BY <1>6, <2>1
<1> QED BY <1>2, <1>3, <1>4, <1>10, <1>11, <1>12, <1>13, <1>14, <1>15

LEMMA FingerGestureImplies == Finger!IInv => FingerGestureProps
<1> SUFFICES ASSUME Finger!IInv PROVE FingerGestureProps
  OBVIOUS
<1>1. r.state \in {"idle", "pending", "held", "drag", "multi"}
  BY DEF Finger!IInv, Finger!TypeOK
<1> DEFINE Words == {{}, {"press"}, {"press", "tap"}, {"press", "long"}, {"press", "drag"}, {"press", "drag", "dragEnd"},
                     {"press", "drag", "dragEnd", "swipe"}, {"two"}, {"press", "two"}, {"press", "long", "two"},
                     {"press", "drag", "dragEnd", "two"}}
<1>2. \E ks \in Words :
        /\ FingerSaid(ks)
        /\ r.state \in {"pending", "held", "multi"} => ks \in {{}, {"press"}, {"press", "long"}, {"press", "drag", "dragEnd"}}
        /\ r.state = "drag" => ks = {"press", "drag"}
        /\ r.state = "idle" => ks # {"press", "drag"}
        /\ "two" \in ks => two
        /\ r.state = "idle" /\ touch # <<>> /\ ~two =>
             ks \in {{"press", "tap"}, {"press", "long"}, {"press", "drag", "dragEnd"}, {"press", "drag", "dragEnd", "swipe"}}
  <2>1. CASE r.state = "pending"
    BY <2>1, FingerGestureSays DEF Finger!IInv, Finger!Story
  <2>2. CASE r.state = "held"
    BY <2>2, FingerGestureSays DEF Finger!IInv, Finger!Story
  <2>3. CASE r.state = "drag"
    BY <2>3, FingerGestureSays DEF Finger!IInv, Finger!Story
  <2>4. CASE r.state = "multi"
    BY <2>4, FingerGestureSays DEF Finger!IInv, Finger!Story, Finger!Broken
  <2>5. CASE r.state = "idle"
    <3>1. CASE touch = <<>>
      BY <2>5, <3>1, FingerGestureSays
    <3>2. CASE touch \in Finger!Told
      BY <2>5, <3>2, FingerGestureSays DEF Finger!Told
    <3>3. CASE two /\ Finger!Doubled
      <4> DEFINE Double == {{}, {"press"}, {"press", "long"}, {"press", "drag", "dragEnd"}, {"two"}, {"press", "two"},
                            {"press", "long", "two"}, {"press", "drag", "dragEnd", "two"}}
      <4>1. PICK w \in Finger!Broken : touch = w \/ touch = Append(w, "two")
        BY <3>3 DEF Finger!Doubled
      <4>2. w = <<>> \/ w = <<"press">> \/ w = <<"press", "long">> \/ w = <<"press", "drag", "dragEnd">>
        BY DEF Finger!Broken
      <4>3. \E ks \in Double : FingerSaid(ks)
        BY <4>1, <4>2, FingerGestureSays
      <4>4. \A ks \in Double : ks \in Words /\ ks # {"press", "drag"}
        <5>1. {"two"} # {"press", "drag"} /\ {"press", "two"} # {"press", "drag"} /\ {"press", "long", "two"} # {"press", "drag"}
              /\ {"press", "drag", "dragEnd", "two"} # {"press", "drag"} /\ {"press", "drag", "dragEnd"} # {"press", "drag"}
          OBVIOUS
        <5> QED BY <5>1
      <4>5. PICK ks \in Double : FingerSaid(ks)
        BY <4>3
      <4>6. ks \in Words /\ ks # {"press", "drag"}
        BY <4>4
      <4> HIDE DEF Words, Double
      <4> QED BY <2>5, <3>3, <4>5, <4>6
    <3> QED BY <2>5, <3>1, <3>2, <3>3 DEF Finger!IInv, Finger!Story
  <2> QED BY <1>1, <2>1, <2>2, <2>3, <2>4, <2>5
<1>3. PICK ks \in Words :
        /\ FingerSaid(ks)
        /\ r.state \in {"pending", "held", "multi"} => ks \in {{}, {"press"}, {"press", "long"}, {"press", "drag", "dragEnd"}}
        /\ r.state = "drag" => ks = {"press", "drag"}
        /\ r.state = "idle" => ks # {"press", "drag"}
        /\ "two" \in ks => two
        /\ r.state = "idle" /\ touch # <<>> /\ ~two =>
             ks \in {{"press", "tap"}, {"press", "long"}, {"press", "drag", "dragEnd"}, {"press", "drag", "dragEnd", "swipe"}}
  BY <1>2
<1>4. \A k \in Finger!Kinds : Finger!Times(k) = IF k \in ks THEN 1 ELSE 0
  BY <1>3 DEF FingerSaid
<1>5. /\ Finger!Times("press") = IF "press" \in ks THEN 1 ELSE 0
      /\ Finger!Times("tap") = IF "tap" \in ks THEN 1 ELSE 0
      /\ Finger!Times("long") = IF "long" \in ks THEN 1 ELSE 0
      /\ Finger!Times("drag") = IF "drag" \in ks THEN 1 ELSE 0
      /\ Finger!Times("dragEnd") = IF "dragEnd" \in ks THEN 1 ELSE 0
      /\ Finger!Times("swipe") = IF "swipe" \in ks THEN 1 ELSE 0
      /\ Finger!Times("two") = IF "two" \in ks THEN 1 ELSE 0
  BY <1>4 DEF Finger!Kinds
<1>6. Finger!OneResolution
  BY <1>3, <1>5 DEF Finger!OneResolution
<1>7. Finger!DragsClose
  BY <1>1, <1>3, <1>5 DEF Finger!DragsClose
<1>8. Finger!SwipesHaveFingers
  BY <1>3, <1>5 DEF Finger!SwipesHaveFingers
<1> QED BY <1>6, <1>7, <1>8 DEF Finger!IInv, FingerGestureProps

(***************************************************************************)
(* The watch over the input pipeline: Input!IInv is inductive.             *)
(***************************************************************************)
\* A set of natural numbers that is not empty has a least element.
LEMMA LeastNat ==
  ASSUME NEW N, N \subseteq Nat, N # {}
  PROVE  \E n \in N : \A m \in N : n <= m
<1>1. PICK n \in N : \A m \in N : ~ (<<m, n>> \in OpToRel(<, Nat))
  BY NatLessThanWellFounded, WFMin
<1>2. \A m \in N : ~ (m < n)
  BY <1>1 DEF OpToRel
<1> QED BY <1>2

\* The sum of a function of finitely many values (Functions.tla), by its recursion.
Picked(s) == CHOOSE x \in s : TRUE
Adds(f, g, D) == \A s \in D : g[s] = IF s = {} THEN 0 ELSE f[Picked(s)] + g[s \ {Picked(s)}]

LEMMA Picking ==
  ASSUME NEW s, IsFiniteSet(s), s # {}
  PROVE  Picked(s) \in s /\ IsFiniteSet(s \ {Picked(s)}) /\ Cardinality(s) \in Nat /\ Cardinality(s \ {Picked(s)}) = Cardinality(s) - 1
BY FS_RemoveElement, FS_CardinalityType DEF Picked

LEMMA SumsExist ==
  ASSUME NEW S, IsFiniteSet(S), NEW f \in [S -> Nat]
  PROVE  \E g \in [SUBSET S -> Nat] : Adds(f, g, SUBSET S)
<1> DEFINE D(n) == {s \in SUBSET S : Cardinality(s) <= n}
           P(n) == \E g \in [D(n) -> Nat] : Adds(f, g, D(n))
           Bad == {n \in Nat : ~P(n)}
<1>1. \A s \in SUBSET S : IsFiniteSet(s) /\ Cardinality(s) \in Nat /\ (Cardinality(s) = 0 <=> s = {})
  BY FS_Subset, FS_CardinalityType, FS_EmptySet
<1>2. P(0)
  <2> DEFINE g == [s \in D(0) |-> 0]
  <2>1. \A s \in D(0) : s = {}
    BY <1>1
  <2>2. g \in [D(0) -> Nat] /\ Adds(f, g, D(0))
    BY <2>1 DEF Adds
  <2> QED BY <2>2
<1>3. ASSUME NEW n \in Nat, P(n) PROVE P(n + 1)
  <2>1. PICK g \in [D(n) -> Nat] : Adds(f, g, D(n))
    BY <1>3
  <2> DEFINE h == [s \in D(n + 1) |-> IF s = {} THEN 0 ELSE f[Picked(s)] + g[s \ {Picked(s)}]]
  <2>2. \A s \in D(n + 1) : s # {} => Picked(s) \in S /\ s \ {Picked(s)} \in D(n) /\ f[Picked(s)] \in Nat
    <3> SUFFICES ASSUME NEW s \in D(n + 1), s # {}
                 PROVE  Picked(s) \in S /\ s \ {Picked(s)} \in D(n) /\ f[Picked(s)] \in Nat
      OBVIOUS
    <3>1. Picked(s) \in s /\ Cardinality(s) \in Nat /\ Cardinality(s \ {Picked(s)}) = Cardinality(s) - 1 /\ Cardinality(s) <= n + 1
      BY <1>1, Picking
    <3> QED BY <3>1
  <2>3. h \in [D(n + 1) -> Nat]
    BY <2>1, <2>2
  <2>4. \A s \in D(n) : h[s] = g[s]
    <3> SUFFICES ASSUME NEW s \in D(n) PROVE h[s] = g[s]
      OBVIOUS
    <3>1. s \in D(n + 1)
      BY <1>1
    <3>2. g[s] = IF s = {} THEN 0 ELSE f[Picked(s)] + g[s \ {Picked(s)}]
      BY <2>1 DEF Adds
    <3> QED BY <3>1, <3>2
  <2>5. Adds(f, h, D(n + 1))
    BY <2>2, <2>4 DEF Adds
  <2> QED BY <2>3, <2>5
<1>4. Bad = {}
  <2> SUFFICES ASSUME Bad # {} PROVE FALSE
    OBVIOUS
  <2>1. PICK n \in Bad : \A m \in Bad : n <= m
    BY LeastNat
  <2>2. n \in Nat /\ n # 0 /\ ~P(n)
    BY <1>2, <2>1
  <2> HIDE DEF P
  <2>3. n - 1 \in Nat /\ n - 1 \notin Bad
    BY <2>1, <2>2
  <2>4. P(n - 1)
    BY <2>3
  <2> QED BY <1>3, <2>2, <2>3, <2>4
<1>5. Cardinality(S) \in Nat /\ D(Cardinality(S)) = SUBSET S
  BY FS_CardinalityType, FS_Subset
<1> HIDE DEF D
<1>6. P(Cardinality(S))
  BY <1>4, <1>5
<1> QED BY <1>5, <1>6

LEMMA Sums ==
  ASSUME NEW S, IsFiniteSet(S), NEW f \in [S -> Nat]
  PROVE  /\ Input!SumFunction(f) \in Nat
         /\ (\A s \in S : f[s] = 0) => Input!SumFunction(f) = 0
<1> DEFINE iter == CHOOSE g : g = [s \in SUBSET S |-> IF s = {} THEN 0 ELSE LET x == CHOOSE x \in s : TRUE IN f[x] + g[s \ {x}]]
<1>1. Input!SumFunction(f) = iter[S]
  BY DEF Input!SumFunction, Input!SumFunctionOnSet, Input!FoldFunctionOnSet, Input!MapThenFoldSet
<1>2. \E g : g = [s \in SUBSET S |-> IF s = {} THEN 0 ELSE LET x == CHOOSE x \in s : TRUE IN f[x] + g[s \ {x}]]
  <2>1. PICK g \in [SUBSET S -> Nat] : Adds(f, g, SUBSET S)
    BY SumsExist
  <2>2. g = [s \in SUBSET S |-> IF s = {} THEN 0 ELSE LET x == CHOOSE x \in s : TRUE IN f[x] + g[s \ {x}]]
    BY <2>1 DEF Adds, Picked
  <2> QED BY <2>2
<1>3. iter = [s \in SUBSET S |-> IF s = {} THEN 0 ELSE LET x == CHOOSE x \in s : TRUE IN f[x] + iter[s \ {x}]]
  BY <1>2
<1> HIDE DEF iter
<1>4. Adds(f, iter, SUBSET S)
  BY <1>3 DEF Adds, Picked
<1> DEFINE Fine(s) == iter[s] \in Nat /\ ((\A x \in S : f[x] = 0) => iter[s] = 0)
           Bad == {Cardinality(s) : s \in {s \in SUBSET S : ~Fine(s)}}
<1>5. \A s \in SUBSET S : IsFiniteSet(s) /\ Cardinality(s) \in Nat
  BY FS_Subset, FS_CardinalityType
<1>6. Bad = {}
  <2> SUFFICES ASSUME Bad # {} PROVE FALSE
    OBVIOUS
  <2>1. PICK n \in Bad : \A m \in Bad : n <= m
    BY <1>5, LeastNat
  <2>2. PICK s \in SUBSET S : ~Fine(s) /\ Cardinality(s) = n
    OBVIOUS
  <2>3. s # {}
    <3>1. iter[{}] = 0
      BY <1>4 DEF Adds
    <3>2. Fine({})
      BY <3>1
    <3> HIDE DEF Fine
    <3> QED BY <2>2, <3>2
  <2> DEFINE p == Picked(s)
  <2>4. p \in S /\ s \ {p} \in SUBSET S /\ Cardinality(s \ {p}) = n - 1 /\ n \in Nat
    BY <1>5, <2>2, <2>3, Picking
  <2>5. Fine(s \ {p})
    BY <2>1, <2>4
  <2>6. iter[s] = f[p] + iter[s \ {p}]
    BY <1>4, <2>3 DEF Adds
  <2> HIDE DEF p
  <2>7. Fine(s)
    BY <2>4, <2>5, <2>6
  <2> HIDE DEF Fine
  <2> QED BY <2>2, <2>7
<1>7. Fine(S)
  BY <1>6
<1> QED BY <1>1, <1>7
LEMMA InputSourcesFinite == IsFiniteSet(Sources)
BY InputInstance DEF Input!InputAssumption, Input!IsFiniteSet, IsFiniteSet

LEMMA InputTotalIsNat == Input!Counted => Input!Total \in Nat
BY Sums, InputSourcesFinite DEF Input!Counted, Input!Total

LEMMA InputInitIInv == Input!Init => Input!IInv
<1> SUFFICES ASSUME Input!Init PROVE Input!IInv
  OBVIOUS
<1>0. WedgeIdle \in Nat /\ MaxPolls \in Nat /\ MaxInputs \in Nat
  BY InputInstance DEF Input!InputAssumption
<1>1. Input!Counted /\ Input!Motion
  BY <1>0 DEF Input!Init, Input!Zero, Input!Counted, Input!Motion
<1>2. Input!Clocks
  BY <1>0 DEF Input!Init, Input!Clocks
<1>4. Input!Flags /\ Input!Flushing
  BY DEF Input!Init, Input!Flags, Input!Flushing
<1>5. Input!Stalling /\ Input!Delivered
  BY <1>0 DEF Input!Init, Input!Stalling, Input!Delivered
<1>3. Input!Delivering
  <2>1. Input!Zero \in [Sources -> Nat] /\ \A s \in Sources : Input!Zero[s] = 0
    BY DEF Input!Zero
  <2>2. Input!SumFunction(Input!Zero) = 0
    BY <2>1, Sums, InputSourcesFinite
  <2>3. Input!Total = 0 /\ prev = 0
    BY <2>2 DEF Input!Init, Input!Total
  <2> QED BY <2>3 DEF Input!Init, Input!Delivering, Input!Never
<1> QED BY <1>1, <1>2, <1>3, <1>4, <1>5 DEF Input!IInv

LEMMA InputReportKeeps == ASSUME Input!IInv, NEW s \in Sources, Input!Report(s) PROVE Input!IInv'
<1>1. /\ UNCHANGED <<last, logged, clock, stalled, prev, lastSeen, onset, stalledFor, everStalled, Input!mouse>>
      /\ UNCHANGED <<acc, sent, fed, flushArmed, shownHeld, heldNow>>
      /\ idle' = (IF stalled THEN idle ELSE 0) /\ deliveredSince' = (deliveredSince \/ ~stalled)
      /\ counter' = [counter EXCEPT ![s] = @ + 1] /\ inputs' = inputs + 1 /\ inputs < MaxInputs
  BY DEF Input!Report, Input!mouse
<1>2. Input!Counted'
  BY <1>1, InputInstance DEF Input!IInv, Input!Counted, Input!InputAssumption
<1>3. Input!Clocks'
  BY <1>1, InputInstance DEF Input!IInv, Input!Clocks, Input!InputAssumption
<1>4. Input!Delivering'
  BY <1>1, <1>3 DEF Input!IInv, Input!Delivering, Input!Clocks, Input!Never, Input!Flags
<1>5. Input!Stalling'
  BY <1>1, InputInstance DEF Input!IInv, Input!Stalling, Input!Clocks, Input!InputAssumption
<1>6. Input!Delivered' /\ Input!Flags'
  BY <1>1 DEF Input!IInv, Input!Delivered, Input!Flags
<1>7. Input!Motion' /\ Input!Flushing'
  BY <1>1 DEF Input!IInv, Input!Motion, Input!Flushing
<1> QED BY <1>2, <1>3, <1>4, <1>5, <1>6, <1>7 DEF Input!IInv

LEMMA InputDrainKeeps == Input!IInv /\ Input!Drain => Input!IInv'
<1> SUFFICES ASSUME Input!IInv, Input!Drain PROVE Input!IInv'
  OBVIOUS
<1>1. /\ UNCHANGED <<counter, inputs, clock, idle, stalled, prev, lastSeen, onset, stalledFor, deliveredSince, everStalled>>
      /\ UNCHANGED <<acc, sent, fed, flushArmed, shownHeld, heldNow>>
  BY DEF Input!Drain, Input!wedge, Input!mouse
<1>2. Input!Counted'
  BY <1>1, InputInstance DEF Input!Drain, Input!IInv, Input!Counted, Input!InputAssumption
<1>3. Input!Clocks' /\ Input!Flags' /\ Input!Stalling' /\ Input!Delivered' /\ Input!Motion' /\ Input!Flushing'
  BY <1>1 DEF Input!IInv, Input!Clocks, Input!Flags, Input!Stalling, Input!Delivered, Input!Motion, Input!Flushing
<1>4. Input!Delivering'
  BY <1>1 DEF Input!IInv, Input!Delivering, Input!Total
<1> QED BY <1>2, <1>3, <1>4 DEF Input!IInv

LEMMA InputStallKeeps == Input!IInv /\ (Input!Stall \/ Input!Recover) => Input!IInv'
<1> SUFFICES ASSUME Input!IInv, Input!Stall \/ Input!Recover PROVE Input!IInv'
  OBVIOUS
<1>1. /\ UNCHANGED <<counter, last, logged, inputs, clock, idle, prev, lastSeen, onset, deliveredSince>>
      /\ UNCHANGED <<acc, sent, fed, flushArmed, shownHeld, heldNow>>
      /\ \/ stalled' = TRUE /\ everStalled' = TRUE /\ stalledFor' = 0
         \/ stalled' = FALSE /\ UNCHANGED <<everStalled, stalledFor>>
  BY DEF Input!Stall, Input!Recover, Input!rates, Input!mouse
<1>5. stalledFor' \in Nat
  BY <1>1 DEF Input!IInv, Input!Clocks
<1>2. Input!Counted' /\ Input!Clocks' /\ Input!Delivered' /\ Input!Motion'
  BY <1>1, <1>5 DEF Input!IInv, Input!Counted, Input!Clocks, Input!Delivered, Input!Motion
<1>3. Input!Delivering'
  BY <1>1 DEF Input!IInv, Input!Delivering, Input!Total
<1>6. Input!Flags' /\ Input!Flushing'
  BY <1>1 DEF Input!IInv, Input!Flags, Input!Flushing
<1>4. Input!Stalling'
  BY <1>1, InputInstance DEF Input!IInv, Input!Stalling, Input!Clocks, Input!InputAssumption
<1> QED BY <1>2, <1>3, <1>4, <1>6 DEF Input!IInv

LEMMA InputTickKeeps == Input!IInv /\ Input!Tick => Input!IInv'
<1> SUFFICES ASSUME Input!IInv, Input!Tick PROVE Input!IInv'
  OBVIOUS
<1> DEFINE more == Input!Total > prev
<1>1. /\ UNCHANGED <<counter, last, logged, inputs, stalled, everStalled>>
      /\ UNCHANGED <<acc, sent, fed, flushArmed, shownHeld, heldNow>>
      /\ clock < MaxPolls /\ clock' = clock + 1 /\ prev' = Input!Total
      /\ lastSeen' = (IF more THEN clock ELSE lastSeen)
      /\ idle' = (IF idle < WedgeIdle THEN idle + 1 ELSE idle)
      /\ stalledFor' = (IF stalled /\ more THEN stalledFor + 1 ELSE 0)
      /\ deliveredSince' = (IF onset = Input!Never THEN FALSE ELSE deliveredSince)
  BY DEF Input!Tick, Input!rates, Input!mouse, Input!Seen
<1>2. onset' = IF onset = Input!Never
               THEN IF lastSeen' # Input!Never /\ clock - lastSeen' <= WedgeFresh /\ idle >= WedgeIdle THEN clock ELSE Input!Never
               ELSE IF idle < WedgeIdle THEN Input!Never ELSE onset
  BY <1>1 DEF Input!Tick, Input!Onset, Input!Sending, Input!Ends, Input!Seen
<1>3. Input!Total' = Input!Total /\ Input!Total \in Nat /\ ~(Input!Total > prev)'
  BY <1>1, InputTotalIsNat DEF Input!IInv, Input!Total
<1>4. ~everStalled => (more => idle = 0) /\ (lastSeen # Input!Never => lastSeen < clock /\ idle <= clock - lastSeen) /\ onset = Input!Never
  BY DEF Input!IInv, Input!Delivering
<1> HIDE DEF more
<1>5. /\ clock \in 0..MaxPolls /\ idle \in 0..WedgeIdle /\ stalledFor \in Nat
      /\ lastSeen \in {Input!Never} \cup 0..MaxPolls /\ onset \in {Input!Never} \cup 0..MaxPolls
      /\ WedgeIdle \in Nat /\ WedgeFresh \in Nat /\ WedgeFresh < WedgeIdle /\ MaxPolls \in Nat
  BY InputInstance DEF Input!IInv, Input!Clocks, Input!InputAssumption
<1>6. Input!Counted' /\ Input!Motion' /\ Input!Flushing' /\ Input!Flags'
  BY <1>1 DEF Input!IInv, Input!Counted, Input!Motion, Input!Flushing, Input!Flags
<1>7. lastSeen' \in {Input!Never} \cup 0..MaxPolls /\ (lastSeen' # Input!Never => lastSeen' \in Nat)
  BY <1>1, <1>5
<1>8. onset' \in {Input!Never} \cup 0..MaxPolls
  BY <1>2, <1>5
<1>9. Input!Clocks'
  <2>1. clock' \in 0..MaxPolls /\ idle' \in 0..WedgeIdle /\ stalledFor' \in Nat
    BY <1>1, <1>5
  <2> QED BY <1>7, <1>8, <2>1 DEF Input!Clocks
<1>10. ~everStalled => (lastSeen' # Input!Never => lastSeen' < clock' /\ idle' <= clock' - lastSeen') /\ onset' = Input!Never
  <2> SUFFICES ASSUME ~everStalled
               PROVE  (lastSeen' # Input!Never => lastSeen' < clock' /\ idle' <= clock' - lastSeen') /\ onset' = Input!Never
    OBVIOUS
  <2>1. CASE more
    BY <1>1, <1>2, <1>4, <1>5, <2>1
  <2>2. CASE ~more
    BY <1>1, <1>2, <1>4, <1>5, <2>2
  <2> QED BY <2>1, <2>2
<1>11. Input!Delivering'
  BY <1>1, <1>3, <1>10 DEF Input!Delivering
<1>12. Input!Stalling'
  <2>1. stalled => idle >= WedgeIdle \/ idle >= stalledFor
    BY DEF Input!IInv, Input!Stalling
  <2>2. stalled' => idle' >= WedgeIdle \/ idle' >= stalledFor'
    BY <1>1, <1>5, <2>1
  <2>3. stalledFor' > WedgeIdle => onset' # Input!Never
    BY <1>1, <1>2, <1>5, <2>1 DEF Input!Never
  <2> QED BY <1>5, <2>2, <2>3 DEF Input!Stalling
<1>13. Input!Delivered'
  BY <1>1, <1>2, <1>5 DEF Input!IInv, Input!Delivered
<1> QED BY <1>6, <1>9, <1>11, <1>12, <1>13 DEF Input!IInv

LEMMA InputFrameKeeps ==
  ASSUME Input!IInv, (\E b \in SUBSET Buttons, d \in Deltas : Input!Frame(b, d)) \/ Input!Flush
  PROVE  Input!IInv'
<1>1. /\ UNCHANGED <<counter, last, logged, clock, idle, stalled, prev, lastSeen, onset, stalledFor, deliveredSince, everStalled>>
      /\ UNCHANGED inputs \/ (inputs < MaxInputs /\ inputs' = inputs + 1)
  BY DEF Input!Frame, Input!Flush, Input!rates, Input!wedge
<1>2. Input!Counted'
  BY <1>1, InputInstance DEF Input!IInv, Input!Counted, Input!InputAssumption
<1>3. Input!Clocks' /\ Input!Stalling' /\ Input!Delivered' /\ Input!Flags'
  BY <1>1 DEF Input!IInv, Input!Clocks, Input!Stalling, Input!Delivered, Input!Flags
<1>4. Input!Delivering'
  BY <1>1 DEF Input!IInv, Input!Delivering, Input!Total
<1>5. Input!Motion' /\ Input!Flushing'
  <2>1. CASE Input!Flush
    <3>1. Input!Motion'
      BY <2>1 DEF Input!Flush, Input!IInv, Input!Motion
    <3>2. Input!Flushing'
      BY <2>1 DEF Input!Flush, Input!IInv, Input!Flushing
    <3> QED BY <3>1, <3>2
  <2>2. ASSUME NEW b \in SUBSET Buttons, NEW d \in Deltas, Input!Frame(b, d) PROVE Input!Motion' /\ Input!Flushing'
    <3>1. d \in Int
      BY InputInstance DEF Input!InputAssumption
    <3>2. acc' = acc + d /\ fed' = fed + d /\ flushArmed' = (flushArmed \/ acc' # 0) /\ UNCHANGED sent
      BY <2>2 DEF Input!Frame, Input!Gather
    <3>3. acc \in Int /\ sent \in Int /\ fed \in Int /\ sent + acc = fed
      BY DEF Input!IInv, Input!Motion
    <3>4. acc' \in Int /\ sent' \in Int /\ fed' \in Int /\ sent' + acc' = fed'
      BY <3>1, <3>2, <3>3
    <3>5. flushArmed' \in BOOLEAN /\ (acc' # 0 => flushArmed')
      BY <3>2
    <3>6. (shownHeld = heldNow)'
      BY <2>2 DEF Input!Frame, Input!IInv, Input!Flushing
    <3> QED BY <3>4, <3>5, <3>6 DEF Input!Motion, Input!Flushing
  <2> QED BY <2>1, <2>2
<1> QED BY <1>2, <1>3, <1>4, <1>5 DEF Input!IInv

LEMMA InputStepIInv == Input!IInv /\ [Input!Next]_(Input!vars) => Input!IInv'
<1> SUFFICES ASSUME Input!IInv, [Input!Next]_(Input!vars) PROVE Input!IInv'
  OBVIOUS
<1>1. CASE UNCHANGED Input!vars
  BY <1>1 DEF Input!vars, Input!IInv, Input!Counted, Input!Clocks, Input!Flags, Input!Flushing, Input!Delivering,
        Input!Total, Input!Stalling, Input!Delivered, Input!Motion
<1> QED BY <1>1, InputReportKeeps, InputDrainKeeps, InputStallKeeps, InputTickKeeps, InputFrameKeeps DEF Input!Next

InputProps == Input!TypeOK /\ Input!NothingUncounted /\ Input!NoFalseAlarm /\ Input!StallIsSeen /\ Input!MotionAddsUp
LEMMA InputIInvImplies == Input!IInv => InputProps
BY InputInstance DEF InputProps, Input!IInv, Input!TypeOK, Input!NothingUncounted, Input!NoFalseAlarm,
      Input!StallIsSeen, Input!MotionAddsUp, Input!Counted, Input!Clocks, Input!Delivering, Input!Stalling,
      Input!Motion, Input!Flags, Input!Flushing, Input!InputAssumption

LEMMA InputEpisodesEnd == Input!IInv /\ [Input!Next]_(Input!vars) => (onset # Input!Never /\ onset' = Input!Never => deliveredSince) \/ UNCHANGED Input!vars
<1> SUFFICES ASSUME Input!IInv, Input!Next, onset # Input!Never, onset' = Input!Never PROVE deliveredSince
  OBVIOUS
<1>1. Input!Tick
  BY DEF Input!Next, Input!Report, Input!Drain, Input!Stall, Input!Recover, Input!Frame, Input!Flush, Input!wedge
<1>2. idle < WedgeIdle
  BY <1>1 DEF Input!Tick, Input!Onset, Input!Ends
<1> QED BY <1>2 DEF Input!IInv, Input!Delivered

(***************************************************************************)
(* The feed of the keyboard: Feed!IInv is inductive.                       *)
(***************************************************************************)
LEMMA AppendAfter ==
  ASSUME NEW S, NEW s \in Seq(S), NEW t \in Seq(S), NEW x \in S
  PROVE  s \o Append(t, x) = Append(s \o t, x)
<1>1. <<x>> \in Seq(S)
  OBVIOUS
<1>2. Append(t, x) = t \o <<x>>
  BY AppendIsConcat
<1>3. s \o t \in Seq(S)
  BY ConcatProperties
<1>4. Append(s \o t, x) = (s \o t) \o <<x>>
  BY <1>3, AppendIsConcat
<1> QED BY <1>1, <1>2, <1>4, ConcatAssociative

LEMMA SubSeqGrows ==
  ASSUME NEW S, NEW l \in Seq(S), NEW x \in S, NEW b \in 1..Len(l) + 1
  PROVE  /\ SubSeq(l, b, Len(l)) \in Seq(S)
         /\ SubSeq(Append(l, x), b, Len(Append(l, x))) = Append(SubSeq(l, b, Len(l)), x)
<1> DEFINE m == Append(l, x)
           s == SubSeq(l, b, Len(l))
<1>0. Len(l) \in Nat /\ b \in Nat \ {0} /\ b <= Len(l) + 1
  BY LenProperties
<1>1. m \in Seq(S) /\ Len(m) = Len(l) + 1 /\ m[Len(l) + 1] = x /\ \A i \in 1..Len(l) : m[i] = l[i]
  BY AppendProperties
<1>2. b \in Int /\ Len(l) \in Int /\ Len(m) \in Int /\ \A i \in b..Len(l) : l[i] \in S
  BY <1>0, <1>1, ElementOfSeq
<1>3. \A i \in b..Len(m) : m[i] \in S
  BY <1>0, <1>1, <1>2
<1>4. s \in Seq(S) /\ Len(s) = Len(l) - b + 1 /\ \A i \in 1..Len(l) - b + 1 : s[i] = l[b + i - 1]
  <2>1. /\ s \in Seq(S) /\ Len(s) = IF b <= Len(l) THEN Len(l) - b + 1 ELSE 0
        /\ \A i \in 1..Len(l) - b + 1 : s[i] = l[b + i - 1]
    BY <1>2, SubSeqProperties
  <2> HIDE DEF s
  <2> QED BY <1>0, <2>1
<1>5. /\ SubSeq(m, b, Len(m)) \in Seq(S) /\ Len(SubSeq(m, b, Len(m))) = Len(l) - b + 2
      /\ \A i \in 1..Len(l) - b + 2 : SubSeq(m, b, Len(m))[i] = m[b + i - 1]
  <2> DEFINE u == SubSeq(m, b, Len(m))
  <2>1. /\ u \in Seq(S) /\ Len(u) = IF b <= Len(m) THEN Len(m) - b + 1 ELSE 0
        /\ \A i \in 1..Len(m) - b + 1 : u[i] = m[b + i - 1]
    BY <1>2, <1>3, SubSeqProperties
  <2> HIDE DEF u, m
  <2>2. u \in Seq(S) /\ Len(u) = Len(l) - b + 2 /\ \A i \in 1..Len(l) - b + 2 : u[i] = m[b + i - 1]
    BY <1>0, <1>1, <2>1
  <2> QED BY <2>2 DEF u, m
<1>6. /\ Append(s, x) \in Seq(S) /\ Len(Append(s, x)) = Len(l) - b + 2
      /\ Append(s, x)[Len(l) - b + 2] = x /\ \A i \in 1..Len(l) - b + 1 : Append(s, x)[i] = s[i]
  BY <1>4, AppendProperties
<1>7. \A i \in 1..Len(l) - b + 2 : SubSeq(m, b, Len(m))[i] = Append(s, x)[i]
  <2> SUFFICES ASSUME NEW i \in 1..Len(l) - b + 2 PROVE m[b + i - 1] = Append(s, x)[i]
    BY <1>5
  <2> HIDE DEF m, s
  <2>1. CASE i <= Len(l) - b + 1
    <3>1. i \in 1..Len(l) - b + 1 /\ b + i - 1 \in 1..Len(l)
      BY <1>0, <2>1
    <3>2. m[b + i - 1] = l[b + i - 1]
      BY <1>1, <3>1
    <3>3. Append(s, x)[i] = s[i] /\ s[i] = l[b + i - 1]
      BY <1>4, <1>6, <3>1
    <3> QED BY <3>2, <3>3
  <2>2. CASE i = Len(l) - b + 2
    BY <1>0, <1>1, <1>6, <2>2
  <2>3. i <= Len(l) - b + 1 \/ i = Len(l) - b + 2
    BY <1>0
  <2> QED BY <2>1, <2>2, <2>3
<1>8. SubSeq(m, b, Len(m)) = Append(s, x)
  BY <1>5, <1>6, <1>7, SeqEqual
<1> QED BY <1>4, <1>8

LEMMA HeadMoves ==
  ASSUME NEW S, NEW g \in Seq(S), NEW q \in Seq(S), q # <<>>
  PROVE  Append(g, Head(q)) \o Tail(q) = g \o q
<1>1. Head(q) \in S /\ Tail(q) \in Seq(S) /\ <<Head(q)>> \in Seq(S)
  BY HeadTailProperties
<1>2. Append(g, Head(q)) = g \o <<Head(q)>>
  BY <1>1, AppendIsConcat
<1>3. <<Head(q)>> \o Tail(q) = q
  BY <1>1
<1> QED BY <1>1, <1>2, <1>3, ConcatAssociative

LEMMA HeadIsFirst ==
  ASSUME NEW S, NEW q \in Seq(S), q # <<>>
  PROVE  /\ Head(q) \in S /\ Tail(q) \in Seq(S) /\ Len(q) \in Nat \ {0} /\ Len(Tail(q)) = Len(q) - 1
         /\ Head(q) = q[1] /\ \A i \in 1..Len(q) - 1 : Tail(q)[i] = q[i + 1]
BY HeadTailProperties, EmptySeq

LEMMA FeedInitIInv == Feed!Init => Feed!IInv
<1> SUFFICES ASSUME Feed!Init PROVE Feed!IInv
  OBVIOUS
<1>0. /\ socket \in {"none", "stale", "foreign"} /\ FeedQueueLen \in Nat /\ \A d \in Daemons : d \notin {"none", "stale", "foreign"}
      /\ <<>> \in Seq(Feed!Line) /\ Len(<<>>) = 0
  BY FeedInstance DEF Feed!Init, Feed!FeedAssumption
<1>1. Feed!TypeOK /\ Feed!Books
  BY <1>0 DEF Feed!Init, Feed!TypeOK, Feed!Books, Feed!None
<1>2. Feed!OneServer /\ Feed!Listens /\ Feed!Served
  BY <1>0 DEF Feed!Init, Feed!OneServer, Feed!Listens, Feed!Served
<1>3. Feed!StateIsKept /\ Feed!Fresh /\ Feed!NoGap /\ Feed!HeldIsLifted /\ Feed!DownIsLifted
  BY DEF Feed!Init, Feed!StateIsKept, Feed!Fresh, Feed!NoGap, Feed!HeldIsLifted, Feed!DownIsLifted
<1> QED BY <1>1, <1>2, <1>3 DEF Feed!IInv

LEMMA FeedRests ==
  ASSUME Feed!IInv, UNCHANGED Feed!feed, lock' \in Daemons \cup {Feed!None}, socket' \in Daemons \cup {"none", "stale", "foreign"},
         claim' \in [Daemons -> {"out", "locked", "proven", "serving", "refused"}],
         Feed!OneServer', Feed!Listens', socket \in Daemons => socket' \in Daemons
  PROVE  Feed!IInv'
<1> USE DEF Feed!IInv, Feed!feed
<1>1. Feed!TypeOK' /\ Feed!Books'
  BY DEF Feed!TypeOK, Feed!Books
<1>2. Feed!Served'
  BY DEF Feed!Served, Feed!Serving
<1>3. Feed!StateIsKept' /\ Feed!Fresh' /\ Feed!NoGap'
  BY DEF Feed!StateIsKept, Feed!Fresh, Feed!NoGap
<1>4. Feed!HeldIsLifted' /\ Feed!DownIsLifted'
  BY DEF Feed!HeldIsLifted, Feed!DownIsLifted
<1> QED BY <1>1, <1>2, <1>3, <1>4

LEMMA FeedClaimKeeps ==
  ASSUME Feed!IInv, \/ \E d \in Daemons : Feed!Lock(d) \/ Feed!Probe(d) \/ Feed!Listen(d) \/ Feed!Retry(d)
               \/ Feed!ForeignEnds \/ Feed!Backlog
  PROVE  Feed!IInv'
<1>0. \A d \in Daemons : d \notin {"none", "stale", "foreign"}
  BY FeedInstance DEF Feed!FeedAssumption
<1>1. /\ claim \in [Daemons -> {"out", "locked", "proven", "serving", "refused"}]
      /\ lock \in Daemons \cup {Feed!None} /\ socket \in Daemons \cup {"none", "stale", "foreign"}
      /\ \A d \in Daemons : claim[d] \in {"locked", "proven", "serving"} => lock = d
      /\ \A d \in Daemons : claim[d] = "serving" <=> socket = d
  BY DEF Feed!IInv, Feed!TypeOK, Feed!Books, Feed!OneServer, Feed!Listens
<1>2. ASSUME NEW d \in Daemons, Feed!Lock(d) PROVE Feed!IInv'
  <2>1. UNCHANGED Feed!feed /\ UNCHANGED socket /\ claim[d] = "out"
        /\ \/ lock = Feed!None /\ lock' = d /\ claim' = [claim EXCEPT ![d] = "locked"]
           \/ claim' = [claim EXCEPT ![d] = "refused"] /\ UNCHANGED lock
    BY <1>2 DEF Feed!Lock
  <2>2. Feed!OneServer'
    BY <1>0, <1>1, <2>1 DEF Feed!OneServer, Feed!None
  <2>3. Feed!Listens'
    BY <1>0, <1>1, <2>1 DEF Feed!Listens
  <2> QED BY <1>1, <2>1, <2>2, <2>3, FeedRests
<1>3. ASSUME NEW d \in Daemons, Feed!Probe(d) \/ Feed!Listen(d) \/ Feed!Retry(d) PROVE Feed!IInv'
  <2>1. UNCHANGED Feed!feed /\ claim[d] \in {"locked", "proven", "refused"}
        /\ \/ claim[d] = "locked" /\ claim' = [claim EXCEPT ![d] = "proven"] /\ UNCHANGED lock
              /\ (UNCHANGED socket \/ (socket = "stale" /\ socket' = "none"))
           \/ claim[d] # "refused" /\ claim' = [claim EXCEPT ![d] = "refused"] /\ lock' = Feed!None /\ UNCHANGED socket
           \/ claim[d] = "proven" /\ socket = "none" /\ socket' = d /\ claim' = [claim EXCEPT ![d] = "serving"] /\ UNCHANGED lock
           \/ claim[d] = "refused" /\ claim' = [claim EXCEPT ![d] = "out"] /\ UNCHANGED <<lock, socket>>
    BY <1>3 DEF Feed!Probe, Feed!Listen, Feed!Retry, Feed!GiveUp, Feed!HolderAbsent
  <2>2. Feed!OneServer'
    BY <1>0, <1>1, <2>1 DEF Feed!OneServer, Feed!None
  <2>3. Feed!Listens'
    BY <1>0, <1>1, <2>1 DEF Feed!Listens
  <2>4. /\ lock' \in Daemons \cup {Feed!None} /\ socket' \in Daemons \cup {"none", "stale", "foreign"}
        /\ claim' \in [Daemons -> {"out", "locked", "proven", "serving", "refused"}]
        /\ (socket \in Daemons => socket' \in Daemons)
    BY <1>0, <1>1, <2>1
  <2> QED BY <2>1, <2>2, <2>3, <2>4, FeedRests
<1>4. ASSUME Feed!ForeignEnds \/ Feed!Backlog PROVE Feed!IInv'
  <2>1. UNCHANGED Feed!feed /\ UNCHANGED <<lock, claim>> /\ socket = "foreign" /\ socket' \in {"none", "stale", "foreign"}
    BY <1>4 DEF Feed!ForeignEnds, Feed!Backlog
  <2>2. Feed!OneServer' /\ Feed!Listens'
    BY <1>0, <1>1, <2>1 DEF Feed!OneServer, Feed!Listens
  <2> QED BY <1>0, <1>1, <2>1, <2>2, FeedRests
<1> QED BY <1>2, <1>3, <1>4

LEMMA FeedDieKeeps == ASSUME Feed!IInv, NEW d \in Daemons, Feed!Die(d) PROVE Feed!IInv'
<1>0. /\ \A e \in Daemons : e \notin {"none", "stale", "foreign"}
      /\ <<>> \in Seq(Feed!Line) /\ Len(<<>>) = 0 /\ FeedQueueLen \in Nat
  BY FeedInstance DEF Feed!FeedAssumption
<1>1. /\ claim[d] = "serving" /\ claim' = [claim EXCEPT ![d] = "out"] /\ lock' = Feed!None /\ socket' = "stale"
      /\ conn' = [c \in Clients |-> IF conn[c] = "open" THEN "cut" ELSE conn[c]]
      /\ queue' = [c \in Clients |-> <<>>] /\ lines' = <<>> /\ retained' = 0
      /\ from' = [c \in Clients |-> [after |-> 0, retained |-> 0]] /\ heard' = [c \in Clients |-> <<>>]
      /\ held' = held /\ UNCHANGED <<backlog, down, keyboard>>
  BY DEF Feed!Die
<1>2. Feed!TypeOK' /\ \A c \in Clients : conn'[c] # "open"
  BY <1>0, <1>1 DEF Feed!IInv, Feed!TypeOK, Feed!Books
<1>3. Feed!Books'
  BY <1>0, <1>1 DEF Feed!IInv, Feed!Books
<1>4. Feed!OneServer'
  BY <1>1 DEF Feed!IInv, Feed!OneServer, Feed!TypeOK
<1>5. Feed!Listens'
  BY <1>0, <1>1 DEF Feed!IInv, Feed!Listens, Feed!TypeOK, Feed!OneServer
<1>6. Feed!Served' /\ Feed!NoGap' /\ Feed!HeldIsLifted' /\ Feed!DownIsLifted'
  BY <1>2 DEF Feed!Served, Feed!NoGap, Feed!HeldIsLifted, Feed!DownIsLifted
<1>7. Feed!StateIsKept'
  BY <1>1 DEF Feed!StateIsKept
<1>8. Feed!Fresh'
  BY <1>1 DEF Feed!IInv, Feed!Fresh, Feed!TypeOK
<1> QED BY <1>2, <1>3, <1>4, <1>5, <1>6, <1>7, <1>8 DEF Feed!IInv

LEMMA FeedPublishKeeps ==
  ASSUME Feed!IInv, NEW line \in Feed!Line, Feed!Serving, lines' = Append(lines, line),
         conn' = [c \in Clients |-> IF c \in Feed!Cut THEN "cut" ELSE conn[c]],
         queue' = [c \in Clients |-> IF conn[c] = "open" /\ ~Feed!Full(c) THEN Append(queue[c], line) ELSE queue[c]],
         UNCHANGED <<Feed!claims, heard, from, held>>,
         down' \subseteq Keys, retained' \in 0..Len(lines'), Feed!StateIsKept',
         \A k \in Keys \ down' : k \notin down \/ Feed!Lifts(line, k),
         \A k \in Keys \ down' : line # Feed!Key("down", k)
  PROVE  Feed!IInv'
<1>0. FeedQueueLen \in Nat /\ lines \in Seq(Feed!Line) /\ lines' = Append(lines, line)
  BY FeedInstance DEF Feed!FeedAssumption, Feed!IInv, Feed!Books
<1>1. /\ lines' \in Seq(Feed!Line) /\ Len(lines') = Len(lines) + 1 /\ Len(lines) \in Nat
      /\ \A i \in 1..Len(lines) : lines'[i] = lines[i]
  BY <1>0, AppendProperties, LenProperties
<1>2. \A c \in Clients : /\ queue[c] \in Seq(Feed!Line) /\ heard[c] \in Seq(Feed!Line) /\ Len(queue[c]) \in Nat
                         /\ from[c] \in [after : 0..Len(lines), retained : 0..Len(lines)]
  <2>1. queue \in [Clients -> Seq(Feed!Line)] /\ heard \in [Clients -> Seq(Feed!Line)]
        /\ from \in [Clients -> [after : 0..Len(lines), retained : 0..Len(lines)]]
    BY DEF Feed!IInv, Feed!Books
  <2> QED BY <2>1, LenProperties
<1>3. ASSUME NEW c \in Clients, conn'[c] = "open"
      PROVE  /\ conn[c] = "open" /\ Len(queue[c]) < FeedQueueLen /\ queue'[c] = Append(queue[c], line)
             /\ queue'[c] \in Seq(Feed!Line) /\ Len(queue'[c]) = Len(queue[c]) + 1
             /\ \A i \in 1..Len(queue[c]) : queue'[c][i] = queue[c][i]
             /\ queue'[c][Len(queue[c]) + 1] = line
  <2>1. conn[c] = "open" /\ ~Feed!Full(c)
    BY <1>3 DEF Feed!Cut
  <2>2. Len(queue[c]) < FeedQueueLen /\ queue'[c] = Append(queue[c], line)
    BY <1>0, <1>2, <2>1 DEF Feed!Full
  <2> QED BY <1>2, <2>1, <2>2, AppendProperties
<1>4. ASSUME NEW c \in Clients
      PROVE  queue'[c] \in Seq(Feed!Line) /\ Len(queue'[c]) <= FeedQueueLen
  <2>1. CASE conn[c] = "open" /\ ~Feed!Full(c)
    <3>1. queue'[c] = Append(queue[c], line) /\ Len(queue[c]) < FeedQueueLen
      BY <1>0, <1>2, <2>1 DEF Feed!Full
    <3>2. Append(queue[c], line) \in Seq(Feed!Line) /\ Len(Append(queue[c], line)) = Len(queue[c]) + 1
      BY <1>2, AppendProperties
    <3> QED BY <1>0, <1>2, <3>1, <3>2
  <2>2. CASE ~(conn[c] = "open" /\ ~Feed!Full(c))
    BY <1>2, <2>2 DEF Feed!IInv, Feed!TypeOK
  <2> QED BY <2>1, <2>2
<1>5. Feed!TypeOK'
  <2>1. claim' \in [Daemons -> {"out", "locked", "proven", "serving", "refused"}]
    BY DEF Feed!IInv, Feed!TypeOK, Feed!claims
  <2>2. conn' \in [Clients -> {"new", "open", "cut", "refused"}]
    BY DEF Feed!IInv, Feed!TypeOK
  <2>3. \A c \in Clients : Len(queue'[c]) <= FeedQueueLen /\ held'[c] \subseteq Keys
    BY <1>4 DEF Feed!IInv, Feed!TypeOK
  <2> QED BY <2>1, <2>2, <2>3 DEF Feed!TypeOK
<1>6. Feed!Books'
  <2>1. lock' \in Daemons \cup {Feed!None} /\ socket' \in Daemons \cup {"none", "stale", "foreign"}
        /\ heard' \in [Clients -> Seq(Feed!Line)] /\ held' \in [Clients -> SUBSET Keys]
    BY DEF Feed!IInv, Feed!Books, Feed!claims
  <2>2. queue' \in [Clients -> Seq(Feed!Line)]
    BY <1>4
  <2>3. from' \in [Clients -> [after : 0..Len(lines'), retained : 0..Len(lines')]]
    <3>1. 0..Len(lines) \subseteq 0..Len(lines')
      BY <1>1
    <3> QED BY <3>1 DEF Feed!IInv, Feed!Books
  <2> QED BY <1>1, <2>1, <2>2, <2>3 DEF Feed!Books
<1>7. Feed!OneServer' /\ Feed!Listens'
  BY DEF Feed!IInv, Feed!OneServer, Feed!Listens, Feed!claims
<1>8. Feed!Served' /\ Feed!Fresh'
  <2>1. Feed!Serving'
    BY DEF Feed!Serving, Feed!claims
  <2>2. \A c \in Clients : conn'[c] = "new" => conn[c] = "new"
    OBVIOUS
  <2> QED BY <2>1, <2>2 DEF Feed!IInv, Feed!Served, Feed!Fresh
<1>9. Feed!NoGap'
  <2> SUFFICES ASSUME NEW c \in Clients, conn'[c] = "open"
               PROVE  heard'[c] \o queue'[c] = (IF from'[c].retained = 0 THEN <<>> ELSE <<lines'[from'[c].retained]>>)
                                             \o SubSeq(lines', from'[c].after + 1, Len(lines'))
    BY DEF Feed!NoGap
  <2> DEFINE start == IF from[c].retained = 0 THEN <<>> ELSE <<lines[from[c].retained]>>
             follow == SubSeq(lines, from[c].after + 1, Len(lines))
  <2>1. from'[c] = from[c] /\ heard'[c] = heard[c] /\ queue'[c] = Append(queue[c], line) /\ conn[c] = "open"
    BY <1>3
  <2>2. from[c].after \in 0..Len(lines) /\ from[c].retained \in 0..Len(lines)
    BY <1>2
  <2>3. start \in Seq(Feed!Line) /\ start = IF from[c].retained = 0 THEN <<>> ELSE <<lines'[from[c].retained]>>
    <3>1. CASE from[c].retained = 0
      BY <3>1
    <3>2. CASE from[c].retained # 0
      <4>1. from[c].retained \in 1..Len(lines)
        BY <1>1, <2>2, <3>2
      <4>2. lines[from[c].retained] \in Feed!Line
        BY <1>0, <4>1, ElementOfSeq
      <4> QED BY <1>1, <3>2, <4>1, <4>2
    <3> QED BY <3>1, <3>2
  <2>4. follow \in Seq(Feed!Line) /\ SubSeq(lines', from[c].after + 1, Len(lines')) = Append(follow, line)
    <3>1. \A s \in 1..Len(lines) + 1 : /\ SubSeq(lines, s, Len(lines)) \in Seq(Feed!Line)
                                      /\ SubSeq(lines', s, Len(lines')) = Append(SubSeq(lines, s, Len(lines)), line)
      BY <1>0, SubSeqGrows
    <3>2. from[c].after + 1 \in 1..Len(lines) + 1
      BY <1>1, <2>2
    <3> QED BY <3>1, <3>2
  <2>5. heard[c] \o queue[c] = start \o follow
    BY <2>1 DEF Feed!IInv, Feed!NoGap
  <2> HIDE DEF start, follow
  <2>9. \A s, t \in Seq(Feed!Line) : s \o Append(t, line) = Append(s \o t, line)
    BY AppendAfter
  <2>6. heard[c] \o Append(queue[c], line) = Append(heard[c] \o queue[c], line)
    BY <1>2, <2>9
  <2>7. start \o Append(follow, line) = Append(start \o follow, line)
    BY <2>3, <2>4, <2>9
  <2> QED BY <2>1, <2>3, <2>4, <2>5, <2>6, <2>7
<1>10. Feed!HeldIsLifted'
  <2> SUFFICES ASSUME NEW c \in Clients, conn'[c] = "open", NEW k \in held[c], k \notin down'
               PROVE  \E j \in 1..Len(queue'[c]) : Feed!Lifts(queue'[c][j], k)
    BY DEF Feed!HeldIsLifted
  <2>1. k \in Keys
    BY DEF Feed!IInv, Feed!TypeOK
  <2>2. CASE Feed!Lifts(line, k)
    BY <1>2, <1>3, <2>2
  <2>3. CASE k \notin down
    <3>1. PICK j \in 1..Len(queue[c]) : Feed!Lifts(queue[c][j], k)
      BY <1>3, <2>3 DEF Feed!IInv, Feed!HeldIsLifted
    <3>2. j \in 1..Len(queue'[c]) /\ queue'[c][j] = queue[c][j]
      BY <1>2, <1>3
    <3> QED BY <3>1, <3>2
  <2> QED BY <2>1, <2>2, <2>3
<1>11. Feed!DownIsLifted'
  <2> SUFFICES ASSUME NEW c \in Clients, conn'[c] = "open", NEW i \in 1..Len(queue'[c]), NEW k \in Keys \ down',
                      queue'[c][i] = Feed!Key("down", k)
               PROVE  \E j \in (i + 1)..Len(queue'[c]) : Feed!Lifts(queue'[c][j], k)
    BY DEF Feed!DownIsLifted
  <2>1. /\ i \in 1..Len(queue[c]) /\ queue[c][i] = Feed!Key("down", k) /\ conn[c] = "open"
        /\ Len(queue[c]) \in Nat /\ Len(queue'[c]) = Len(queue[c]) + 1
        /\ queue'[c][Len(queue[c]) + 1] = line /\ \A j \in 1..Len(queue[c]) : queue'[c][j] = queue[c][j]
    BY <1>2, <1>3
  <2>2. CASE Feed!Lifts(line, k)
    <3>1. Len(queue[c]) + 1 \in (i + 1)..Len(queue'[c])
      BY <2>1
    <3> QED BY <2>1, <2>2, <3>1
  <2>3. CASE k \notin down
    <3>1. PICK j \in (i + 1)..Len(queue[c]) : Feed!Lifts(queue[c][j], k)
      BY <2>1, <2>3 DEF Feed!IInv, Feed!DownIsLifted
    <3>2. j \in (i + 1)..Len(queue'[c]) /\ queue'[c][j] = queue[c][j]
      BY <2>1
    <3> QED BY <3>1, <3>2
  <2> QED BY <2>2, <2>3
<1> QED BY <1>5, <1>6, <1>7, <1>8, <1>9, <1>10, <1>11 DEF Feed!IInv

LEMMA FeedKeyIsLine == (\A k \in Keys : Feed!Key("down", k) \in Feed!Line /\ Feed!Key("up", k) \in Feed!Line) /\ Feed!Key("state", Feed!None) \in Feed!Line /\ Feed!Clears \in Feed!Line
BY DEF Feed!Key, Feed!Clears, Feed!Line

LEMMA FeedPressKeeps == ASSUME Feed!IInv, NEW k \in Keys, Feed!Press(k) \/ Feed!Release(k) PROVE Feed!IInv'
<1>1. /\ Feed!Serving /\ keyboard /\ UNCHANGED <<keyboard, retained>> /\ UNCHANGED <<Feed!claims, heard, from, held>>
      /\ \E line \in Feed!Line : /\ lines' = Append(lines, line)
                            /\ conn' = [c \in Clients |-> IF c \in Feed!Cut THEN "cut" ELSE conn[c]]
                            /\ queue' = [c \in Clients |-> IF conn[c] = "open" /\ ~Feed!Full(c) THEN Append(queue[c], line) ELSE queue[c]]
                            /\ \/ line = Feed!Key("down", k) /\ down' = down \cup {k}
                               \/ line = Feed!Key("up", k) /\ down' = down \ {k}
  BY FeedKeyIsLine DEF Feed!Press, Feed!Release, Feed!Publish
<1>2. PICK line \in Feed!Line : /\ lines' = Append(lines, line)
                          /\ conn' = [c \in Clients |-> IF c \in Feed!Cut THEN "cut" ELSE conn[c]]
                          /\ queue' = [c \in Clients |-> IF conn[c] = "open" /\ ~Feed!Full(c) THEN Append(queue[c], line) ELSE queue[c]]
                          /\ \/ line = Feed!Key("down", k) /\ down' = down \cup {k}
                             \/ line = Feed!Key("up", k) /\ down' = down \ {k}
  BY <1>1
<1>3. down' \subseteq Keys
  BY <1>2 DEF Feed!IInv, Feed!Books
<1>4. retained' \in 0..Len(lines') /\ Feed!StateIsKept'
  <2>1. retained \in 0..Len(lines) /\ lines \in Seq(Feed!Line)
    BY DEF Feed!IInv, Feed!Books
  <2>2. Len(lines') = Len(lines) + 1 /\ Len(lines) \in Nat /\ \A i \in 1..Len(lines) : lines'[i] = lines[i]
    BY <1>2, <2>1, AppendProperties, LenProperties
  <2> QED BY <1>1, <2>1, <2>2 DEF Feed!IInv, Feed!StateIsKept
<1>5. \A h \in Keys \ down' : (h \notin down \/ Feed!Lifts(line, h)) /\ line # Feed!Key("down", h)
  BY <1>2 DEF Feed!Lifts, Feed!Key
<1> QED BY <1>1, <1>2, <1>3, <1>4, <1>5, FeedPublishKeeps

LEMMA FeedStateKeeps == Feed!IInv /\ Feed!State => Feed!IInv'
<1> SUFFICES ASSUME Feed!IInv, Feed!State PROVE Feed!IInv'
  OBVIOUS
<1> DEFINE line == Feed!Key("state", Feed!None)
<1>1. /\ Feed!Serving /\ UNCHANGED <<down, keyboard>> /\ UNCHANGED <<Feed!claims, heard, from, held>> /\ retained' = Len(lines) + 1
      /\ lines' = Append(lines, line)
      /\ conn' = [c \in Clients |-> IF c \in Feed!Cut THEN "cut" ELSE conn[c]]
      /\ queue' = [c \in Clients |-> IF conn[c] = "open" /\ ~Feed!Full(c) THEN Append(queue[c], line) ELSE queue[c]]
  BY DEF Feed!State, Feed!Publish
<1>2. line \in Feed!Line /\ line.kind = "state" /\ \A k : line # Feed!Key("down", k)
  BY FeedKeyIsLine DEF Feed!Key
<1> HIDE DEF line
<1>3. down' \subseteq Keys
  BY <1>1 DEF Feed!IInv, Feed!Books
<1>4. retained' \in 0..Len(lines') /\ Feed!StateIsKept'
  <2>1. lines \in Seq(Feed!Line)
    BY DEF Feed!IInv, Feed!Books
  <2>2. Len(lines') = Len(lines) + 1 /\ Len(lines) \in Nat /\ lines'[Len(lines) + 1] = line
    BY <1>1, <1>2, <2>1, AppendProperties, LenProperties
  <2> QED BY <1>1, <1>2, <2>2 DEF Feed!StateIsKept
<1>5. \A k \in Keys \ down' : k \notin down
  BY <1>1
<1> QED BY <1>1, <1>2, <1>3, <1>4, <1>5, FeedPublishKeeps

LEMMA FeedBoardKeeps == Feed!IInv /\ (Feed!BoardLost \/ Feed!BoardBack) => Feed!IInv'
<1>1. ASSUME Feed!IInv, Feed!BoardBack PROVE Feed!IInv'
  <2>1. UNCHANGED <<down, lines, retained, conn, queue, heard, from, held>> /\ UNCHANGED Feed!claims
    BY <1>1 DEF Feed!BoardBack
  <2>2. Feed!TypeOK' /\ Feed!Books' /\ Feed!OneServer' /\ Feed!Listens'
    BY <1>1, <2>1 DEF Feed!IInv, Feed!TypeOK, Feed!Books, Feed!OneServer, Feed!Listens, Feed!claims
  <2>3. Feed!Served' /\ Feed!StateIsKept' /\ Feed!Fresh'
    BY <1>1, <2>1 DEF Feed!IInv, Feed!Served, Feed!Serving, Feed!StateIsKept, Feed!Fresh, Feed!claims
  <2>4. Feed!NoGap' /\ Feed!HeldIsLifted' /\ Feed!DownIsLifted'
    BY <1>1, <2>1 DEF Feed!IInv, Feed!NoGap, Feed!HeldIsLifted, Feed!DownIsLifted
  <2> QED BY <2>2, <2>3, <2>4 DEF Feed!IInv
<1>2. ASSUME Feed!IInv, Feed!BoardLost, Feed!Serving PROVE Feed!IInv'
  <2>1. /\ UNCHANGED retained /\ UNCHANGED <<Feed!claims, heard, from, held>> /\ down' = {}
        /\ lines' = Append(lines, Feed!Clears)
        /\ conn' = [c \in Clients |-> IF c \in Feed!Cut THEN "cut" ELSE conn[c]]
        /\ queue' = [c \in Clients |-> IF conn[c] = "open" /\ ~Feed!Full(c) THEN Append(queue[c], Feed!Clears) ELSE queue[c]]
    BY <1>2 DEF Feed!BoardLost
  <2>2. Feed!Clears \in Feed!Line /\ (\A k : Feed!Lifts(Feed!Clears, k)) /\ \A k : Feed!Clears # Feed!Key("down", k)
    BY FeedKeyIsLine DEF Feed!Clears, Feed!Key, Feed!Lifts
  <2>4. retained' \in 0..Len(lines') /\ Feed!StateIsKept'
    <3>1. retained \in 0..Len(lines) /\ lines \in Seq(Feed!Line)
      BY <1>2 DEF Feed!IInv, Feed!Books
    <3>2. Len(lines') = Len(lines) + 1 /\ Len(lines) \in Nat /\ \A i \in 1..Len(lines) : lines'[i] = lines[i]
      BY <2>1, <2>2, <3>1, AppendProperties, LenProperties
    <3> QED BY <1>2, <2>1, <3>1, <3>2 DEF Feed!IInv, Feed!StateIsKept
  <2> QED BY <1>2, <2>1, <2>2, <2>4, FeedPublishKeeps
<1>3. ASSUME Feed!IInv, Feed!BoardLost, ~Feed!Serving PROVE Feed!IInv'
  <2>1. UNCHANGED <<lines, retained, conn, queue, heard, from, held>> /\ UNCHANGED Feed!claims /\ down' = {}
    BY <1>3 DEF Feed!BoardLost
  <2>2. Feed!TypeOK' /\ Feed!Books' /\ Feed!OneServer' /\ Feed!Listens'
    BY <1>3, <2>1 DEF Feed!IInv, Feed!TypeOK, Feed!Books, Feed!OneServer, Feed!Listens, Feed!claims
  <2>3. Feed!Served' /\ Feed!StateIsKept' /\ Feed!Fresh' /\ Feed!NoGap'
    BY <1>3, <2>1 DEF Feed!IInv, Feed!Served, Feed!Serving, Feed!StateIsKept, Feed!Fresh, Feed!claims, Feed!NoGap
  <2>4. \A c \in Clients : conn'[c] # "open"
    BY <1>3, <2>1 DEF Feed!IInv, Feed!Served
  <2>5. Feed!HeldIsLifted' /\ Feed!DownIsLifted'
    BY <2>4 DEF Feed!HeldIsLifted, Feed!DownIsLifted
  <2> QED BY <2>2, <2>3, <2>5 DEF Feed!IInv
<1> QED BY <1>1, <1>2, <1>3

LEMMA FeedAcceptKeeps == ASSUME Feed!IInv, NEW c \in Clients, Feed!Accept(c) PROVE Feed!IInv'
<1>0. /\ conn[c] = "new" /\ Feed!Serving /\ UNCHANGED <<down, lines, retained, heard, held>> /\ UNCHANGED Feed!claims
      /\ heard[c] = <<>> /\ held[c] = {} /\ FeedQueueLen \in Nat \ {0}
      /\ lines \in Seq(Feed!Line) /\ Len(lines) \in Nat /\ retained \in 0..Len(lines)
      /\ conn \in [Clients -> {"new", "open", "cut", "refused"}] /\ queue \in [Clients -> Seq(Feed!Line)]
      /\ from \in [Clients -> [after : 0..Len(lines), retained : 0..Len(lines)]]
  BY FeedInstance, LenProperties DEF Feed!FeedAssumption, Feed!Accept, Feed!IInv, Feed!Fresh, Feed!Books, Feed!TypeOK
<1>1. CASE conn' = [conn EXCEPT ![c] = "refused"] /\ UNCHANGED <<queue, from>>
  <2>1. Feed!TypeOK' /\ Feed!Books' /\ Feed!OneServer' /\ Feed!Listens' /\ Feed!StateIsKept'
    BY <1>0, <1>1 DEF Feed!IInv, Feed!TypeOK, Feed!Books, Feed!OneServer, Feed!Listens, Feed!claims, Feed!StateIsKept
  <2>2. \A e \in Clients : (conn'[e] = "open" => conn[e] = "open") /\ (conn'[e] = "new" => conn[e] = "new")
    BY <1>0, <1>1
  <2>3. Feed!Served' /\ Feed!Fresh' /\ Feed!NoGap'
    BY <1>0, <1>1, <2>2 DEF Feed!IInv, Feed!Served, Feed!Serving, Feed!Fresh, Feed!NoGap, Feed!claims
  <2>4. Feed!HeldIsLifted' /\ Feed!DownIsLifted'
    BY <1>0, <1>1, <2>2 DEF Feed!IInv, Feed!HeldIsLifted, Feed!DownIsLifted
  <2> QED BY <2>1, <2>3, <2>4 DEF Feed!IInv
<1>2. CASE ~(conn' = [conn EXCEPT ![c] = "refused"] /\ UNCHANGED <<queue, from>>)
  <2> DEFINE start == IF retained = 0 THEN <<>> ELSE <<lines[retained]>>
  <2>1. /\ conn' = [conn EXCEPT ![c] = "open"] /\ queue' = [queue EXCEPT ![c] = start]
        /\ from' = [from EXCEPT ![c] = [after |-> Len(lines), retained |-> retained]]
    BY <1>2 DEF Feed!Accept
  <2>2. /\ start \in Seq(Feed!Line) /\ Len(start) <= 1 /\ Len(start) \in Nat
        /\ \A i \in 1..Len(start) : start[i].kind = "state"
    <3>1. CASE retained = 0
      BY <3>1
    <3>2. CASE retained # 0
      <4>1. lines[retained] \in Feed!Line /\ lines[retained].kind = "state"
        BY <1>0, <3>2, ElementOfSeq DEF Feed!IInv, Feed!StateIsKept
      <4> QED BY <3>2, <4>1
    <3> QED BY <3>1, <3>2
  <2>3. Feed!TypeOK'
    BY <1>0, <2>1, <2>2 DEF Feed!IInv, Feed!TypeOK, Feed!claims
  <2>4. Feed!Books'
    BY <1>0, <2>1, <2>2 DEF Feed!IInv, Feed!Books, Feed!claims
  <2>5. Feed!OneServer' /\ Feed!Listens' /\ Feed!StateIsKept'
    BY <1>0 DEF Feed!IInv, Feed!OneServer, Feed!Listens, Feed!claims, Feed!StateIsKept
  <2>6. Feed!Served' /\ Feed!Fresh'
    BY <1>0, <2>1 DEF Feed!IInv, Feed!Served, Feed!Serving, Feed!Fresh, Feed!claims
  <2>7. Feed!NoGap'
    <3> SUFFICES ASSUME NEW e \in Clients, conn'[e] = "open"
                 PROVE  heard'[e] \o queue'[e] = (IF from'[e].retained = 0 THEN <<>> ELSE <<lines'[from'[e].retained]>>)
                                               \o SubSeq(lines', from'[e].after + 1, Len(lines'))
      BY DEF Feed!NoGap
    <3>1. CASE e # c
      BY <1>0, <2>1, <3>1 DEF Feed!IInv, Feed!NoGap
    <3>2. CASE e = c
      <4>1. heard'[e] = <<>> /\ queue'[e] = start /\ from'[e] = [after |-> Len(lines), retained |-> retained]
        BY <1>0, <2>1, <3>2
      <4>2. SubSeq(lines', from'[e].after + 1, Len(lines')) = <<>>
        BY <1>0, <4>1, SubSeqEmpty
      <4>3. heard'[e] \o queue'[e] = start /\ start \o <<>> = start
        BY <2>2, <4>1, ConcatEmptySeq
      <4>4. start = IF from'[e].retained = 0 THEN <<>> ELSE <<lines'[from'[e].retained]>>
        BY <1>0, <4>1
      <4> HIDE DEF start
      <4> QED BY <4>2, <4>3, <4>4
    <3> QED BY <3>1, <3>2
  <2> HIDE DEF start
  <2>8. Feed!HeldIsLifted'
    BY <1>0, <2>1 DEF Feed!IInv, Feed!HeldIsLifted
  <2>9. Feed!DownIsLifted'
    <3> SUFFICES ASSUME NEW e \in Clients, conn'[e] = "open", NEW i \in 1..Len(queue'[e]), NEW k \in Keys \ down',
                        queue'[e][i] = Feed!Key("down", k)
                 PROVE  \E j \in (i + 1)..Len(queue'[e]) : Feed!Lifts(queue'[e][j], k)
      BY DEF Feed!DownIsLifted
    <3>1. CASE e # c
      <4>1. queue'[e] = queue[e] /\ conn[e] = "open" /\ down' = down
        BY <1>0, <2>1, <3>1
      <4> QED BY <4>1 DEF Feed!IInv, Feed!DownIsLifted
    <3>2. CASE e = c
      <4>1. queue'[e] = start
        BY <1>0, <2>1, <3>2
      <4> QED BY <2>2, <4>1 DEF Feed!Key
    <3> QED BY <3>1, <3>2
  <2> QED BY <2>3, <2>4, <2>5, <2>6, <2>7, <2>8, <2>9 DEF Feed!IInv
<1> QED BY <1>1, <1>2

LEMMA FeedDeliverKeeps == ASSUME Feed!IInv, NEW c \in Clients, Feed!Deliver(c) PROVE Feed!IInv'
<1> DEFINE line == Head(queue[c])
<1>0. /\ conn[c] = "open" /\ queue[c] # <<>> /\ queue' = [queue EXCEPT ![c] = Tail(@)]
      /\ heard' = [heard EXCEPT ![c] = Append(@, line)] /\ held' = [held EXCEPT ![c] = Feed!Apply(@, line)]
      /\ UNCHANGED <<down, keyboard, lines, retained, conn, from, feedTrouble>> /\ UNCHANGED Feed!claims
      /\ queue \in [Clients -> Seq(Feed!Line)] /\ heard \in [Clients -> Seq(Feed!Line)] /\ held \in [Clients -> SUBSET Keys]
  BY DEF Feed!Deliver, Feed!IInv, Feed!Books
<1>1. /\ line \in Feed!Line /\ Tail(queue[c]) \in Seq(Feed!Line) /\ Len(queue[c]) \in Nat \ {0} /\ Len(Tail(queue[c])) = Len(queue[c]) - 1
      /\ line = queue[c][1] /\ \A i \in 1..Len(queue[c]) - 1 : Tail(queue[c])[i] = queue[c][i + 1]
  BY <1>0, HeadIsFirst
<1>2. Append(heard[c], line) \in Seq(Feed!Line) /\ Append(heard[c], line) \o Tail(queue[c]) = heard[c] \o queue[c]
  BY <1>0, <1>1, AppendProperties, HeadMoves
<1> HIDE DEF line
<1>3. Feed!Apply(held[c], line) \subseteq Keys
  <2>1. held[c] \subseteq Keys
    BY <1>0
  <2>2. line.kind = "down" => line.key \in Keys
    BY <1>1 DEF Feed!Line
  <2> QED BY <2>1, <2>2 DEF Feed!Apply
<1>4. \A e \in Clients : e # c => queue'[e] = queue[e] /\ heard'[e] = heard[e] /\ held'[e] = held[e]
  BY <1>0
<1>5. queue'[c] = Tail(queue[c]) /\ heard'[c] = Append(heard[c], line) /\ held'[c] = Feed!Apply(held[c], line)
  BY <1>0
<1>6. Feed!TypeOK'
  <2>1. \A e \in Clients : Len(queue'[e]) <= FeedQueueLen /\ held'[e] \subseteq Keys
    <3> SUFFICES ASSUME NEW e \in Clients PROVE Len(queue'[e]) <= FeedQueueLen /\ held'[e] \subseteq Keys
      OBVIOUS
    <3>0. Len(queue[e]) <= FeedQueueLen /\ held[e] \subseteq Keys /\ FeedQueueLen \in Nat
      BY FeedInstance DEF Feed!IInv, Feed!TypeOK, Feed!FeedAssumption
    <3>1. CASE e # c
      BY <1>4, <3>0, <3>1
    <3>2. CASE e = c
      <4>1. Len(queue'[c]) = Len(queue[c]) - 1 /\ Len(queue[c]) \in Nat
        BY <1>1, <1>5
      <4>2. Len(queue'[c]) <= FeedQueueLen
        BY <3>0, <3>2, <4>1
      <4> QED BY <1>3, <1>5, <3>2, <4>2
    <3> QED BY <3>1, <3>2
  <2> QED BY <1>0, <2>1 DEF Feed!IInv, Feed!TypeOK, Feed!claims
<1>7. Feed!Books'
  BY <1>0, <1>1, <1>2, <1>3 DEF Feed!IInv, Feed!Books, Feed!claims
<1>8. Feed!OneServer' /\ Feed!Listens' /\ Feed!Served' /\ Feed!StateIsKept'
  BY <1>0 DEF Feed!IInv, Feed!OneServer, Feed!Listens, Feed!Served, Feed!Serving, Feed!StateIsKept, Feed!claims
<1>9. Feed!Fresh'
  BY <1>0, <1>4 DEF Feed!IInv, Feed!Fresh
<1>10. Feed!NoGap'
  <2> SUFFICES ASSUME NEW e \in Clients, conn'[e] = "open"
               PROVE  heard'[e] \o queue'[e] = (IF from'[e].retained = 0 THEN <<>> ELSE <<lines'[from'[e].retained]>>)
                                             \o SubSeq(lines', from'[e].after + 1, Len(lines'))
    BY DEF Feed!NoGap
  <2>1. heard'[e] \o queue'[e] = heard[e] \o queue[e]
    BY <1>2, <1>4, <1>5
  <2> QED BY <1>0, <2>1 DEF Feed!IInv, Feed!NoGap
<1>11. Feed!HeldIsLifted'
  <2> SUFFICES ASSUME NEW e \in Clients, conn'[e] = "open", NEW k \in held'[e], k \notin down'
               PROVE  \E j \in 1..Len(queue'[e]) : Feed!Lifts(queue'[e][j], k)
    BY DEF Feed!HeldIsLifted
  <2>1. CASE e # c
    <3>1. queue'[e] = queue[e] /\ held'[e] = held[e] /\ conn[e] = "open" /\ down' = down
      BY <1>0, <1>4, <2>1
    <3> QED BY <3>1 DEF Feed!IInv, Feed!HeldIsLifted
  <2>2. CASE e = c
    <3>0. k \in Feed!Apply(held[c], line) /\ k \notin down /\ k \in Keys /\ conn[c] = "open"
      BY <1>0, <1>3, <1>5, <2>2
    <3>1. CASE k \in held[c]
      <4>1. PICK j \in 1..Len(queue[c]) : Feed!Lifts(queue[c][j], k)
        BY <3>0, <3>1 DEF Feed!IInv, Feed!HeldIsLifted
      <4>2. j # 1
        BY <1>1, <3>0, <4>1 DEF Feed!Lifts, Feed!Apply, Feed!Key
      <4>3. j - 1 \in 1..Len(queue'[c]) /\ queue'[c][j - 1] = queue[c][j]
        BY <1>1, <1>5, <4>2
      <4> QED BY <2>2, <4>1, <4>3
    <3>2. CASE k \notin held[c]
      <4>1. line = Feed!Key("down", k)
        BY <1>1, <3>0, <3>2 DEF Feed!Apply, Feed!Line, Feed!Key
      <4>2. PICK j \in 2..Len(queue[c]) : Feed!Lifts(queue[c][j], k)
        <5>1. 1 \in 1..Len(queue[c]) /\ queue[c][1] = Feed!Key("down", k) /\ k \in Keys \ down
          BY <1>1, <3>0, <4>1
        <5>2. \E j \in (1 + 1)..Len(queue[c]) : Feed!Lifts(queue[c][j], k)
          BY <3>0, <5>1 DEF Feed!IInv, Feed!DownIsLifted
        <5> QED BY <5>2
      <4>3. j - 1 \in 1..Len(queue'[c]) /\ queue'[c][j - 1] = queue[c][j]
        BY <1>1, <1>5, <4>2
      <4> QED BY <2>2, <4>2, <4>3
    <3> QED BY <3>1, <3>2
  <2> QED BY <2>1, <2>2
<1>12. Feed!DownIsLifted'
  <2> SUFFICES ASSUME NEW e \in Clients, conn'[e] = "open", NEW i \in 1..Len(queue'[e]), NEW k \in Keys \ down',
                      queue'[e][i] = Feed!Key("down", k)
               PROVE  \E j \in (i + 1)..Len(queue'[e]) : Feed!Lifts(queue'[e][j], k)
    BY DEF Feed!DownIsLifted
  <2>1. CASE e # c
    <3>1. queue'[e] = queue[e] /\ conn[e] = "open" /\ down' = down
      BY <1>0, <1>4, <2>1
    <3> QED BY <3>1 DEF Feed!IInv, Feed!DownIsLifted
  <2>2. CASE e = c
    <3>1. i + 1 \in 1..Len(queue[c]) /\ queue[c][i + 1] = Feed!Key("down", k) /\ k \in Keys \ down /\ conn[c] = "open"
      BY <1>0, <1>1, <1>5, <2>2
    <3>2. PICK j \in ((i + 1) + 1)..Len(queue[c]) : Feed!Lifts(queue[c][j], k)
      BY <3>1 DEF Feed!IInv, Feed!DownIsLifted
    <3>3. j - 1 \in (i + 1)..Len(queue'[c]) /\ queue'[c][j - 1] = queue[c][j]
      BY <1>1, <1>5, <2>2, <3>1, <3>2
    <3> QED BY <2>2, <3>2, <3>3
  <2> QED BY <2>1, <2>2
<1> QED BY <1>6, <1>7, <1>8, <1>9, <1>10, <1>11, <1>12 DEF Feed!IInv

LEMMA FeedEndKeeps == ASSUME Feed!IInv, NEW c \in Clients, Feed!WriteFails(c) \/ Feed!Redial(c) PROVE Feed!IInv'
<1>0. /\ conn[c] # "new" /\ UNCHANGED <<down, lines, retained, from>> /\ UNCHANGED Feed!claims
      /\ \/ conn' = [conn EXCEPT ![c] = "cut"] /\ UNCHANGED <<queue, heard, held>>
         \/ /\ conn' = [conn EXCEPT ![c] = "new"] /\ queue' = [queue EXCEPT ![c] = <<>>]
            /\ heard' = [heard EXCEPT ![c] = <<>>] /\ held' = [held EXCEPT ![c] = {}]
  BY DEF Feed!WriteFails, Feed!Redial
<1>1. /\ conn \in [Clients -> {"new", "open", "cut", "refused"}] /\ queue \in [Clients -> Seq(Feed!Line)]
      /\ heard \in [Clients -> Seq(Feed!Line)] /\ held \in [Clients -> SUBSET Keys]
      /\ <<>> \in Seq(Feed!Line) /\ Len(<<>>) = 0 /\ FeedQueueLen \in Nat
      /\ \A e \in Clients : Len(queue[e]) <= FeedQueueLen
  BY FeedInstance DEF Feed!IInv, Feed!TypeOK, Feed!Books, Feed!FeedAssumption
<1>2. \A e \in Clients : conn'[e] = "open" => /\ conn[e] = "open" /\ queue'[e] = queue[e]
                                             /\ heard'[e] = heard[e] /\ held'[e] = held[e]
  BY <1>0, <1>1
<1>3. Feed!TypeOK'
  <2>3. \A e \in Clients : queue'[e] = queue[e] \/ queue'[e] = <<>>
    BY <1>0, <1>1
  <2>1. \A e \in Clients : Len(queue'[e]) <= FeedQueueLen
    BY <1>1, <2>3
  <2>2. \A e \in Clients : held'[e] \subseteq Keys
    BY <1>0, <1>1
  <2> QED BY <1>0, <1>1, <2>1, <2>2 DEF Feed!IInv, Feed!TypeOK, Feed!claims
<1>4. Feed!Books'
  BY <1>0, <1>1 DEF Feed!IInv, Feed!Books, Feed!claims
<1>5. Feed!OneServer' /\ Feed!Listens' /\ Feed!StateIsKept'
  BY <1>0 DEF Feed!IInv, Feed!OneServer, Feed!Listens, Feed!StateIsKept, Feed!claims
<1>6. Feed!Served' /\ Feed!NoGap'
  BY <1>0, <1>2 DEF Feed!IInv, Feed!Served, Feed!Serving, Feed!NoGap, Feed!claims
<1>7. Feed!Fresh'
  BY <1>0, <1>1 DEF Feed!IInv, Feed!Fresh
<1>8. Feed!HeldIsLifted' /\ Feed!DownIsLifted'
  BY <1>0, <1>2 DEF Feed!IInv, Feed!HeldIsLifted, Feed!DownIsLifted
<1> QED BY <1>3, <1>4, <1>5, <1>6, <1>7, <1>8 DEF Feed!IInv

LEMMA FeedStepIInv == Feed!IInv /\ [Feed!Next]_(Feed!vars) => Feed!IInv'
<1> SUFFICES ASSUME Feed!IInv, [Feed!Next]_(Feed!vars) PROVE Feed!IInv'
  OBVIOUS
<1>1. CASE UNCHANGED Feed!vars
  <2>1. UNCHANGED Feed!feed /\ UNCHANGED Feed!claims
    BY <1>1 DEF Feed!vars, Feed!feed, Feed!claims
  <2>2. Feed!OneServer' /\ Feed!Listens'
    BY <2>1 DEF Feed!IInv, Feed!OneServer, Feed!Listens, Feed!claims
  <2> QED BY <2>1, <2>2, FeedRests DEF Feed!IInv, Feed!TypeOK, Feed!Books, Feed!claims
<1>2. CASE \E d \in Daemons : Feed!Die(d)
  BY <1>2, FeedDieKeeps
<1>3. CASE \E k \in Keys : Feed!Press(k) \/ Feed!Release(k)
  BY <1>3, FeedPressKeeps
<1>4. CASE Feed!State \/ Feed!BoardLost \/ Feed!BoardBack
  BY <1>4, FeedStateKeeps, FeedBoardKeeps
<1>5. CASE \E c \in Clients : Feed!Accept(c) \/ Feed!Deliver(c) \/ Feed!WriteFails(c) \/ Feed!Redial(c)
  BY <1>5, FeedAcceptKeeps, FeedDeliverKeeps, FeedEndKeeps
<1>6. CASE (\E d \in Daemons : Feed!Lock(d) \/ Feed!Probe(d) \/ Feed!Listen(d) \/ Feed!Retry(d)) \/ Feed!ForeignEnds \/ Feed!Backlog
  BY <1>6, FeedClaimKeeps
<1> QED BY <1>1, <1>2, <1>3, <1>4, <1>5, <1>6 DEF Feed!Next

FeedProps == Feed!TypeOK /\ Feed!OneServer /\ Feed!NoGap /\ Feed!HeldIsTrue

LEMMA FeedImplies == Feed!IInv => FeedProps
<1> SUFFICES ASSUME Feed!IInv PROVE FeedProps
  OBVIOUS
<1>1. Feed!HeldIsTrue
  <2> SUFFICES ASSUME NEW c \in Clients, conn[c] = "open", queue[c] = <<>>, NEW k \in held[c] PROVE k \in down
    BY DEF Feed!HeldIsTrue
  <2>1. Len(queue[c]) = 0
    OBVIOUS
  <2> QED BY <2>1 DEF Feed!IInv, Feed!HeldIsLifted
<1> QED BY <1>1 DEF Feed!IInv, FeedProps

LEMMA FeedSocketStays == Feed!IInv /\ [Feed!Next]_(Feed!vars) => (socket = "foreign" /\ claim' # claim => socket' = socket) \/ UNCHANGED Feed!vars
<1> SUFFICES ASSUME Feed!IInv, Feed!Next, socket = "foreign", claim' # claim PROVE socket' = socket
  OBVIOUS
<1>1. \A d \in Daemons : d # socket
  BY FeedInstance DEF Feed!FeedAssumption
<1>2. ASSUME NEW d \in Daemons, Feed!Lock(d) \/ Feed!Probe(d) \/ Feed!Listen(d) \/ Feed!Retry(d) \/ Feed!Die(d) PROVE socket' = socket
  <2>1. ~Feed!Die(d)
    BY <1>1 DEF Feed!Die, Feed!IInv, Feed!Listens
  <2> QED BY <1>2, <2>1 DEF Feed!Lock, Feed!Probe, Feed!Listen, Feed!Retry, Feed!GiveUp, Feed!HolderAbsent
<1>3. ASSUME Feed!ForeignEnds \/ Feed!Backlog \/ Feed!State \/ Feed!BoardLost \/ Feed!BoardBack PROVE FALSE
  BY <1>3 DEF Feed!ForeignEnds, Feed!Backlog, Feed!State, Feed!BoardLost, Feed!BoardBack, Feed!Publish, Feed!claims
<1>4. ASSUME NEW k \in Keys, Feed!Press(k) \/ Feed!Release(k) PROVE FALSE
  BY <1>4 DEF Feed!Press, Feed!Release, Feed!Publish, Feed!claims
<1>5. ASSUME NEW c \in Clients, Feed!Accept(c) \/ Feed!Deliver(c) \/ Feed!WriteFails(c) \/ Feed!Redial(c) PROVE FALSE
  BY <1>5 DEF Feed!Accept, Feed!Deliver, Feed!WriteFails, Feed!Redial, Feed!claims
<1> QED BY <1>2, <1>3, <1>4, <1>5 DEF Feed!Next

(***************************************************************************)
(* The scanner: Scanner!IInv is inductive.                                 *)
(***************************************************************************)
Upto(m) == 1..m + 1
Follows(g, m, b, F) == g[1] = b /\ \A n \in 2..m + 1 : g[n] = F[<<g[n - 1], n - 1>>]
LEMMA RecursionExists ==
  ASSUME NEW S, NEW M \in Nat, NEW b \in S, NEW F \in [S \X Nat -> S]
  PROVE  \E g \in [Upto(M) -> S] : Follows(g, M, b, F)
<1> DEFINE P(m) == \E g \in [1..m + 1 -> S] : g[1] = b /\ \A n \in 2..m + 1 : g[n] = F[<<g[n - 1], n - 1>>]
           Bad == {m \in Nat : ~P(m)}
<1>1. P(0)
  <2> DEFINE g == [n \in 1..1 |-> b]
  <2>1. g \in [1..0 + 1 -> S] /\ g[1] = b /\ \A n \in 2..0 + 1 : FALSE
    OBVIOUS
  <2> QED BY <2>1
<1>2. ASSUME NEW m \in Nat, P(m) PROVE P(m + 1)
  <2>1. PICK g \in [1..m + 1 -> S] : g[1] = b /\ \A n \in 2..m + 1 : g[n] = F[<<g[n - 1], n - 1>>]
    BY <1>2
  <2> DEFINE h == [n \in 1..(m + 1) + 1 |-> IF n = m + 2 THEN F[<<g[m + 1], m + 1>>] ELSE g[n]]
  <2>2. m + 1 \in 1..m + 1 /\ \A n \in 1..(m + 1) + 1 : n # m + 2 => n \in 1..m + 1
    OBVIOUS
  <2>3. g[m + 1] \in S /\ F[<<g[m + 1], m + 1>>] \in S
    BY <2>2
  <2>4. h \in [1..(m + 1) + 1 -> S]
    BY <2>2, <2>3
  <2>5. \A n \in 1..m + 1 : h[n] = g[n]
    OBVIOUS
  <2>6. h[m + 2] = F[<<g[m + 1], m + 1>>]
    OBVIOUS
  <2> HIDE DEF h
  <2>7. h[1] = b
    BY <2>1, <2>5
  <2>8. \A n \in 2..(m + 1) + 1 : h[n] = F[<<h[n - 1], n - 1>>]
    <3> SUFFICES ASSUME NEW n \in 2..(m + 1) + 1 PROVE h[n] = F[<<h[n - 1], n - 1>>]
      OBVIOUS
    <3>1. n - 1 \in 1..m + 1 /\ h[n - 1] = g[n - 1]
      BY <2>5
    <3>2. CASE n = m + 2
      <4>1. n - 1 = m + 1
        BY <3>2
      <4> QED BY <2>6, <3>1, <3>2, <4>1
    <3>3. CASE n # m + 2
      <4>1. n \in 2..m + 1 /\ n \in 1..m + 1
        BY <3>3
      <4> QED BY <2>1, <2>5, <3>1, <4>1
    <3> QED BY <3>2, <3>3
  <2> QED BY <2>4, <2>7, <2>8
<1>3. Bad = {}
  <2> SUFFICES ASSUME Bad # {} PROVE FALSE
    OBVIOUS
  <2>1. PICK m \in Bad : \A k \in Bad : m <= k
    BY LeastNat
  <2>2. m \in Nat /\ m # 0 /\ ~P(m)
    BY <1>1, <2>1
  <2> HIDE DEF P
  <2>3. m - 1 \in Nat /\ m - 1 \notin Bad
    BY <2>1, <2>2
  <2>4. P(m - 1)
    BY <2>3
  <2> QED BY <1>2, <2>2, <2>4
<1> HIDE DEF P
<1>4. P(M)
  BY <1>3
<1> QED BY <1>4 DEF P, Upto, Follows

ScannerRungs == 1..MaxScanTime + 1

LEMMA ScannerSchedules ==
  /\ Scanner!Schedule[1] = 1
  /\ \A n \in ScannerRungs : Scanner!Schedule[n] \in 1..ReconnectCap
  /\ \A n \in 1..MaxScanTime : Scanner!Schedule[n + 1] = Scanner!Least(2 * Scanner!Schedule[n], ReconnectCap)
<1> DEFINE C == ReconnectCap
           Step(g) == [n \in ScannerRungs |-> IF n = 1 THEN 1 ELSE Scanner!Least(2 * g[n - 1], C)]
<1>0. C \in Nat \ {0} /\ MaxScanTime \in Nat
  BY ScannerInstance DEF Scanner!ScannerAssumption
<1>1. \E g \in [ScannerRungs -> 1..C] : g[1] = 1 /\ \A n \in 2..MaxScanTime + 1 : g[n] = Scanner!Least(2 * g[n - 1], C)
  <2> DEFINE F == [p \in (1..C) \X Nat |-> Scanner!Least(2 * p[1], C)]
  <2>1. \A x \in 1..C : Scanner!Least(2 * x, C) \in 1..C
    BY <1>0 DEF Scanner!Least
  <2>2. F \in [(1..C) \X Nat -> 1..C]
    BY <2>1
  <2>3. 1 \in 1..C
    BY <1>0
  <2>4. \A x \in 1..C, n \in Nat : F[<<x, n>>] = Scanner!Least(2 * x, C)
    OBVIOUS
  <2> HIDE DEF F
  <2>5. PICK g \in [1..MaxScanTime + 1 -> 1..C] : g[1] = 1 /\ \A n \in 2..MaxScanTime + 1 : g[n] = F[<<g[n - 1], n - 1>>]
    <3> DEFINE T == 1..C
    <3>1. MaxScanTime \in Nat /\ 1 \in T /\ F \in [T \X Nat -> T]
      BY <1>0, <2>2, <2>3
    <3> HIDE DEF T
    <3>2. \E g \in [Upto(MaxScanTime) -> T] : Follows(g, MaxScanTime, 1, F)
      BY <3>1, RecursionExists
    <3> QED BY <3>2 DEF T, Upto, Follows
  <2>6. \A n \in 2..MaxScanTime + 1 : g[n] = Scanner!Least(2 * g[n - 1], C)
    <3> SUFFICES ASSUME NEW n \in 2..MaxScanTime + 1 PROVE g[n] = Scanner!Least(2 * g[n - 1], C)
      OBVIOUS
    <3>1. n - 1 \in 1..MaxScanTime + 1 /\ n - 1 \in Nat
      BY <1>0
    <3>2. g[n - 1] \in 1..C
      BY <3>1
    <3> QED BY <2>4, <2>5, <3>1, <3>2
  <2> QED BY <2>5, <2>6 DEF ScannerRungs
<1>2. PICK g \in [ScannerRungs -> 1..C] : g[1] = 1 /\ \A n \in 2..MaxScanTime + 1 : g[n] = Scanner!Least(2 * g[n - 1], C)
  BY <1>1
<1>3. g = Step(g)
  BY <1>0, <1>2 DEF ScannerRungs
<1>4. Scanner!Schedule = CHOOSE f : f = Step(f)
  BY DEF Scanner!Schedule, ScannerRungs
<1>5. Scanner!Schedule = Step(Scanner!Schedule)
  BY <1>3, <1>4
<1> HIDE DEF Step
<1>6. /\ 1 \in ScannerRungs /\ \A n \in 1..MaxScanTime : n + 1 \in ScannerRungs /\ n \in ScannerRungs /\ n + 1 # 1 /\ (n + 1) - 1 = n
  BY <1>0 DEF ScannerRungs
<1>7. Scanner!Schedule[1] = 1 /\ \A n \in 1..MaxScanTime : Scanner!Schedule[n + 1] = Scanner!Least(2 * Scanner!Schedule[n], C)
  <2>1. \A n \in ScannerRungs : Scanner!Schedule[n] = IF n = 1 THEN 1 ELSE Scanner!Least(2 * Scanner!Schedule[n - 1], C)
    BY <1>5 DEF Step
  <2> QED BY <1>6, <2>1
<1>8. \A n \in ScannerRungs : Scanner!Schedule[n] \in 1..C
  <2> DEFINE Bad == {n \in ScannerRungs : Scanner!Schedule[n] \notin 1..C}
  <2> SUFFICES ASSUME Bad # {} PROVE FALSE
    OBVIOUS
  <2>0. Bad \subseteq Nat
    BY <1>0 DEF ScannerRungs
  <2>1. PICK n \in Bad : \A k \in Bad : n <= k
    <3> HIDE DEF Bad
    <3> QED BY <2>0, LeastNat
  <2>2. n # 1
    BY <1>0, <1>7
  <2>3. n - 1 \in 1..MaxScanTime /\ n - 1 \in ScannerRungs /\ (n - 1) + 1 = n
    BY <1>0, <2>2 DEF ScannerRungs
  <2>4. Scanner!Schedule[n - 1] \in 1..C
    BY <2>1, <2>3 DEF ScannerRungs
  <2>5. Scanner!Schedule[n] = Scanner!Least(2 * Scanner!Schedule[n - 1], C)
    BY <1>7, <2>3
  <2>6. Scanner!Schedule[n] \in 1..C
    BY <1>0, <2>4, <2>5 DEF Scanner!Least
  <2> QED BY <2>6
<1> QED BY <1>7, <1>8

LEMMA ScannerAttempts ==
  /\ Scanner!AttemptAt[1] = 0
  /\ \A n \in ScannerRungs : Scanner!AttemptAt[n] \in Nat
  /\ \A n \in 1..MaxScanTime : Scanner!AttemptAt[n + 1] = Scanner!AttemptAt[n] + Scanner!Schedule[n]
<1> DEFINE Step(g) == [n \in ScannerRungs |-> IF n = 1 THEN 0 ELSE g[n - 1] + Scanner!Schedule[n - 1]]
<1>0. MaxScanTime \in Nat /\ \A n \in ScannerRungs : Scanner!Schedule[n] \in Nat
  BY ScannerInstance, ScannerSchedules DEF Scanner!ScannerAssumption
<1>1. \E g \in [ScannerRungs -> Nat] : g[1] = 0 /\ \A n \in 2..MaxScanTime + 1 : g[n] = g[n - 1] + Scanner!Schedule[n - 1]
  <2> DEFINE F == [p \in Nat \X Nat |-> p[1] + (IF p[2] \in ScannerRungs THEN Scanner!Schedule[p[2]] ELSE 0)]
  <2>1. F \in [Nat \X Nat -> Nat] /\ 0 \in Nat
    BY <1>0
  <2>4. \A x \in Nat, n \in Nat : n \in ScannerRungs => F[<<x, n>>] = x + Scanner!Schedule[n]
    OBVIOUS
  <2> HIDE DEF F
  <2>5. \E g \in [Upto(MaxScanTime) -> Nat] : Follows(g, MaxScanTime, 0, F)
    BY <1>0, <2>1, RecursionExists
  <2>6. PICK g \in [1..MaxScanTime + 1 -> Nat] : g[1] = 0 /\ \A n \in 2..MaxScanTime + 1 : g[n] = F[<<g[n - 1], n - 1>>]
    BY <2>5 DEF Upto, Follows
  <2>7. \A n \in 2..MaxScanTime + 1 : g[n] = g[n - 1] + Scanner!Schedule[n - 1]
    <3> SUFFICES ASSUME NEW n \in 2..MaxScanTime + 1 PROVE g[n] = g[n - 1] + Scanner!Schedule[n - 1]
      OBVIOUS
    <3>1. n - 1 \in ScannerRungs /\ n - 1 \in Nat
      BY <1>0 DEF ScannerRungs
    <3>2. g[n - 1] \in Nat
      BY <3>1 DEF ScannerRungs
    <3> QED BY <2>4, <2>6, <3>1, <3>2
  <2> QED BY <2>6, <2>7 DEF ScannerRungs
<1>2. PICK g \in [ScannerRungs -> Nat] : g[1] = 0 /\ \A n \in 2..MaxScanTime + 1 : g[n] = g[n - 1] + Scanner!Schedule[n - 1]
  BY <1>1
<1>3. g = Step(g)
  BY <1>0, <1>2 DEF ScannerRungs
<1>4. Scanner!AttemptAt = CHOOSE f : f = Step(f)
  BY DEF Scanner!AttemptAt, ScannerRungs
<1>5. Scanner!AttemptAt = Step(Scanner!AttemptAt)
  BY <1>3, <1>4
<1> HIDE DEF Step
<1>6. /\ 1 \in ScannerRungs /\ \A n \in 1..MaxScanTime : n + 1 \in ScannerRungs /\ n \in ScannerRungs /\ n + 1 # 1 /\ (n + 1) - 1 = n
  BY <1>0 DEF ScannerRungs
<1>7. Scanner!AttemptAt[1] = 0 /\ \A n \in 1..MaxScanTime : Scanner!AttemptAt[n + 1] = Scanner!AttemptAt[n] + Scanner!Schedule[n]
  <2>1. \A n \in ScannerRungs : Scanner!AttemptAt[n] = IF n = 1 THEN 0 ELSE Scanner!AttemptAt[n - 1] + Scanner!Schedule[n - 1]
    BY <1>5 DEF Step
  <2> QED BY <1>6, <2>1
<1>8. \A n \in ScannerRungs : Scanner!AttemptAt[n] \in Nat
  <2> DEFINE Bad == {n \in ScannerRungs : Scanner!AttemptAt[n] \notin Nat}
  <2> SUFFICES ASSUME Bad # {} PROVE FALSE
    OBVIOUS
  <2>0. Bad \subseteq Nat
    BY <1>0 DEF ScannerRungs
  <2>1. PICK n \in Bad : \A k \in Bad : n <= k
    <3> HIDE DEF Bad
    <3> QED BY <2>0, LeastNat
  <2>2. n # 1
    BY <1>0, <1>7
  <2>3. n - 1 \in 1..MaxScanTime /\ n - 1 \in ScannerRungs /\ (n - 1) + 1 = n
    BY <1>0, <2>2 DEF ScannerRungs
  <2>4. Scanner!AttemptAt[n - 1] \in Nat
    BY <2>1, <2>3 DEF ScannerRungs
  <2>5. Scanner!AttemptAt[n] = Scanner!AttemptAt[n - 1] + Scanner!Schedule[n - 1]
    BY <1>7, <2>3
  <2>6. Scanner!AttemptAt[n] \in Nat
    BY <1>0, <2>3, <2>4, <2>5
  <2> QED BY <2>6
<1> QED BY <1>7, <1>8

---------------------------------------------------------------------------
\* What a failed attempt makes of a wait.
LEMMA ScannerWaiting ==
  ASSUME NEW b \in Scanner!Waits, NEW absent \in BOOLEAN
  PROVE  /\ Scanner!WaitOf(b, absent) \in 1..ReconnectCap /\ Scanner!Fail(b, absent) \in Scanner!Waits /\ Scanner!Reset(b) \in Scanner!Waits
         /\ Scanner!Fail(b, absent).absent = absent /\ Scanner!Reset(b).absent = b.absent
         /\ absent => Scanner!WaitOf(b, absent) <= AbsentCap
         /\ Scanner!From(b, absent) \in 1..ReconnectCap
<1>0. ReconnectCap \in Nat \ {0} /\ AbsentCap \in Nat \ {0} /\ AbsentCap <= ReconnectCap
  BY ScannerInstance DEF Scanner!ScannerAssumption
<1>1. b.next \in 0..ReconnectCap /\ b.absent \in BOOLEAN /\ b = [next |-> b.next, absent |-> b.absent]
  BY DEF Scanner!Waits
<1>2. Scanner!From(b, absent) \in 1..ReconnectCap
  BY <1>0, <1>1 DEF Scanner!From
<1>3. Scanner!Cap(absent) \in 1..ReconnectCap /\ (absent => Scanner!Cap(absent) = AbsentCap)
  BY <1>0 DEF Scanner!Cap
<1>4. Scanner!WaitOf(b, absent) \in 1..ReconnectCap /\ Scanner!WaitOf(b, absent) <= Scanner!Cap(absent)
  BY <1>0, <1>2, <1>3 DEF Scanner!WaitOf, Scanner!Least
<1>5. Scanner!Least(2 * Scanner!From(b, absent), Scanner!Cap(absent)) \in 0..ReconnectCap
  BY <1>0, <1>2, <1>3 DEF Scanner!Least
<1>6. Scanner!Fail(b, absent) \in Scanner!Waits /\ Scanner!Fail(b, absent).absent = absent
  BY <1>5 DEF Scanner!Fail, Scanner!Waits
<1>7. Scanner!Reset(b) \in Scanner!Waits /\ Scanner!Reset(b).absent = b.absent
  <2>1. Scanner!Reset(b) = [next |-> 0, absent |-> b.absent]
    BY <1>1 DEF Scanner!Reset
  <2>2. 0 \in 0..ReconnectCap
    BY <1>0
  <2> QED BY <1>1, <2>1, <2>2 DEF Scanner!Waits
<1> QED BY <1>2, <1>3, <1>4, <1>6, <1>7

\* The n-th wait of the class that is present, and the next one.
LEMMA ScannerRamping ==
  ASSUME NEW b \in Scanner!Waits, NEW n \in Nat, n + 1 <= MaxScanTime, n > 0 => b.absent = FALSE /\ b.next >= Scanner!Schedule[n + 1]
  PROVE  /\ Scanner!WaitOf(b, FALSE) >= Scanner!Schedule[n + 1] /\ Scanner!Fail(b, FALSE).absent = FALSE
         /\ Scanner!Fail(b, FALSE).next >= Scanner!Schedule[n + 2]
<1>0. ReconnectCap \in Nat \ {0} /\ MaxScanTime \in Nat
  BY ScannerInstance DEF Scanner!ScannerAssumption
<1>1. b.next \in 0..ReconnectCap /\ b.absent \in BOOLEAN
  BY DEF Scanner!Waits
<1>2. n + 1 \in ScannerRungs /\ n + 1 \in 1..MaxScanTime /\ (n + 1) + 1 = n + 2
  BY <1>0 DEF ScannerRungs
<1>3. Scanner!Schedule[n + 1] \in 1..ReconnectCap /\ Scanner!Schedule[n + 2] = Scanner!Least(2 * Scanner!Schedule[n + 1], ReconnectCap)
  BY <1>2, ScannerSchedules
<1>4. Scanner!From(b, FALSE) \in 1..ReconnectCap
  BY ScannerWaiting
<1>5. Scanner!From(b, FALSE) >= Scanner!Schedule[n + 1]
  <2>1. CASE n = 0
    <3>1. Scanner!Schedule[n + 1] = 1
      BY <2>1, ScannerSchedules
    <3>2. \A x \in 1..ReconnectCap : x >= 1
      BY <1>0
    <3>3. Scanner!From(b, FALSE) >= 1
      BY ONLY <1>4, <3>2
    <3> QED BY ONLY <3>1, <3>3
  <2>2. CASE n # 0
    <3>0. n > 0
      BY ONLY <2>2, n \in Nat
    <3>1. b.absent = FALSE /\ b.next >= Scanner!Schedule[n + 1]
      BY <3>0
    <3>2. b.next # 0
      BY ONLY <1>1, <1>3, <3>1
    <3>3. Scanner!From(b, FALSE) = b.next
      BY ONLY <3>1, <3>2 DEF Scanner!From
    <3> QED BY ONLY <3>1, <3>3
  <2> QED BY ONLY <2>1, <2>2
<1>6. Scanner!Cap(FALSE) = ReconnectCap
  BY DEF Scanner!Cap
<1>10. \A x \in 1..ReconnectCap, y \in 1..ReconnectCap :
         x >= y => Scanner!Least(x, ReconnectCap) >= y /\ Scanner!Least(2 * x, ReconnectCap) >= Scanner!Least(2 * y, ReconnectCap)
  BY ONLY <1>0 DEF Scanner!Least
<1>7. Scanner!WaitOf(b, FALSE) >= Scanner!Schedule[n + 1]
  BY ONLY <1>3, <1>4, <1>5, <1>6, <1>10 DEF Scanner!WaitOf
<1>8. Scanner!Least(2 * Scanner!From(b, FALSE), ReconnectCap) >= Scanner!Schedule[n + 2]
  BY ONLY <1>3, <1>4, <1>5, <1>10
<1>9. Scanner!Fail(b, FALSE).absent = FALSE /\ Scanner!Fail(b, FALSE).next >= Scanner!Schedule[n + 2]
  BY <1>6, <1>8 DEF Scanner!Fail
<1> QED BY <1>7, <1>9

LEMMA ScannerBounds == /\ ReconnectCap \in Nat \ {0} /\ AbsentCap \in Nat \ {0} /\ AbsentCap <= ReconnectCap
                /\ EnumRetry \in Nat /\ MaxScanTime \in Nat
BY ScannerInstance DEF Scanner!ScannerAssumption

LEMMA ScannerTyped ==
  ASSUME Scanner!IInv
  PROVE  /\ now \in Nat /\ enumRetry \in Nat
         /\ \A w \in Waiters : /\ bo[w] \in Scanner!Waits /\ reopenAt[w] \in Nat /\ handedAt[w] \in Nat /\ tries[w] \in Nat
                              /\ since[w] \in Nat /\ present[w] \in Nat /\ armed[w] \in BOOLEAN
BY ScannerBounds DEF Scanner!IInv, Scanner!TypeOK, Scanner!Clocks, Scanner!Switches

\* A type that holds of the waits holds of what TypeOK says of them.
LEMMA ScannerTypesOf ==
  ASSUME now' \in 0..MaxScanTime, at' \in [Waiters -> {"free", "parked", "handed", "session", "over"}],
         scan' \subseteq Waiters, daemon' \in {"up", "stopping", "exited"}, Scanner!Clocks'
  PROVE  Scanner!TypeOK'
BY DEF Scanner!TypeOK, Scanner!Clocks, Scanner!Waits

LEMMA ScannerRests ==
  ASSUME NEW w \in Waiters, Scanner!PacedOf(w), UNCHANGED now, at'[w] = at[w], bo'[w] = bo[w], reopenAt'[w] = reopenAt[w],
         armed'[w] = armed[w], handedAt'[w] = handedAt[w], tries'[w] = tries[w], since'[w] = since[w]
  PROVE  Scanner!PacedOf(w)'
BY DEF Scanner!PacedOf, Scanner!Ready, Scanner!Ramped, Scanner!Rapid

LEMMA ScannerSoonRests ==
  ASSUME NEW w \in Waiters, Scanner!SoonOf(w), UNCHANGED now, bo'[w] = bo[w], reopenAt'[w] = reopenAt[w], device'[w] = device[w],
         present'[w] = present[w]
  PROVE  Scanner!SoonOf(w)'
BY DEF Scanner!SoonOf, Scanner!Found

LEMMA ScannerInitIInv == Scanner!Init => Scanner!IInv
<1> SUFFICES ASSUME Scanner!Init PROVE Scanner!IInv
  OBVIOUS
<1>1. Scanner!Clocks /\ Scanner!Switches
  <2>1. [next |-> 0, absent |-> FALSE] \in Scanner!Waits
    BY ScannerBounds DEF Scanner!Waits
  <2> QED BY <2>1, ScannerBounds DEF Scanner!Init, Scanner!Clocks, Scanner!Switches
<1>2. Scanner!TypeOK
  BY ScannerBounds DEF Scanner!Init, Scanner!TypeOK
<1>3. Scanner!Served /\ Scanner!ExitsClean
  BY DEF Scanner!Init, Scanner!Served, Scanner!ExitsClean
<1>4. Scanner!Soon
  BY DEF Scanner!Init, Scanner!Soon, Scanner!SoonOf
<1>5. Scanner!Paced
  BY DEF Scanner!Init, Scanner!Paced, Scanner!PacedOf, Scanner!Ready, Scanner!Ramped
<1> QED BY <1>1, <1>2, <1>3, <1>4, <1>5 DEF Scanner!IInv

LEMMA ScannerAwaitKeeps == ASSUME Scanner!IInv, NEW w \in Waiters, Scanner!Await(w) PROVE Scanner!IInv'
<1>0. /\ at[w] = "free" /\ at' = [at EXCEPT ![w] = "parked"] /\ armed' = [armed EXCEPT ![w] = FALSE] /\ wake' = TRUE
      /\ present' = [present EXCEPT ![w] = now]
      /\ UNCHANGED <<now, device, handedAt, enumRetry, scan, scanning, daemon, tries, since, scanTrouble>>
  BY DEF Scanner!Await
<1>1. \/ ~armed[w] /\ UNCHANGED <<bo, reopenAt>>
      \/ /\ armed[w] /\ Scanner!Rapid(w)
         /\ reopenAt' = [reopenAt EXCEPT ![w] = now + Scanner!WaitOf(bo[w], FALSE)] /\ bo' = [bo EXCEPT ![w] = Scanner!Fail(bo[w], FALSE)]
      \/ armed[w] /\ ~Scanner!Rapid(w) /\ reopenAt' = [reopenAt EXCEPT ![w] = now] /\ bo' = [bo EXCEPT ![w] = Scanner!Reset(bo[w])]
  BY DEF Scanner!Await
<1>2. /\ bo[w] \in Scanner!Waits /\ Scanner!WaitOf(bo[w], FALSE) \in 1..ReconnectCap /\ Scanner!Fail(bo[w], FALSE) \in Scanner!Waits
      /\ Scanner!Fail(bo[w], FALSE).absent = FALSE /\ Scanner!Reset(bo[w]) \in Scanner!Waits /\ Scanner!Reset(bo[w]).absent = bo[w].absent
  BY ScannerTyped, ScannerWaiting
<1>3. /\ bo \in [Waiters -> Scanner!Waits] /\ reopenAt \in [Waiters -> Nat] /\ present \in [Waiters -> Nat]
      /\ armed \in [Waiters -> BOOLEAN] /\ now \in Nat /\ at \in [Waiters -> {"free", "parked", "handed", "session", "over"}]
  BY ScannerTyped DEF Scanner!IInv, Scanner!Clocks, Scanner!Switches, Scanner!TypeOK
<1>4. now + Scanner!WaitOf(bo[w], FALSE) \in Nat
  <2>1. \A x \in 1..ReconnectCap : now + x \in Nat
    BY <1>3, ScannerBounds
  <2> QED BY ONLY <1>2, <2>1
<1>5. bo' \in [Waiters -> Scanner!Waits] /\ reopenAt' \in [Waiters -> Nat]
  BY <1>1, <1>2, <1>3, <1>4
<1>6. Scanner!Clocks'
  BY <1>0, <1>3, <1>5 DEF Scanner!IInv, Scanner!Clocks
<1>7. Scanner!Switches'
  BY <1>0, <1>3 DEF Scanner!IInv, Scanner!Switches
<1>8. Scanner!TypeOK'
  BY <1>0, <1>3, <1>6, ScannerTypesOf DEF Scanner!IInv, Scanner!TypeOK
<1>9. Scanner!Served' /\ Scanner!ExitsClean'
  BY <1>0 DEF Scanner!IInv, Scanner!Served, Scanner!ExitsClean
<1>10. \A v \in Waiters : v # w => /\ at'[v] = at[v] /\ bo'[v] = bo[v] /\ reopenAt'[v] = reopenAt[v] /\ armed'[v] = armed[v]
                                 /\ present'[v] = present[v]
  BY <1>0, <1>1, <1>3
<1>11. Scanner!Soon'
  <2>1. ASSUME NEW v \in Waiters, v # w PROVE Scanner!SoonOf(v)'
    BY <1>0, <1>10, <2>1, ScannerSoonRests DEF Scanner!IInv, Scanner!Soon
  <2>2. present'[w] = now /\ now' = now
    BY <1>0, <1>3
  <2>3. bo'[w].absent => bo[w].absent
    BY <1>1, <1>2, <1>3
  <2>4. bo[w].absent /\ bo'[w].absent => reopenAt'[w] = reopenAt[w] \/ reopenAt'[w] = now
    BY <1>1, <1>2, <1>3
  <2>5. bo[w].absent => reopenAt[w] <= now + AbsentCap
    <3>1. Scanner!SoonOf(w)
      BY DEF Scanner!IInv, Scanner!Soon
    <3>2. present[w] <= now /\ (bo[w].absent => reopenAt[w] <= present[w] + AbsentCap \/ reopenAt[w] <= now + AbsentCap)
      BY <3>1 DEF Scanner!SoonOf
    <3>3. present[w] \in Nat /\ reopenAt[w] \in Nat /\ now \in Nat /\ AbsentCap \in Nat
      BY ScannerBounds, ScannerTyped
    <3>4. reopenAt[w] <= present[w] + AbsentCap => reopenAt[w] <= now + AbsentCap
      BY ONLY <3>2, <3>3
    <3> QED BY <3>2, <3>4
  <2>6. now <= now + AbsentCap
    BY ONLY ScannerBounds, <1>3
  <2>7. bo'[w].absent => reopenAt'[w] <= now + AbsentCap
    BY <2>3, <2>4, <2>5, <2>6
  <2>8. now <= now
    BY ONLY <1>3
  <2>9. Scanner!SoonOf(w)'
    BY <2>2, <2>7, <2>8 DEF Scanner!SoonOf
  <2> QED BY <2>1, <2>9 DEF Scanner!Soon
<1>12. Scanner!Paced'
  <2>1. ASSUME NEW v \in Waiters, v # w PROVE Scanner!PacedOf(v)'
    BY <1>0, <1>10, <2>1, ScannerRests DEF Scanner!IInv, Scanner!Paced
  <2> DEFINE n == tries[w]
  <2>2. Scanner!PacedOf(w) /\ n \in Nat /\ since[w] \in Nat
    BY ScannerTyped DEF Scanner!IInv, Scanner!Paced
  <2>3. at'[w] = "parked" /\ tries'[w] = n /\ since'[w] = since[w] /\ now' = now
    BY <1>0, <1>3
  <2>4. (n > 0 => since[w] <= now) /\ (n <= MaxScanTime /\ n > 0 => now - since[w] >= Scanner!AttemptAt[n])
    BY <2>2 DEF Scanner!PacedOf, Scanner!Ready
  <2>5. n <= MaxScanTime /\ n > 0 => /\ bo'[w].absent = FALSE /\ bo'[w].next >= Scanner!Schedule[n + 1]
                                /\ reopenAt'[w] - since[w] >= Scanner!AttemptAt[n + 1]
    <3> SUFFICES ASSUME n <= MaxScanTime, n > 0
                 PROVE  /\ bo'[w].absent = FALSE /\ bo'[w].next >= Scanner!Schedule[n + 1]
                        /\ reopenAt'[w] - since[w] >= Scanner!AttemptAt[n + 1]
      OBVIOUS
    <3>1. CASE ~armed[w]
      <4>1. bo'[w] = bo[w] /\ reopenAt'[w] = reopenAt[w]
        BY <1>1, <3>1
      <4>2. Scanner!Ramped(w, n) /\ reopenAt[w] - since[w] >= Scanner!AttemptAt[n + 1]
        BY <1>0, <2>2, <3>1 DEF Scanner!PacedOf
      <4> QED BY <4>1, <4>2 DEF Scanner!Ramped
    <3>2. CASE armed[w]
      <4>1. Scanner!Rapid(w) /\ Scanner!Ramped(w, n - 1)
        BY <1>0, <2>2, <3>2 DEF Scanner!PacedOf
      <4>2. bo'[w] = Scanner!Fail(bo[w], FALSE) /\ reopenAt'[w] = now + Scanner!WaitOf(bo[w], FALSE)
        BY <1>1, <1>3, <3>2, <4>1
      <4> DEFINE m == n - 1
      <4>3. m \in Nat /\ m + 1 = n /\ m + 2 = n + 1 /\ m <= MaxScanTime /\ n \in 1..MaxScanTime
        BY ONLY <2>2, ScannerBounds, n <= MaxScanTime, n > 0
      <4>4. m > 0 => bo[w].absent = FALSE /\ bo[w].next >= Scanner!Schedule[m + 1]
        BY <4>1, <4>3 DEF Scanner!Ramped
      <4> HIDE DEF m
      <4>5. m + 1 <= MaxScanTime
        BY <4>3
      <4>6. /\ Scanner!WaitOf(bo[w], FALSE) >= Scanner!Schedule[m + 1] /\ Scanner!Fail(bo[w], FALSE).absent = FALSE
            /\ Scanner!Fail(bo[w], FALSE).next >= Scanner!Schedule[m + 2]
        BY <1>2, <4>3, <4>4, <4>5, ScannerRamping
      <4>7. Scanner!AttemptAt[n + 1] = Scanner!AttemptAt[n] + Scanner!Schedule[n] /\ Scanner!AttemptAt[n] \in Nat /\ Scanner!Schedule[n] \in Nat
        <5>1. n \in ScannerRungs
          BY <4>3, ScannerBounds DEF ScannerRungs
        <5> QED BY <4>3, <5>1, ScannerAttempts, ScannerSchedules, ScannerBounds
      <4>8. now - since[w] >= Scanner!AttemptAt[n]
        BY <2>4
      <4>9. Scanner!WaitOf(bo[w], FALSE) >= Scanner!Schedule[n]
        BY <4>3, <4>6
      <4>10. (now + Scanner!WaitOf(bo[w], FALSE)) - since[w] >= Scanner!AttemptAt[n + 1]
        <5>1. \A x \in 1..ReconnectCap : x >= Scanner!Schedule[n] => (now + x) - since[w] >= Scanner!AttemptAt[n + 1]
          BY ONLY <1>3, <2>2, <4>7, <4>8, ScannerBounds
        <5> QED BY ONLY <1>2, <4>9, <5>1
      <4> QED BY <4>2, <4>3, <4>6, <4>10
    <3> QED BY <3>1, <3>2
  <2>6. Scanner!PacedOf(w)'
    BY <2>3, <2>4, <2>5 DEF Scanner!PacedOf, Scanner!Ready, Scanner!Ramped
  <2> QED BY <2>1, <2>6 DEF Scanner!Paced
<1> QED BY <1>6, <1>7, <1>8, <1>9, <1>11, <1>12 DEF Scanner!IInv

LEMMA ScannerOpenKeeps == ASSUME Scanner!IInv, NEW w \in Waiters, Scanner!Open(w) PROVE Scanner!IInv'
<1>0. /\ at[w] = "handed" /\ UNCHANGED <<now, device, handedAt, wake, enumRetry, scan, scanning, daemon, present, scanTrouble>>
      /\ \/ /\ at' = [at EXCEPT ![w] = "free"] /\ reopenAt' = [reopenAt EXCEPT ![w] = now + Scanner!WaitOf(bo[w], FALSE)]
            /\ bo' = [bo EXCEPT ![w] = Scanner!Fail(bo[w], FALSE)] /\ armed' = [armed EXCEPT ![w] = FALSE]
            /\ tries' = [tries EXCEPT ![w] = tries[w] + 1]
            /\ since' = [since EXCEPT ![w] = IF tries[w] = 0 THEN now ELSE since[w]]
         \/ /\ at' = [at EXCEPT ![w] = "session"] /\ armed' = [armed EXCEPT ![w] = TRUE] /\ UNCHANGED <<reopenAt, bo, tries, since>>
  BY DEF Scanner!Open
<1>2. /\ bo[w] \in Scanner!Waits /\ Scanner!WaitOf(bo[w], FALSE) \in 1..ReconnectCap /\ Scanner!Fail(bo[w], FALSE) \in Scanner!Waits
      /\ Scanner!Fail(bo[w], FALSE).absent = FALSE
  BY ScannerTyped, ScannerWaiting
<1>3. /\ bo \in [Waiters -> Scanner!Waits] /\ reopenAt \in [Waiters -> Nat] /\ tries \in [Waiters -> Nat] /\ since \in [Waiters -> Nat]
      /\ armed \in [Waiters -> BOOLEAN] /\ now \in Nat /\ at \in [Waiters -> {"free", "parked", "handed", "session", "over"}]
  BY ScannerTyped DEF Scanner!IInv, Scanner!Clocks, Scanner!Switches, Scanner!TypeOK
<1>4. now + Scanner!WaitOf(bo[w], FALSE) \in Nat /\ tries[w] + 1 \in Nat
  <2>1. \A x \in 1..ReconnectCap : now + x \in Nat
    BY <1>3, ScannerBounds
  <2>2. tries[w] + 1 \in Nat
    BY <1>3
  <2> QED BY ONLY <1>2, <2>1, <2>2
<1>5. /\ bo' \in [Waiters -> Scanner!Waits] /\ reopenAt' \in [Waiters -> Nat] /\ tries' \in [Waiters -> Nat] /\ since' \in [Waiters -> Nat]
      /\ armed' \in [Waiters -> BOOLEAN] /\ at' \in [Waiters -> {"free", "parked", "handed", "session", "over"}]
  <2>1. bo' \in [Waiters -> Scanner!Waits]
    BY <1>0, <1>2, <1>3
  <2>2. reopenAt' \in [Waiters -> Nat]
    BY <1>0, <1>3, <1>4
  <2>6. /\ tries' = tries \/ tries' = [tries EXCEPT ![w] = tries[w] + 1]
        /\ since' = since \/ since' = [since EXCEPT ![w] = IF tries[w] = 0 THEN now ELSE since[w]]
    BY ONLY <1>0
  <2>3. tries' \in [Waiters -> Nat] /\ since' \in [Waiters -> Nat]
    BY ONLY <1>3, <2>6
  <2>4. armed' \in [Waiters -> BOOLEAN]
    BY <1>0, <1>3
  <2>5. at' \in [Waiters -> {"free", "parked", "handed", "session", "over"}]
    BY <1>0, <1>3
  <2> QED BY <2>1, <2>2, <2>3, <2>4, <2>5
<1>6. Scanner!Clocks'
  BY <1>0, <1>5 DEF Scanner!IInv, Scanner!Clocks
<1>7. Scanner!Switches'
  BY <1>0, <1>5 DEF Scanner!IInv, Scanner!Switches
<1>8. Scanner!TypeOK'
  BY <1>0, <1>5, <1>6, ScannerTypesOf DEF Scanner!IInv, Scanner!TypeOK
<1>9. Scanner!Served' /\ Scanner!ExitsClean'
  BY <1>0, <1>3 DEF Scanner!IInv, Scanner!Served, Scanner!ExitsClean, Scanner!Parked
<1>10. \A v \in Waiters : v # w => /\ at'[v] = at[v] /\ bo'[v] = bo[v] /\ reopenAt'[v] = reopenAt[v] /\ armed'[v] = armed[v]
                                 /\ tries'[v] = tries[v] /\ since'[v] = since[v]
  BY <1>0, <1>3
<1>11. Scanner!Soon'
  <2>1. ASSUME NEW v \in Waiters, v # w PROVE Scanner!SoonOf(v)'
    BY <1>0, <1>10, <2>1, ScannerSoonRests DEF Scanner!IInv, Scanner!Soon
  <2>2. ASSUME bo'[w] = bo[w] /\ reopenAt'[w] = reopenAt[w] PROVE Scanner!SoonOf(w)'
    BY <1>0, <2>2, ScannerSoonRests DEF Scanner!IInv, Scanner!Soon
  <2>3. ASSUME bo'[w].absent = FALSE PROVE Scanner!SoonOf(w)'
    BY <1>0, <2>3 DEF Scanner!IInv, Scanner!Soon, Scanner!SoonOf
  <2>4. Scanner!SoonOf(w)'
    <3>1. (bo'[w] = bo[w] /\ reopenAt'[w] = reopenAt[w]) \/ bo'[w].absent = FALSE
      BY <1>0, <1>2, <1>3
    <3> QED BY <2>2, <2>3, <3>1
  <2> QED BY <2>1, <2>4 DEF Scanner!Soon
<1>12. Scanner!Paced'
  <2>1. ASSUME NEW v \in Waiters, v # w PROVE Scanner!PacedOf(v)'
    BY <1>0, <1>10, <2>1, ScannerRests DEF Scanner!IInv, Scanner!Paced
  <2> DEFINE n == tries[w]
  <2>2. Scanner!PacedOf(w) /\ n \in Nat /\ since[w] \in Nat
    BY ScannerTyped DEF Scanner!IInv, Scanner!Paced
  <2>3. (n > 0 => since[w] <= now) /\ Scanner!Ready(w, n) /\ Scanner!Ramped(w, n) /\ (n < MaxScanTime /\ n > 0 => Scanner!Ready(w, n + 1))
    BY <1>0, <2>2 DEF Scanner!PacedOf
  <2>4. ASSUME at' = [at EXCEPT ![w] = "session"], armed' = [armed EXCEPT ![w] = TRUE], UNCHANGED <<reopenAt, bo, tries, since>>
        PROVE  Scanner!PacedOf(w)'
    <3>1. /\ at'[w] = "session" /\ armed'[w] = TRUE /\ now' = now /\ tries'[w] = tries[w] /\ since'[w] = since[w]
          /\ bo'[w] = bo[w]
      BY <1>0, <1>3, <2>4
    <3>2. Scanner!PacedOf(w)'
      BY <2>3, <3>1 DEF Scanner!PacedOf, Scanner!Ready, Scanner!Ramped
    <3> QED BY <3>2
  <2>5. ASSUME at' = [at EXCEPT ![w] = "free"], reopenAt' = [reopenAt EXCEPT ![w] = now + Scanner!WaitOf(bo[w], FALSE)],
               bo' = [bo EXCEPT ![w] = Scanner!Fail(bo[w], FALSE)], armed' = [armed EXCEPT ![w] = FALSE],
               tries' = [tries EXCEPT ![w] = tries[w] + 1],
               since' = [since EXCEPT ![w] = IF tries[w] = 0 THEN now ELSE since[w]]
        PROVE  Scanner!PacedOf(w)'
    <3>1. /\ at'[w] = "free" /\ ~armed'[w] /\ now' = now /\ tries'[w] = n + 1 /\ bo'[w] = Scanner!Fail(bo[w], FALSE)
          /\ reopenAt'[w] = now + Scanner!WaitOf(bo[w], FALSE) /\ since'[w] = (IF n = 0 THEN now ELSE since[w])
      BY <1>0, <1>3, <2>5
    <3> HIDE DEF n
    <3>2. since'[w] <= now /\ since'[w] \in Nat
      BY ONLY <1>3, <2>2, <2>3, <3>1
    <3>3. n + 1 <= MaxScanTime => now - since'[w] >= Scanner!AttemptAt[n + 1]
      <4>1. CASE n = 0
        <5>1. now - since'[w] = 0 /\ Scanner!AttemptAt[n + 1] = 0
          BY <1>3, <3>1, <4>1, ScannerAttempts
        <5> QED BY ONLY <5>1
      <4>2. CASE n # 0
        <5>1. since'[w] = since[w] /\ n > 0
          BY ONLY <2>2, <3>1, <4>2
        <5>2. n + 1 <= MaxScanTime => n < MaxScanTime
          BY ONLY <2>2, ScannerBounds
        <5>3. n + 1 <= MaxScanTime => Scanner!Ready(w, n + 1)
          BY ONLY <2>3, <5>1, <5>2
        <5>4. n + 1 > 0
          BY ONLY <2>2
        <5> QED BY <5>1, <5>3, <5>4 DEF Scanner!Ready
      <4> QED BY <4>1, <4>2
    <3>4. n + 1 <= MaxScanTime => /\ bo'[w].absent = FALSE /\ bo'[w].next >= Scanner!Schedule[n + 2]
                              /\ reopenAt'[w] - since'[w] >= Scanner!AttemptAt[n + 2]
      <4> SUFFICES ASSUME n + 1 <= MaxScanTime
                   PROVE  /\ bo'[w].absent = FALSE /\ bo'[w].next >= Scanner!Schedule[n + 2]
                          /\ reopenAt'[w] - since'[w] >= Scanner!AttemptAt[n + 2]
        OBVIOUS
      <4>1. n > 0 => bo[w].absent = FALSE /\ bo[w].next >= Scanner!Schedule[n + 1]
        <5>1. n <= MaxScanTime
          BY ONLY n + 1 <= MaxScanTime, <2>2, ScannerBounds
        <5> QED BY <2>3, <5>1 DEF Scanner!Ramped
      <4>2. /\ Scanner!WaitOf(bo[w], FALSE) >= Scanner!Schedule[n + 1] /\ Scanner!Fail(bo[w], FALSE).absent = FALSE
            /\ Scanner!Fail(bo[w], FALSE).next >= Scanner!Schedule[n + 2]
        BY <1>2, <2>2, <4>1, ScannerRamping
      <4>3. Scanner!AttemptAt[n + 2] = Scanner!AttemptAt[n + 1] + Scanner!Schedule[n + 1] /\ Scanner!AttemptAt[n + 1] \in Nat /\ Scanner!Schedule[n + 1] \in Nat
        <5>1. n + 1 \in ScannerRungs /\ n + 1 \in 1..MaxScanTime /\ (n + 1) + 1 = n + 2
          BY <2>2, ScannerBounds DEF ScannerRungs
        <5>2. Scanner!Schedule[n + 1] \in 1..ReconnectCap
          BY <5>1, ScannerSchedules
        <5> QED BY <5>1, <5>2, ScannerAttempts, ScannerBounds
      <4>4. \A x \in 1..ReconnectCap : x >= Scanner!Schedule[n + 1] => (now + x) - since'[w] >= Scanner!AttemptAt[n + 2]
        BY ONLY <1>3, <3>2, <3>3, <4>3, ScannerBounds, n + 1 <= MaxScanTime
      <4>5. (now + Scanner!WaitOf(bo[w], FALSE)) - since'[w] >= Scanner!AttemptAt[n + 2]
        BY ONLY <1>2, <4>2, <4>4
      <4> QED BY <3>1, <4>2, <4>5
    <3>5. (n + 1) + 1 = n + 2 /\ n + 1 > 0
      BY ONLY <2>2
    <3> PICK k \in Nat : k = n + 1
      BY ONLY <2>2
    <3>6. tries'[w] = k /\ k > 0
      BY <3>1, <3>5
    <3>7. k <= MaxScanTime => /\ now - since'[w] >= Scanner!AttemptAt[k] /\ reopenAt'[w] - since'[w] >= Scanner!AttemptAt[k + 1]
                          /\ bo'[w].absent = FALSE /\ bo'[w].next >= Scanner!Schedule[k + 1]
      BY <3>3, <3>4, <3>5
    <3>8. Scanner!Ready(w, k)'
      BY <3>1, <3>7 DEF Scanner!Ready
    <3>9. Scanner!Ramped(w, k)'
      BY <3>7 DEF Scanner!Ramped
    <3> QED BY <3>1, <3>2, <3>6, <3>7, <3>8, <3>9 DEF Scanner!PacedOf
  <2>6. Scanner!PacedOf(w)'
    BY <1>0, <2>4, <2>5
  <2> QED BY <2>1, <2>6 DEF Scanner!Paced
<1> QED BY <1>6, <1>7, <1>8, <1>9, <1>11, <1>12 DEF Scanner!IInv

LEMMA ScannerSessionKeeps == ASSUME Scanner!IInv, NEW w \in Waiters, Scanner!SessionEnds(w) PROVE Scanner!IInv'
<1>0. /\ at[w] = "session"
      /\ UNCHANGED <<now, device, bo, reopenAt, armed, handedAt, wake, enumRetry, scan, scanning, daemon, present, scanTrouble>>
      /\ at' = [at EXCEPT ![w] = "free"] \/ at' = [at EXCEPT ![w] = "over"]
      /\ since' = [since EXCEPT ![w] = IF tries[w] = 0 THEN now ELSE since[w]]
      /\ \/ Scanner!Rapid(w) /\ tries' = [tries EXCEPT ![w] = tries[w] + 1]
         \/ tries' = [tries EXCEPT ![w] = 0]
  BY DEF Scanner!SessionEnds
<1>3. /\ tries \in [Waiters -> Nat] /\ since \in [Waiters -> Nat] /\ now \in Nat
      /\ at \in [Waiters -> {"free", "parked", "handed", "session", "over"}]
  BY ScannerTyped DEF Scanner!IInv, Scanner!Clocks, Scanner!TypeOK
<1>5. /\ tries' \in [Waiters -> Nat] /\ since' \in [Waiters -> Nat]
      /\ at' \in [Waiters -> {"free", "parked", "handed", "session", "over"}]
  BY <1>0, <1>3
<1>6. Scanner!Clocks'
  BY <1>0, <1>5 DEF Scanner!IInv, Scanner!Clocks
<1>7. Scanner!Switches' /\ Scanner!Soon'
  BY <1>0, ScannerSoonRests DEF Scanner!IInv, Scanner!Switches, Scanner!Soon
<1>8. Scanner!TypeOK'
  BY <1>0, <1>5, <1>6, ScannerTypesOf DEF Scanner!IInv, Scanner!TypeOK
<1>9. Scanner!Served' /\ Scanner!ExitsClean'
  BY <1>0, <1>3 DEF Scanner!IInv, Scanner!Served, Scanner!ExitsClean, Scanner!Parked
<1>12. Scanner!Paced'
  <2>1. ASSUME NEW v \in Waiters, v # w PROVE Scanner!PacedOf(v)'
    <3>1. at'[v] = at[v] /\ tries'[v] = tries[v] /\ since'[v] = since[v]
      BY <1>0, <1>3, <2>1
    <3> QED BY <1>0, <3>1, ScannerRests DEF Scanner!IInv, Scanner!Paced
  <2> DEFINE n == tries[w]
  <2>2. Scanner!PacedOf(w) /\ n \in Nat /\ since[w] \in Nat
    BY ScannerTyped DEF Scanner!IInv, Scanner!Paced
  <2>3. /\ (n > 0 => since[w] <= now) /\ Scanner!Ramped(w, n) /\ (n < MaxScanTime /\ n > 0 => Scanner!Ready(w, n + 1)) /\ armed[w]
    BY <1>0, <2>2 DEF Scanner!PacedOf
  <2>4. at'[w] \in {"free", "over"} /\ since'[w] = (IF n = 0 THEN now ELSE since[w]) /\ now' = now /\ armed'[w] = armed[w] /\ bo'[w] = bo[w]
        /\ handedAt'[w] = handedAt[w]
    BY <1>0, <1>3
  <2>5. ASSUME tries' = [tries EXCEPT ![w] = 0] PROVE Scanner!PacedOf(w)'
    <3>1. tries'[w] = 0
      BY <1>3, <2>5
    <3>2. ~(0 > 0) /\ ~(0 - 1 > 0)
      OBVIOUS
    <3> QED BY <2>3, <2>4, <3>1, <3>2 DEF Scanner!PacedOf, Scanner!Ready, Scanner!Ramped
  <2>6. ASSUME Scanner!Rapid(w), tries' = [tries EXCEPT ![w] = tries[w] + 1] PROVE Scanner!PacedOf(w)'
    <3> PICK k \in Nat : k = n + 1
      BY ONLY <2>2
    <3>1. tries'[w] = k /\ k - 1 = n /\ k > 0
      BY <1>3, <2>6
    <3>2. since'[w] <= now
      BY ONLY <1>3, <2>2, <2>3, <2>4
    <3>3. k <= MaxScanTime => now - since'[w] >= Scanner!AttemptAt[k]
      <4>1. CASE n = 0
        <5>1. now - since'[w] = 0 /\ Scanner!AttemptAt[k] = 0
          BY <1>3, <2>4, <4>1, ScannerAttempts
        <5> QED BY ONLY <5>1
      <4>2. CASE n # 0
        <5>1. since'[w] = since[w] /\ n > 0
          BY ONLY <2>2, <2>4, <4>2
        <5>2. k <= MaxScanTime => n < MaxScanTime
          BY <2>2, ScannerBounds
        <5>3. k <= MaxScanTime => Scanner!Ready(w, k)
          BY <2>3, <5>1, <5>2
        <5> QED BY <3>1, <5>1, <5>3 DEF Scanner!Ready
      <4> QED BY <4>1, <4>2
    <3>4. Scanner!Ready(w, k)'
      BY <2>4, <3>3 DEF Scanner!Ready
    <3>6. Scanner!Ramped(w, k - 1)'
      BY <2>3, <2>4, <3>1 DEF Scanner!Ramped
    <3>5. Scanner!Rapid(w)'
      BY <2>4, <2>6 DEF Scanner!Rapid
    <3> QED BY <2>3, <2>4, <3>1, <3>2, <3>4, <3>5, <3>6 DEF Scanner!PacedOf
  <2>7. Scanner!PacedOf(w)'
    BY <1>0, <2>5, <2>6
  <2> QED BY <2>1, <2>7 DEF Scanner!Paced
<1> QED BY <1>6, <1>7, <1>8, <1>9, <1>12 DEF Scanner!IInv

LEMMA ScannerChangeKeeps == ASSUME Scanner!IInv, NEW w \in Waiters, Scanner!Change(w) PROVE Scanner!IInv'
<1>0. /\ UNCHANGED <<now, at, bo, reopenAt, armed, handedAt, wake, enumRetry, scan, scanning, daemon, since>>
      /\ tries' = [tries EXCEPT ![w] = 0]
      /\ present' = [present EXCEPT ![w] = IF device[w] = "absent" THEN now ELSE present[w]]
      /\ \E d \in {"absent", "seized", "mute", "ok"} : device' = [device EXCEPT ![w] = d]
  BY DEF Scanner!Change
<1>3. /\ tries \in [Waiters -> Nat] /\ present \in [Waiters -> Nat] /\ now \in Nat
      /\ device \in [Waiters -> {"absent", "seized", "mute", "ok"}]
  BY ScannerTyped DEF Scanner!IInv, Scanner!Clocks, Scanner!TypeOK
<1>5. tries' \in [Waiters -> Nat] /\ present' \in [Waiters -> Nat] /\ device' \in [Waiters -> {"absent", "seized", "mute", "ok"}]
  BY <1>0, <1>3
<1>6. Scanner!Clocks'
  BY <1>0, <1>5 DEF Scanner!IInv, Scanner!Clocks
<1>7. Scanner!Switches' /\ Scanner!Served' /\ Scanner!ExitsClean'
  BY <1>0 DEF Scanner!IInv, Scanner!Switches, Scanner!Served, Scanner!Parked, Scanner!ExitsClean
<1>8. Scanner!TypeOK'
  BY <1>0, <1>6, ScannerTypesOf DEF Scanner!IInv, Scanner!TypeOK
<1>9. Scanner!Soon'
  <2>1. ASSUME NEW v \in Waiters, v # w PROVE Scanner!SoonOf(v)'
    <3>1. device'[v] = device[v] /\ present'[v] = present[v]
      BY <1>0, <1>3, <2>1
    <3> QED BY <1>0, <3>1, ScannerSoonRests DEF Scanner!IInv, Scanner!Soon
  <2>2. Scanner!SoonOf(w) /\ present[w] \in Nat /\ reopenAt[w] \in Nat /\ AbsentCap \in Nat
    BY ScannerTyped, ScannerBounds DEF Scanner!IInv, Scanner!Soon
  <2>3. present[w] <= now /\ (bo[w].absent => reopenAt[w] <= (IF device[w] # "absent" THEN present[w] ELSE now) + AbsentCap)
    BY <2>2 DEF Scanner!SoonOf, Scanner!Found
  <2>4. now' = now /\ bo'[w] = bo[w] /\ reopenAt'[w] = reopenAt[w] /\ present'[w] = (IF device[w] = "absent" THEN now ELSE present[w])
    BY <1>0, <1>3
  <2>5. present'[w] <= now
    BY ONLY <1>3, <2>2, <2>3, <2>4
  <2>6. reopenAt[w] <= (IF device[w] # "absent" THEN present[w] ELSE now) + AbsentCap
        => reopenAt[w] <= present'[w] + AbsentCap /\ reopenAt[w] <= now + AbsentCap
    BY ONLY <1>3, <2>2, <2>3, <2>4
  <2>7. bo'[w].absent => reopenAt'[w] <= (IF Scanner!Found(w) THEN present[w] ELSE now)' + AbsentCap
    BY <2>3, <2>4, <2>6
  <2> QED BY <2>1, <2>4, <2>5, <2>7 DEF Scanner!Soon, Scanner!SoonOf
<1>10. Scanner!Paced'
  <2>1. ASSUME NEW v \in Waiters, v # w PROVE Scanner!PacedOf(v)'
    <3>1. tries'[v] = tries[v]
      BY <1>0, <1>3, <2>1
    <3> QED BY <1>0, <3>1, ScannerRests DEF Scanner!IInv, Scanner!Paced
  <2>2. tries'[w] = 0 /\ ~(0 > 0) /\ ~(0 - 1 > 0) /\ at'[w] = at[w] /\ armed'[w] = armed[w]
    BY <1>0, <1>3
  <2>3. at[w] = "session" => armed[w]
    BY DEF Scanner!IInv, Scanner!Paced, Scanner!PacedOf
  <2> QED BY <2>1, <2>2, <2>3 DEF Scanner!Paced, Scanner!PacedOf, Scanner!Ready, Scanner!Ramped
<1> QED BY <1>6, <1>7, <1>8, <1>9, <1>10 DEF Scanner!IInv

LEMMA ScannerLeaveKeeps == ASSUME Scanner!IInv, NEW w \in Waiters, Scanner!Leave(w) PROVE Scanner!IInv'
<1>0. /\ UNCHANGED <<now, device, bo, reopenAt, armed, handedAt, wake, enumRetry, scan, scanning, daemon, tries, since, present, scanTrouble>>
      /\ at' = [at EXCEPT ![w] = "over"]
  BY DEF Scanner!Leave
<1>3. at \in [Waiters -> {"free", "parked", "handed", "session", "over"}]
  BY DEF Scanner!IInv, Scanner!TypeOK
<1>6. Scanner!Clocks' /\ Scanner!Switches' /\ Scanner!ExitsClean'
  BY <1>0 DEF Scanner!IInv, Scanner!Clocks, Scanner!Switches, Scanner!ExitsClean
<1>7. Scanner!Served'
  BY <1>0, <1>3 DEF Scanner!IInv, Scanner!Served, Scanner!Parked
<1>8. Scanner!TypeOK'
  BY <1>0, <1>3, <1>6, ScannerTypesOf DEF Scanner!IInv, Scanner!TypeOK
<1>9. Scanner!Soon'
  BY <1>0, ScannerSoonRests DEF Scanner!IInv, Scanner!Soon
<1>10. Scanner!Paced'
  <2>1. ASSUME NEW v \in Waiters, v # w PROVE Scanner!PacedOf(v)'
    <3>1. at'[v] = at[v]
      BY <1>0, <1>3, <2>1
    <3> QED BY <1>0, <3>1, ScannerRests DEF Scanner!IInv, Scanner!Paced
  <2>2. at'[w] = "over"
    BY <1>0, <1>3
  <2>3. Scanner!PacedOf(w)'
    BY <1>0, <2>2 DEF Scanner!IInv, Scanner!Paced, Scanner!PacedOf, Scanner!Ready
  <2> QED BY <2>1, <2>3 DEF Scanner!Paced
<1> QED BY <1>6, <1>7, <1>8, <1>9, <1>10 DEF Scanner!IInv

LEMMA ScannerScanKeeps == Scanner!IInv /\ (Scanner!ScanBegin \/ Scanner!ScanFails \/ Scanner!Stop \/ Scanner!Exit) => Scanner!IInv'
<1> SUFFICES ASSUME Scanner!IInv, Scanner!ScanBegin \/ Scanner!ScanFails \/ Scanner!Stop \/ Scanner!Exit PROVE Scanner!IInv'
  OBVIOUS
<1>0. UNCHANGED <<now, device, at, bo, reopenAt, armed, handedAt, tries, since, present>>
  BY DEF Scanner!ScanBegin, Scanner!ScanFails, Scanner!Stop, Scanner!Exit
<1>1. enumRetry' \in Nat
  BY ScannerTyped, ScannerBounds DEF Scanner!ScanBegin, Scanner!ScanFails, Scanner!Stop, Scanner!Exit
<1>2. Scanner!Clocks'
  BY <1>0, <1>1 DEF Scanner!IInv, Scanner!Clocks
<1>3. wake' \in BOOLEAN /\ scanning' \in BOOLEAN
  BY DEF Scanner!IInv, Scanner!Switches, Scanner!ScanBegin, Scanner!ScanFails, Scanner!Stop, Scanner!Exit
<1>4. Scanner!Switches'
  BY <1>0, <1>3 DEF Scanner!IInv, Scanner!Switches
<1>5. scan' \subseteq Waiters /\ daemon' \in {"up", "stopping", "exited"}
  BY DEF Scanner!IInv, Scanner!TypeOK, Scanner!Parked, Scanner!ScanBegin, Scanner!ScanFails, Scanner!Stop,
        Scanner!Exit
<1>6. Scanner!TypeOK'
  BY <1>0, <1>2, <1>5, ScannerTypesOf DEF Scanner!IInv, Scanner!TypeOK
<1>7. Scanner!Served' /\ Scanner!ExitsClean'
  BY <1>0 DEF Scanner!IInv, Scanner!Served, Scanner!ExitsClean, Scanner!Parked, Scanner!ScanBegin, Scanner!ScanFails,
        Scanner!Stop, Scanner!Exit
<1>8. Scanner!Soon' /\ Scanner!Paced'
  BY <1>0, ScannerRests, ScannerSoonRests DEF Scanner!IInv, Scanner!Soon, Scanner!Paced
<1> QED BY <1>2, <1>4, <1>6, <1>7, <1>8 DEF Scanner!IInv

LEMMA ScannerPassKeeps == Scanner!IInv /\ Scanner!Pass => Scanner!IInv'
<1> SUFFICES ASSUME Scanner!IInv, Scanner!Pass PROVE Scanner!IInv'
  OBVIOUS
<1>0. /\ UNCHANGED <<device, at, bo, reopenAt, armed, handedAt, wake, enumRetry, scan, scanning, daemon, tries, since, present, scanTrouble>>
      /\ now' = now + 1 /\ now < MaxScanTime
  BY DEF Scanner!Pass
<1>1. \A w \in Waiters : at[w] \in {"parked", "session", "over"}
  BY DEF Scanner!Pass, Scanner!Quiet
<1>2. now' \in 0..MaxScanTime /\ now' \in Nat
  BY <1>0, ScannerTyped, ScannerBounds
<1>3. Scanner!Clocks' /\ Scanner!Switches' /\ Scanner!ExitsClean' /\ Scanner!Served'
  BY <1>0 DEF Scanner!IInv, Scanner!Clocks, Scanner!Switches, Scanner!ExitsClean, Scanner!Served, Scanner!Parked
<1>4. Scanner!TypeOK'
  BY <1>0, <1>2, <1>3, ScannerTypesOf DEF Scanner!IInv, Scanner!TypeOK
<1>5. Scanner!Soon'
  <2> SUFFICES ASSUME NEW w \in Waiters PROVE Scanner!SoonOf(w)'
    BY DEF Scanner!Soon
  <2>1. Scanner!SoonOf(w) /\ present[w] \in Nat /\ reopenAt[w] \in Nat /\ AbsentCap \in Nat /\ now \in Nat
    BY ScannerTyped, ScannerBounds DEF Scanner!IInv, Scanner!Soon
  <2>2. present[w] <= now /\ (bo[w].absent => reopenAt[w] <= (IF Scanner!Found(w) THEN present[w] ELSE now) + AbsentCap)
    BY <2>1 DEF Scanner!SoonOf
  <2>3. /\ present[w] <= now'
        /\ reopenAt[w] <= now + AbsentCap => reopenAt[w] <= now' + AbsentCap
    BY ONLY <1>0, <2>1, <2>2
  <2>4. present'[w] = present[w] /\ bo'[w] = bo[w] /\ reopenAt'[w] = reopenAt[w] /\ (Scanner!Found(w)' <=> Scanner!Found(w))
    BY <1>0 DEF Scanner!Found
  <2> QED BY <2>2, <2>3, <2>4 DEF Scanner!SoonOf
<1>6. Scanner!Paced'
  <2> SUFFICES ASSUME NEW w \in Waiters PROVE Scanner!PacedOf(w)'
    BY DEF Scanner!Paced
  <2>1. Scanner!PacedOf(w) /\ at[w] \in {"parked", "session", "over"} /\ tries[w] \in Nat /\ since[w] \in Nat /\ now \in Nat
    BY <1>1, ScannerTyped DEF Scanner!IInv, Scanner!Paced
  <2>2. /\ at'[w] = at[w] /\ tries'[w] = tries[w] /\ since'[w] = since[w] /\ bo'[w] = bo[w] /\ reopenAt'[w] = reopenAt[w] /\ armed'[w] = armed[w]
    BY <1>0
  <2>3. since[w] <= now => since[w] <= now'
    BY ONLY <1>0, <2>1
  <2>4. \A n \in Nat : Scanner!Ready(w, n) => Scanner!Ready(w, n)'
    <3> SUFFICES ASSUME NEW n \in Nat, Scanner!Ready(w, n), n <= MaxScanTime, n > 0 PROVE now' - since'[w] >= Scanner!AttemptAt[n]
      BY DEF Scanner!Ready
    <3>1. Scanner!AttemptAt[n] \in Nat
      BY ScannerBounds, ScannerAttempts DEF ScannerRungs
    <3>2. now - since[w] >= Scanner!AttemptAt[n]
      BY DEF Scanner!Ready
    <3> QED BY <1>0, <2>1, <2>2, <3>1, <3>2
  <2>5. \A n : Scanner!Ramped(w, n) => Scanner!Ramped(w, n)'
    BY <2>2 DEF Scanner!Ramped
  <2>6. tries[w] + 1 \in Nat
    BY <2>1
  <2> QED BY <2>1, <2>2, <2>3, <2>4, <2>5, <2>6 DEF Scanner!PacedOf
<1> QED BY <1>3, <1>4, <1>5, <1>6 DEF Scanner!IInv

LEMMA ScannerScanEndKeeps == Scanner!IInv /\ Scanner!ScanEnd => Scanner!IInv'
<1> SUFFICES ASSUME Scanner!IInv, Scanner!ScanEnd PROVE Scanner!IInv'
  OBVIOUS
<1>0. /\ at' = [w \in Waiters |-> IF w \in Scanner!Handed THEN "handed" ELSE at[w]]
      /\ handedAt' = [w \in Waiters |-> IF w \in Scanner!Handed THEN now ELSE handedAt[w]]
      /\ reopenAt' = [w \in Waiters |-> IF w \in Scanner!MissedIt THEN now + Scanner!WaitOf(bo[w], TRUE) ELSE reopenAt[w]]
      /\ bo' = [w \in Waiters |-> IF w \in Scanner!MissedIt THEN Scanner!Fail(bo[w], TRUE) ELSE bo[w]]
      /\ enumRetry' = 0 /\ scan' = {} /\ scanning' = FALSE
      /\ tries' = [w \in Waiters |-> IF w \in Scanner!MissedIt THEN 0 ELSE tries[w]]
      /\ UNCHANGED <<now, device, armed, wake, daemon, since, present, scanTrouble>>
  BY DEF Scanner!ScanEnd
<1>1. \A w \in Waiters : w \in Scanner!Handed \cup Scanner!MissedIt => at[w] = "parked" /\ ~(w \in Scanner!Handed /\ w \in Scanner!MissedIt)
  BY DEF Scanner!Handed, Scanner!MissedIt
<1>2. \A w \in Waiters : /\ bo[w] \in Scanner!Waits /\ Scanner!WaitOf(bo[w], TRUE) \in 1..ReconnectCap /\ Scanner!Fail(bo[w], TRUE) \in Scanner!Waits
                        /\ Scanner!WaitOf(bo[w], TRUE) <= AbsentCap
  BY ScannerTyped, ScannerWaiting
<1>3. \A x \in 1..ReconnectCap : now + x \in Nat /\ (x <= AbsentCap => now + x <= now + AbsentCap)
  BY ScannerTyped, ScannerBounds
<1>4. \A w \in Waiters : now + Scanner!WaitOf(bo[w], TRUE) \in Nat /\ now + Scanner!WaitOf(bo[w], TRUE) <= now + AbsentCap
  BY ONLY <1>2, <1>3
<1>5. reopenAt' \in [Waiters -> Nat]
  <2>1. \A w \in Waiters : reopenAt[w] \in Nat
    BY ScannerTyped
  <2> QED BY ONLY <1>0, <1>4, <2>1
<1>6. bo' \in [Waiters -> Scanner!Waits]
  BY ONLY <1>0, <1>2
<1>7. tries' \in [Waiters -> Nat] /\ handedAt' \in [Waiters -> Nat] /\ at' \in [Waiters -> {"free", "parked", "handed", "session", "over"}]
  <2>1. \A w \in Waiters : tries[w] \in Nat /\ handedAt[w] \in Nat /\ now \in Nat
    BY ScannerTyped
  <2>2. \A w \in Waiters : at[w] \in {"free", "parked", "handed", "session", "over"}
    BY DEF Scanner!IInv, Scanner!TypeOK
  <2> QED BY ONLY <1>0, <2>1, <2>2
<1>8. Scanner!Clocks'
  BY <1>0, <1>5, <1>6, <1>7 DEF Scanner!IInv, Scanner!Clocks
<1>9. Scanner!Switches' /\ Scanner!Served' /\ Scanner!ExitsClean'
  BY <1>0 DEF Scanner!IInv, Scanner!Switches, Scanner!Served, Scanner!ExitsClean
<1>10. Scanner!TypeOK'
  BY <1>0, <1>7, <1>8, ScannerTypesOf DEF Scanner!IInv, Scanner!TypeOK
<1>11. Scanner!Soon'
  <2> SUFFICES ASSUME NEW w \in Waiters PROVE Scanner!SoonOf(w)'
    BY DEF Scanner!Soon
  <2>1. CASE w \in Scanner!MissedIt
    <3>1. reopenAt'[w] <= now + AbsentCap /\ ~Scanner!Found(w)
      BY <1>0, <1>4, <2>1 DEF Scanner!MissedIt
    <3>2. present'[w] <= now' /\ now' = now /\ (Scanner!Found(w)' <=> Scanner!Found(w))
      BY <1>0 DEF Scanner!IInv, Scanner!Soon, Scanner!SoonOf, Scanner!Found
    <3> QED BY <3>1, <3>2 DEF Scanner!SoonOf
  <2>2. CASE w \notin Scanner!MissedIt
    <3>1. reopenAt'[w] = reopenAt[w] /\ bo'[w] = bo[w]
      BY <1>0, <2>2
    <3> QED BY <1>0, <3>1, ScannerSoonRests DEF Scanner!IInv, Scanner!Soon
  <2> QED BY <2>1, <2>2
<1>12. Scanner!Paced'
  <2> SUFFICES ASSUME NEW w \in Waiters PROVE Scanner!PacedOf(w)'
    BY DEF Scanner!Paced
  <2>1. Scanner!PacedOf(w) /\ tries[w] \in Nat /\ since[w] \in Nat /\ now \in Nat /\ reopenAt[w] \in Nat /\ bo[w].next \in Nat
    BY ScannerTyped, ScannerBounds DEF Scanner!IInv, Scanner!Paced, Scanner!TypeOK
  <2>2. CASE w \in Scanner!MissedIt
    <3>1. tries'[w] = 0 /\ at'[w] = "parked" /\ ~(0 > 0)
      BY <1>0, <1>1, <2>2
    <3> QED BY <3>1 DEF Scanner!PacedOf, Scanner!Ready, Scanner!Ramped
  <2>3. CASE w \in Scanner!Handed
    <3>1. /\ at[w] = "parked" /\ at'[w] = "handed" /\ tries'[w] = tries[w] /\ bo'[w] = bo[w] /\ reopenAt'[w] = reopenAt[w]
          /\ since'[w] = since[w] /\ now' = now
      BY <1>0, <1>1, <2>3
    <3>2. ~(reopenAt[w] > now /\ ~bo[w].absent /\ bo[w].next # 0)
      BY <2>3 DEF Scanner!Handed, Scanner!BacksOff
    <3> PICK n \in Nat : n = tries[w]
      BY <2>1
    <3>3. (n > 0 => since[w] <= now) /\ Scanner!Ready(w, n) /\ Scanner!Ramped(w, n) /\ (n <= MaxScanTime /\ n > 0 => reopenAt[w] - since[w] >= Scanner!AttemptAt[n + 1])
      BY <2>1, <3>1 DEF Scanner!PacedOf
    <3>4. n < MaxScanTime /\ n > 0 => now - since[w] >= Scanner!AttemptAt[n + 1]
      <4> SUFFICES ASSUME n < MaxScanTime, n > 0 PROVE now - since[w] >= Scanner!AttemptAt[n + 1]
        OBVIOUS
      <4>1. n <= MaxScanTime /\ n + 1 \in ScannerRungs
        BY ScannerBounds DEF ScannerRungs
      <4>2. bo[w].absent = FALSE /\ bo[w].next >= Scanner!Schedule[n + 1]
        BY <3>3, <4>1 DEF Scanner!Ramped
      <4>3. Scanner!Schedule[n + 1] \in 1..ReconnectCap /\ Scanner!AttemptAt[n + 1] \in Nat
        BY <4>1, ScannerSchedules, ScannerAttempts
      <4>4. bo[w].next # 0
        BY ONLY <2>1, <4>2, <4>3, ScannerBounds
      <4>5. ~(reopenAt[w] > now)
        BY <3>2, <4>2, <4>4
      <4>6. reopenAt[w] - since[w] >= Scanner!AttemptAt[n + 1]
        BY <3>3, <4>1
      <4> QED BY ONLY <2>1, <4>3, <4>5, <4>6
    <3>5. Scanner!Ready(w, n)' /\ Scanner!Ramped(w, n)' /\ (n < MaxScanTime /\ n > 0 => Scanner!Ready(w, n + 1)')
      <4>1. Scanner!Ready(w, n)' /\ (n < MaxScanTime /\ n > 0 => Scanner!Ready(w, n + 1)')
        BY <3>1, <3>3, <3>4 DEF Scanner!Ready
      <4>2. Scanner!Ramped(w, n)'
        BY <3>1, <3>3 DEF Scanner!Ramped
      <4> QED BY <4>1, <4>2
    <3> QED BY <3>1, <3>3, <3>5 DEF Scanner!PacedOf
  <2>4. CASE w \notin Scanner!Handed /\ w \notin Scanner!MissedIt
    <3>1. /\ at'[w] = at[w] /\ bo'[w] = bo[w] /\ reopenAt'[w] = reopenAt[w] /\ handedAt'[w] = handedAt[w] /\ tries'[w] = tries[w]
      BY <1>0, <2>4
    <3> QED BY <1>0, <2>1, <3>1, ScannerRests
  <2> QED BY <2>2, <2>3, <2>4
<1> QED BY <1>8, <1>9, <1>10, <1>11, <1>12 DEF Scanner!IInv

LEMMA ScannerStepIInv == Scanner!IInv /\ [Scanner!Next]_(Scanner!vars) => Scanner!IInv'
<1> SUFFICES ASSUME Scanner!IInv, [Scanner!Next]_(Scanner!vars) PROVE Scanner!IInv'
  OBVIOUS
<1>1. CASE UNCHANGED Scanner!vars
  <2>1. UNCHANGED <<now, device, at, bo, reopenAt, armed, handedAt, wake, enumRetry, scan, scanning, daemon, tries, since, present>>
    BY <1>1 DEF Scanner!vars
  <2>2. Scanner!TypeOK' /\ Scanner!Clocks' /\ Scanner!Switches' /\ Scanner!Served' /\ Scanner!ExitsClean'
    BY <2>1 DEF Scanner!IInv, Scanner!TypeOK, Scanner!Clocks, Scanner!Switches, Scanner!Served, Scanner!Parked,
          Scanner!ExitsClean
  <2>3. Scanner!Soon' /\ Scanner!Paced'
    BY <2>1, ScannerRests, ScannerSoonRests DEF Scanner!IInv, Scanner!Soon, Scanner!Paced
  <2> QED BY <2>2, <2>3 DEF Scanner!IInv
<1>2. CASE \E w \in Waiters : Scanner!Await(w) \/ Scanner!Open(w) \/ Scanner!SessionEnds(w) \/ Scanner!Change(w) \/ Scanner!Leave(w)
  BY <1>2, ScannerAwaitKeeps, ScannerOpenKeeps, ScannerSessionKeeps, ScannerChangeKeeps, ScannerLeaveKeeps
<1>3. CASE Scanner!ScanBegin \/ Scanner!ScanFails \/ Scanner!ScanEnd \/ Scanner!Pass \/ Scanner!Stop \/ Scanner!Exit
  BY <1>3, ScannerScanKeeps, ScannerScanEndKeeps, ScannerPassKeeps
<1> QED BY <1>1, <1>2, <1>3 DEF Scanner!Next

ScannerProps == Scanner!TypeOK /\ Scanner!NotHammered /\ Scanner!Reattaches /\ Scanner!ExitsClean

LEMMA ScannerNextDueIsLeast ==
  ASSUME Scanner!IInv, Scanner!Parked # {}
  PROVE  \E w \in Scanner!Parked : /\ \A v \in Scanner!Parked : reopenAt[w] <= reopenAt[v]
                          /\ Scanner!NextDue = IF reopenAt[w] < enumRetry THEN enumRetry ELSE reopenAt[w]
<1> DEFINE D == {reopenAt[w] : w \in Scanner!Parked}
<1>1. D \subseteq Nat /\ D # {}
  BY ScannerTyped DEF Scanner!Parked
<1>2. \E x \in D : \A y \in D : x <= y
  <2> HIDE DEF D
  <2> QED BY <1>1, LeastNat
<1>3. Scanner!Min(D) \in D /\ \A y \in D : Scanner!Min(D) <= y
  <2> HIDE DEF D
  <2> QED BY <1>2 DEF Scanner!Min
<1>4. PICK w \in Scanner!Parked : Scanner!Min(D) = reopenAt[w]
  BY <1>3
<1> QED BY <1>3, <1>4 DEF Scanner!NextDue

LEMMA ScannerImplies == Scanner!IInv => ScannerProps
<1> SUFFICES ASSUME Scanner!IInv PROVE ScannerProps
  OBVIOUS
<1>1. Scanner!NotHammered
  BY DEF Scanner!IInv, Scanner!Paced, Scanner!PacedOf, Scanner!Ready, Scanner!NotHammered
<1>2. Scanner!Reattaches
  <2> SUFFICES ASSUME NEW w \in Waiters, at[w] = "parked", Scanner!Found(w), bo[w].absent, enumRetry = 0, Scanner!Quiet
               PROVE  now - present[w] <= AbsentCap + EnumRetry
    BY DEF Scanner!Reattaches
  <2>1. w \in Scanner!Parked /\ ~(Scanner!NextDue <= now)
    BY DEF Scanner!Parked, Scanner!Quiet, Scanner!ScanDue
  <2>2. PICK v \in Scanner!Parked : (\A u \in Scanner!Parked : reopenAt[v] <= reopenAt[u]) /\ Scanner!NextDue = IF reopenAt[v] < enumRetry THEN enumRetry ELSE reopenAt[v]
    BY <2>1, ScannerNextDueIsLeast
  <2>3. /\ now \in Nat /\ reopenAt[v] \in Nat /\ reopenAt[w] \in Nat /\ present[w] \in Nat /\ AbsentCap \in Nat /\ EnumRetry \in Nat
        /\ reopenAt[v] <= reopenAt[w] /\ reopenAt[w] <= present[w] + AbsentCap
    BY <2>1, <2>2, ScannerTyped, ScannerBounds DEF Scanner!Parked, Scanner!IInv, Scanner!Soon, Scanner!SoonOf
  <2>4. Scanner!NextDue = reopenAt[v]
    BY ONLY <2>2, <2>3, enumRetry = 0
  <2> QED BY ONLY <2>1, <2>3, <2>4
<1> QED BY <1>1, <1>2 DEF Scanner!IInv, ScannerProps

LEMMA ScannerScansRest == Scanner!IInv /\ Scanner!IInv' /\ Scanner!Next => (Scanner!ScanEnd => wake' \/ Scanner!Parked' = {} \/ Scanner!NextDue' > now)
<1> SUFFICES ASSUME Scanner!IInv, Scanner!IInv', Scanner!ScanEnd, ~wake', Scanner!Parked' # {} PROVE Scanner!NextDue' > now
  OBVIOUS
<1>0. /\ at' = [w \in Waiters |-> IF w \in Scanner!Handed THEN "handed" ELSE at[w]]
      /\ reopenAt' = [w \in Waiters |-> IF w \in Scanner!MissedIt THEN now + Scanner!WaitOf(bo[w], TRUE) ELSE reopenAt[w]]
      /\ enumRetry' = 0 /\ UNCHANGED <<now, wake>> /\ scanning
  BY DEF Scanner!ScanEnd
<1>1. Scanner!Parked \subseteq scan
  BY <1>0 DEF Scanner!IInv, Scanner!Served
<1>2. \A x \in 1..ReconnectCap : now + x > now
  BY ScannerTyped, ScannerBounds
<1>3. ASSUME NEW w \in Scanner!Parked' PROVE reopenAt'[w] > now
  <2>1. w \in Waiters /\ at[w] = "parked" /\ w \notin Scanner!Handed /\ w \in scan
    BY <1>0, <1>1, <1>3 DEF Scanner!Parked
  <2>2. CASE w \in Scanner!MissedIt
    <3>1. reopenAt'[w] = now + Scanner!WaitOf(bo[w], TRUE)
      BY <1>0, <2>1, <2>2
    <3>2. Scanner!WaitOf(bo[w], TRUE) \in 1..ReconnectCap
      BY <2>1, ScannerTyped, ScannerWaiting
    <3> QED BY ONLY <1>2, <3>1, <3>2
  <2>3. CASE w \notin Scanner!MissedIt
    <3>1. reopenAt'[w] = reopenAt[w] /\ (reopenAt[w] > now \/ ~(reopenAt[w] <= now))
      BY <1>0, <2>1, <2>3 DEF Scanner!MissedIt, Scanner!Handed, Scanner!BacksOff
    <3>2. reopenAt[w] \in Nat /\ now \in Nat
      BY <2>1, ScannerTyped
    <3> QED BY ONLY <3>1, <3>2
  <2> QED BY <2>2, <2>3
<1>4. \E w \in Scanner!Parked' : Scanner!NextDue' = IF reopenAt'[w] < enumRetry' THEN enumRetry' ELSE reopenAt'[w]
  <2> DEFINE D == {reopenAt[w] : w \in Scanner!Parked}
  <2>1. \A w \in Waiters : reopenAt'[w] \in Nat
    BY DEF Scanner!IInv, Scanner!Clocks
  <2>2. D' \subseteq Nat /\ D' # {}
    BY <2>1 DEF Scanner!Parked
  <2>3. \E x \in D' : \A y \in D' : x <= y
    <3> HIDE DEF D
    <3> QED BY <2>2, LeastNat
  <2>4. Scanner!Min(D') \in D'
    <3> HIDE DEF D
    <3> QED BY <2>3 DEF Scanner!Min
  <2>5. PICK w \in Scanner!Parked' : Scanner!Min(D') = reopenAt'[w]
    BY <2>4
  <2> QED BY <2>5 DEF Scanner!NextDue
<1>5. PICK w \in Scanner!Parked' : Scanner!NextDue' = IF reopenAt'[w] < enumRetry' THEN enumRetry' ELSE reopenAt'[w]
  BY <1>4
<1>6. reopenAt'[w] \in Nat /\ reopenAt'[w] > now /\ now \in Nat
  BY <1>3, <1>5, ScannerTyped DEF Scanner!IInv, Scanner!Clocks, Scanner!Parked
<1>7. enumRetry' = 0 /\ 0 \in Nat /\ now' = now
  BY <1>0
<1>8. ASSUME NEW d \in Nat, NEW e, e = 0, NEW n, n = IF d < e THEN e ELSE d PROVE n = d
  BY <1>8
<1>9. Scanner!NextDue' = reopenAt'[w]
  <2>1. PICK d \in Nat : d = reopenAt'[w]
    BY <1>6
  <2>2. PICK n : n = Scanner!NextDue'
    OBVIOUS
  <2>3. n = IF d < enumRetry' THEN enumRetry' ELSE d
    BY <1>5, <2>1, <2>2
  <2>4. PICK e : e = enumRetry'
    OBVIOUS
  <2>5. n = IF d < e THEN e ELSE d
    BY <2>3, <2>4
  <2>6. e = 0
    BY <2>4, <1>7
  <2>7. n = d
    BY ONLY <2>5, <2>6, d \in Nat
  <2> QED BY <2>1, <2>2, <2>7
<1>10. reopenAt'[w] > now
  BY <1>6
<1> QED BY ONLY <1>9, <1>10, <1>7

(***************************************************************************)
(* The parts together.                                                     *)
(***************************************************************************)
LEMMA InputRuns == Spec /\ part = "input" => [](part = "input") /\ Input!Spec
<1>1. Init /\ part = "input" => Input!Init
  BY DEF Init
<1>2. part = "input" /\ [Next]_vars => (part = "input")' /\ [Input!Next]_(Input!vars)
  BY DEF Next, vars, inputVars, Input!vars, Input!wedge, Asks, Holds, Touches, Attaches, Feeds, Counts, Flashes
<1> QED BY <1>1, <1>2, PTL DEF Spec, Input!Spec

LEMMA FeedRuns == Spec /\ part = "feed" => [](part = "feed") /\ Feed!Spec
<1>1. Init /\ part = "feed" => Feed!Init
  BY DEF Init
<1>2. part = "feed" /\ [Next]_vars => (part = "feed")' /\ [Feed!Next]_(Feed!vars)
  BY DEF Next, vars, feedVars, Feed!vars, Feed!feed, Feed!claims, Asks, Holds, Touches, Attaches, Feeds, Counts,
        Flashes
<1> QED BY <1>1, <1>2, PTL DEF Spec, Feed!Spec

LEMMA ScannerRuns == Spec /\ part = "scanner" => [](part = "scanner") /\ Scanner!Spec
<1>1. Init /\ part = "scanner" => Scanner!Init
  BY DEF Init
<1>2. part = "scanner" /\ [Next]_vars => (part = "scanner")' /\ [Scanner!Next]_(Scanner!vars)
  BY DEF Next, vars, scannerVars, Scanner!vars, Asks, Holds, Touches, Attaches, Feeds, Counts, Flashes
<1> QED BY <1>1, <1>2, PTL DEF Spec, Scanner!Spec

\* What no step of a device may do, whatever the constants: end a scan that is due at once
\* again, take the socket from under a daemon that lives, forget a stall that saw no delivery
\* (scanner.run, listenBroadcaster, wedge.tick).
THEOREM DeviceStepsHold == Spec => DeviceSteps
<1>1. Spec => Scanner!NoSpin
  <2>1. Spec /\ part = "scanner" => Scanner!NoSpin
    <3>1. Scanner!IInv /\ Scanner!IInv' /\ [Scanner!Next]_(Scanner!vars)
            => (Scanner!ScanEnd => wake' \/ Scanner!Parked' = {} \/ Scanner!NextDue' > now) \/ UNCHANGED Scanner!vars
      BY ScannerScansRest DEF Scanner!IInv
    <3> QED BY <3>1, ScannerRuns, ScannerInitIInv, ScannerStepIInv, PTL DEF Scanner!Spec, Scanner!NoSpin
  <2>2. Spec /\ part # "scanner" => Scanner!NoSpin
    <3>1. part # "scanner" /\ [Next]_vars => (part # "scanner")' /\ UNCHANGED Scanner!vars
      BY DEF Next, vars, scannerVars, Scanner!vars, Asks, Holds, Touches, Attaches, Feeds, Counts, Flashes
    <3> QED BY <3>1, PTL DEF Spec, Scanner!NoSpin
  <2>3. part = "scanner" \/ part # "scanner"
    OBVIOUS
  <2> QED BY <2>1, <2>2, <2>3
<1>2. Spec => Feed!LiveSocketStays
  <2>1. Spec /\ part = "feed" => Feed!LiveSocketStays
    BY FeedSocketStays, FeedRuns, FeedInitIInv, FeedStepIInv, PTL DEF Feed!Spec, Feed!LiveSocketStays
  <2>2. Spec /\ part # "feed" => Feed!LiveSocketStays
    <3>1. part # "feed" /\ [Next]_vars => (part # "feed")' /\ UNCHANGED Feed!vars
      BY DEF Next, vars, feedVars, Feed!vars, Feed!feed, Feed!claims, Asks, Holds, Touches, Attaches, Feeds, Counts,
            Flashes
    <3> QED BY <3>1, PTL DEF Spec, Feed!LiveSocketStays
  <2>3. part = "feed" \/ part # "feed"
    OBVIOUS
  <2> QED BY <2>1, <2>2, <2>3
<1>3. Spec => Input!EndsByDelivery
  <2>1. Spec /\ part = "input" => Input!EndsByDelivery
    BY InputEpisodesEnd, InputRuns, InputInitIInv, InputStepIInv, PTL DEF Input!Spec, Input!EndsByDelivery
  <2>2. Spec /\ part # "input" => Input!EndsByDelivery
    <3>1. part # "input" /\ [Next]_vars => (part # "input")' /\ UNCHANGED Input!vars
      BY DEF Next, vars, inputVars, Input!vars, Input!wedge, Asks, Holds, Touches, Attaches, Feeds, Counts, Flashes
    <3> QED BY <3>1, PTL DEF Spec, Input!EndsByDelivery
  <2>3. part = "input" \/ part # "input"
    OBVIOUS
  <2> QED BY <2>1, <2>2, <2>3
<1> QED BY <1>1, <1>2, <1>3 DEF DeviceSteps

\* The parts of TouchSafe: each holds of its own part, and a part keeps running.
LEMMA GestureRuns == Spec /\ part = "gesture" => [](part = "gesture") /\ Finger!Spec
<1>1. Init /\ part = "gesture" => Finger!Init
  BY DEF Init
<1>2. part = "gesture" /\ [Next]_vars => (part = "gesture")' /\ [Finger!Next]_(Finger!vars)
  BY DEF Next, vars, gestureVars, Finger!vars, Asks, Holds, Touches, Attaches, Feeds, Counts, Flashes
<1> QED BY <1>1, <1>2, PTL DEF Spec, Finger!Spec

OthersRun == part \notin {"gesture", "scanner", "feed", "input"}
LEMMA OthersRest == Spec /\ OthersRun => []OthersRun
<1>1. OthersRun /\ [Next]_vars => OthersRun'
  BY DEF OthersRun, Next, vars, Asks, Holds, Touches, Attaches, Feeds, Counts, Flashes
<1> QED BY <1>1, PTL DEF Spec

\* Whatever the constants: a touch resolves once, as what the finger did; a device that is not there
\* is tried at its pace and taken when it comes; one daemon serves the keys, and no client misses a
\* line; input that arrives is counted, a wedged pipeline is seen and an idle user is no wedge
\* (recognizer.go, scanner.go, broadcast.go, wedge.go).
THEOREM TouchIsSafe == Spec => []TouchSafe
<1>1. Finger!Spec => []FingerGestureProps
  BY FingerGestureInitIInv, FingerGestureStepIInv, FingerGestureImplies, PTL DEF Finger!Spec
<1>2. Scanner!Spec => []ScannerProps
  BY ScannerInitIInv, ScannerStepIInv, ScannerImplies, PTL DEF Scanner!Spec
<1>3. Feed!Spec => []FeedProps
  BY FeedInitIInv, FeedStepIInv, FeedImplies, PTL DEF Feed!Spec
<1>4. Input!Spec => []InputProps
  BY InputInitIInv, InputStepIInv, InputIInvImplies, PTL DEF Input!Spec
<1>5. /\ part = "gesture" /\ FingerGestureProps => TouchSafe
      /\ part = "scanner" /\ ScannerProps => TouchSafe
      /\ part = "feed" /\ FeedProps => TouchSafe
      /\ part = "input" /\ InputProps => TouchSafe
      /\ OthersRun => TouchSafe
  BY DEF TouchSafe, OthersRun, FingerGestureProps, ScannerProps, FeedProps, InputProps
<1>6. part = "gesture" \/ part = "scanner" \/ part = "feed" \/ part = "input" \/ OthersRun
  BY DEF OthersRun
<1> QED BY <1>1, <1>2, <1>3, <1>4, <1>5, <1>6, GestureRuns, ScannerRuns, FeedRuns, InputRuns, OthersRest, PTL

\* The parts of MouseSafe.
LEMMA ConnRuns == Spec /\ part = "conn" => [](part = "conn") /\ Conn!Spec
<1>1. Init /\ part = "conn" => Conn!Init
  BY DEF Init
<1>2. part = "conn" /\ [Next]_vars => (part = "conn")' /\ [Conn!Next]_(Conn!vars)
  BY DEF Next, vars, connVars, Conn!vars, Conn!callers, Conn!device, Asks, Holds, Touches, Attaches, Feeds, Counts,
        Flashes
<1> QED BY <1>1, <1>2, PTL DEF Spec, Conn!Spec

LEMMA MouseRuns == Spec /\ part = "mouse" => [](part = "mouse") /\ Mouse!Spec
<1>1. Init /\ part = "mouse" => Mouse!Init
  BY DEF Init
<1>2. part = "mouse" /\ [Next]_vars => (part = "mouse")' /\ [Mouse!Next]_(Mouse!vars)
  BY DEF Next, vars, mouseVars, Mouse!vars, Asks, Holds, Touches, Attaches, Feeds, Counts, Flashes
<1> QED BY <1>1, <1>2, PTL DEF Spec, Mouse!Spec

NeitherRuns == part \notin {"conn", "mouse"}
LEMMA NeitherRests == Spec /\ NeitherRuns => []NeitherRuns
<1>1. NeitherRuns /\ [Next]_vars => NeitherRuns'
  BY DEF NeitherRuns, Next, vars, Asks, Holds, Touches, Attaches, Feeds, Counts, Flashes
<1> QED BY <1>1, PTL DEF Spec

\* Whatever the constants: a late reply never answers another request and no caller waits for ever; the
\* line of a handle at rest tells what the mouse holds, its controls are as configured once nothing is
\* pending, refused or given up, pending steps have retries, and no connected mouse is shown without a
\* handle, through naps, resets, lost answers and dropped links (hidppconn.go, logiretch.go).
THEOREM MouseIsSafe == Spec => []MouseSafe
<1>1. Conn!Spec => []Conn!IInv
  BY ConnInitIInv, ConnStepIInv, ConnInstance, PTL DEF Conn!Spec
<1>2. Mouse!Spec => []MouseProps
  BY MouseInitIInv, MouseStepIInv, MouseImplies, PTL DEF Mouse!Spec
<1>3. part = "conn" /\ Conn!IInv => MouseSafe
  BY DEF MouseSafe, Conn!IInv, Conn!Heard, Conn!WaiterIsHeard
<1>4. (part = "mouse" /\ MouseProps => MouseSafe) /\ (NeitherRuns => MouseSafe)
  BY DEF MouseSafe, MouseProps, NeitherRuns
<1>5. part = "conn" \/ part = "mouse" \/ NeitherRuns
  BY DEF NeitherRuns
<1> QED BY <1>1, <1>2, <1>3, <1>4, <1>5, ConnRuns, MouseRuns, NeitherRests, PTL
==============================================================================
