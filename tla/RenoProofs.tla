----------------------------- MODULE RenoProofs -----------------------------
(***************************************************************************)
(* One process at a time owns Reno and answers for everything open in its  *)
(* journal; as long as the journal keeps the rows it has, its callers see  *)
(* a ledger: nothing applied twice, no definite answer contradicted.  And  *)
(* a take that OBS rolls has an owner, through every interleaving of taps, *)
(* verbs, lost notes, crashes and restarts.  And one driver at a time      *)
(* moves the camera, at the level its tile shows; the demo goes on where   *)
(* the journal says, the pad shows the next take, a release and a launch   *)
(* of OBS leave the user's own alone.  For any constants.                  *)
(***************************************************************************)
EXTENDS RenoOwner, FiniteSetTheorems, SequenceTheorems, WellFoundedInduction, TLAPS

USE OwnerAssumption

(* The inductive invariant of the service.                                  *)

\* Whoever is not down holds the lock.
Held == \A p \in Processes : phase[p] # "down" => lock = p

\* A request in hand is in the hand of a process that serves, or drains.
Served ==
  \A c \in Callers : call[c].at \notin {"idle", "gone"} =>
    call[c].by \in Processes /\ phase[call[c].by] \in {"serving", "draining"}

Legal == {"pending", "running", "dispatched", "failed", "uncertain", "discarded"}
Reviewed ==
  \A i \in Ids : rows[i].state # J!Absent => rows[i].state \in Legal /\ rows[i].req.policy = "review"

\* Of the callers of an operation one at most has claimed it, and its row runs.
Runs(c) == call[c].at \in {"turn", "ran"}
Claimed ==
  /\ \A c \in Callers : Runs(c) => rows[OpOf(c)].state = "running"
  /\ \A c \in Callers : call[c].at = "ran" => call[c].outcome \in Outcomes
  /\ \A c, d \in Callers : Runs(c) /\ Runs(d) /\ OpOf(c) = OpOf(d) => c = d

\* What is open is being worked on, by whoever brought or claimed it.
Worked(i) ==
  /\ rows[i].state = "pending" => \E c \in Callers : OpOf(c) = i /\ call[c].at = "accepted"
  /\ rows[i].state = "running" => \E c \in Callers : OpOf(c) = i /\ Runs(c)
Attended ==
  journalFaults = 0 /\ (\E p \in Processes : phase[p] \in {"serving", "draining"}) =>
    \A i \in Ids : Worked(i)

IInv == TypeOK /\ journalFaults \in Nat /\ serial \in Nat /\ Held /\ Served /\ Reviewed /\ Claimed /\ Attended

-----------------------------------------------------------------------------
(* What the ledger needs besides: what was applied, and what was told.      *)

\* The journal keeps its newest RecentHistory rows whatever their state: the
\* operations in question are among them.
HistoryOutlasts == IsFiniteSet(Ids) /\ RecentHistory \in Nat /\ Cardinality(Ids) <= RecentHistory

Did(i) == \E k \in 1 .. Len(applied) : applied[k] = i
Once ==
  /\ \A k, l \in 1 .. Len(applied) : applied[k] = applied[l] => k = l
  /\ \A i \in Ids : rows[i].state \in {J!Absent, "pending", "failed"} => ~ Did(i)
  /\ \A i \in Ids : rows[i].state = "dispatched" => Did(i)
  /\ \A c \in Callers : call[c].at = "turn" => ~ Did(OpOf(c))
  /\ \A c \in Callers : call[c].at = "ran" => (Did(OpOf(c)) <=> call[c].outcome # "failed")
Told ==
  /\ \A c \in Callers : call[c].at = "idle" => verdict[c] = "none"
  /\ \A c \in Callers : call[c].at = "answered" =>
       /\ call[c].answer = "dispatched" => Did(OpOf(c))
       /\ call[c].answer = "failed" => rows[OpOf(c)].state = "failed"
LInv == Once /\ Told

-----------------------------------------------------------------------------
(* Callers, requests and rows.                                              *)

Call == [at : Steps, outcome : Outcomes \cup {""}, answer : Answers, by : Processes \cup {Nobody}]

\* What the type of the calls says of each.
LEMMA CallsApart ==
  ASSUME TypeOK
  PROVE  /\ call \in [Callers -> Call]
         /\ \A c \in Callers : /\ OpOf(c) \in Ids /\ call[c] \in Call
                               /\ call[c].at \in Steps /\ call[c].by \in Processes \cup {Nobody}
                               /\ call[c].answer \in Answers /\ call[c].outcome \in Outcomes \cup {""}
<1>1. call \in [Callers -> Call]
  BY DEF TypeOK, Call
<1>2. \A c \in Callers : OpOf(c) \in Ids
  BY DEF Callers, OpOf
<1>3. \A c \in Callers : call[c] \in Call
  BY <1>1
<1> QED BY <1>1, <1>2, <1>3 DEF Call

\* A request goes on to its next step.
LEMMA StageOf ==
  ASSUME TypeOK, NEW c \in Callers, NEW at \in Steps, Stage(c, at)
  PROVE  /\ call' \in [Callers -> Call] /\ call'[c].at = at /\ call'[c].by = call[c].by
         /\ call'[c].outcome = call[c].outcome /\ call'[c].answer = call[c].answer
         /\ \A d \in Callers : d # c => call'[d] = call[d]
<1> DEFINE new == [call[c] EXCEPT !.at = at]
<1>1. call \in [Callers -> Call] /\ call[c] \in Call /\ call' = [call EXCEPT ![c] = new]
  BY CallsApart DEF Stage
<1>2. /\ new \in Call /\ new.at = at /\ new.by = call[c].by
      /\ new.outcome = call[c].outcome /\ new.answer = call[c].answer
  BY <1>1 DEF Call
<1> HIDE DEF new
<1> QED BY <1>1, <1>2

\* A request is answered.
LEMMA AnswerOf ==
  ASSUME TypeOK, NEW c \in Callers, NEW a \in Answers, Answer(c, a)
  PROVE  /\ call' \in [Callers -> Call] /\ call'[c].at = "answered" /\ call'[c].by = call[c].by
         /\ call'[c].outcome = call[c].outcome /\ call'[c].answer = a
         /\ \A d \in Callers : d # c => call'[d] = call[d]
<1> DEFINE new == [call[c] EXCEPT !.at = "answered", !.answer = a]
<1>1. call \in [Callers -> Call] /\ call[c] \in Call /\ call' = [call EXCEPT ![c] = new]
  BY CallsApart DEF Answer
<1>2. /\ new \in Call /\ new.at = "answered" /\ new.by = call[c].by
      /\ new.outcome = call[c].outcome /\ new.answer = a
  BY <1>1 DEF Call, Steps
<1> HIDE DEF new
<1> QED BY <1>1, <1>2

\* The connections of some callers are cut.
LEMMA CutOf ==
  ASSUME TypeOK, NEW cs \in SUBSET Callers, call' = Cut(cs)
  PROVE  /\ call' \in [Callers -> Call]
         /\ \A c \in cs : call'[c].at = "gone"
         /\ \A c \in Callers \ cs : call'[c] = call[c]
<1>1. \A c \in Callers : call[c] \in Call /\ [call[c] EXCEPT !.at = "gone"] \in Call
  BY CallsApart DEF Call, Steps
<1> QED BY <1>1, CallsApart DEF Cut, Call

\* Whoever is hung up on without a verdict is unsure.
LEMMA HungUpOf ==
  ASSUME TypeOK, NEW cs
  PROVE  HungUp(cs) \in [Callers -> {"none", "yes", "no", "unsure", "refused"}]
BY DEF TypeOK, HungUp

\* The states and the request a row may have.
LEMMA RowsApart ==
  /\ Legal \subseteq J!States /\ J!Absent \notin Legal /\ Legal \cap J!Applied = {"dispatched"}
  /\ J!NoRow \in J!Row /\ J!NoRow.state = J!Absent
  /\ {"pending", "running", "uncertain"} \cap J!Terminal = {}
BY DEF Legal, J!States, J!Terminal, J!Unresolved, J!Applied, J!Absent, J!NoRow, J!Row

\* A transition of the journal changes the state of its row.
LEMMA MovedRow ==
  ASSUME TypeOK, NEW i \in Ids, NEW to \in Legal, rows' = J!Move(rows, i, to)
  PROVE  /\ rows' \in [Ids -> J!Row] /\ rows'[i].state = to /\ rows'[i].req = rows[i].req
         /\ \A j \in Ids : j # i => rows'[j] = rows[j]
<1> DEFINE row == [rows[i] EXCEPT !.state = to]
<1>1. rows \in [Ids -> J!Row] /\ rows' = [rows EXCEPT ![i] = row] /\ rows[i] \in J!Row
  BY DEF TypeOK, J!Move
<1>2. row \in J!Row /\ row.state = to /\ row.req = rows[i].req
  BY <1>1, RowsApart DEF J!Row
<1> HIDE DEF row
<1> QED BY <1>1, <1>2

\* A new row is pending; what pruning takes away was over.
LEMMA InsertedRow ==
  ASSUME TypeOK, serial \in Nat, NEW i \in Ids, rows' = J!Insert(rows, i, serial, RequestOf(i))
  PROVE  /\ rows' \in [Ids -> J!Row] /\ rows'[i].state = "pending" /\ rows'[i].req.policy = "review"
         /\ \A j \in Ids : j # i => rows'[j] = rows[j] \/ (rows'[j] = J!NoRow /\ rows[j].state \in J!Terminal)
<1> DEFINE new == [state |-> "pending", seq |-> serial, req |-> RequestOf(i)]
<1>1. RequestOf(i) \in Requests /\ RequestOf(i).policy = "review"
  BY DEF RequestOf
<1>2. new \in J!Row /\ new.state = "pending" /\ new.req.policy = "review"
  BY <1>1, RowsApart DEF J!Row, Legal
<1>3. /\ J!Prune(rows) \in [Ids -> J!Row]
      /\ \A j \in Ids : \/ J!Prune(rows)[j] = rows[j]
                        \/ J!Prune(rows)[j] = J!NoRow /\ rows[j].state \in J!Terminal
  BY RowsApart DEF TypeOK, J!Prune, J!Prunable
<1>4. rows' = [J!Prune(rows) EXCEPT ![i] = new]
  BY DEF J!Insert
<1> HIDE DEF new
<1> QED BY <1>2, <1>3, <1>4

\* Recovery leaves nothing open.
LEMMA RecoveredRows ==
  ASSUME TypeOK, Reviewed, rows' = Recovered
  PROVE  /\ rows' \in [Ids -> J!Row]
         /\ \A i \in Ids : /\ rows'[i].req = rows[i].req
                           /\ rows'[i].state = IF rows[i].state \in {"pending", "running"} THEN "uncertain"
                                               ELSE rows[i].state
<1>1. ASSUME NEW i \in Ids
      PROVE  /\ rows'[i] \in J!Row /\ rows'[i].req = rows[i].req
             /\ rows'[i].state = IF rows[i].state \in {"pending", "running"} THEN "uncertain" ELSE rows[i].state
  <2>1. CASE rows[i].state = J!Absent
    BY <2>1 DEF TypeOK, Recovered, J!Recover, J!Absent
  <2>2. CASE rows[i].state # J!Absent
    <3>1. rows[i] \in J!Row /\ rows[i].state \in Legal /\ rows[i].req.policy = "review"
      BY <2>2 DEF TypeOK, Reviewed
    <3>2. rows'[i] = [rows[i] EXCEPT !.state = J!RecoveredState(rows[i].state, "review")]
      BY <2>2, <3>1 DEF Recovered, J!Recover
    <3>3. J!RecoveredState(rows[i].state, "review") =
            IF rows[i].state \in {"pending", "running"} THEN "uncertain" ELSE rows[i].state
      BY <3>1 DEF J!RecoveredState, Legal
    <3>4. J!RecoveredState(rows[i].state, "review") \in J!States
      BY <3>1, <3>3, RowsApart DEF Legal
    <3> QED BY <3>1, <3>2, <3>3, <3>4 DEF J!Row
  <2> QED BY <2>1, <2>2
<1>2. rows' = [i \in Ids |-> rows'[i]]
  BY DEF Recovered, J!Recover
<1> QED BY <1>1, <1>2

-----------------------------------------------------------------------------
(* The life of an owner.                                                    *)

\* Two processes that are up are one; nobody has a request of a process that
\* does not serve.
LEMMA Alone ==
  ASSUME IInv
  PROVE  /\ \A p, q \in Processes : phase[p] # "down" /\ phase[q] # "down" => p = q
         /\ \A c \in Callers, p \in Processes :
              phase[p] \notin {"down", "serving", "draining"} => call[c].at \in {"idle", "gone"}
         /\ \A c \in Callers : lock = Nobody => call[c].at \in {"idle", "gone"}
<1>1. \A p, q \in Processes : phase[p] # "down" /\ phase[q] # "down" => p = q
  BY DEF IInv, Held
<1>2. \A c \in Callers, p \in Processes :
        phase[p] \notin {"down", "serving", "draining"} => call[c].at \in {"idle", "gone"}
  BY <1>1 DEF IInv, Served
<1>3. \A c \in Callers : lock = Nobody => call[c].at \in {"idle", "gone"}
  BY DEF IInv, Served, Held
<1> QED BY <1>1, <1>2, <1>3

\* The process that comes up: lock, socket, recovery.
LEMMA ComesUp ==
  ASSUME IInv, NEW p \in Processes, Lock(p) \/ Bind(p) \/ Recover(p)
  PROVE  IInv'
<1>1. /\ UNCHANGED <<serial, call, verdict, refused, applied, deaths, journalFaults>>
      /\ \A c \in Callers : call[c].at \in {"idle", "gone"}
      /\ \A q \in Processes : q # p => phase[q] = "down" /\ phase'[q] = "down"
      /\ phase'[p] # "down" /\ lock' = p
      /\ phase' \in [Processes -> Phases] /\ lock' \in Processes \cup {Nobody}
      /\ socket' \in Processes \cup {Nobody, "corpse"}
  <2>1. CASE Lock(p)
    BY <2>1, Alone DEF Lock, MayOwn, IInv, TypeOK, Held, Phases
  <2>2. CASE Bind(p)
    BY <2>2, Alone DEF Bind, IInv, TypeOK, Held, Phases
  <2>3. CASE Recover(p)
    BY <2>3, Alone DEF Recover, IInv, TypeOK, Held, Phases
  <2> QED BY <2>1, <2>2, <2>3
<1>2. \/ rows' = rows /\ phase'[p] \notin {"serving", "draining"}
      \/ rows' = Recovered
  BY DEF Lock, Bind, Recover, IInv, TypeOK, Phases
<1>3. /\ rows' \in [Ids -> J!Row]
      /\ \A i \in Ids : rows'[i].req = rows[i].req /\ (rows'[i].state = rows[i].state \/ rows'[i].state = "uncertain")
      /\ \A i \in Ids : rows'[i].state = J!Absent <=> rows[i].state = J!Absent
      /\ rows' = Recovered => \A i \in Ids : rows'[i].state \notin {"pending", "running"}
  <2>1. CASE rows' = rows /\ rows' # Recovered
    BY <2>1 DEF IInv, TypeOK
  <2>2. CASE rows' = Recovered
    BY <2>2, RecoveredRows DEF IInv, J!Absent
  <2> QED BY <1>2, <2>1, <2>2
<1>4. TypeOK' /\ journalFaults' \in Nat /\ serial' \in Nat
  BY <1>1, <1>3 DEF IInv, TypeOK
<1>5. Held' /\ Served'
  BY <1>1 DEF Held, Served
<1>6. Reviewed'
  BY <1>3 DEF IInv, Reviewed, Legal, J!Absent
<1>7. Claimed'
  BY <1>1 DEF Claimed, Runs
<1>8. Attended'
  BY <1>1, <1>2, <1>3 DEF Attended, Worked
<1> QED BY <1>4, <1>5, <1>6, <1>7, <1>8 DEF IInv

\* The process is told to go: its callers are hung up on, its requests go on.
LEMMA ShutdownStep ==
  ASSUME IInv, NEW p \in Processes, Shutdown(p)
  PROVE  IInv'
<1>1. /\ phase[p] = "serving" /\ phase' = [phase EXCEPT ![p] = "draining"]
      /\ verdict' = HungUp(InHand(p))
      /\ UNCHANGED <<lock, socket, rows, serial, call, refused, applied, journalFaults>>
  BY DEF Shutdown
<1>2. TypeOK' /\ journalFaults' \in Nat /\ serial' \in Nat
  BY <1>1, HungUpOf DEF IInv, TypeOK, Phases
<1>3. Held' /\ Served'
  BY <1>1 DEF IInv, TypeOK, Held, Served
<1>4. Reviewed' /\ Claimed'
  BY <1>1 DEF IInv, Reviewed, Claimed, Runs
<1>5. Attended'
  BY <1>1 DEF IInv, TypeOK, Attended, Worked, Runs
<1> QED BY <1>2, <1>3, <1>4, <1>5 DEF IInv

\* The process ends, in order or not: none of its requests stays in hand, and
\* there is nobody else who serves.
LEMMA GoesDown ==
  ASSUME IInv, NEW p \in Processes, Wait(p) \/ Unlock(p) \/ Die(p)
  PROVE  IInv'
<1>1. /\ UNCHANGED <<rows, serial, refused, applied, journalFaults>>
      /\ phase[p] # "down" /\ \A q \in Processes : q # p => phase[q] = "down" /\ phase'[q] = "down"
      /\ phase' \in [Processes -> Phases] /\ phase'[p] \in {"drained", "down"}
      /\ phase'[p] = "down" \/ (phase[p] = "draining" /\ lock' = lock)
      /\ lock' \in Processes \cup {Nobody} /\ socket' \in Processes \cup {Nobody, "corpse"}
  <2>1. CASE Wait(p)
    BY <2>1, Alone DEF Wait, IInv, TypeOK, Held, Phases
  <2>2. CASE Unlock(p)
    BY <2>2, Alone DEF Unlock, IInv, TypeOK, Held, Phases
  <2>3. CASE Die(p)
    BY <2>3, Alone DEF Die, IInv, TypeOK, Held, Phases
  <2> QED BY <2>1, <2>2, <2>3
<1>2. \A c \in Callers : call[c].at \notin {"idle", "gone"} => call[c].by = p
  BY <1>1 DEF IInv, Served
<1>3. call' \in [Callers -> Call] /\ \A c \in Callers : call'[c].at \in {"idle", "gone"}
  <2>1. CASE call' = Cut(InHand(p))
    <3>1. InHand(p) \in SUBSET Callers /\ \A c \in Callers \ InHand(p) : call[c].at \in {"idle", "gone"}
      BY <1>2 DEF InHand
    <3> QED BY <2>1, <3>1, CutOf DEF IInv
  <2>2. CASE Unlock(p)
    BY <2>2, Alone, CallsApart DEF Unlock, IInv
  <2> QED BY <2>1, <2>2 DEF Wait, Die
<1>4. TypeOK' /\ journalFaults' \in Nat /\ serial' \in Nat
  <2>1. verdict' \in [Callers -> {"none", "yes", "no", "unsure", "refused"}]
    <3>1. verdict' = verdict \/ verdict' = HungUp(InHand(p))
      BY DEF Wait, Unlock, Die
    <3>2. TypeOK
      BY DEF IInv
    <3>3. HungUp(InHand(p)) \in [Callers -> {"none", "yes", "no", "unsure", "refused"}]
      BY <3>2, HungUpOf
    <3> QED BY <3>1, <3>2, <3>3 DEF TypeOK
  <2> QED BY <1>1, <1>3, <2>1 DEF IInv, TypeOK, Call
<1>5. Held' /\ Served'
  BY <1>1, <1>3 DEF IInv, Held, Served
<1>6. Reviewed' /\ Claimed' /\ Attended'
  BY <1>1, <1>3 DEF IInv, Reviewed, Claimed, Runs, Attended
<1> QED BY <1>4, <1>5, <1>6 DEF IInv

-----------------------------------------------------------------------------
(* A request.                                                               *)

\* What is left to show of a step of one caller: its own place in the books.
LEMMA CallerStep ==
  ASSUME IInv, NEW c \in Callers, TypeOK', UNCHANGED <<phase, lock>>, serial' \in Nat, journalFaults' \in Nat,
         \A d \in Callers : d # c => call'[d] = call[d],
         call'[c].at \notin {"idle", "gone"} => call'[c].by \in Processes /\ phase[call'[c].by] \in {"serving", "draining"},
         Reviewed',
         \A i \in Ids : i # OpOf(c) => rows'[i].state = rows[i].state \/ rows'[i].state = J!Absent,
         \A i \in Ids : i # OpOf(c) /\ rows[i].state = "running" => rows'[i].state = "running",
         Runs(c)' => /\ rows'[OpOf(c)].state = "running"
                     /\ \A d \in Callers : Runs(d) /\ OpOf(d) = OpOf(c) => d = c,
         call'[c].at = "ran" => call'[c].outcome \in Outcomes,
         \A d \in Callers : d # c /\ OpOf(d) = OpOf(c) /\ Runs(d) => rows'[OpOf(c)].state = "running",
         journalFaults' = 0 => journalFaults = 0,
         journalFaults' = 0 /\ (\E p \in Processes : phase[p] \in {"serving", "draining"}) => Worked(OpOf(c))'
  PROVE  IInv'
<1>1. Held' /\ Served'
  BY DEF IInv, Held, Served
<1>2. \A d \in Callers : d # c => (Runs(d)' <=> Runs(d)) /\ OpOf(d) \in Ids
  BY CallsApart DEF IInv, Runs
<1>3. Claimed'
  <2>1. \A d \in Callers : Runs(d)' => rows'[OpOf(d)].state = "running"
    <3> SUFFICES ASSUME NEW d \in Callers, Runs(d)', d # c PROVE rows'[OpOf(d)].state = "running"
      OBVIOUS
    <3>1. rows[OpOf(d)].state = "running" /\ Runs(d)
      BY <1>2 DEF IInv, Claimed
    <3> QED BY <1>2, <3>1
  <2>2. \A d \in Callers : call'[d].at = "ran" => call'[d].outcome \in Outcomes
    BY DEF IInv, Claimed
  <2>3. \A d, e \in Callers : Runs(d)' /\ Runs(e)' /\ OpOf(d) = OpOf(e) => d = e
    BY <1>2 DEF IInv, Claimed
  <2> QED BY <2>1, <2>2, <2>3 DEF Claimed, Runs
<1>4. Attended'
  <2> SUFFICES ASSUME journalFaults' = 0, \E p \in Processes : phase[p] \in {"serving", "draining"}, NEW i \in Ids
               PROVE  Worked(i)'
    BY DEF Attended
  <2>1. CASE i = OpOf(c)
    BY <2>1
  <2>2. CASE i # OpOf(c)
    <3>1. Worked(i) /\ (rows'[i].state = rows[i].state \/ rows'[i].state = J!Absent)
      BY <2>2 DEF IInv, Attended
    <3>2. \A d \in Callers : OpOf(d) = i => call'[d] = call[d]
      BY <2>2
    <3> QED BY <3>1, <3>2 DEF Worked, Runs, J!Absent
  <2> QED BY <2>1, <2>2
<1> QED BY <1>1, <1>3, <1>4 DEF IInv

\* A row that stays as it is has whoever works on it, if that was not the caller.
LEMMA RowsStay ==
  ASSUME IInv, NEW c \in Callers, rows' = rows, \A d \in Callers : d # c => call'[d] = call[d],
         call[c].at \notin {"accepted", "turn", "ran"},
         journalFaults = 0, \E p \in Processes : phase[p] \in {"serving", "draining"}
  PROVE  Worked(OpOf(c))'
<1>1. Worked(OpOf(c))
  BY CallsApart DEF IInv, Attended
<1> QED BY <1>1 DEF Worked, Runs

\* A request is sent, or finds nobody; a caller gives up; an answer arrives.
LEMMA AroundStep ==
  ASSUME IInv, NEW c \in Callers, Send(c) \/ TimeOut(c) \/ Receive(c)
  PROVE  IInv'
<1>1. /\ UNCHANGED <<phase, lock, socket, rows, serial, refused, applied, deaths, journalFaults>>
      /\ call[c].at \notin {"accepted", "turn", "ran"} \/ call' = call
  BY DEF Send, TimeOut, Receive
<1>2. /\ call' \in [Callers -> Call] /\ \A d \in Callers : d # c => call'[d] = call[d]
      /\ \/ call' = call
         \/ call'[c].at = "gone"
         \/ call'[c].at = "sent" /\ call'[c].by \in Processes /\ phase[call'[c].by] = "serving"
  <2>1. TypeOK /\ call \in [Callers -> Call] /\ "gone" \in Steps
    BY CallsApart DEF IInv, Steps
  <2>2. CASE Stage(c, "gone")
    BY <2>1, <2>2, StageOf
  <2>3. CASE TimeOut(c)
    BY <2>1, <2>3 DEF TimeOut
  <2>4. ASSUME NEW p \in Processes, phase[p] = "serving",
               call' = [call EXCEPT ![c] = [Idle EXCEPT !.at = "sent", !.by = p]]
        PROVE  /\ call' \in [Callers -> Call] /\ \A d \in Callers : d # c => call'[d] = call[d]
               /\ call'[c].at = "sent" /\ call'[c].by = p
    <3> DEFINE new == [Idle EXCEPT !.at = "sent", !.by = p]
    <3>1. new \in Call /\ new.at = "sent" /\ new.by = p
      BY DEF Idle, Call, Steps, Answers
    <3> HIDE DEF new
    <3>2. call' = [call EXCEPT ![c] = new]
      BY <2>4 DEF new
    <3> QED BY <2>1, <3>1, <3>2
  <2> QED BY <2>2, <2>3, <2>4 DEF Send, Receive
<1>3. TypeOK'
  <2>1. verdict' \in [Callers -> {"none", "yes", "no", "unsure", "refused"}]
    <3>1. TypeOK /\ verdict \in [Callers -> {"none", "yes", "no", "unsure", "refused"}]
      BY DEF IInv, TypeOK
    <3>2. CASE Send(c)
      BY <3>1, <3>2 DEF Send
    <3>3. CASE TimeOut(c)
      BY <3>1, <3>3, HungUpOf DEF TimeOut
    <3>4. CASE Receive(c)
      BY <3>1, <3>4 DEF Receive, Meaning
    <3> QED BY <3>2, <3>3, <3>4
  <2> QED BY <1>1, <1>2, <2>1 DEF IInv, TypeOK, Call
<1>4. CASE call' = call
  BY <1>1, <1>3, <1>4 DEF IInv, Held, Served, Reviewed, Claimed, Runs, Attended, Worked
<1>5. CASE call' # call
  <2>1. /\ call'[c].at \in {"gone", "sent"} /\ call[c].at \notin {"accepted", "turn", "ran"}
        /\ call'[c].at = "sent" => call'[c].by \in Processes /\ phase[call'[c].by] = "serving"
    BY <1>1, <1>2, <1>5
  <2>2. Reviewed' /\ serial' \in Nat /\ journalFaults' \in Nat
    BY <1>1 DEF IInv, Reviewed
  <2>3. \A d \in Callers : Runs(d) => rows'[OpOf(d)].state = "running"
    BY <1>1 DEF IInv, Claimed
  <2>4. ~ Runs(c)'
    BY <2>1 DEF Runs
  <2>5. journalFaults' = 0 /\ (\E p \in Processes : phase[p] \in {"serving", "draining"}) => Worked(OpOf(c))'
    BY <1>1, <1>2, <2>1, RowsStay
  <2> QED BY <1>1, <1>2, <1>3, <2>1, <2>2, <2>3, <2>4, <2>5, CallerStep
<1> QED BY <1>4, <1>5

\* An operation is taken on, answered from its row, or refused.
LEMMA AcceptStep ==
  ASSUME IInv, NEW c \in Callers, Accept(c)
  PROVE  IInv'
<1> DEFINE i == OpOf(c)
<1>1. /\ call[c].at = "sent" /\ UNCHANGED <<phase, lock, socket, verdict, refused, applied, deaths>>
      /\ call[c].by \in Processes /\ phase[call[c].by] \in {"serving", "draining"} /\ i \in Ids /\ TypeOK
  BY CallsApart DEF Accept, IInv, Served
<1>2. journalFaults' \in Nat /\ (journalFaults' = 0 => journalFaults = 0)
  BY DEF Accept, Journalled, Refuses, IInv
<1>3. \A d \in Callers : Runs(d) => d # c /\ OpOf(d) \in Ids /\ rows[OpOf(d)].state = "running"
  BY <1>1, CallsApart DEF IInv, Claimed, Runs
<1>4. CASE rows' = rows /\ serial' = serial
  <2>1. /\ call' \in [Callers -> Call] /\ call'[c].by = call[c].by
        /\ \A d \in Callers : d # c => call'[d] = call[d]
        /\ call'[c].at \in {"accepted", "answered"}
    <3>1. \/ Stage(c, "accepted")
          \/ \E a \in Answers : Answer(c, a)
      <4>1. J!Duplicate(rows, i) /\ ~ TakenOn(i) => rows[i].state \in Answers
        BY <1>1 DEF J!Duplicate, TakenOn, IInv, Reviewed, Legal, Answers
      <4>2. "refused" \in Answers
        BY DEF Answers
      <4> QED BY <4>1, <4>2 DEF Accept
    <3>2. "accepted" \in Steps
      BY DEF Steps
    <3> QED BY <1>1, <3>1, <3>2, StageOf, AnswerOf
  <2>2. TypeOK'
    BY <1>1, <1>4, <2>1 DEF TypeOK, Call
  <2>3. Reviewed' /\ serial' \in Nat
    BY <1>4 DEF IInv, Reviewed
  <2>4. journalFaults' = 0 /\ (\E p \in Processes : phase[p] \in {"serving", "draining"}) => Worked(i)'
    BY <1>1, <1>2, <1>4, <2>1, RowsStay
  <2>5. ~ Runs(c)'
    BY <2>1 DEF Runs
  <2> QED BY <1>1, <1>2, <1>3, <1>4, <2>1, <2>2, <2>3, <2>4, <2>5, CallerStep
<1>5. CASE /\ ~ J!Duplicate(rows, i) /\ rows' = J!Insert(rows, i, serial, RequestOf(i)) /\ serial' = serial + 1
           /\ Stage(c, "accepted")
  <2>1. /\ call' \in [Callers -> Call] /\ call'[c].by = call[c].by /\ call'[c].at = "accepted"
        /\ \A d \in Callers : d # c => call'[d] = call[d]
    BY <1>1, <1>5, StageOf DEF Steps
  <2>2. /\ rows' \in [Ids -> J!Row] /\ rows'[i].state = "pending" /\ rows'[i].req.policy = "review"
        /\ \A j \in Ids : j # i => rows'[j] = rows[j] \/ (rows'[j] = J!NoRow /\ rows[j].state \in J!Terminal)
    BY <1>1, <1>5, InsertedRow DEF IInv
  <2>3. TypeOK' /\ serial' \in Nat
    <3>1. serial \in Nat
      BY DEF IInv
    <3>2. TypeOK'
      BY <1>1, <2>1, <2>2 DEF TypeOK, Call
    <3> QED BY <1>5, <3>1, <3>2
  <2>4. Reviewed'
    BY <2>2, RowsApart DEF IInv, Reviewed, Legal
  <2>5. /\ \A j \in Ids : j # i => rows'[j].state = rows[j].state \/ rows'[j].state = J!Absent
        /\ \A j \in Ids : j # i /\ rows[j].state = "running" => rows'[j].state = "running"
    BY <2>2, RowsApart
  <2>6. \A d \in Callers : Runs(d) => OpOf(d) # i
    BY <1>3, <1>5 DEF J!Duplicate, J!Absent
  <2>7. Worked(i)' /\ ~ Runs(c)'
    BY <2>1, <2>2 DEF Worked, Runs
  <2> QED BY <1>1, <1>2, <1>3, <2>1, <2>3, <2>4, <2>5, <2>6, <2>7, CallerStep
<1> QED BY <1>4, <1>5 DEF Accept

\* Of the callers that took it on, one moves the row to running.
LEMMA ClaimStep ==
  ASSUME IInv, NEW c \in Callers, Claim(c)
  PROVE  IInv'
<1> DEFINE i == OpOf(c)
<1>1. /\ call[c].at = "accepted" /\ UNCHANGED <<phase, lock, socket, serial, verdict, refused, applied, deaths>>
      /\ call[c].by \in Processes /\ phase[call[c].by] \in {"serving", "draining"} /\ i \in Ids /\ TypeOK
      /\ ~ Runs(c)
  BY CallsApart DEF Claim, IInv, Served, Runs
<1>2. journalFaults' \in Nat /\ (journalFaults' = 0 => journalFaults = 0)
  BY DEF Claim, Journalled, Refuses, IInv
<1>3. \A d \in Callers : Runs(d) => d # c /\ OpOf(d) \in Ids /\ rows[OpOf(d)].state = "running"
  BY <1>1, CallsApart DEF IInv, Claimed
<1>4. CASE Claims(i) /\ rows' = J!Move(rows, i, "running") /\ Stage(c, "turn")
  <2>1. /\ call' \in [Callers -> Call] /\ call'[c].by = call[c].by /\ call'[c].at = "turn"
        /\ \A d \in Callers : d # c => call'[d] = call[d]
    BY <1>1, <1>4, StageOf DEF Steps
  <2>2. /\ rows' \in [Ids -> J!Row] /\ rows'[i].state = "running" /\ rows'[i].req = rows[i].req
        /\ \A j \in Ids : j # i => rows'[j] = rows[j]
    BY <1>1, <1>4, MovedRow DEF Legal
  <2>3. TypeOK'
    BY <1>1, <2>1, <2>2 DEF TypeOK, Call
  <2>4. rows[i].state = "pending"
    BY <1>4 DEF Claims, J!CanMove
  <2>5. Reviewed' /\ serial' \in Nat
    BY <1>1, <2>2, <2>4 DEF IInv, Reviewed, Legal, J!Absent
  <2>6. \A d \in Callers : Runs(d) => OpOf(d) # i
    BY <1>3, <2>4
  <2>7. Worked(i)' /\ Runs(c)'
    BY <2>1, <2>2 DEF Worked, Runs
  <2> QED BY <1>1, <1>2, <1>3, <2>1, <2>2, <2>3, <2>5, <2>6, <2>7, CallerStep
<1>5. CASE (Claims(i) => journalFaults' # 0) /\ Answer(c, "uncertain") /\ rows' = rows
  <2>1. /\ call' \in [Callers -> Call] /\ call'[c].by = call[c].by /\ call'[c].at = "answered"
        /\ \A d \in Callers : d # c => call'[d] = call[d]
    BY <1>1, <1>5, AnswerOf DEF Answers
  <2>2. TypeOK' /\ Reviewed' /\ serial' \in Nat
    BY <1>1, <1>5, <2>1 DEF IInv, TypeOK, Call, Reviewed
  <2>3. ASSUME journalFaults' = 0, \E p \in Processes : phase[p] \in {"serving", "draining"} PROVE Worked(i)'
    <3>1. rows[i].state # "pending"
      BY <1>1, <1>5, <2>3 DEF Claims, J!CanMove, J!Edges
    <3>2. Worked(i)
      BY <1>1, <1>2, <2>3 DEF IInv, Attended
    <3> QED BY <1>1, <1>5, <2>1, <3>1, <3>2 DEF Worked, Runs
  <2>4. ~ Runs(c)'
    BY <2>1 DEF Runs
  <2> QED BY <1>1, <1>2, <1>3, <1>5, <2>1, <2>2, <2>3, <2>4, CallerStep
<1>6. Refuses => journalFaults' # 0
  BY DEF Refuses, IInv
<1> QED BY <1>4, <1>5, <1>6 DEF Claim

\* The module's turn.
LEMMA TransitionStep ==
  ASSUME IInv, NEW c \in Callers, Transition(c)
  PROVE  IInv'
<1> DEFINE i == OpOf(c)
<1>1. /\ call[c].at = "turn" /\ i \in Ids /\ TypeOK
      /\ UNCHANGED <<phase, lock, socket, rows, serial, verdict, deaths, journalFaults>>
      /\ call[c].by \in Processes /\ phase[call[c].by] \in {"serving", "draining"} /\ Runs(c)
  BY CallsApart DEF Transition, IInv, Served, Runs
<1>2. /\ call' \in [Callers -> Call] /\ call'[c].by = call[c].by /\ call'[c].at = "ran"
      /\ call'[c].outcome \in Outcomes /\ \A d \in Callers : d # c => call'[d] = call[d]
  <2>1. PICK o \in Outcomes : call' = [call EXCEPT ![c].at = "ran", ![c].outcome = o]
    BY DEF Transition, Outcome, Expired, Outcomes
  <2> DEFINE new == [call[c] EXCEPT !.at = "ran", !.outcome = o]
  <2>2. call \in [Callers -> Call] /\ call[c] \in Call /\ call' = [call EXCEPT ![c] = new]
    BY <1>1, <2>1, CallsApart
  <2>3. new \in Call /\ new.at = "ran" /\ new.outcome = o /\ new.by = call[c].by
    BY <2>2 DEF Call, Steps
  <2> HIDE DEF new
  <2> QED BY <2>1, <2>2, <2>3
<1>3. TypeOK'
  <2>1. applied' \in Seq(Ids) /\ refused' \subseteq Ids
    <3>1. applied \in Seq(Ids) /\ refused \subseteq Ids /\ (applied' = applied \/ applied' = Append(applied, i))
          /\ (refused' = refused \/ refused' = refused \cup {i})
      BY <1>1 DEF Transition, TypeOK
    <3>2. Append(applied, i) \in Seq(Ids)
      BY <1>1, <3>1, AppendProperties
    <3> QED BY <1>1, <3>1, <3>2
  <2> QED BY <1>1, <1>2, <2>1 DEF TypeOK, Call
<1>4. Reviewed' /\ serial' \in Nat /\ journalFaults' \in Nat
  BY <1>1 DEF IInv, Reviewed
<1>5. \A d \in Callers : Runs(d) => OpOf(d) \in Ids /\ rows[OpOf(d)].state = "running" /\ (OpOf(d) = i => d = c)
  BY <1>1, CallsApart DEF IInv, Claimed
<1>6. Worked(i)'
  BY <1>1, <1>2, <1>5 DEF Worked, Runs
<1> QED BY <1>1, <1>2, <1>3, <1>4, <1>5, <1>6, CallerStep

\* What became of it is recorded, or is told as unknown.
LEMMA SettleStep ==
  ASSUME IInv, NEW c \in Callers, Settle(c)
  PROVE  IInv'
<1> DEFINE i == OpOf(c)
<1>1. /\ call[c].at = "ran" /\ i \in Ids /\ TypeOK
      /\ UNCHANGED <<phase, lock, socket, serial, verdict, refused, applied, deaths>>
      /\ call[c].by \in Processes /\ phase[call[c].by] \in {"serving", "draining"} /\ Runs(c)
      /\ call[c].outcome \in Outcomes
  BY CallsApart DEF Settle, IInv, Served, Runs, Claimed
<1>2. \A d \in Callers : Runs(d) => OpOf(d) \in Ids /\ rows[OpOf(d)].state = "running" /\ (OpOf(d) = i => d = c)
  BY <1>1, CallsApart DEF IInv, Claimed
<1>3. Outcomes \subseteq Answers \cap Legal /\ "uncertain" \in Answers
  BY DEF Outcomes, Answers, Legal
<1>4. CASE rows' = J!Move(rows, i, call[c].outcome) /\ Answer(c, call[c].outcome) /\ journalFaults' = journalFaults
  <2>1. /\ call' \in [Callers -> Call] /\ call'[c].by = call[c].by /\ call'[c].at = "answered"
        /\ \A d \in Callers : d # c => call'[d] = call[d]
    BY <1>1, <1>3, <1>4, AnswerOf
  <2>2. /\ rows' \in [Ids -> J!Row] /\ rows'[i].state = call[c].outcome /\ rows'[i].req = rows[i].req
        /\ \A j \in Ids : j # i => rows'[j] = rows[j]
    BY <1>1, <1>3, <1>4, MovedRow
  <2>3. TypeOK'
    BY <1>1, <2>1, <2>2 DEF TypeOK, Call
  <2>4. Reviewed' /\ serial' \in Nat /\ journalFaults' \in Nat
    BY <1>1, <1>2, <1>3, <1>4, <2>2 DEF IInv, Reviewed, J!Absent
  <2>5. Worked(i)' /\ ~ Runs(c)'
    BY <1>1, <2>1, <2>2 DEF Worked, Runs, Outcomes
  <2> QED BY <1>1, <1>2, <1>4, <2>1, <2>2, <2>3, <2>4, <2>5, CallerStep
<1>5. CASE Refuses /\ Answer(c, Unrecorded(c)) /\ rows' = rows
  <2>1. /\ call' \in [Callers -> Call] /\ call'[c].by = call[c].by /\ call'[c].at = "answered"
        /\ \A d \in Callers : d # c => call'[d] = call[d]
    BY <1>1, <1>3, <1>5, AnswerOf DEF Unrecorded
  <2>2. TypeOK' /\ Reviewed' /\ serial' \in Nat
    BY <1>1, <1>5, <2>1 DEF IInv, TypeOK, Call, Reviewed
  <2>3. journalFaults' \in Nat /\ journalFaults' # 0
    BY <1>5 DEF Refuses, IInv
  <2>4. ~ Runs(c)'
    BY <2>1 DEF Runs
  <2> QED BY <1>1, <1>2, <1>5, <2>1, <2>2, <2>3, <2>4, CallerStep
<1> QED BY <1>4, <1>5 DEF Settle, Journalled

\* A user closes what is uncertain: nobody works on it.
LEMMA DiscardStep ==
  ASSUME IInv, NEW i \in Ids, Discard(i)
  PROVE  IInv'
<1>1. /\ rows[i].state = "uncertain" /\ rows' = J!Move(rows, i, "discarded") /\ TypeOK
      /\ UNCHANGED <<phase, lock, socket, serial, call, verdict, refused, applied, deaths, journalFaults>>
  BY DEF Discard, J!CanMove, IInv
<1>2. /\ rows' \in [Ids -> J!Row] /\ rows'[i].state = "discarded" /\ rows'[i].req = rows[i].req
      /\ \A j \in Ids : j # i => rows'[j] = rows[j]
  BY <1>1, MovedRow DEF Legal
<1>3. TypeOK' /\ Held' /\ Served'
  BY <1>1, <1>2 DEF IInv, TypeOK, Held, Served
<1>4. Reviewed'
  BY <1>1, <1>2 DEF IInv, Reviewed, Legal, J!Absent
<1>5. Claimed'
  <2>1. \A c \in Callers : Runs(c) => OpOf(c) \in Ids /\ OpOf(c) # i
    BY <1>1, CallsApart DEF IInv, Claimed
  <2> QED BY <1>1, <1>2, <2>1 DEF IInv, Claimed, Runs
<1>6. Attended'
  BY <1>1, <1>2 DEF IInv, Attended, Worked, Runs
<1> QED BY <1>1, <1>3, <1>4, <1>5, <1>6 DEF IInv

-----------------------------------------------------------------------------
(* The invariant of the specification.                                      *)

\* At first nobody is up and nothing was asked.
LEMMA InitIInv == Init => IInv
<1> SUFFICES ASSUME Init PROVE IInv
  OBVIOUS
<1>1. TypeOK
  <2>1. /\ phase \in [Processes -> Phases] /\ verdict \in [Callers -> {"none", "yes", "no", "unsure", "refused"}]
        /\ applied \in Seq(Ids) /\ lock = Nobody /\ socket = Nobody /\ refused = {}
    BY DEF Init, Phases
  <2>2. rows \in [Ids -> J!Row]
    BY RowsApart DEF Init, J!EmptyTable
  <2>3. call \in [Callers -> Call]
    BY DEF Init, Idle, Call, Steps, Answers
  <2> QED BY <2>1, <2>2, <2>3 DEF TypeOK, Call
<1>2. \A i \in Ids : rows[i].state = J!Absent
  BY RowsApart DEF Init, J!EmptyTable
<1>3. Held /\ Served /\ Claimed /\ Reviewed /\ Attended
  BY <1>2 DEF Init, Idle, Held, Served, Claimed, Runs, Reviewed, Attended
<1> QED BY <1>1, <1>3 DEF Init, IInv

\* Every step keeps it.
LEMMA StepIInv == IInv /\ [Next]_vars => IInv'
<1> SUFFICES ASSUME IInv, [Next]_vars PROVE IInv'
  OBVIOUS
<1>1. CASE \E p \in Processes : Lock(p) \/ Bind(p) \/ Recover(p) \/ Shutdown(p) \/ Wait(p) \/ Unlock(p) \/ Die(p)
  BY <1>1, ComesUp, ShutdownStep, GoesDown
<1>2. CASE \E c \in Callers : Send(c) \/ TimeOut(c) \/ Accept(c) \/ Claim(c) \/ Transition(c) \/ Settle(c) \/ Receive(c)
  BY <1>2, AroundStep, AcceptStep, ClaimStep, TransitionStep, SettleStep
<1>3. CASE \E i \in Ids : Discard(i)
  BY <1>3, DiscardStep
<1>4. CASE UNCHANGED vars
  BY <1>4 DEF vars, IInv, TypeOK, Held, Served, Reviewed, Claimed, Runs, Attended, Worked
<1> QED BY <1>1, <1>2, <1>3, <1>4 DEF Next

\* The invariant holds of every behaviour.
THEOREM Inductive == Spec => []IInv
BY InitIInv, StepIInv, PTL DEF Spec

\* One process at a time is between its start and its end, only a process that
\* serves or drains has operations in hand, and while the journal works nothing
\* stays open without a request that works on it, whoever was killed
\* (service.go, ownerlock, sockclaim).
THEOREM OwnerIsSafe == Spec => []OwnerSafe
<1>1. ASSUME IInv PROVE OneOwner
  <2> DEFINE Up == {p \in Processes : phase[p] \notin {"down"}}
  <2>1. Up \subseteq {lock}
    BY <1>1 DEF IInv, Held
  <2>2. Cardinality(Up) <= 1
    <3>1. IsFiniteSet({lock}) /\ Cardinality({lock}) = 1
      BY FS_Singleton
    <3>2. Cardinality(Up) <= Cardinality({lock})
      BY <2>1, <3>1, FS_Subset
    <3> QED BY <3>1, <3>2
  <2>3. \A c \in Callers : call[c].at \in {"accepted", "turn", "ran"} => phase[call[c].by] \in {"serving", "draining"}
    BY <1>1 DEF IInv, Served
  <2> QED BY <2>2, <2>3 DEF OneOwner
<1>2. ASSUME IInv PROVE OpenIsOwned
  <2> SUFFICES ASSUME NEW p \in Processes, NEW i \in Ids, phase[p] = "serving", journalFaults = 0,
                      rows[i].state \in {"pending", "running"}
               PROVE  \E c \in InHand(p) : OpOf(c) = i /\ call[c].at \in {"accepted", "turn", "ran"}
    BY DEF OpenIsOwned
  <2>1. PICK c \in Callers : OpOf(c) = i /\ call[c].at \in {"accepted", "turn", "ran"}
    BY <1>2 DEF IInv, Attended, Worked, Runs
  <2>2. call[c].by = p
    BY <1>2, <2>1, Alone DEF IInv, Served
  <2> QED BY <2>1, <2>2 DEF InHand
<1>3. IInv => OwnerSafe
  BY <1>1, <1>2 DEF OwnerSafe, IInv
<1> QED BY <1>3, Inductive, PTL

-----------------------------------------------------------------------------
(* The ledger.                                                              *)

\* The journal counts as everybody does.
LEMMA JournalCounts ==
  ASSUME NEW S
  PROVE  J!Cardinality(S) = Cardinality(S)
BY DEF J!Cardinality, Cardinality

\* While the history outlasts the operations nothing is pruned.
LEMMA NothingPruned ==
  ASSUME HistoryOutlasts, rows \in [Ids -> J!Row]
  PROVE  J!Prune(rows) = rows
<1>1. ASSUME NEW i \in Ids PROVE J!Recent(rows, i)
  <2> DEFINE newer == J!Newer(rows, i)
  <2>1. newer \subseteq Ids \ {i}
    <3>1. \A j \in Ids : rows[j].seq \in Nat
      BY DEF J!Row
    <3> QED BY <3>1 DEF J!Newer, J!Retained
  <2>2. IsFiniteSet(Ids \ {i}) /\ Cardinality(Ids \ {i}) = Cardinality(Ids) - 1 /\ Cardinality(Ids) \in Nat
    BY FS_RemoveElement, FS_CardinalityType DEF HistoryOutlasts
  <2>3. Cardinality(newer) <= Cardinality(Ids \ {i}) /\ Cardinality(newer) \in Nat
    BY <2>1, <2>2, FS_Subset, FS_CardinalityType
  <2>4. \A m, n, h \in Nat : m <= n - 1 /\ n <= h => m < h
    OBVIOUS
  <2>5. Cardinality(J!Newer(rows, i)) < RecentHistory
    BY <2>2, <2>3, <2>4 DEF HistoryOutlasts
  <2> QED BY <2>5, JournalCounts DEF J!Recent
<1>2. J!Prune(rows) = [i \in Ids |-> rows[i]]
  BY <1>1 DEF J!Prune, J!Prunable
<1> QED BY <1>2

Over == {"failed", "discarded"}
View == [i \in Ids |-> Fate(i)]
LedgerStep == [Ledger!Next]_<<View, verdict>>

\* The fate of an operation, when nothing was applied twice.
LEMMA FateNow ==
  ASSUME TypeOK, Once, NEW i \in Ids
  PROVE  Fate(i) = IF Did(i) THEN "applied" ELSE IF rows[i].state \in Over THEN "closed" ELSE "open"
<1>1. DOMAIN applied = 1 .. Len(applied)
  <2>1. applied \in Seq(Ids)
    BY DEF TypeOK
  <2> QED BY <2>1
<1>2. ~ \E k, l \in DOMAIN applied : k # l /\ applied[k] = i /\ applied[l] = i
  BY <1>1 DEF Once
<1>3. Did(i) <=> \E k \in DOMAIN applied : applied[k] = i
  BY <1>1 DEF Did
<1> QED BY <1>2, <1>3 DEF Fate, Over

\* The same after a step.
LEMMA FateNext ==
  ASSUME TypeOK', Once', NEW i \in Ids
  PROVE  Fate(i)' = IF Did(i)' THEN "applied" ELSE IF rows'[i].state \in Over THEN "closed" ELSE "open"
<1>1. DOMAIN applied' = 1 .. Len(applied')
  <2>1. applied' \in Seq(Ids)
    BY DEF TypeOK
  <2> QED BY <2>1
<1>2. ~ \E k, l \in DOMAIN applied' : k # l /\ applied'[k] = i /\ applied'[l] = i
  BY <1>1 DEF Once
<1>3. Did(i)' <=> \E k \in DOMAIN applied' : applied'[k] = i
  BY <1>1 DEF Did
<1> QED BY <1>2, <1>3 DEF Fate, Over

\* A step that settles nobody's fate leaves the ledger as it is.
LEMMA NothingHappens ==
  ASSUME TypeOK, Once, TypeOK', Once', applied' = applied,
         \A i \in Ids : ~ Did(i) => (rows'[i].state \in Over <=> rows[i].state \in Over)
  PROVE  View' = View
<1>1. \A i \in Ids : Fate(i)' = Fate(i)
  <2>1. \A i \in Ids : Did(i)' <=> Did(i)
    BY DEF Did
  <2> QED BY <2>1, FateNow, FateNext
<1> QED BY <1>1 DEF View

\* A row that was never applied is closed.
LEMMA OneCloses ==
  ASSUME TypeOK, Once, TypeOK', Once', applied' = applied, verdict' = verdict, NEW i \in Ids,
         rows[i].state \notin Over, rows'[i].state \in Over, \A j \in Ids : j # i => rows'[j] = rows[j]
  PROVE  LedgerStep
<1>1. \A j \in Ids : Did(j)' <=> Did(j)
  BY DEF Did
<1>2. CASE Did(i)
  <2>1. \A j \in Ids : ~ Did(j) => (rows'[j].state \in Over <=> rows[j].state \in Over)
    BY <1>2
  <2>2. View' = View
    BY <2>1, NothingHappens
  <2> QED BY <2>2 DEF LedgerStep
<1>3. CASE ~ Did(i)
  <2>1. Fate(i) = "open" /\ Fate(i)' = "closed" /\ \A j \in Ids : j # i => Fate(j)' = Fate(j)
    BY <1>1, <1>3, FateNow, FateNext
  <2>2. View[i] = "open" /\ View' = [View EXCEPT ![i] = "closed"]
    BY <2>1 DEF View
  <2>3. Ledger!Close(i)
    BY <2>2 DEF Ledger!Close, View
  <2> QED BY <2>3 DEF LedgerStep, Ledger!Next
<1> QED BY <1>2, <1>3

\* An operation is applied.
LEMMA OneApplies ==
  ASSUME TypeOK, Once, TypeOK', Once', rows' = rows, verdict' = verdict, NEW i \in Ids,
         ~ Did(i), rows[i].state \notin Over, \A j \in Ids : Did(j)' <=> (Did(j) \/ j = i)
  PROVE  LedgerStep
<1>1. Fate(i) = "open" /\ Fate(i)' = "applied" /\ \A j \in Ids : j # i => Fate(j)' = Fate(j)
  BY FateNow, FateNext
<1>2. View[i] = "open" /\ View' = [View EXCEPT ![i] = "applied"]
  BY <1>1 DEF View
<1>3. Ledger!Apply(i)
  BY <1>2 DEF Ledger!Apply, View
<1> QED BY <1>3 DEF LedgerStep, Ledger!Next

\* A caller without a verdict is told one that its operation bears out.
LEMMA OneIsTold ==
  ASSUME TypeOK, Once, TypeOK', Once', applied' = applied, rows' = rows, NEW c \in Callers, verdict[c] = "none",
         NEW v \in {"yes", "no", "unsure", "refused"}, verdict' = [verdict EXCEPT ![c] = v],
         v = "yes" => Did(OpOf(c)), v = "no" => ~ Did(OpOf(c)) /\ rows[OpOf(c)].state \in Over
  PROVE  LedgerStep
<1>1. View' = View
  BY NothingHappens
<1>2. OpOf(c) \in Ids
  BY CallsApart
<1>3. (v = "yes" => View[OpOf(c)] = "applied") /\ (v = "no" => View[OpOf(c)] = "closed")
  BY <1>2, FateNow DEF View
<1>4. Ledger!Tell(c, v)
  BY <1>1, <1>3 DEF Ledger!Tell, View
<1> QED BY <1>4 DEF LedgerStep, Ledger!Next

\* Callers are hung up on.
LEMMA SomeGiveUp ==
  ASSUME View' = View, NEW cs \in SUBSET Callers, verdict' = HungUp(cs)
  PROVE  LedgerStep
<1>1. Ledger!GiveUp(cs)
  BY DEF Ledger!GiveUp, HungUp, View
<1> QED BY <1>1 DEF LedgerStep, Ledger!Next

\* A step that applies nothing keeps what the rows and the requests in hand say
\* of what was applied.
LEMMA OnceKept ==
  ASSUME Once, applied' = applied,
         \A i \in Ids : rows'[i].state \in {J!Absent, "pending", "failed"} => ~ Did(i),
         \A i \in Ids : rows'[i].state = "dispatched" => Did(i),
         \A c \in Callers : call'[c].at = "turn" => ~ Did(OpOf(c)),
         \A c \in Callers : call'[c].at = "ran" => (Did(OpOf(c)) <=> call'[c].outcome # "failed")
  PROVE  Once'
<1>1. \A i : Did(i)' <=> Did(i)
  BY DEF Did
<1> QED BY <1>1 DEF Once

\* The life of an owner applies nothing and closes nothing; whoever waited for it
\* knows nothing.
LEMMA LifeLedger ==
  ASSUME IInv, IInv', LInv, NEW p \in Processes,
         Lock(p) \/ Bind(p) \/ Recover(p) \/ Shutdown(p) \/ Wait(p) \/ Unlock(p) \/ Die(p)
  PROVE  LInv' /\ LedgerStep
<1>1. TypeOK /\ TypeOK' /\ Once /\ Told /\ applied' = applied
  BY DEF IInv, LInv, Lock, Bind, Recover, Shutdown, Wait, Unlock, Die
<1>2. \A c \in Callers : call'[c] = call[c] \/ call'[c].at = "gone"
  <2>1. InHand(p) \in SUBSET Callers
    BY DEF InHand
  <2>2. call' = call \/ call' = Cut(InHand(p))
    BY DEF Lock, Bind, Recover, Shutdown, Wait, Unlock, Die
  <2> QED BY <1>1, <2>1, <2>2, CutOf
<1>3. \A i \in Ids : rows'[i].state = rows[i].state
                       \/ (rows'[i].state = "uncertain" /\ rows[i].state \in {"pending", "running"})
  <2>1. rows' = rows \/ rows' = Recovered
    BY DEF Lock, Bind, Recover, Shutdown, Wait, Unlock, Die
  <2>2. Reviewed
    BY DEF IInv
  <2> QED BY <1>1, <2>1, <2>2, RecoveredRows
<1>4. verdict' = verdict \/ verdict' = HungUp(InHand(p))
  BY DEF Lock, Bind, Recover, Shutdown, Wait, Unlock, Die
<1>5. Once'
  <2>1. \A i \in Ids : rows'[i].state \in {J!Absent, "pending", "failed"} => ~ Did(i)
    BY <1>1, <1>3 DEF Once, J!Absent
  <2>2. \A i \in Ids : rows'[i].state = "dispatched" => Did(i)
    BY <1>1, <1>3 DEF Once
  <2>3. \A c \in Callers : call'[c].at = "turn" => ~ Did(OpOf(c))
    BY <1>1, <1>2 DEF Once
  <2>4. \A c \in Callers : call'[c].at = "ran" => (Did(OpOf(c)) <=> call'[c].outcome # "failed")
    BY <1>1, <1>2 DEF Once
  <2> QED BY <1>1, <2>1, <2>2, <2>3, <2>4, OnceKept
<1>6. Told'
  <2>1. \A c \in Callers : call'[c].at = "idle" => verdict'[c] = "none"
    <3>1. \A c \in Callers : call[c].at = "idle" => c \notin InHand(p)
      BY DEF InHand
    <3> QED BY <1>1, <1>2, <1>4, <3>1 DEF Told, HungUp
  <2>2. \A c \in Callers : OpOf(c) \in Ids
    BY <1>1, CallsApart
  <2>3. \A c \in Callers : call'[c].at = "answered" =>
          /\ call'[c].answer = "dispatched" => Did(OpOf(c))
          /\ call'[c].answer = "failed" => rows'[OpOf(c)].state = "failed"
    BY <1>1, <1>2, <1>3, <2>2 DEF Told
  <2> QED BY <1>1, <2>1, <2>3 DEF Told, Did
<1>7. View' = View
  <2>1. \A i \in Ids : rows'[i].state \in Over <=> rows[i].state \in Over
    BY <1>3 DEF Over
  <2> QED BY <1>1, <1>5, <2>1, NothingHappens
<1>8. LedgerStep
  <2>1. CASE verdict' = verdict
    BY <1>7, <2>1 DEF LedgerStep
  <2>2. CASE verdict' = HungUp(InHand(p))
    <3>1. InHand(p) \in SUBSET Callers
      BY DEF InHand
    <3> QED BY <1>7, <2>2, <3>1, SomeGiveUp
  <2> QED BY <1>4, <2>1, <2>2
<1> QED BY <1>5, <1>6, <1>8 DEF LInv

\* A request that is sent, or comes back, changes no fate; a definite answer is borne
\* out by it.
LEMMA AroundLedger ==
  ASSUME IInv, IInv', LInv, NEW c \in Callers, Send(c) \/ TimeOut(c) \/ Receive(c)
  PROVE  LInv' /\ LedgerStep
<1>1. /\ TypeOK /\ TypeOK' /\ Once /\ Told /\ applied' = applied /\ rows' = rows
      /\ OpOf(c) \in Ids /\ call \in [Callers -> Call]
  BY CallsApart DEF IInv, LInv, Send, TimeOut, Receive
<1>2. /\ \A d \in Callers : d # c => call'[d] = call[d]
      /\ call'[c] = call[c] \/ call'[c].at \in {"sent", "gone"}
      /\ call'[c].at = "idle" => call[c].at = "idle" /\ ~ TimeOut(c)
  <2>1. CASE Send(c)
    <3>1. CASE \E p \in Processes : call' = [call EXCEPT ![c] = [Idle EXCEPT !.at = "sent", !.by = p]]
      BY <1>1, <3>1 DEF Idle
    <3>2. CASE Stage(c, "gone")
      BY <1>1, <3>2, StageOf DEF Steps
    <3> QED BY <2>1, <3>1, <3>2 DEF Send
  <2>2. CASE TimeOut(c)
    BY <2>2 DEF TimeOut
  <2>3. CASE Receive(c)
    BY <1>1, <2>3, StageOf DEF Receive, Steps
  <2> QED BY <2>1, <2>2, <2>3
<1>3. \A d \in Callers : d # c => verdict'[d] = verdict[d]
  BY <1>1 DEF Send, TimeOut, Receive, HungUp, TypeOK
<1>4. Once'
  <2>1. \A i \in Ids : rows'[i].state \in {J!Absent, "pending", "failed"} => ~ Did(i)
    BY <1>1 DEF Once
  <2>2. \A i \in Ids : rows'[i].state = "dispatched" => Did(i)
    BY <1>1 DEF Once
  <2>3. \A d \in Callers : call'[d].at = "turn" => ~ Did(OpOf(d))
    BY <1>1, <1>2 DEF Once
  <2>4. \A d \in Callers : call'[d].at = "ran" => (Did(OpOf(d)) <=> call'[d].outcome # "failed")
    BY <1>1, <1>2 DEF Once
  <2> QED BY <1>1, <2>1, <2>2, <2>3, <2>4, OnceKept
<1>5. Told'
  <2>1. \A d \in Callers : call'[d].at = "idle" => verdict'[d] = "none"
    <3>1. call'[c].at = "idle" => verdict'[c] = "none"
      <4>1. CASE Send(c)
        <5>1. call'[c].at # "idle"
          <6>1. CASE \E p \in Processes : call' = [call EXCEPT ![c] = [Idle EXCEPT !.at = "sent", !.by = p]]
            BY <1>1, <6>1 DEF Idle
          <6>2. CASE Stage(c, "gone")
            BY <1>1, <6>2, StageOf DEF Steps
          <6> QED BY <4>1, <6>1, <6>2 DEF Send
        <5> QED BY <5>1
      <4>2. CASE TimeOut(c)
        BY <1>2, <4>2
      <4>3. CASE Receive(c)
        BY <1>1, <4>3, StageOf DEF Receive, Steps
      <4> QED BY <4>1, <4>2, <4>3
    <3> QED BY <1>1, <1>2, <1>3, <3>1 DEF Told
  <2>2. \A d \in Callers : call'[d].at = "answered" =>
          /\ call'[d].answer = "dispatched" => Did(OpOf(d))
          /\ call'[d].answer = "failed" => rows'[OpOf(d)].state = "failed"
    BY <1>1, <1>2 DEF Told
  <2> QED BY <1>1, <2>1, <2>2 DEF Told, Did
<1>6. View' = View
  BY <1>1, <1>4, NothingHappens
<1>7. LedgerStep
  <2>1. CASE verdict' = verdict
    BY <1>6, <2>1 DEF LedgerStep
  <2>2. CASE TimeOut(c)
    <3>1. verdict' = HungUp({c}) /\ {c} \in SUBSET Callers
      BY <2>2 DEF TimeOut
    <3> QED BY <1>6, <3>1, SomeGiveUp
  <2>3. CASE Send(c) /\ verdict' # verdict
    <3>1. verdict[c] = "none" /\ verdict' = [verdict EXCEPT ![c] = "refused"]
      BY <1>1, <2>3 DEF Send, Told
    <3> QED BY <1>1, <1>4, <3>1, OneIsTold
  <2>4. CASE Receive(c) /\ verdict' # verdict
    <3> DEFINE v == Meaning(call[c].answer)
    <3>1. verdict[c] = "none" /\ verdict' = [verdict EXCEPT ![c] = v] /\ call[c].at = "answered"
      BY <2>4 DEF Receive
    <3>2. v \in {"yes", "no", "unsure", "refused"}
      BY DEF Meaning
    <3>3. (v = "yes" => call[c].answer = "dispatched") /\ (v = "no" => call[c].answer = "failed")
      BY DEF Meaning
    <3>4. v = "yes" => Did(OpOf(c))
      BY <1>1, <3>1, <3>3 DEF Told
    <3>5. v = "no" => ~ Did(OpOf(c)) /\ rows[OpOf(c)].state \in Over
      BY <1>1, <3>1, <3>3 DEF Told, Once, Over
    <3> HIDE DEF v
    <3> QED BY <1>1, <1>4, <3>1, <3>2, <3>4, <3>5, OneIsTold
  <2> QED BY <2>1, <2>2, <2>3, <2>4
<1> QED BY <1>4, <1>5, <1>7 DEF LInv

\* A caller brings its operation, is answered from the journal, or is refused.
LEMMA AcceptLedger ==
  ASSUME HistoryOutlasts, IInv, IInv', LInv, NEW c \in Callers, Accept(c)
  PROVE  LInv' /\ LedgerStep
<1> DEFINE i == OpOf(c)
<1>1. /\ TypeOK /\ TypeOK' /\ Once /\ Told /\ applied' = applied /\ verdict' = verdict
      /\ i \in Ids /\ call[c].at = "sent"
  BY CallsApart DEF IInv, LInv, Accept
<1>2. /\ \A d \in Callers : d # c => call'[d] = call[d]
      /\ call'[c].at \in {"accepted", "answered"}
      /\ call'[c].at = "answered" => call'[c].answer = "refused" \/ (call'[c].answer = rows[i].state /\ rows' = rows)
  <2>1. ASSUME Stage(c, "accepted")
        PROVE  call'[c].at = "accepted" /\ \A d \in Callers : d # c => call'[d] = call[d]
    BY <1>1, <2>1, StageOf DEF Steps
  <2>2. ASSUME Answer(c, "refused")
        PROVE  /\ call'[c].at = "answered" /\ call'[c].answer = "refused"
               /\ \A d \in Callers : d # c => call'[d] = call[d]
    BY <1>1, <2>2, AnswerOf DEF Answers
  <2>3. ASSUME Answer(c, rows[i].state), J!Duplicate(rows, i), rows[i].state # "pending"
        PROVE  /\ call'[c].at = "answered" /\ call'[c].answer = rows[i].state
               /\ \A d \in Callers : d # c => call'[d] = call[d]
    <3>1. rows[i].state \in Answers
      BY <1>1, <2>3 DEF IInv, Reviewed, J!Duplicate, Legal, Answers
    <3> QED BY <1>1, <2>3, <3>1, AnswerOf
  <2> QED BY <2>1, <2>2, <2>3 DEF Accept, TakenOn
<1>3. /\ \A j \in Ids : j # i => rows'[j] = rows[j]
      /\ rows'[i] = rows[i] \/ (rows[i].state = J!Absent /\ rows'[i].state = "pending")
  <2>1. CASE rows' = rows
    BY <2>1
  <2>2. CASE ~J!Duplicate(rows, i) /\ rows' = J!Insert(rows, i, serial, RequestOf(i))
    <3> DEFINE new == [state |-> "pending", seq |-> serial, req |-> RequestOf(i)]
    <3>1. rows \in [Ids -> J!Row] /\ J!Prune(rows) = rows
      BY <1>1, NothingPruned DEF TypeOK
    <3>2. rows' = [rows EXCEPT ![i] = new] /\ new.state = "pending"
      BY <2>2, <3>1 DEF J!Insert
    <3> HIDE DEF new
    <3> QED BY <1>1, <2>2, <3>1, <3>2 DEF J!Duplicate
  <2> QED BY <2>1, <2>2 DEF Accept
<1>4. \A j \in Ids : \/ rows'[j] = rows[j]
                     \/ (rows[j].state = J!Absent /\ rows'[j].state = "pending")
  BY <1>3
<1>5. Once'
  <2>1. \A j \in Ids : rows'[j].state \in {J!Absent, "pending", "failed"} => ~ Did(j)
    BY <1>1, <1>4 DEF Once
  <2>2. \A j \in Ids : rows'[j].state = "dispatched" => Did(j)
    BY <1>1, <1>4 DEF Once
  <2>3. \A d \in Callers : call'[d].at = "turn" => ~ Did(OpOf(d))
    BY <1>1, <1>2 DEF Once
  <2>4. \A d \in Callers : call'[d].at = "ran" => (Did(OpOf(d)) <=> call'[d].outcome # "failed")
    BY <1>1, <1>2 DEF Once
  <2> QED BY <1>1, <2>1, <2>2, <2>3, <2>4, OnceKept
<1>6. Told'
  <2>1. \A d \in Callers : call'[d].at = "idle" => verdict'[d] = "none"
    BY <1>1, <1>2 DEF Told
  <2>2. call'[c].at = "answered" =>
          /\ call'[c].answer = "dispatched" => Did(i)
          /\ call'[c].answer = "failed" => rows'[i].state = "failed"
    BY <1>1, <1>2 DEF Once
  <2>3. \A d \in Callers : OpOf(d) \in Ids
    BY <1>1, CallsApart
  <2>4. \A j \in Ids : rows[j].state = "failed" => rows'[j].state = "failed"
    BY <1>4 DEF J!Absent
  <2>5. \A d \in Callers : d # c /\ call'[d].at = "answered" =>
          /\ call'[d].answer = "dispatched" => Did(OpOf(d))
          /\ call'[d].answer = "failed" => rows'[OpOf(d)].state = "failed"
    BY <1>1, <1>2, <2>3, <2>4 DEF Told
  <2> QED BY <1>1, <2>1, <2>2, <2>5 DEF Told, Did
<1>7. LedgerStep
  <2>1. \A j \in Ids : rows'[j].state \in Over <=> rows[j].state \in Over
    BY <1>4 DEF Over, J!Absent
  <2>2. View' = View
    BY <1>1, <1>5, <2>1, NothingHappens
  <2> QED BY <1>1, <2>2 DEF LedgerStep
<1> QED BY <1>5, <1>6, <1>7 DEF LInv

\* Whoever moves the operation to running has it to itself; it was not applied.
LEMMA ClaimLedger ==
  ASSUME IInv, IInv', LInv, NEW c \in Callers, Claim(c)
  PROVE  LInv' /\ LedgerStep
<1> DEFINE i == OpOf(c)
<1>1. /\ TypeOK /\ TypeOK' /\ Once /\ Told /\ applied' = applied /\ verdict' = verdict
      /\ i \in Ids /\ call[c].at = "accepted"
  BY CallsApart DEF IInv, LInv, Claim
<1>2. /\ \A d \in Callers : d # c => call'[d] = call[d]
      /\ \/ call'[c].at = "turn" /\ Claims(i) /\ rows' = J!Move(rows, i, "running")
         \/ call'[c].at = "answered" /\ call'[c].answer = "uncertain" /\ rows' = rows
  <2>1. ASSUME Stage(c, "turn")
        PROVE  call'[c].at = "turn" /\ \A d \in Callers : d # c => call'[d] = call[d]
    BY <1>1, <2>1, StageOf DEF Steps
  <2>2. ASSUME Answer(c, "uncertain")
        PROVE  /\ call'[c].at = "answered" /\ call'[c].answer = "uncertain"
               /\ \A d \in Callers : d # c => call'[d] = call[d]
    BY <1>1, <2>2, AnswerOf DEF Answers
  <2> QED BY <2>1, <2>2 DEF Claim
<1>3. \A j \in Ids : \/ rows'[j].state = rows[j].state
                     \/ (j = i /\ rows[j].state = "pending" /\ rows'[j].state = "running" /\ call'[c].at = "turn")
  <2>1. CASE rows' = rows
    BY <2>1
  <2>2. CASE Claims(i) /\ call'[c].at = "turn" /\ rows' = J!Move(rows, i, "running")
    <3>1. rows[i].state = "pending"
      BY <2>2 DEF Claims, J!CanMove
    <3>2. rows'[i].state = "running" /\ \A j \in Ids : j # i => rows'[j] = rows[j]
      BY <1>1, <2>2, MovedRow DEF Legal
    <3> QED BY <2>2, <3>1, <3>2
  <2> QED BY <1>2, <2>1, <2>2
<1>4. call'[c].at = "turn" => ~ Did(i)
  BY <1>1, <1>2 DEF Claims, J!CanMove, Once
<1>5. Once'
  <2>1. \A j \in Ids : rows'[j].state \in {J!Absent, "pending", "failed"} => ~ Did(j)
    BY <1>1, <1>3 DEF Once, J!Absent
  <2>2. \A j \in Ids : rows'[j].state = "dispatched" => Did(j)
    BY <1>1, <1>3 DEF Once
  <2>3. \A d \in Callers : call'[d].at = "turn" => ~ Did(OpOf(d))
    BY <1>1, <1>2, <1>4 DEF Once
  <2>4. \A d \in Callers : call'[d].at = "ran" => (Did(OpOf(d)) <=> call'[d].outcome # "failed")
    BY <1>1, <1>2 DEF Once
  <2> QED BY <1>1, <2>1, <2>2, <2>3, <2>4, OnceKept
<1>6. Told'
  <2>1. \A d \in Callers : call'[d].at = "idle" => verdict'[d] = "none"
    BY <1>1, <1>2 DEF Told
  <2>2. \A d \in Callers : OpOf(d) \in Ids
    BY <1>1, CallsApart
  <2>3. \A d \in Callers : call'[d].at = "answered" =>
          /\ call'[d].answer = "dispatched" => Did(OpOf(d))
          /\ call'[d].answer = "failed" => rows'[OpOf(d)].state = "failed"
    BY <1>1, <1>2, <1>3, <2>2 DEF Told
  <2> QED BY <1>1, <2>1, <2>3 DEF Told, Did
<1>7. LedgerStep
  <2>1. \A j \in Ids : rows'[j].state \in Over <=> rows[j].state \in Over
    BY <1>3 DEF Over
  <2>2. View' = View
    BY <1>1, <1>5, <2>1, NothingHappens
  <2> QED BY <1>1, <2>2 DEF LedgerStep
<1> QED BY <1>5, <1>6, <1>7 DEF LInv

\* The module applies an operation that is running and was not applied, or does not.
LEMMA TransitionLedger ==
  ASSUME IInv, IInv', LInv, NEW c \in Callers, Transition(c)
  PROVE  LInv' /\ LedgerStep
<1> DEFINE i == OpOf(c)
<1>1. /\ TypeOK /\ TypeOK' /\ Once /\ Told /\ rows' = rows /\ verdict' = verdict
      /\ i \in Ids /\ call[c].at = "turn" /\ ~ Did(i) /\ rows[i].state = "running"
      /\ applied \in Seq(Ids) /\ call \in [Callers -> Call] /\ call[c] \in Call
  BY CallsApart DEF IInv, LInv, Transition, Once, Claimed, Runs, TypeOK
<1>2. PICK o \in Outcomes : call' = [call EXCEPT ![c].at = "ran", ![c].outcome = o]
                            /\ applied' = IF o = "failed" THEN applied ELSE Append(applied, i)
  BY DEF Transition, Outcome, Expired, Outcomes
<1>3. /\ \A d \in Callers : d # c => call'[d] = call[d]
      /\ call'[c].at = "ran" /\ call'[c].outcome = o
  <2> DEFINE new == [call[c] EXCEPT !.at = "ran", !.outcome = o]
  <2>1. call' = [call EXCEPT ![c] = new] /\ new.at = "ran" /\ new.outcome = o
    BY <1>1, <1>2 DEF Call
  <2> HIDE DEF new
  <2> QED BY <1>1, <2>1
<1>4. \A d \in Callers : d # c /\ call[d].at \in {"turn", "ran"} => OpOf(d) # i
  BY <1>1 DEF IInv, Claimed, Runs
<1>5. \A d \in Callers : OpOf(d) \in Ids
  BY <1>1, CallsApart
<1>6. ASSUME \A j \in Ids : Did(j)' <=> (Did(j) \/ (j = i /\ o # "failed")),
             \A k, l \in 1 .. Len(applied') : applied'[k] = applied'[l] => k = l
      PROVE  LInv'
  <2>1. \A j \in Ids : (rows'[j].state \in {J!Absent, "pending", "failed"} => ~ Did(j)')
                       /\ (rows'[j].state = "dispatched" => Did(j)')
    BY <1>1, <1>6 DEF Once, J!Absent
  <2>2. \A d \in Callers : call'[d].at = "turn" => ~ Did(OpOf(d))'
    BY <1>1, <1>3, <1>4, <1>5, <1>6 DEF Once
  <2>3. \A d \in Callers : call'[d].at = "ran" => (Did(OpOf(d))' <=> call'[d].outcome # "failed")
    BY <1>1, <1>3, <1>4, <1>5, <1>6 DEF Once
  <2>4. Once'
    BY <1>6, <2>1, <2>2, <2>3 DEF Once
  <2>5. \A d \in Callers : call'[d].at = "idle" => verdict'[d] = "none"
    BY <1>1, <1>3 DEF Told
  <2>6. \A d \in Callers : call'[d].at = "answered" =>
          /\ call'[d].answer = "dispatched" => Did(OpOf(d))'
          /\ call'[d].answer = "failed" => rows'[OpOf(d)].state = "failed"
    BY <1>1, <1>3, <1>5, <1>6 DEF Told
  <2> QED BY <2>4, <2>5, <2>6 DEF LInv, Told
<1>7. CASE o = "failed"
  <2>1. applied' = applied
    BY <1>2, <1>7
  <2>2. \A j \in Ids : Did(j)' <=> (Did(j) \/ (j = i /\ o # "failed"))
    BY <1>7, <2>1 DEF Did
  <2>3. \A k, l \in 1 .. Len(applied') : applied'[k] = applied'[l] => k = l
    BY <1>1, <2>1 DEF Once
  <2>4. LInv'
    BY <1>6, <2>2, <2>3
  <2>5. View' = View
    BY <1>1, <2>1, <2>4, NothingHappens DEF LInv
  <2> QED BY <1>1, <2>4, <2>5 DEF LedgerStep
<1>8. CASE o # "failed"
  <2>1. /\ Len(applied') = Len(applied) + 1 /\ applied'[Len(applied) + 1] = i
        /\ \A k \in 1 .. Len(applied) : applied'[k] = applied[k]
        /\ Len(applied) \in Nat
    BY <1>1, <1>2, <1>8, AppendProperties, LenProperties
  <2>2. \A k \in 1 .. Len(applied') : k \in 1 .. Len(applied) \/ k = Len(applied) + 1
    BY <2>1
  <2>3. Len(applied) + 1 \in 1 .. Len(applied') /\ \A k \in 1 .. Len(applied) : k \in 1 .. Len(applied')
    BY <2>1
  <2>4. \A j \in Ids : Did(j)' <=> (Did(j) \/ (j = i /\ o # "failed"))
    BY <1>8, <2>1, <2>2, <2>3 DEF Did
  <2>5. ASSUME NEW k \in 1 .. Len(applied'), NEW l \in 1 .. Len(applied'), applied'[k] = applied'[l]
        PROVE  k = l
    <3>1. \A m \in 1 .. Len(applied) : applied[m] # i
      BY <1>1 DEF Did
    <3> QED BY <1>1, <2>1, <2>2, <2>5, <3>1 DEF Once
  <2>6. LInv'
    BY <1>6, <2>4, <2>5
  <2>7. \A j \in Ids : Did(j)' <=> (Did(j) \/ j = i)
    BY <1>8, <2>4
  <2>8. rows[i].state \notin Over /\ Once'
    BY <1>1, <2>6 DEF Over, LInv
  <2> QED BY <1>1, <2>6, <2>7, <2>8, OneApplies
<1> QED BY <1>7, <1>8

\* What became of the operation is written down: if it was not applied, it is closed.
LEMMA SettleLedger ==
  ASSUME IInv, IInv', LInv, NEW c \in Callers, Settle(c)
  PROVE  LInv' /\ LedgerStep
<1> DEFINE i == OpOf(c)
           o == call[c].outcome
<1>1. /\ TypeOK /\ TypeOK' /\ Once /\ Told /\ applied' = applied /\ verdict' = verdict
      /\ i \in Ids /\ call[c].at = "ran" /\ rows[i].state = "running"
      /\ o \in Outcomes /\ (Did(i) <=> o # "failed")
  BY CallsApart DEF IInv, LInv, Settle, Claimed, Runs, Once
<1>2. /\ \A d \in Callers : d # c => call'[d] = call[d]
      /\ call'[c].at = "answered"
      /\ \/ call'[c].answer = o /\ rows' = J!Move(rows, i, o)
         \/ call'[c].answer = "uncertain" /\ rows' = rows
  <2>1. ASSUME NEW a \in {o, "uncertain"}, Answer(c, a)
        PROVE  /\ call'[c].at = "answered" /\ call'[c].answer = a
               /\ \A d \in Callers : d # c => call'[d] = call[d]
    <3>1. a \in Answers
      BY <1>1 DEF Outcomes, Answers
    <3> QED BY <1>1, <2>1, <3>1, AnswerOf
  <2> QED BY <2>1 DEF Settle, Unrecorded
<1>3. /\ \A j \in Ids : j # i => rows'[j] = rows[j]
      /\ rows'[i].state = o \/ (rows'[i].state = "running" /\ rows' = rows)
      /\ call'[c].answer = "failed" => rows'[i].state = "failed"
  <2>1. CASE call'[c].answer = "uncertain" /\ rows' = rows
    BY <1>1, <2>1
  <2>2. CASE call'[c].answer = o /\ rows' = J!Move(rows, i, o)
    <3>1. o \in Legal
      BY <1>1 DEF Outcomes, Legal
    <3> QED BY <1>1, <2>2, <3>1, MovedRow
  <2> QED BY <1>2, <2>1, <2>2
<1>4. Once'
  <2>1. \A j \in Ids : rows'[j].state \in {J!Absent, "pending", "failed"} => ~ Did(j)
    BY <1>1, <1>3 DEF Once, Outcomes, J!Absent
  <2>2. \A j \in Ids : rows'[j].state = "dispatched" => Did(j)
    BY <1>1, <1>3 DEF Once, Outcomes
  <2>3. \A d \in Callers : call'[d].at = "turn" => ~ Did(OpOf(d))
    BY <1>1, <1>2 DEF Once
  <2>4. \A d \in Callers : call'[d].at = "ran" => (Did(OpOf(d)) <=> call'[d].outcome # "failed")
    BY <1>1, <1>2 DEF Once
  <2> QED BY <1>1, <2>1, <2>2, <2>3, <2>4, OnceKept
<1>5. Told'
  <2>1. \A d \in Callers : call'[d].at = "idle" => verdict'[d] = "none"
    BY <1>1, <1>2 DEF Told
  <2>2. \A d \in Callers : OpOf(d) \in Ids
    BY <1>1, CallsApart
  <2>3. \A j \in Ids : rows[j].state = "failed" => rows'[j].state = "failed"
    BY <1>1, <1>3
  <2>4. call'[c].answer = "dispatched" => Did(i)
    BY <1>1, <1>2
  <2>5. \A d \in Callers : call'[d].at = "answered" =>
          /\ call'[d].answer = "dispatched" => Did(OpOf(d))
          /\ call'[d].answer = "failed" => rows'[OpOf(d)].state = "failed"
    BY <1>1, <1>2, <1>3, <2>2, <2>3, <2>4 DEF Told
  <2> QED BY <1>1, <2>1, <2>5 DEF Told, Did
<1>6. LedgerStep
  <2>1. CASE o = "failed" /\ rows'[i].state = o
    <3>1. rows[i].state \notin Over /\ rows'[i].state \in Over
      BY <1>1, <2>1 DEF Over
    <3> QED BY <1>1, <1>3, <1>4, <3>1, OneCloses
  <2>2. CASE o # "failed" \/ rows' = rows
    <3>1. \A j \in Ids : ~ Did(j) => (rows'[j].state \in Over <=> rows[j].state \in Over)
      BY <1>1, <1>3, <2>2
    <3>2. View' = View
      BY <1>1, <1>4, <3>1, NothingHappens
    <3> QED BY <1>1, <3>2 DEF LedgerStep
  <2> QED BY <1>3, <2>1, <2>2
<1> QED BY <1>4, <1>5, <1>6 DEF LInv

\* A user who closes what is uncertain closes what was not applied, and changes
\* nothing about what was.
LEMMA DiscardLedger ==
  ASSUME IInv, IInv', LInv, NEW i \in Ids, Discard(i)
  PROVE  LInv' /\ LedgerStep
<1>1. /\ TypeOK /\ TypeOK' /\ Once /\ Told /\ applied' = applied /\ verdict' = verdict /\ call' = call
      /\ rows[i].state = "uncertain" /\ rows' = J!Move(rows, i, "discarded")
  BY DEF IInv, LInv, Discard, J!CanMove
<1>2. rows'[i].state = "discarded" /\ \A j \in Ids : j # i => rows'[j] = rows[j]
  BY <1>1, MovedRow DEF Legal
<1>3. Once'
  <2>1. \A j \in Ids : rows'[j].state \in {J!Absent, "pending", "failed"} => ~ Did(j)
    BY <1>1, <1>2 DEF Once, J!Absent
  <2>2. \A j \in Ids : rows'[j].state = "dispatched" => Did(j)
    BY <1>1, <1>2 DEF Once
  <2>3. \A d \in Callers : call'[d].at = "turn" => ~ Did(OpOf(d))
    BY <1>1 DEF Once
  <2>4. \A d \in Callers : call'[d].at = "ran" => (Did(OpOf(d)) <=> call'[d].outcome # "failed")
    BY <1>1 DEF Once
  <2> QED BY <1>1, <2>1, <2>2, <2>3, <2>4, OnceKept
<1>4. Told'
  <2>1. \A d \in Callers : OpOf(d) \in Ids
    BY <1>1, CallsApart
  <2>2. \A j \in Ids : rows[j].state = "failed" => rows'[j].state = "failed"
    BY <1>1, <1>2
  <2> QED BY <1>1, <2>1, <2>2 DEF Told, Did
<1>5. LedgerStep
  <2>1. rows[i].state \notin Over /\ rows'[i].state \in Over
    BY <1>1, <1>2 DEF Over
  <2> QED BY <1>1, <1>2, <1>3, <2>1, OneCloses
<1> QED BY <1>3, <1>4, <1>5 DEF LInv

\* At first nothing was applied and nobody was told anything.
LEMMA InitLInv == Init => LInv /\ Ledger!Init
<1> SUFFICES ASSUME Init PROVE LInv /\ Ledger!Init
  OBVIOUS
<1>1. applied = <<>> /\ Len(applied) = 0 /\ \A i \in Ids : rows[i].state = J!Absent
  BY RowsApart DEF Init, J!EmptyTable
<1>2. \A i \in Ids : ~ Did(i)
  BY <1>1 DEF Did
<1>3. Once
  <2>1. \A c \in Callers : call[c].at = "idle"
    BY DEF Init, Idle
  <2>2. 1 .. Len(applied) = {}
    BY <1>1
  <2> QED BY <1>1, <1>2, <2>1, <2>2 DEF Once, J!Absent
<1>4. Told
  BY DEF Told, Init, Idle
<1>5. \A i \in Ids : Fate(i) = "open"
  BY <1>1, <1>2, <1>3, InitIInv, FateNow DEF IInv, Over, J!Absent
<1> QED BY <1>3, <1>4, <1>5 DEF LInv, Ledger!Init, Init

\* Every step keeps what the ledger needs, and is a step of the ledger or none.
LEMMA StepLedger ==
  ASSUME HistoryOutlasts
  PROVE  IInv /\ IInv' /\ LInv /\ [Next]_vars => LInv' /\ LedgerStep
<1> SUFFICES ASSUME IInv, IInv', LInv, [Next]_vars PROVE LInv' /\ LedgerStep
  OBVIOUS
<1>1. CASE \E p \in Processes : Lock(p) \/ Bind(p) \/ Recover(p) \/ Shutdown(p) \/ Wait(p) \/ Unlock(p) \/ Die(p)
  BY <1>1, LifeLedger
<1>2. CASE \E c \in Callers : Send(c) \/ TimeOut(c) \/ Accept(c) \/ Claim(c) \/ Transition(c) \/ Settle(c) \/ Receive(c)
  BY <1>2, AroundLedger, AcceptLedger, ClaimLedger, TransitionLedger, SettleLedger
<1>3. CASE \E i \in Ids : Discard(i)
  BY <1>3, DiscardLedger
<1>4. CASE UNCHANGED vars
  <2>1. LInv'
    BY <1>4 DEF vars, LInv, Once, Told, Did
  <2>2. View' = View /\ verdict' = verdict
    BY <1>4 DEF vars, View, Fate
  <2> QED BY <2>1, <2>2 DEF LedgerStep
<1> QED BY <1>1, <1>2, <1>3, <1>4 DEF Next

\* The service implements the ledger, for any number of processes, callers, deaths and
\* journal errors: an operation is applied at most once, and no caller is told a
\* definite outcome that is not so or may not stay so, as long as the journal keeps
\* the rows in question (client.go's Call, service.go's handle, action.go's pruning).
THEOREM LedgerHolds ==
  ASSUME HistoryOutlasts
  PROVE  Spec => LedgerSpec
<1>1. Init => LInv /\ Ledger!Init
  BY InitLInv
<1>2. IInv /\ IInv' /\ LInv /\ [Next]_vars => LInv' /\ LedgerStep
  BY StepLedger
<1>3. LedgerStep => [Ledger!Next]_<<[i \in Ids |-> Fate(i)], verdict>>
  BY DEF LedgerStep, View
<1> QED BY <1>1, <1>2, <1>3, Inductive, PTL DEF Spec, LedgerSpec, Ledger!Spec

(***************************************************************************)
(* The recorder.                                                           *)
(***************************************************************************)
CONSTANTS MaxTakes, TakeBudgets, MaxTakeFaults, MaxTakeRestarts, HandVerbs
VARIABLES mod, disk, opened, effects, verb, obs, excused, disputed, taps, faults, restarts
Recorder == INSTANCE RenoRecorder WITH
  MaxRuns <- MaxTakes, Budgets <- TakeBudgets, MaxFaults <- MaxTakeFaults, MaxRestarts <- MaxTakeRestarts
ASSUME RecorderInstance == Recorder!RecorderAssumption

\* While OBS rolls, somebody will stop it: the run's books (stopWorthyLocked) and the face of
\* the pad own the take; a changed configuration reaches a running OBS; an armed rig is watched.
TakeSafe == Recorder!TypeOK /\ Recorder!TakeIsOwned /\ Recorder!KnobReachesObs /\ Recorder!ArmIsWatched

(***************************************************************************)
(* Recorder!IInv is inductive.                                             *)
(***************************************************************************)
LEMMA LeastNat ==
  ASSUME NEW N, N \subseteq Nat, N # {}
  PROVE  \E n \in N : \A m \in N : n <= m
<1>1. PICK n \in N : \A m \in N : ~ (<<m, n>> \in OpToRel(<, Nat))
  BY NatLessThanWellFounded, WFMin
<1>2. \A m \in N : ~ (m < n)
  BY <1>1 DEF OpToRel
<1> QED BY <1>2

\* A function defined by recursion over a finite range of numbers is there.
Upto(m) == 1..m + 1
Follows(g, m, b, F) == g[1] = b /\ \A n \in 2..m + 1 : g[n] = F[<<g[n - 1], n - 1>>]
LEMMA RecursionExists ==
  ASSUME NEW S, NEW M \in Nat, NEW b \in S, NEW F \in [S \X Nat -> S]
  PROVE  \E g \in [Upto(M) -> S] : Follows(g, M, b, F)
<1> DEFINE P(m) == \E g \in [1..m + 1 -> S] : g[1] = b /\ \A n \in 2..m + 1 : g[n] = F[<<g[n - 1], n - 1>>]
           Bad == {m \in Nat : ~P(m)}
<1>1. P(0)
  <2> DEFINE g == [n \in 1..1 |-> b]
  <2>1. g \in [1..0 + 1 -> S] /\ g[1] = b /\ \A n \in 2..0 + 1 : FALSE
    OBVIOUS
  <2> QED BY <2>1
<1>2. ASSUME NEW m \in Nat, P(m) PROVE P(m + 1)
  <2>1. PICK g \in [1..m + 1 -> S] : g[1] = b /\ \A n \in 2..m + 1 : g[n] = F[<<g[n - 1], n - 1>>]
    BY <1>2
  <2> DEFINE h == [n \in 1..(m + 1) + 1 |-> IF n = m + 2 THEN F[<<g[m + 1], m + 1>>] ELSE g[n]]
  <2>2. m + 1 \in 1..m + 1 /\ \A n \in 1..(m + 1) + 1 : n # m + 2 => n \in 1..m + 1
    OBVIOUS
  <2>3. g[m + 1] \in S /\ F[<<g[m + 1], m + 1>>] \in S
    BY <2>2
  <2>4. h \in [1..(m + 1) + 1 -> S]
    BY <2>2, <2>3
  <2>5. \A n \in 1..m + 1 : h[n] = g[n]
    OBVIOUS
  <2>6. h[m + 2] = F[<<g[m + 1], m + 1>>]
    OBVIOUS
  <2> HIDE DEF h
  <2>7. h[1] = b
    BY <2>1, <2>5
  <2>8. \A n \in 2..(m + 1) + 1 : h[n] = F[<<h[n - 1], n - 1>>]
    <3> SUFFICES ASSUME NEW n \in 2..(m + 1) + 1 PROVE h[n] = F[<<h[n - 1], n - 1>>]
      OBVIOUS
    <3>1. n - 1 \in 1..m + 1 /\ h[n - 1] = g[n - 1]
      BY <2>5
    <3>2. CASE n = m + 2
      <4>1. n - 1 = m + 1
        BY <3>2
      <4> QED BY <2>6, <3>1, <3>2, <4>1
    <3>3. CASE n # m + 2
      <4>1. n \in 2..m + 1 /\ n \in 1..m + 1
        BY <3>3
      <4> QED BY <2>1, <2>5, <3>1, <4>1
    <3> QED BY <3>2, <3>3
  <2> QED BY <2>4, <2>7, <2>8
<1>3. Bad = {}
  <2> SUFFICES ASSUME Bad # {} PROVE FALSE
    OBVIOUS
  <2>1. PICK m \in Bad : \A k \in Bad : m <= k
    BY LeastNat
  <2>2. m \in Nat /\ m # 0 /\ ~P(m)
    BY <1>1, <2>1
  <2> HIDE DEF P
  <2>3. m - 1 \in Nat /\ m - 1 \notin Bad
    BY <2>1, <2>2
  <2>4. P(m - 1)
    BY <2>3
  <2> QED BY <1>2, <2>2, <2>4
<1> HIDE DEF P
<1>4. P(M)
  BY <1>3
<1> QED BY <1>4 DEF P, Upto, Follows

RecModules == [run: 0..MaxTakes, live: BOOLEAN, rec: Recorder!Recordings, desired: Nat,
               applying: BOOLEAN, dirty: BOOLEAN, arming: BOOLEAN, armed: BOOLEAN, watch: BOOLEAN]
RecProcs == [kind: Recorder!Verbs, at: Recorder!Steps, run: 0..MaxTakes, config: Nat, final: BOOLEAN, rolling: BOOLEAN]
RecObs == [up: BOOLEAN, rolling: 0..MaxTakes, held: BOOLEAN, config: Nat]

\* What a boundary keeps of a queue can be queued.
LEMMA RecKept == ASSUME NEW queue \in Seq(Recorder!Queueable) PROVE Recorder!Kept(queue) \in Seq(Recorder!Queueable)
<1> DEFINE S == Seq(Recorder!Queueable)
           M == Len(queue)
           Step(g) == [n \in 1..M + 1 |-> IF n = 1 THEN <<>>
                         ELSE IF queue[n - 1].final THEN Append(g[n - 1], queue[n - 1]) ELSE g[n - 1]]
           F == [p \in S \X Nat |-> IF p[2] \in 1..M /\ queue[p[2]].final THEN Append(p[1], queue[p[2]]) ELSE p[1]]
<1>0. M \in Nat /\ <<>> \in S /\ \A n \in 1..M : queue[n] \in Recorder!Queueable
  OBVIOUS
<1>1. F \in [S \X Nat -> S]
  <2> SUFFICES ASSUME NEW p \in S \X Nat PROVE (IF p[2] \in 1..M /\ queue[p[2]].final THEN Append(p[1], queue[p[2]]) ELSE p[1]) \in S
    OBVIOUS
  <2> QED BY <1>0
<1>2. \A s \in S, n \in 1..M : F[<<s, n>>] = IF queue[n].final THEN Append(s, queue[n]) ELSE s
  <2> SUFFICES ASSUME NEW s \in S, NEW n \in 1..M PROVE F[<<s, n>>] = IF queue[n].final THEN Append(s, queue[n]) ELSE s
    OBVIOUS
  <2>1. <<s, n>> \in S \X Nat /\ <<s, n>>[1] = s /\ <<s, n>>[2] = n
    OBVIOUS
  <2> QED BY <2>1
<1>3. PICK g \in [1..M + 1 -> S] : g[1] = <<>> /\ \A n \in 2..M + 1 : g[n] = F[<<g[n - 1], n - 1>>]
  <2> HIDE DEF S, F, M
  <2>1. \E g \in [Upto(M) -> S] : Follows(g, M, <<>>, F)
    BY <1>0, <1>1, RecursionExists
  <2> QED BY <2>1 DEF Upto, Follows
<1>4. \A n \in 2..M + 1 : g[n] = IF queue[n - 1].final THEN Append(g[n - 1], queue[n - 1]) ELSE g[n - 1]
  <2> SUFFICES ASSUME NEW n \in 2..M + 1 PROVE g[n] = IF queue[n - 1].final THEN Append(g[n - 1], queue[n - 1]) ELSE g[n - 1]
    OBVIOUS
  <2>1. n - 1 \in 1..M /\ n - 1 \in 1..M + 1
    BY <1>0
  <2> HIDE DEF S, F, M
  <2>2. g[n - 1] \in S
    BY <2>1
  <2> QED BY <1>2, <1>3, <2>1, <2>2
<1>5. g = Step(g)
  <2>1. \A n \in 1..M + 1 : g[n] = (IF n = 1 THEN <<>>
          ELSE IF queue[n - 1].final THEN Append(g[n - 1], queue[n - 1]) ELSE g[n - 1])
    <3> SUFFICES ASSUME NEW n \in 1..M + 1, n # 1
                 PROVE  g[n] = (IF queue[n - 1].final THEN Append(g[n - 1], queue[n - 1]) ELSE g[n - 1])
      BY <1>3
    <3>1. n \in 2..M + 1
      BY <1>0
    <3> QED BY <1>4, <3>1
  <2>2. g = [n \in 1..M + 1 |-> g[n]]
    BY <1>3
  <2> QED BY ONLY <2>1, <2>2
<1> DEFINE kept == CHOOSE f : f = Step(f)
<1>6. Recorder!Kept(queue) = kept[M + 1]
  BY DEF Recorder!Kept
<1>7. kept = Step(kept)
  <2> HIDE DEF Step
  <2> QED BY <1>5
<1>8. \A n \in 1..M + 1 : kept[n] = IF n = 1 THEN <<>>
        ELSE IF queue[n - 1].final THEN Append(kept[n - 1], queue[n - 1]) ELSE kept[n - 1]
  <2> HIDE DEF kept
  <2> QED BY <1>7
<1> HIDE DEF kept, Step, F
<1>9. \A n \in 1..M + 1 : kept[n] \in S
  <2> DEFINE Bad == {n \in 1..M + 1 : kept[n] \notin S}
  <2> SUFFICES ASSUME Bad # {} PROVE FALSE
    OBVIOUS
  <2>0. Bad \subseteq Nat
    BY <1>0
  <2>1. PICK n \in Bad : \A k \in Bad : n <= k
    <3> HIDE DEF Bad
    <3> QED BY <2>0, LeastNat
  <2>a. n \in 1..M + 1 /\ kept[n] \notin S
    OBVIOUS
  <2>2. n # 1
    BY <1>0, <1>8, <2>a
  <2>3. n - 1 \in 1..M /\ n - 1 \in 1..M + 1 /\ n - 1 < n
    BY <1>0, <2>2
  <2>4. kept[n - 1] \in S
    <3>1. n - 1 \notin Bad
      BY <2>1, <2>3, <1>0
    <3> QED BY <2>3, <3>1
  <2>5. kept[n] = IF queue[n - 1].final THEN Append(kept[n - 1], queue[n - 1]) ELSE kept[n - 1]
    BY <1>8, <2>2, <2>a
  <2>6. queue[n - 1] \in Recorder!Queueable
    BY <1>0, <2>3
  <2>7. Append(kept[n - 1], queue[n - 1]) \in S
    BY <2>4, <2>6, AppendProperties
  <2> HIDE DEF S
  <2> QED BY ONLY <2>a, <2>4, <2>5, <2>7
<1>10. M + 1 \in 1..M + 1
  BY <1>0
<1> QED BY <1>6, <1>9, <1>10

\* What is queued, one effect at a time.
LEMMA RecQueued ==
  ASSUME NEW s \in Seq(Recorder!Queueable), NEW e \in Recorder!Queueable
  PROVE  /\ Append(s, e) \in Seq(Recorder!Queueable) /\ s \o <<e>> = Append(s, e) /\ s \o <<>> = s
         /\ (\E i \in DOMAIN s : s[i].verb = "apply") => (\E i \in DOMAIN Append(s, e) : Append(s, e)[i].verb = "apply")
         /\ e.verb = "apply" => \E i \in DOMAIN Append(s, e) : Append(s, e)[i].verb = "apply"
<1>1. Append(s, e) = s \o <<e>>
  BY AppendIsConcat
<1>2. s \o <<>> = s
  BY ConcatEmptySeq
<1>3. PICK q \in Seq(Recorder!Queueable) : q = Append(s, e)
  BY AppendProperties
<1>4. Len(q) = Len(s) + 1 /\ q[Len(s) + 1] = e /\ \A i \in 1..Len(s) : q[i] = s[i]
  BY <1>3, AppendProperties
<1>5. DOMAIN q = 1..Len(s) + 1 /\ DOMAIN s = 1..Len(s) /\ Len(s) + 1 \in DOMAIN q /\ Len(s) \in Nat
  BY <1>4, LenProperties
<1>6. \A i \in DOMAIN s : i \in DOMAIN q /\ q[i] = s[i]
  BY <1>4, <1>5
<1> QED BY <1>1, <1>2, <1>3, <1>4, <1>5, <1>6

LEMMA RecOne == ASSUME NEW e \in Recorder!Queueable PROVE <<e>> \in Seq(Recorder!Queueable) /\ <<>> \in Seq(Recorder!Queueable)
OBVIOUS

LEMMA RecEffects ==
  /\ \A r \in Recorder!Runs : Recorder!Effect("stop", r, TRUE) \in Recorder!Queueable /\ Recorder!Effect("record", r, FALSE) \in Recorder!Queueable
  /\ \A kind \in {"apply", "arm", "release"}, r \in 0..MaxTakes : Recorder!Effect(kind, r, FALSE) \in Recorder!Queueable
  /\ Recorder!Effect("apply", 0, FALSE) \in Recorder!Queueable /\ Recorder!Effect("arm", 0, FALSE) \in Recorder!Queueable
  /\ \A kind, r, final : Recorder!Effect(kind, r, final).verb = kind
<1>0. \A r \in Recorder!Runs : r \in 0..MaxTakes /\ r # 0
  BY RecorderInstance DEF Recorder!RecorderAssumption, Recorder!Runs
<1>1. \A r \in Recorder!Runs : Recorder!Effect("stop", r, TRUE) \in Recorder!Queueable
  BY <1>0 DEF Recorder!Queueable, Recorder!Effect, Recorder!Verbs
<1>2. \A r \in Recorder!Runs : Recorder!Effect("record", r, FALSE) \in Recorder!Queueable
  BY <1>0 DEF Recorder!Queueable, Recorder!Effect, Recorder!Verbs
<1>3. \A kind \in {"apply", "arm", "release"}, r \in 0..MaxTakes : Recorder!Effect(kind, r, FALSE) \in Recorder!Queueable
  BY <1>0 DEF Recorder!Queueable, Recorder!Effect, Recorder!Verbs
<1>4. \A kind, r, final : Recorder!Effect(kind, r, final).verb = kind
  BY DEF Recorder!Effect
<1>5. 0 \in 0..MaxTakes
  BY RecorderInstance DEF Recorder!RecorderAssumption
<1> QED BY <1>1, <1>2, <1>3, <1>4, <1>5

\* What one finds in the queue.
LEMMA RecQueueable ==
  ASSUME NEW e \in Recorder!Queueable
  PROVE  /\ e.verb \in {"stop", "record", "apply", "arm", "release"} /\ e.run \in 0..MaxTakes /\ e.final \in BOOLEAN
         /\ e.verb \in {"stop", "record"} => e.run # 0
         /\ e.final <=> e.verb = "stop"
         /\ e \in [verb: Recorder!Verbs, run: 0..MaxTakes, final: BOOLEAN]
BY DEF Recorder!Queueable, Recorder!Verbs

LEMMA RecNone ==
  /\ Recorder!NoVerb \in RecProcs /\ Recorder!NoVerb.kind = "none" /\ Recorder!NoVerb.at = "idle" /\ Recorder!NoVerb.run = 0 /\ Recorder!NoVerb.config = 0
  /\ ~Recorder!NoVerb.final /\ ~Recorder!NoVerb.rolling
<1>1. 0 \in 0..MaxTakes /\ 0 \in Nat /\ "none" \in Recorder!Verbs /\ "idle" \in Recorder!Steps
  BY RecorderInstance DEF Recorder!RecorderAssumption, Recorder!Verbs, Recorder!Steps
<1> QED BY <1>1 DEF Recorder!NoVerb, RecProcs

\* The verbs: one begins, goes on, ends; the others are where they were.
LEMMA RecBegins ==
  ASSUME verb \in [Recorder!Slots -> RecProcs], NEW slot \in Recorder!Slots, NEW kind \in Recorder!Verbs, NEW run \in 0..MaxTakes, NEW final \in BOOLEAN,
         verb' = Recorder!Begin(slot, kind, run, final)
  PROVE  /\ verb' \in [Recorder!Slots -> RecProcs] /\ \A s \in Recorder!Slots \ {slot} : verb'[s] = verb[s]
         /\ verb'[slot].kind = kind /\ verb'[slot].run = run /\ verb'[slot].config = 0 /\ verb'[slot].final = final
         /\ verb'[slot].at = (IF kind \in {"stop", "release"} THEN "dial" ELSE "ask") /\ ~verb'[slot].rolling
<1>1. PICK v : v = [Recorder!NoVerb EXCEPT !.kind = kind, !.run = run, !.final = final, !.at = IF kind \in {"stop", "release"} THEN "dial" ELSE "ask"]
  OBVIOUS
<1>2. v \in RecProcs /\ v.kind = kind /\ v.run = run /\ v.config = 0 /\ v.final = final /\ v.at = (IF kind \in {"stop", "release"} THEN "dial" ELSE "ask") /\ ~v.rolling
  BY <1>1 DEF Recorder!NoVerb, RecProcs, Recorder!Steps
<1>3. verb' = [verb EXCEPT ![slot] = v]
  BY <1>1 DEF Recorder!Begin
<1> QED BY <1>2, <1>3

LEMMA RecGoes ==
  ASSUME verb \in [Recorder!Slots -> RecProcs], NEW slot \in Recorder!Slots, NEW step \in Recorder!Steps, Recorder!Goes(slot, step)
  PROVE  /\ verb' \in [Recorder!Slots -> RecProcs] /\ \A s \in Recorder!Slots \ {slot} : verb'[s] = verb[s]
         /\ verb'[slot].at = step /\ verb'[slot].kind = verb[slot].kind /\ verb'[slot].run = verb[slot].run
         /\ verb'[slot].config = verb[slot].config /\ verb'[slot].final = verb[slot].final /\ verb'[slot].rolling = verb[slot].rolling
<1>1. PICK v : v = [verb[slot] EXCEPT !.at = step]
  OBVIOUS
<1>2. /\ v \in RecProcs /\ v.at = step /\ v.kind = verb[slot].kind /\ v.run = verb[slot].run
      /\ v.config = verb[slot].config /\ v.final = verb[slot].final /\ v.rolling = verb[slot].rolling
  BY <1>1 DEF RecProcs
<1>3. verb' = [verb EXCEPT ![slot] = v]
  BY <1>1 DEF Recorder!Goes
<1> QED BY <1>2, <1>3

LEMMA RecEnds ==
  ASSUME verb \in [Recorder!Slots -> RecProcs], NEW slot \in Recorder!Slots, Recorder!Ends(slot)
  PROVE  verb' \in [Recorder!Slots -> RecProcs] /\ (\A s \in Recorder!Slots \ {slot} : verb'[s] = verb[s]) /\ verb'[slot] = Recorder!NoVerb
BY RecNone DEF Recorder!Ends

\* A record of the module with the rest kept.
LEMMA RecTouched ==
  ASSUME NEW m \in RecModules
  PROVE  /\ Recorder!Touched(m) \in RecModules /\ Recorder!Touched(m).run = m.run /\ Recorder!Touched(m).live = m.live /\ Recorder!Touched(m).rec = m.rec
         /\ Recorder!Touched(m).desired = m.desired /\ Recorder!Touched(m).applying = m.applying /\ Recorder!Touched(m).dirty = m.dirty
         /\ Recorder!Touched(m).arming = m.arming /\ Recorder!Touched(m).armed = m.armed
         /\ (Recorder!Touched(m).armed => Recorder!Touched(m).watch)
<1>1. PICK b \in BOOLEAN : b = (m.watch \/ m.armed)
  OBVIOUS
<1>2. Recorder!Touched(m) = [m EXCEPT !.watch = b]
  BY <1>1 DEF Recorder!Touched
<1>3. m.armed => b
  BY <1>1
<1>4. PICK q : q = [m EXCEPT !.watch = b]
  OBVIOUS
<1>5. /\ q \in RecModules /\ q.run = m.run /\ q.live = m.live /\ q.rec = m.rec /\ q.desired = m.desired
      /\ q.applying = m.applying /\ q.dirty = m.dirty /\ q.arming = m.arming /\ q.armed = m.armed /\ q.watch = b
  BY <1>4 DEF RecModules
<1> QED BY ONLY <1>2, <1>3, <1>4, <1>5

RecJournals == [Recorder!Runs -> [live: BOOLEAN, rec: Recorder!Recordings]]
LEMMA RecWrites ==
  ASSUME disk \in RecJournals, NEW m \in RecModules, m.run # 0
  PROVE  /\ Recorder!Journal(m) \in RecJournals /\ m.run \in Recorder!Runs
         /\ Recorder!Journal(m)[m.run].live = m.live /\ Recorder!Journal(m)[m.run].rec = m.rec
         /\ \A r \in Recorder!Runs \ {m.run} : Recorder!Journal(m)[r] = disk[r]
<1>1. m.run \in Recorder!Runs /\ m.live \in BOOLEAN /\ m.rec \in Recorder!Recordings
  BY RecorderInstance DEF RecModules, Recorder!Runs, Recorder!RecorderAssumption
<1>2. PICK e : e = [live |-> m.live, rec |-> m.rec]
  OBVIOUS
<1>3. e \in [live: BOOLEAN, rec: Recorder!Recordings] /\ e.live = m.live /\ e.rec = m.rec
  BY ONLY <1>1, <1>2
<1>4. Recorder!Journal(m) = [disk EXCEPT ![m.run] = e]
  BY <1>2 DEF Recorder!Journal
<1> QED BY <1>1, <1>3, <1>4 DEF RecJournals

\* The note of a run: on the books in memory where it is the current one, on its journal always.
LEMMA RecNotes ==
  ASSUME disk \in RecJournals, mod \in RecModules, NEW r \in Recorder!Runs, NEW rec \in Recorder!Recordings, Recorder!Noted(r, rec)
  PROVE  /\ mod' \in RecModules /\ mod'.run = mod.run /\ mod'.live = mod.live /\ mod'.desired = mod.desired
         /\ mod'.applying = mod.applying /\ mod'.dirty = mod.dirty /\ mod'.armed = mod.armed
         /\ (mod'.armed => mod'.watch)
         /\ mod'.rec = (IF r = mod.run THEN rec ELSE mod.rec)
         /\ disk' \in RecJournals /\ disk'[r].rec = rec
         /\ disk'[r].live = (IF r = mod.run THEN mod.live ELSE disk[r].live)
         /\ \A x \in Recorder!Runs \ {r} : disk'[x] = disk[x]
<1>0. r # 0
  BY RecorderInstance DEF Recorder!RecorderAssumption, Recorder!Runs
<1>1. CASE r = mod.run
  <2>1. PICK m : m = [mod EXCEPT !.rec = rec]
    OBVIOUS
  <2>2. /\ m \in RecModules /\ m.run = mod.run /\ m.live = mod.live /\ m.rec = rec /\ m.desired = mod.desired
        /\ m.applying = mod.applying /\ m.dirty = mod.dirty /\ m.armed = mod.armed
    BY <2>1 DEF RecModules
  <2>3. mod' = Recorder!Touched(m) /\ disk' = Recorder!Journal(mod')
    BY <1>1, <2>1 DEF Recorder!Noted
  <2>4. /\ mod' \in RecModules /\ mod'.run = m.run /\ mod'.live = m.live /\ mod'.desired = m.desired /\ mod'.rec = m.rec
        /\ mod'.applying = m.applying /\ mod'.dirty = m.dirty /\ mod'.armed = m.armed /\ (mod'.armed => mod'.watch)
    BY <2>2, <2>3, RecTouched
  <2>5. \A q \in RecModules : q.run # 0 =>
          /\ Recorder!Journal(q) \in RecJournals
          /\ Recorder!Journal(q)[q.run].live = q.live /\ Recorder!Journal(q)[q.run].rec = q.rec
          /\ \A x \in Recorder!Runs \ {q.run} : Recorder!Journal(q)[x] = disk[x]
    BY RecWrites
  <2>6. /\ disk' \in RecJournals /\ disk'[r].live = m.live /\ disk'[r].rec = m.rec /\ \A x \in Recorder!Runs \ {r} : disk'[x] = disk[x]
    BY <1>0, <1>1, <2>2, <2>3, <2>4, <2>5
  <2> QED BY <1>1, <2>2, <2>4, <2>6
<1>2. CASE r # mod.run
  <2>1. mod' = Recorder!Touched(mod) /\ disk' = [disk EXCEPT ![r].rec = rec]
    BY <1>2 DEF Recorder!Noted
  <2>2. PICK e : e = [disk[r] EXCEPT !.rec = rec]
    OBVIOUS
  <2>3. e \in [live: BOOLEAN, rec: Recorder!Recordings] /\ e.rec = rec /\ e.live = disk[r].live
    BY <2>2 DEF RecJournals
  <2>4. disk' = [disk EXCEPT ![r] = e]
    BY <2>1, <2>2
  <2>5. disk' \in RecJournals /\ disk'[r] = e /\ \A x \in Recorder!Runs \ {r} : disk'[x] = disk[x]
    BY <2>3, <2>4 DEF RecJournals
  <2> QED BY <1>2, <2>1, <2>3, <2>5, RecTouched
<1> QED BY <1>1, <1>2

\* What openRecordingLocked makes of the module.
LEMMA RecOpens ==
  ASSUME mod \in RecModules, opened \in 0..MaxTakes, mod.run <= opened, Recorder!MayOpen(0) \/ (mod.run # 0 /\ Recorder!MayOpen(mod.run)),
         mod.live => mod.run # 0
  PROVE  /\ Recorder!Opened \in RecModules /\ Recorder!Opened.live /\ Recorder!Opened.run \in Recorder!Runs
         /\ Recorder!Opened.run = (IF mod.live THEN mod.run ELSE opened + 1)
         /\ Recorder!Opened.desired = mod.desired /\ Recorder!Opened.applying = mod.applying /\ Recorder!Opened.dirty = mod.dirty
         /\ Recorder!Opened.armed = mod.armed /\ Recorder!Opened.watch = mod.watch
         /\ Recorder!Opening(Recorder!Opened.rec)
         /\ mod.live =>
              /\ mod.rec.intent /\ ~mod.rec.failed => Recorder!Opened.rec = mod.rec
              /\ ~mod.rec.started /\ ~mod.rec.stopped
<1>0. MaxTakes \in Nat /\ mod.run \in 0..MaxTakes /\ mod.live \in BOOLEAN /\ mod.rec \in Recorder!Recordings
  BY RecorderInstance DEF Recorder!RecorderAssumption, RecModules
<1>1. (mod.live \/ opened < MaxTakes) /\ (mod.live => ~Recorder!Active(mod.rec) /\ ~mod.rec.stopped)
  BY DEF Recorder!MayOpen
<1>2. PICK run : run = IF mod.live THEN mod.run ELSE opened + 1
  OBVIOUS
<1>3. run \in Recorder!Runs /\ run \in 0..MaxTakes
  BY <1>0, <1>1, <1>2 DEF Recorder!Runs
<1>4. PICK new : new = [Recorder!NoRecording EXCEPT !.intent = TRUE]
  OBVIOUS
<1>5. new \in Recorder!Recordings /\ Recorder!Opening(new)
  <2>1. new = [intent |-> TRUE, started |-> FALSE, stopped |-> FALSE, failed |-> FALSE, clip |-> 0]
    BY <1>4 DEF Recorder!NoRecording
  <2>2. 0 \in 0..MaxTakes
    BY <1>0
  <2>3. new \in Recorder!Recordings
    BY <2>1, <2>2 DEF Recorder!Recordings
  <2>4. new.intent /\ ~new.started /\ ~new.stopped /\ ~new.failed
    BY <2>1
  <2> QED BY <2>3, <2>4 DEF Recorder!Opening
<1>6. PICK rec : rec = IF mod.live /\ mod.rec.intent /\ ~mod.rec.failed THEN mod.rec ELSE new
  OBVIOUS
<1>7. mod.live => ~mod.rec.started /\ ~mod.rec.stopped
  BY <1>0, <1>1 DEF Recorder!Active
<1>8. rec \in Recorder!Recordings /\ Recorder!Opening(rec)
  BY <1>0, <1>5, <1>6, <1>7 DEF Recorder!Opening
<1>9. PICK q : q = [mod EXCEPT !.run = run, !.live = TRUE, !.rec = rec]
  OBVIOUS
<1>10. Recorder!Opened = q
  BY <1>2, <1>4, <1>6, <1>9 DEF Recorder!Opened
<1>11. /\ q \in RecModules /\ q.run = run /\ q.live /\ q.rec = rec /\ q.desired = mod.desired /\ q.applying = mod.applying
       /\ q.dirty = mod.dirty /\ q.armed = mod.armed /\ q.watch = mod.watch
  BY <1>3, <1>8, <1>9 DEF RecModules
<1> HIDE DEF Recorder!Opening
<1>12. mod.live /\ mod.rec.intent /\ ~mod.rec.failed => rec = mod.rec
  BY <1>6
<1> QED BY ONLY <1>2, <1>3, <1>7, <1>8, <1>10, <1>11, <1>12

LEMMA RecTyped ==
  ASSUME Recorder!IInv
  PROVE  /\ mod \in RecModules /\ disk \in RecJournals /\ opened \in 0..MaxTakes /\ effects \in Seq(Recorder!Queueable)
         /\ verb \in [Recorder!Slots -> RecProcs] /\ obs \in RecObs /\ excused \in BOOLEAN /\ disputed \subseteq Recorder!Runs /\ faults \in Nat
         /\ MaxTakes \in Nat /\ mod.run \in 0..MaxTakes /\ mod.rec \in Recorder!Recordings /\ mod.live \in BOOLEAN /\ mod.desired \in Nat
         /\ obs.config \in Nat /\ obs.rolling \in 0..MaxTakes
         /\ Recorder!TypeOK /\ Recorder!Walks /\ Recorder!Books /\ Recorder!Take /\ Recorder!Knob /\ Recorder!ArmIsWatched
<1>1. mod \in RecModules /\ disk \in RecJournals /\ obs \in RecObs /\ verb \in [Recorder!Slots -> RecProcs]
  BY DEF Recorder!IInv, Recorder!TypeOK, RecModules, RecJournals, RecObs, RecProcs
<1>2. /\ mod.run \in 0..MaxTakes /\ mod.rec \in Recorder!Recordings /\ mod.live \in BOOLEAN /\ mod.desired \in Nat
      /\ obs.config \in Nat /\ obs.rolling \in 0..MaxTakes
  BY <1>1 DEF RecModules, RecObs
<1>3. effects \in Seq(Recorder!Queueable)
  BY DEF Recorder!IInv, Recorder!Walks
<1>4. opened \in 0..MaxTakes /\ excused \in BOOLEAN /\ disputed \subseteq Recorder!Runs /\ faults \in Nat
  BY DEF Recorder!IInv, Recorder!TypeOK
<1>5. MaxTakes \in Nat
  BY RecorderInstance DEF Recorder!RecorderAssumption
<1> QED BY <1>1, <1>2, <1>3, <1>4, <1>5 DEF Recorder!IInv

LEMMA RecTypes ==
  ASSUME (mod \in RecModules)', (disk \in RecJournals)', (opened \in 0..MaxTakes)', (effects \in Seq(Recorder!Queueable))',
         (verb \in [Recorder!Slots -> RecProcs])', (obs \in RecObs)', (excused \in BOOLEAN)', (disputed \subseteq Recorder!Runs)', (faults \in Nat)'
  PROVE  Recorder!TypeOK'
<1>1. Recorder!Queueable \subseteq [verb: Recorder!Verbs, run: 0..MaxTakes, final: BOOLEAN]
  BY DEF Recorder!Queueable
<1>2. (effects \in Seq([verb: Recorder!Verbs, run: 0..MaxTakes, final: BOOLEAN]))'
  BY <1>1, SeqMonotonic
<1> QED BY <1>2 DEF Recorder!TypeOK, RecModules, RecJournals, RecObs, RecProcs

\* Which verbs run in which slot.
LEMMA RecSlots ==
  ASSUME Recorder!IInv, NEW slot \in Recorder!Slots
  PROVE  /\ verb[slot] \in RecProcs
         /\ verb[slot].kind \in {"record", "apply", "arm", "stop"} => slot = "effect"
         /\ verb[slot].kind = "quit" => slot = "hand"
         /\ slot = "effect" => verb[slot] = Recorder!NoVerb \/ Recorder!Course(verb[slot])
         /\ slot = "hand" => verb[slot] = Recorder!NoVerb \/ Recorder!Quits(verb[slot]) \/ (Recorder!Course(verb[slot]) /\ verb[slot].kind = "release")
         /\ slot = "idle" => verb[slot] = Recorder!NoVerb \/ (Recorder!Course(verb[slot]) /\ verb[slot].kind = "release")
         /\ verb["effect"].kind # "quit" /\ "effect" \in Recorder!Slots
<1>1. slot \in {"effect", "hand", "idle"} /\ "effect" \in Recorder!Slots
  BY DEF Recorder!Slots
<1>2. /\ verb["effect"] = Recorder!NoVerb \/ Recorder!Course(verb["effect"])
      /\ verb["hand"] = Recorder!NoVerb \/ Recorder!Quits(verb["hand"]) \/ (Recorder!Course(verb["hand"]) /\ verb["hand"].kind = "release")
      /\ verb["idle"] = Recorder!NoVerb \/ (Recorder!Course(verb["idle"]) /\ verb["idle"].kind = "release")
  BY DEF Recorder!IInv, Recorder!Walks
<1>3. \A v : Recorder!Course(v) => v.kind \in {"record", "stop", "apply", "arm", "release"}
  BY DEF Recorder!Course
<1>4. \A v : Recorder!Quits(v) => v.kind = "quit"
  BY DEF Recorder!Quits
<1>5. verb[slot] \in RecProcs
  BY RecTyped
<1> HIDE DEF Recorder!Course, Recorder!Quits
<1> QED BY <1>1, <1>2, <1>3, <1>4, <1>5, RecNone

\* A change that touches neither the queue, nor the verb of the owner, nor the configuration.
LEMMA RecKnobKept ==
  ASSUME Recorder!Knob, excused => excused', Recorder!Queued => Recorder!Queued', mod'.desired = mod.desired, mod'.applying = mod.applying,
         mod'.dirty = mod.dirty, verb'["effect"] = verb["effect"], obs'.config = obs.config
  PROVE  Recorder!Knob'
<1> SUFFICES ASSUME ~excused' PROVE Recorder!Knob'
  BY DEF Recorder!Knob
<1>1. Recorder!Coming => Recorder!Coming'
  BY DEF Recorder!Coming
<1>2. Recorder!Applying <=> Recorder!Applying'
  BY DEF Recorder!Applying
<1>3. ~excused
  OBVIOUS
<1> QED BY <1>1, <1>2, <1>3 DEF Recorder!Knob

\* The owner's verb ends, and was no apply.
LEMMA RecKnobEnds ==
  ASSUME Recorder!Knob, excused => excused', Recorder!Queued => Recorder!Queued', mod'.desired = mod.desired, mod'.applying = mod.applying,
         verb["effect"].kind # "apply", verb'["effect"] = Recorder!NoVerb, obs'.config = obs.config
  PROVE  Recorder!Knob'
<1> SUFFICES ASSUME ~excused' PROVE Recorder!Knob'
  BY DEF Recorder!Knob
<1>1. verb'["effect"].kind = "none" /\ verb'["effect"].at = "idle"
  BY RecNone
<1>2. Recorder!Coming => Recorder!Coming'
  BY DEF Recorder!Coming
<1>3. ~Recorder!Applying
  BY DEF Recorder!Applying
<1>4. ~excused
  OBVIOUS
<1>5. mod.applying => Recorder!Queued
  BY <1>4 DEF Recorder!Knob
<1> QED BY <1>1, <1>2, <1>3, <1>4, <1>5 DEF Recorder!Knob

\* Nothing of a take moves, but that OBS may have ended it.
LEMMA RecTakeKept ==
  ASSUME Recorder!Take, verb'["effect"] = verb["effect"], obs'.rolling \in {obs.rolling, 0}, disputed \subseteq disputed',
         mod'.run = mod.run, mod'.live = mod.live, mod'.rec = mod.rec, obs.rolling \in 0..MaxTakes, MaxTakes \in Nat,
         \A r \in Recorder!Runs : disk'[r].rec = disk[r].rec
  PROVE  Recorder!Take'
<1>1. Recorder!Starting <=> Recorder!Starting'
  BY DEF Recorder!Starting
<1>2. Recorder!Starting' =>
        /\ verb'["effect"].run = mod'.run /\ mod'.live
        /\ mod'.run \notin disputed' => Recorder!Opening(mod'.rec)
  BY <1>1 DEF Recorder!Take
<1>3. ASSUME obs'.rolling # 0, obs'.rolling \notin disputed'
      PROVE  LET rec == disk'[obs'.rolling].rec IN
               /\ rec.intent /\ ~rec.stopped
               /\ rec.started \/ (Recorder!Starting' /\ verb'["effect"].at = "note" /\ verb'["effect"].run = obs'.rolling)
  <2>1. obs'.rolling = obs.rolling /\ obs.rolling \in Recorder!Runs /\ obs.rolling \notin disputed
    BY <1>3 DEF Recorder!Runs
  <2>2. disk'[obs'.rolling].rec = disk[obs.rolling].rec
    BY <2>1
  <2> QED BY <1>1, <1>3, <2>1, <2>2 DEF Recorder!Take
<1> QED BY <1>2, <1>3 DEF Recorder!Take

\* The owner's verb ends or begins where it starts no take, and the one that rolls is on the books.
LEMMA RecTakeRests ==
  ASSUME ~Recorder!Starting', MaxTakes \in Nat, obs'.rolling \in 0..MaxTakes,
         \A r \in Recorder!Runs : obs'.rolling = r /\ r \notin disputed' => disk'[r].rec.intent /\ ~disk'[r].rec.stopped /\ disk'[r].rec.started
  PROVE  Recorder!Take'
<1>1. obs'.rolling # 0 => obs'.rolling \in Recorder!Runs
  BY DEF Recorder!Runs
<1> QED BY <1>1 DEF Recorder!Take

\* Every verb goes its way, stays, or is gone.
LEMMA RecWalked ==
  ASSUME Recorder!IInv, effects' \in Seq(Recorder!Queueable), disputed \subseteq disputed', obs'.config <= mod'.desired,
         verb'["effect"].config <= mod'.desired,
         verb'["effect"] = verb["effect"] \/ verb'["effect"] = Recorder!NoVerb \/ Recorder!Course(verb'["effect"]),
         verb'["hand"] = verb["hand"] \/ verb'["hand"] = Recorder!NoVerb \/ (Recorder!Quits(verb["hand"]))'
           \/ (Recorder!Course(verb'["hand"]) /\ verb'["hand"].kind = "release"),
         verb'["idle"] = verb["idle"] \/ verb'["idle"] = Recorder!NoVerb
           \/ (Recorder!Course(verb'["idle"]) /\ verb'["idle"].kind = "release")
  PROVE  Recorder!Walks'
<1>1. /\ verb["effect"] = Recorder!NoVerb \/ Recorder!Course(verb["effect"])
      /\ verb["hand"] = Recorder!NoVerb \/ Recorder!Quits(verb["hand"]) \/ (Recorder!Course(verb["hand"]) /\ verb["hand"].kind = "release")
      /\ verb["idle"] = Recorder!NoVerb \/ (Recorder!Course(verb["idle"]) /\ verb["idle"].kind = "release")
  BY DEF Recorder!IInv, Recorder!Walks
<1>2. (verb["effect"] = Recorder!NoVerb \/ Recorder!Course(verb["effect"]))'
  BY <1>1
<1>3. verb'["hand"] = verb["hand"] /\ Recorder!Quits(verb["hand"]) => (Recorder!Quits(verb["hand"]))'
  BY DEF Recorder!Quits
<1>4. (verb["hand"] = Recorder!NoVerb \/ Recorder!Quits(verb["hand"]) \/ (Recorder!Course(verb["hand"]) /\ verb["hand"].kind = "release"))'
  BY <1>1, <1>3
<1>5. (verb["idle"] = Recorder!NoVerb \/ (Recorder!Course(verb["idle"]) /\ verb["idle"].kind = "release"))'
  BY <1>1
<1> QED BY <1>2, <1>4, <1>5 DEF Recorder!Walks

\* What runs of what, as far as the books go.
LEMMA RecOnBooks ==
  ASSUME Recorder!IInv
  PROVE  /\ mod.live => mod.run # 0 /\ mod.run \in Recorder!Runs
         /\ mod.run # 0 => disk[mod.run].rec = mod.rec
         /\ obs.rolling # 0 /\ obs.rolling \notin disputed /\ ~(Recorder!Starting /\ verb["effect"].at = "note" /\ verb["effect"].run = obs.rolling) =>
              disk[obs.rolling].rec.intent /\ ~disk[obs.rolling].rec.stopped /\ disk[obs.rolling].rec.started
         /\ mod.run <= opened /\ obs.rolling <= opened /\ opened \in 0..MaxTakes
         /\ mod.rec.started \/ mod.rec.intent => mod.run # 0
<1>1. Recorder!Books /\ Recorder!Take
  BY DEF Recorder!IInv
<1>2. mod.run = 0 => ~mod.live /\ ~mod.rec.intent /\ ~mod.rec.started
  BY <1>1 DEF Recorder!Books
<1>3. mod.run # 0 => mod.run \in Recorder!Runs
  BY RecTyped DEF Recorder!Runs
<1>4. mod.run # 0 => disk[mod.run].rec = mod.rec
  BY <1>1 DEF Recorder!Books
<1>5. mod.run <= opened /\ obs.rolling <= opened
  BY <1>1 DEF Recorder!Books
<1>6. obs.rolling # 0 /\ obs.rolling \notin disputed /\ ~(Recorder!Starting /\ verb["effect"].at = "note" /\ verb["effect"].run = obs.rolling) =>
              disk[obs.rolling].rec.intent /\ ~disk[obs.rolling].rec.stopped /\ disk[obs.rolling].rec.started
  BY <1>1 DEF Recorder!Take
<1> QED BY <1>2, <1>3, <1>4, <1>5, <1>6, RecTyped

\* The intent of a take is journalled.
LEMMA RecBooksOpen ==
  ASSUME Recorder!IInv, mod' \in RecModules, mod'.run \in Recorder!Runs, mod'.live, mod'.run = (IF mod.live THEN mod.run ELSE opened + 1),
         disk' = Recorder!Journal(mod'), opened' = (IF mod'.run > opened THEN mod'.run ELSE opened),
         obs'.rolling = obs.rolling, obs'.up = obs.up, obs'.config = obs.config
  PROVE  /\ Recorder!Books' /\ disk' \in RecJournals /\ opened' \in 0..MaxTakes
         /\ disk'[mod'.run].rec = mod'.rec /\ \A r \in Recorder!Runs \ {mod'.run} : disk'[r] = disk[r]
<1>1. mod'.run # 0 /\ mod'.run \in Nat /\ opened \in Nat /\ mod'.run \in 0..MaxTakes
  BY RecTyped DEF Recorder!Runs
<1>2. /\ disk' \in RecJournals /\ disk'[mod'.run].live = mod'.live /\ disk'[mod'.run].rec = mod'.rec
      /\ \A r \in Recorder!Runs \ {mod'.run} : disk'[r] = disk[r]
  <2>1. \A m \in RecModules : m.run # 0 =>
          /\ Recorder!Journal(m) \in RecJournals /\ Recorder!Journal(m)[m.run].live = m.live /\ Recorder!Journal(m)[m.run].rec = m.rec
          /\ \A r \in Recorder!Runs \ {m.run} : Recorder!Journal(m)[r] = disk[r]
    BY RecTyped, RecWrites
  <2> QED BY <1>1, <2>1
<1>3. opened' \in 0..MaxTakes /\ opened <= opened' /\ mod'.run <= opened'
  BY <1>1, RecTyped
<1>4. Recorder!Books
  BY DEF Recorder!IInv
<1>5. obs'.rolling <= opened' /\ (~obs'.up => obs'.rolling = 0 /\ obs'.config = 0)
  <2>1. obs.rolling <= opened /\ (~obs.up => obs.rolling = 0 /\ obs.config = 0)
    BY <1>4 DEF Recorder!Books
  <2> QED BY <1>1, <1>3, <2>1, RecTyped
<1>6. \A r \in Recorder!Runs : disk'[r].live => r <= mod'.run
  <2> SUFFICES ASSUME NEW r \in Recorder!Runs, disk'[r].live, r # mod'.run PROVE r <= mod'.run
    BY <1>1 DEF Recorder!Runs
  <2>1. disk[r].live
    BY <1>2
  <2>2. r <= opened /\ (mod.live => r <= mod.run)
    BY <1>4, <2>1 DEF Recorder!Books
  <2> QED BY <1>1, <2>2 DEF Recorder!Runs
<1>7. \A r \in Recorder!Runs : disk'[r].live => r <= opened'
  BY <1>1, <1>3, <1>6 DEF Recorder!Runs
<1>8. Recorder!Books'
  BY <1>1, <1>2, <1>3, <1>5, <1>6, <1>7 DEF Recorder!Books
<1> QED BY <1>2, <1>3, <1>8

LEMMA RecTapRecord == ASSUME Recorder!IInv, Recorder!TapRecord PROVE Recorder!IInv'
<1>1. UNCHANGED <<verb, obs, excused, disputed>>
  BY DEF Recorder!TapRecord
<1>2. CASE UNCHANGED <<mod, disk, opened, faults>> /\ (effects' = effects \/ \E e \in Recorder!Queueable : effects' = Append(effects, e))
  <2>1. effects' \in Seq(Recorder!Queueable) /\ (Recorder!Queued => Recorder!Queued')
    <3>1. CASE effects' = effects
      BY <3>1, RecTyped DEF Recorder!Queued
    <3>2. CASE \E e \in Recorder!Queueable : effects' = Append(effects, e)
      BY <3>2, RecTyped, RecQueued DEF Recorder!Queued
    <3> QED BY <1>2, <3>1, <3>2
  <2>2. Recorder!TypeOK'
    BY <1>1, <1>2, <2>1, RecTyped, RecTypes
  <2>3. Recorder!Walks'
    BY <1>1, <1>2, <2>1, RecTyped DEF Recorder!Walks, Recorder!Quits
  <2>4. Recorder!Books' /\ Recorder!Take'
    BY <1>1, <1>2, RecTyped DEF Recorder!Books, Recorder!Take, Recorder!Starting
  <2>5. Recorder!Knob'
    BY <1>1, <1>2, <2>1, RecTyped, RecKnobKept
  <2>6. Recorder!ArmIsWatched'
    BY <1>1, <1>2, RecTyped DEF Recorder!ArmIsWatched
  <2> QED BY <2>2, <2>3, <2>4, <2>5, <2>6 DEF Recorder!IInv
<1>3. CASE Recorder!Fault /\ UNCHANGED <<mod, disk, opened, effects>>
  <2>1. faults' = faults + 1 /\ faults' \in Nat
    BY <1>3, RecTyped DEF Recorder!Fault
  <2>2. Recorder!TypeOK'
    BY <1>1, <1>3, <2>1, RecTyped, RecTypes
  <2>3. Recorder!Walks'
    BY <1>1, <1>3, RecTyped DEF Recorder!Walks, Recorder!Quits
  <2>4. Recorder!Books' /\ Recorder!Take'
    BY <1>1, <1>3, RecTyped DEF Recorder!Books, Recorder!Take, Recorder!Starting
  <2>5. Recorder!Knob'
    BY <1>1, <1>3, RecTyped, RecKnobKept DEF Recorder!Queued
  <2>6. Recorder!ArmIsWatched'
    BY <2>1, RecTyped DEF Recorder!ArmIsWatched
  <2> QED BY <2>2, <2>3, <2>4, <2>5, <2>6 DEF Recorder!IInv
<1>4. CASE /\ Recorder!MayOpen(0) /\ Recorder!NoFault /\ Recorder!Open(Recorder!Opened)
           /\ effects' = Append(effects, Recorder!Effect("record", Recorder!Opened.run, FALSE))
  <2>1. /\ mod' \in RecModules /\ mod'.live /\ mod'.run \in Recorder!Runs /\ mod'.run = (IF mod.live THEN mod.run ELSE opened + 1)
        /\ mod'.desired = mod.desired /\ mod'.applying = mod.applying /\ mod'.dirty = mod.dirty
        /\ mod'.armed = mod.armed /\ mod'.watch = mod.watch /\ Recorder!Opening(mod'.rec)
        /\ mod.live =>
             /\ mod.rec.intent /\ ~mod.rec.failed => mod'.rec = mod.rec
             /\ ~mod.rec.started /\ ~mod.rec.stopped
    BY <1>4, RecTyped, RecOnBooks, RecOpens DEF Recorder!Open
  <2>2. disk' = Recorder!Journal(mod') /\ opened' = (IF mod'.run > opened THEN mod'.run ELSE opened) /\ faults' = faults
    BY <1>4 DEF Recorder!Open, Recorder!NoFault
  <2>3. /\ Recorder!Books' /\ disk' \in RecJournals /\ opened' \in 0..MaxTakes
        /\ disk'[mod'.run].rec = mod'.rec /\ \A r \in Recorder!Runs \ {mod'.run} : disk'[r] = disk[r]
    BY <1>1, <2>1, <2>2, RecBooksOpen
  <2>4. effects' \in Seq(Recorder!Queueable) /\ (Recorder!Queued => Recorder!Queued')
    <3>1. PICK e \in Recorder!Queueable : effects' = Append(effects, e)
      BY <1>4, <2>1, RecEffects DEF Recorder!Open
    <3> QED BY <3>1, RecTyped, RecQueued DEF Recorder!Queued
  <2>5. Recorder!TypeOK'
    BY <1>1, <2>1, <2>2, <2>3, <2>4, RecTyped, RecTypes
  <2>6. Recorder!Walks'
    BY <1>1, <2>1, <2>4, RecTyped DEF Recorder!Walks, Recorder!Quits
  <2>7. Recorder!Knob'
    BY <1>1, <2>1, <2>4, RecTyped, RecKnobKept
  <2>8. Recorder!ArmIsWatched'
    BY <1>1, <2>1, <2>2, RecTyped DEF Recorder!ArmIsWatched
  <2>9. Recorder!Take'
    <3>1. Recorder!Starting' <=> Recorder!Starting
      BY <1>1 DEF Recorder!Starting
    <3>2. Recorder!Starting => verb["effect"].run = mod.run /\ mod.live /\ (mod.run \notin disputed => Recorder!Opening(mod.rec))
      BY RecTyped DEF Recorder!Take
    <3>3. Recorder!Starting' =>
            /\ verb'["effect"].run = mod'.run /\ mod'.live
            /\ mod'.run \notin disputed' => Recorder!Opening(mod'.rec)
      BY <1>1, <2>1, <3>1, <3>2
    <3>4. ASSUME obs'.rolling # 0, obs'.rolling \notin disputed'
          PROVE  LET rec == disk'[obs'.rolling].rec IN
                   /\ rec.intent /\ ~rec.stopped
                   /\ rec.started \/ (Recorder!Starting' /\ verb'["effect"].at = "note" /\ verb'["effect"].run = obs'.rolling)
      <4>1. /\ obs'.rolling = obs.rolling /\ obs.rolling \notin disputed /\ obs.rolling # 0 /\ obs.rolling \in Recorder!Runs
            /\ obs.rolling <= opened /\ opened \in Nat
        BY <1>1, <3>4, RecTyped, RecOnBooks DEF Recorder!Runs
      <4>2. CASE obs.rolling # mod'.run
        <5>1. disk'[obs.rolling] = disk[obs.rolling]
          BY <2>3, <4>1, <4>2
        <5> QED BY <1>1, <3>1, <4>1, <5>1, RecTyped DEF Recorder!Take
      <4>3. CASE obs.rolling = mod'.run
        <5>1. mod.live /\ mod.run = obs.rolling
          BY <2>1, <4>1, <4>3
        <5>2. disk[obs.rolling].rec = mod.rec
          BY <4>1, <5>1, RecOnBooks
        <5>3. Recorder!Starting /\ verb["effect"].at = "note" /\ verb["effect"].run = obs.rolling
          BY <2>1, <4>1, <5>1, <5>2, RecOnBooks
        <5> QED BY <1>1, <2>1, <2>3, <3>1, <4>1, <4>3, <5>3 DEF Recorder!Opening
      <4> QED BY <4>2, <4>3
    <3> QED BY <3>3, <3>4 DEF Recorder!Take
  <2> QED BY <2>3, <2>5, <2>6, <2>7, <2>8, <2>9 DEF Recorder!IInv
<1>5. CASE Recorder!Active(mod.rec) /\ effects' = Append(effects, Recorder!Effect("stop", mod.run, TRUE)) /\ Recorder!NoFault /\ UNCHANGED <<mod, disk, opened>>
  <2>1. mod.run \in Recorder!Runs
    BY <1>5, RecTyped, RecOnBooks DEF Recorder!Active, Recorder!Runs
  <2>2. Recorder!Effect("stop", mod.run, TRUE) \in Recorder!Queueable
    BY <2>1, RecEffects
  <2> QED BY <1>2, <1>5, <2>2 DEF Recorder!NoFault
<1> QED BY <1>3, <1>4, <1>5 DEF Recorder!TapRecord

\* What is queued goes on, whatever is queued behind it.
LEMMA RecQueues ==
  ASSUME Recorder!IInv, NEW e \in Recorder!Queueable, effects' = Append(effects, e)
  PROVE  effects' \in Seq(Recorder!Queueable) /\ (Recorder!Queued => Recorder!Queued') /\ (e.verb = "apply" => Recorder!Queued')
BY RecTyped, RecQueued DEF Recorder!Queued

LEMMA RecTapArm == ASSUME Recorder!IInv, Recorder!TapArm PROVE Recorder!IInv'
<1>1. UNCHANGED <<disk, opened, verb, obs, excused, disputed, faults>>
  BY DEF Recorder!TapArm
<1>2. PICK m : m = [mod EXCEPT !.arming = TRUE, !.armed = FALSE]
  OBVIOUS
<1>3. /\ m \in RecModules /\ m.run = mod.run /\ m.live = mod.live /\ m.rec = mod.rec /\ m.desired = mod.desired
      /\ m.applying = mod.applying /\ m.dirty = mod.dirty /\ ~m.armed
  BY <1>2, RecTyped DEF RecModules
<1>4. mod' = m
  BY <1>2 DEF Recorder!TapArm
<1>5. Recorder!Effect("arm", 0, FALSE) \in Recorder!Queueable /\ effects' = Append(effects, Recorder!Effect("arm", 0, FALSE))
  BY RecEffects, RecTyped DEF Recorder!TapArm
<1>6. effects' \in Seq(Recorder!Queueable) /\ (Recorder!Queued => Recorder!Queued')
  BY <1>5, RecQueues
<1>7. Recorder!TypeOK'
  BY <1>1, <1>3, <1>4, <1>6, RecTyped, RecTypes
<1>8. Recorder!Walks'
  BY <1>1, <1>3, <1>4, <1>6, RecTyped DEF Recorder!Walks, Recorder!Quits
<1>9. Recorder!Books'
  BY <1>1, <1>3, <1>4, RecTyped DEF Recorder!Books
<1>10. Recorder!Take'
  BY <1>1, <1>3, <1>4, RecTyped, RecTakeKept
<1>11. Recorder!Knob'
  BY <1>1, <1>3, <1>4, <1>6, RecTyped, RecKnobKept
<1>12. Recorder!ArmIsWatched'
  BY <1>3, <1>4 DEF Recorder!ArmIsWatched
<1> QED BY <1>7, <1>8, <1>9, <1>10, <1>11, <1>12 DEF Recorder!IInv

\* The configuration moves: an apply is queued, or the one in flight is marked.
LEMMA RecTapConfig == ASSUME Recorder!IInv, Recorder!TapConfig PROVE Recorder!IInv'
<1>1. UNCHANGED <<disk, opened, verb, obs, disputed, faults>>
  BY DEF Recorder!TapConfig
<1>2. PICK next \in Recorder!Apply([mod EXCEPT !.desired = @ + 1]) :
        mod' = next[1] /\ effects' = effects \o next[2] /\ excused' = (excused /\ next[2] = <<>>)
  BY DEF Recorder!TapConfig
<1>3. PICK m : m = [mod EXCEPT !.desired = @ + 1]
  OBVIOUS
<1>4. /\ m \in RecModules /\ m.run = mod.run /\ m.live = mod.live /\ m.rec = mod.rec /\ m.desired = mod.desired + 1
      /\ m.applying = mod.applying /\ m.dirty = mod.dirty /\ m.armed = mod.armed /\ m.watch = mod.watch
  BY <1>3, RecTyped DEF RecModules
<1>5. m.desired # 0
  BY <1>4, RecTyped
<1>6. \/ m.applying /\ next = <<[m EXCEPT !.dirty = TRUE], <<>>>>
      \/ next = <<[m EXCEPT !.applying = TRUE], <<Recorder!Effect("apply", 0, FALSE)>>>>
  BY <1>2, <1>3, <1>5 DEF Recorder!Apply
<1>7. /\ mod' \in RecModules /\ mod'.run = mod.run /\ mod'.live = mod.live /\ mod'.rec = mod.rec
      /\ mod'.desired = mod.desired + 1 /\ mod'.armed = mod.armed /\ mod'.watch = mod.watch
      /\ effects' \in Seq(Recorder!Queueable) /\ (Recorder!Queued => Recorder!Queued') /\ excused' \in BOOLEAN
      /\ Recorder!Queued' \/ (excused' = excused /\ mod.applying /\ mod'.applying /\ mod'.dirty)
  <2>1. CASE m.applying /\ next = <<[m EXCEPT !.dirty = TRUE], <<>>>>
    <3>1. PICK q : q = [m EXCEPT !.dirty = TRUE]
      OBVIOUS
    <3>2. /\ q \in RecModules /\ q.run = mod.run /\ q.live = mod.live /\ q.rec = mod.rec
          /\ q.desired = mod.desired + 1 /\ q.armed = mod.armed /\ q.watch = mod.watch /\ q.dirty /\ q.applying = m.applying
      BY <1>4, <3>1 DEF RecModules
    <3>3. next[1] = q /\ next[2] = <<>>
      BY <2>1, <3>1
    <3>4. mod' = q /\ effects' = effects
      BY <1>2, <3>3, RecTyped, ConcatEmptySeq
    <3>5. excused' = excused /\ excused' \in BOOLEAN
      BY <1>2, <3>3, RecTyped
    <3>6. mod.applying
      BY <1>4, <2>1
    <3>7. effects' \in Seq(Recorder!Queueable) /\ (Recorder!Queued => Recorder!Queued')
      BY <3>4, RecTyped DEF Recorder!Queued
    <3> QED BY <1>4, <2>1, <3>2, <3>4, <3>5, <3>6, <3>7
  <2>2. CASE next = <<[m EXCEPT !.applying = TRUE], <<Recorder!Effect("apply", 0, FALSE)>>>>
    <3>1. PICK q : q = [m EXCEPT !.applying = TRUE]
      OBVIOUS
    <3>2. /\ q \in RecModules /\ q.run = mod.run /\ q.live = mod.live /\ q.rec = mod.rec
          /\ q.desired = mod.desired + 1 /\ q.armed = mod.armed /\ q.watch = mod.watch
      BY <1>4, <3>1 DEF RecModules
    <3>3. next[1] = q /\ next[2] = <<Recorder!Effect("apply", 0, FALSE)>>
      BY <2>2, <3>1
    <3>4. Recorder!Effect("apply", 0, FALSE) \in Recorder!Queueable /\ Recorder!Effect("apply", 0, FALSE).verb = "apply"
      BY RecEffects, RecTyped
    <3>5. mod' = q /\ effects' = Append(effects, Recorder!Effect("apply", 0, FALSE))
      BY <1>2, <3>3, <3>4, RecTyped, RecQueued
    <3>6. effects' \in Seq(Recorder!Queueable) /\ Recorder!Queued'
      BY <3>4, <3>5, RecQueues
    <3>7. excused' \in BOOLEAN
      BY <1>2
    <3> QED BY <3>2, <3>5, <3>6, <3>7
  <2> QED BY <1>6, <2>1, <2>2
<1>8. Recorder!TypeOK'
  BY <1>1, <1>7, RecTyped, RecTypes
<1>9. Recorder!Walks'
  <2>1. verb["effect"] \in RecProcs /\ verb["effect"].config \in Nat
    BY RecTyped DEF Recorder!Slots, RecProcs
  <2>2. verb["effect"].config <= mod.desired /\ obs.config <= mod.desired
    BY RecTyped DEF Recorder!Walks
  <2>3. verb'["effect"].config <= mod'.desired /\ obs'.config <= mod'.desired
    BY <1>1, <1>7, <2>1, <2>2, RecTyped
  <2> QED BY <1>1, <1>7, <2>3, RecTyped DEF Recorder!Walks, Recorder!Quits
<1>10. Recorder!Books'
  BY <1>1, <1>7, RecTyped DEF Recorder!Books
<1>11. Recorder!Take'
  BY <1>1, <1>7, RecTyped, RecTakeKept
<1>12. Recorder!Knob'
  <2>1. CASE Recorder!Queued'
    BY <2>1 DEF Recorder!Knob, Recorder!Coming
  <2>2. CASE excused' = excused /\ mod.applying /\ mod'.applying /\ mod'.dirty
    <3> SUFFICES ASSUME ~excused' PROVE Recorder!Knob'
      BY DEF Recorder!Knob
    <3>1. Recorder!Queued \/ verb["effect"].kind = "apply"
      BY <2>2, RecTyped DEF Recorder!Knob
    <3>2. Recorder!Coming'
      BY <1>1, <1>7, <2>2, <3>1 DEF Recorder!Coming
    <3> QED BY <1>1, <1>7, <3>1, <3>2 DEF Recorder!Knob
  <2> QED BY <1>7, <2>1, <2>2
<1>13. Recorder!ArmIsWatched'
  BY <1>1, <1>7, RecTyped DEF Recorder!ArmIsWatched
<1> QED BY <1>8, <1>9, <1>10, <1>11, <1>12, <1>13 DEF Recorder!IInv

\* A boundary: the books, and what is left of the owner's verb and queue.
LEMMA RecCuts ==
  ASSUME Recorder!IInv
  PROVE  /\ Recorder!Cut \in Seq(Recorder!Queueable) /\ Recorder!CutChild \in [Recorder!Slots -> RecProcs]
         /\ Recorder!CutChild["effect"] = Recorder!NoVerb \/ (Recorder!CutChild["effect"] = verb["effect"] /\ verb["effect"].kind = "stop" /\ Recorder!Course(verb["effect"]))
         /\ \A s \in Recorder!Slots \ {"effect"} : Recorder!CutChild[s] = verb[s]
         /\ ~Recorder!CutsApply => ~Recorder!Queued /\ verb["effect"].kind # "apply"
<1>1. Recorder!Cut \in Seq(Recorder!Queueable)
  BY RecTyped, RecKept DEF Recorder!Cut
<1>2. verb["effect"] = Recorder!NoVerb \/ Recorder!Course(verb["effect"])
  BY RecTyped, RecSlots DEF Recorder!Slots
<1>3. "effect" \in Recorder!Slots
  BY DEF Recorder!Slots
<1>4. verb["effect"].final => verb["effect"].kind = "stop" /\ Recorder!Course(verb["effect"])
  BY <1>2, RecNone DEF Recorder!Course
<1>5. verb["effect"].kind = "apply" => ~verb["effect"].final
  BY <1>4
<1>6. ~Recorder!CutsApply => ~Recorder!Queued /\ verb["effect"].kind # "apply"
  BY <1>5 DEF Recorder!CutsApply, Recorder!Queued
<1> QED BY <1>1, <1>3, <1>4, <1>6, RecTyped, RecNone DEF Recorder!CutChild

LEMMA RecKnobCut ==
  ASSUME Recorder!IInv, excused' = (excused \/ Recorder!CutsApply), verb'["effect"] = Recorder!CutChild["effect"],
         mod'.desired = mod.desired, mod'.applying = mod.applying, obs'.config = obs.config
  PROVE  Recorder!Knob'
<1> SUFFICES ASSUME ~excused' PROVE Recorder!Knob'
  BY DEF Recorder!Knob
<1>1. ~excused /\ ~Recorder!CutsApply
  OBVIOUS
<1>2. ~Recorder!Queued /\ verb["effect"].kind # "apply"
  BY <1>1, RecCuts
<1>3. ~Recorder!Coming /\ ~Recorder!Applying
  BY <1>2 DEF Recorder!Coming, Recorder!Applying
<1>4. ~mod.applying /\ obs.config \in {0, mod.desired}
  BY <1>1, <1>2, <1>3, RecTyped DEF Recorder!Knob
<1>5. verb'["effect"].at \notin {"dial", "scene"} \/ verb'["effect"].kind \notin {"record", "arm", "apply"}
  BY RecCuts, RecNone
<1> QED BY <1>4, <1>5 DEF Recorder!Knob

LEMMA RecEndRun == ASSUME Recorder!IInv, Recorder!EndRun PROVE Recorder!IInv'
<1>1. UNCHANGED <<opened, obs>> /\ verb' = Recorder!CutChild /\ excused' = (excused \/ Recorder!CutsApply) /\ disputed' = disputed \cup Recorder!CutTake
  BY DEF Recorder!EndRun
<1>2. PICK m : m = [mod EXCEPT !.live = FALSE, !.armed = FALSE, !.arming = @ /\ ~mod.armed]
  OBVIOUS
<1>3. /\ m \in RecModules /\ m.run = mod.run /\ ~m.live /\ m.rec = mod.rec /\ m.desired = mod.desired
      /\ m.applying = mod.applying /\ m.dirty = mod.dirty /\ ~m.armed
  <2>1. PICK b \in BOOLEAN : b = (mod.arming /\ ~mod.armed)
    OBVIOUS
  <2>2. m = [mod EXCEPT !.live = FALSE, !.armed = FALSE, !.arming = b]
    BY <1>2, <2>1
  <2> QED BY <2>1, <2>2, RecTyped DEF RecModules
<1>4. mod' = m /\ ((Recorder!NoFault /\ disk' = Recorder!Journal(m)) \/ (Recorder!Fault /\ UNCHANGED disk))
  BY <1>2 DEF Recorder!EndRun
<1>5. mod.live /\ mod.run # 0 /\ mod.run \in Recorder!Runs /\ disk[mod.run].rec = mod.rec
  BY RecTyped, RecOnBooks DEF Recorder!EndRun, Recorder!EndRunShown
<1>6. faults' \in Nat
  BY <1>4, RecTyped DEF Recorder!NoFault, Recorder!Fault
<1>7. /\ disk' \in RecJournals /\ \A r \in Recorder!Runs : disk'[r].rec = disk[r].rec /\ (disk'[r].live => disk[r].live)
  <2>1. CASE disk' = Recorder!Journal(m)
    <3>1. disk' \in RecJournals /\ disk'[m.run].live = m.live /\ disk'[m.run].rec = m.rec /\ \A r \in Recorder!Runs \ {m.run} : disk'[r] = disk[r]
      BY <1>3, <1>5, <2>1, RecTyped, RecWrites
    <3> QED BY <1>3, <1>5, <3>1
  <2>2. CASE UNCHANGED disk
    BY <2>2, RecTyped
  <2> QED BY <1>4, <2>1, <2>2
<1>8. /\ effects' \in Seq(Recorder!Queueable) /\ verb' \in [Recorder!Slots -> RecProcs]
  <2>1. PICK a : a = (IF mod.armed THEN <<Recorder!Effect("release", mod.run, FALSE)>> ELSE <<>>)
    OBVIOUS
  <2>2. Recorder!Effect("release", mod.run, FALSE) \in Recorder!Queueable /\ Recorder!Effect("stop", mod.run, TRUE) \in Recorder!Queueable
    BY <1>5, RecEffects, RecTyped
  <2>3. a \in Seq(Recorder!Queueable)
    BY <2>1, <2>2, RecOne
  <2>4. Recorder!StopEffects \in Seq(Recorder!Queueable)
    BY <2>2, RecOne DEF Recorder!StopEffects
  <2>5. Recorder!Cut \in Seq(Recorder!Queueable)
    BY RecCuts
  <2>6. effects' = Recorder!Cut \o a \o Recorder!StopEffects
    BY <2>1 DEF Recorder!EndRun
  <2>7. Recorder!Cut \o a \in Seq(Recorder!Queueable)
    BY <2>3, <2>5, ConcatProperties
  <2> QED BY <1>1, <2>4, <2>6, <2>7, RecCuts, ConcatProperties
<1>9. disputed' \subseteq Recorder!Runs
  <2>1. verb["effect"].kind = "record" => verb["effect"].run \in Recorder!Runs
    BY RecTyped, RecSlots, RecNone DEF Recorder!Course, Recorder!Slots, RecProcs, Recorder!Runs
  <2> QED BY <1>1, <2>1, RecTyped DEF Recorder!CutTake
<1>10. Recorder!TypeOK'
  BY <1>1, <1>3, <1>4, <1>6, <1>7, <1>8, <1>9, RecTyped, RecTypes
<1>11. ~Recorder!Starting'
  BY <1>1, RecCuts, RecNone DEF Recorder!Starting
<1>12. Recorder!Walks'
  <2>1. verb'["effect"] = Recorder!NoVerb \/ Recorder!Course(verb'["effect"])
    BY <1>1, RecCuts
  <2>2. verb'["hand"] = verb["hand"] /\ verb'["idle"] = verb["idle"]
    BY <1>1, RecCuts DEF Recorder!Slots
  <2>3. verb'["effect"].config <= mod'.desired
    <3>1. verb["effect"].config <= mod.desired
      BY RecTyped DEF Recorder!Walks
    <3> QED BY <1>1, <1>3, <1>4, <3>1, RecCuts, RecNone, RecTyped
  <2>4. obs'.config <= mod'.desired
    BY <1>1, <1>3, <1>4, RecTyped DEF Recorder!Walks
  <2> QED BY <1>1, <1>8, <2>1, <2>2, <2>3, <2>4, RecWalked
<1>13. Recorder!Books'
  <2>1. Recorder!Books
    BY RecTyped
  <2> QED BY <1>1, <1>3, <1>4, <1>5, <1>7, <2>1 DEF Recorder!Books
<1>14. Recorder!Take'
  <2>1. ASSUME NEW r \in Recorder!Runs, obs'.rolling = r, r \notin disputed'
        PROVE  disk'[r].rec.intent /\ ~disk'[r].rec.stopped /\ disk'[r].rec.started
    <3>1. obs.rolling = r /\ r \notin disputed /\ r # 0
      BY <1>1, <2>1, RecTyped DEF Recorder!Runs
    <3>2. ~(Recorder!Starting /\ verb["effect"].at = "note" /\ verb["effect"].run = obs.rolling)
      BY <1>1, <2>1, <3>1 DEF Recorder!CutTake, Recorder!Starting
    <3> QED BY <1>7, <3>1, <3>2, RecOnBooks
  <2> QED BY <1>1, <1>11, <2>1, RecTyped, RecTakeRests
<1>15. Recorder!Knob'
  BY <1>1, <1>3, <1>4, RecKnobCut
<1>16. Recorder!ArmIsWatched'
  BY <1>3, <1>4 DEF Recorder!ArmIsWatched
<1> QED BY <1>10, <1>12, <1>13, <1>14, <1>15, <1>16 DEF Recorder!IInv

\* A verb that begins.
LEMMA RecStarts ==
  ASSUME Recorder!IInv, NEW slot \in Recorder!Slots, NEW kind \in Recorder!Verbs, NEW run \in 0..MaxTakes, NEW final \in BOOLEAN,
         verb' = Recorder!Begin(slot, kind, run, final)
  PROVE  /\ verb' \in [Recorder!Slots -> RecProcs] /\ \A s \in Recorder!Slots \ {slot} : verb'[s] = verb[s]
         /\ verb'[slot].kind = kind /\ verb'[slot].run = run /\ verb'[slot].config = 0 /\ verb'[slot].final = final
         /\ verb'[slot].at = (IF kind \in {"stop", "release"} THEN "dial" ELSE "ask") /\ ~verb'[slot].rolling
BY RecTyped, RecBegins

LEMMA RecNextEffect == ASSUME Recorder!IInv, Recorder!NextEffect PROVE Recorder!IInv'
<1>1. UNCHANGED <<mod, disk, opened, obs, excused, disputed, faults>> /\ effects # <<>> /\ verb["effect"] = Recorder!NoVerb
  BY DEF Recorder!NextEffect
<1>2. PICK e \in Recorder!Queueable : e = Head(effects)
  BY <1>1, RecTyped, HeadTailProperties
<1>3. effects' = Tail(effects) /\ effects' \in Seq(Recorder!Queueable)
  BY <1>1, RecTyped, HeadTailProperties DEF Recorder!NextEffect
<1>4. /\ e.verb \in {"stop", "record", "apply", "arm", "release"} /\ e.run \in 0..MaxTakes /\ e.final \in BOOLEAN
      /\ e.verb \in {"stop", "record"} => e.run # 0
      /\ e.final <=> e.verb = "stop"
  BY RecQueueable
<1>5. verb' = Recorder!Begin("effect", e.verb, e.run, e.final) /\ "effect" \in Recorder!Slots /\ e.verb \in Recorder!Verbs
  BY <1>2, <1>4 DEF Recorder!NextEffect, Recorder!Slots, Recorder!Verbs
<1>6. /\ verb' \in [Recorder!Slots -> RecProcs] /\ \A s \in Recorder!Slots \ {"effect"} : verb'[s] = verb[s]
      /\ verb'["effect"].kind = e.verb /\ verb'["effect"].run = e.run /\ verb'["effect"].config = 0 /\ verb'["effect"].final = e.final
      /\ verb'["effect"].at = (IF e.verb \in {"stop", "release"} THEN "dial" ELSE "ask")
  BY <1>4, <1>5, RecStarts
<1>7. Recorder!Course(verb'["effect"])
  BY <1>4, <1>6 DEF Recorder!Course, Recorder!AskedIn
<1>8. Recorder!TypeOK'
  BY <1>1, <1>3, <1>6, RecTyped, RecTypes
<1>9. Recorder!Walks'
  <2>1. verb'["hand"] = verb["hand"] /\ verb'["idle"] = verb["idle"]
    BY <1>6 DEF Recorder!Slots
  <2>2. obs'.config <= mod'.desired /\ verb'["effect"].config <= mod'.desired
    BY <1>1, <1>6, RecTyped DEF Recorder!Walks
  <2> QED BY <1>1, <1>3, <1>7, <2>1, <2>2, RecWalked
<1>10. Recorder!Books'
  BY <1>1, RecTyped DEF Recorder!Books
<1>11. ~Recorder!Starting /\ ~Recorder!Starting'
  BY <1>1, <1>6, RecNone DEF Recorder!Starting
<1>12. Recorder!Take'
  <2>1. \A r \in Recorder!Runs : obs'.rolling = r /\ r \notin disputed' => disk'[r].rec.intent /\ ~disk'[r].rec.stopped /\ disk'[r].rec.started
    BY <1>1, <1>11, RecOnBooks, RecTyped DEF Recorder!Runs
  <2> QED BY <1>1, <1>11, <2>1, RecTyped, RecTakeRests
<1>13. Recorder!Knob'
  <2> SUFFICES ASSUME ~excused' PROVE Recorder!Knob'
    BY DEF Recorder!Knob
  <2>1. Recorder!Queued => Recorder!Queued' \/ e.verb = "apply"
    <3> SUFFICES ASSUME NEW i \in DOMAIN effects, effects[i].verb = "apply", e.verb # "apply" PROVE Recorder!Queued'
      BY DEF Recorder!Queued
    <3>1. Len(effects) \in Nat /\ DOMAIN effects = 1..Len(effects) /\ i # 1 /\ i \in 1..Len(effects) /\ Head(effects) = effects[1]
      BY <1>2, RecTyped, LenProperties
    <3>2. i - 1 \in 1..Len(Tail(effects)) /\ Tail(effects)[i - 1] = effects[i] /\ DOMAIN Tail(effects) = 1..Len(Tail(effects))
      BY <1>1, <1>3, <3>1, RecTyped
    <3> QED BY <1>3, <3>2 DEF Recorder!Queued
  <2>2. ~excused
    BY <1>1
  <2>3. verb["effect"].kind # "apply"
    BY <1>1, RecNone
  <2>4. (mod.applying => Recorder!Queued) /\ (obs.config \notin {0, mod.desired} => Recorder!Queued)
    BY <2>2, <2>3, RecTyped DEF Recorder!Knob, Recorder!Coming, Recorder!Applying
  <2>5. e.verb = "apply" => Recorder!Applying'
    BY <1>6 DEF Recorder!Applying
  <2>6. verb'["effect"].at \notin {"dial", "scene"} \/ verb'["effect"].kind \notin {"record", "arm", "apply"}
    BY <1>6
  <2> QED BY <1>1, <1>6, <2>1, <2>4, <2>5, <2>6 DEF Recorder!Knob, Recorder!Coming
<1>14. Recorder!ArmIsWatched'
  <2>1. verb'["idle"] = verb["idle"]
    BY <1>6 DEF Recorder!Slots
  <2> QED BY <1>1, <2>1, RecTyped DEF Recorder!ArmIsWatched
<1> QED BY <1>8, <1>9, <1>10, <1>12, <1>13, <1>14 DEF Recorder!IInv

\* A verb typed by hand, and the release of the idle rig, begin beside the queue.
LEMMA RecByHand == ASSUME Recorder!IInv, Recorder!ByHand PROVE Recorder!IInv'
<1>1. UNCHANGED <<mod, disk, opened, effects, obs, excused, disputed, faults>>
  BY DEF Recorder!ByHand
<1>2. PICK kind \in HandVerbs : verb' = Recorder!Begin("hand", kind, 0, FALSE)
  BY DEF Recorder!ByHand
<1>3. kind \in {"release", "quit"} /\ kind \in Recorder!Verbs /\ "hand" \in Recorder!Slots
  BY RecorderInstance DEF Recorder!RecorderAssumption, Recorder!Verbs, Recorder!Slots
<1>a. 0 \in 0..MaxTakes
  BY RecTyped
<1>4. /\ verb' \in [Recorder!Slots -> RecProcs] /\ \A s \in Recorder!Slots \ {"hand"} : verb'[s] = verb[s]
      /\ verb'["hand"].kind = kind /\ verb'["hand"].run = 0 /\ verb'["hand"].config = 0 /\ verb'["hand"].final = FALSE
      /\ verb'["hand"].at = (IF kind \in {"stop", "release"} THEN "dial" ELSE "ask") /\ ~verb'["hand"].rolling
  BY <1>2, <1>3, <1>a, RecStarts
<1>5. verb'["effect"] = verb["effect"] /\ verb'["idle"] = verb["idle"]
  BY <1>4 DEF Recorder!Slots
<1>6. Recorder!TypeOK'
  BY <1>1, <1>4, RecTyped, RecTypes
<1>7. Recorder!Walks'
  <2>1. (Recorder!Quits(verb["hand"]))' \/ (Recorder!Course(verb'["hand"]) /\ verb'["hand"].kind = "release")
    BY <1>3, <1>4 DEF Recorder!Quits, Recorder!Course, Recorder!Steps
  <2>2. obs'.config <= mod'.desired /\ verb'["effect"].config <= mod'.desired
    BY <1>1, <1>5, RecTyped DEF Recorder!Walks
  <2> QED BY <1>1, <1>5, <2>1, <2>2, RecWalked, RecTyped
<1>8. Recorder!Books'
  BY <1>1, RecTyped DEF Recorder!Books
<1>9. Recorder!Take'
  BY <1>1, <1>5, RecTyped, RecTakeKept
<1>10. Recorder!Knob'
  BY <1>1, <1>5, RecTyped, RecKnobKept DEF Recorder!Queued
<1>11. Recorder!ArmIsWatched'
  BY <1>1, <1>5, RecTyped DEF Recorder!ArmIsWatched
<1> QED BY <1>6, <1>7, <1>8, <1>9, <1>10, <1>11 DEF Recorder!IInv

LEMMA RecWatch == ASSUME Recorder!IInv, Recorder!Watch PROVE Recorder!IInv'
<1>1. UNCHANGED <<disk, opened, effects, obs, excused, disputed, faults>>
  BY DEF Recorder!Watch
<1>2. PICK m : m = [mod EXCEPT !.watch = FALSE]
  OBVIOUS
<1>3. /\ m \in RecModules /\ m.run = mod.run /\ m.live = mod.live /\ m.rec = mod.rec /\ m.desired = mod.desired
      /\ m.applying = mod.applying /\ m.dirty = mod.dirty /\ m.armed = mod.armed
  BY <1>2, RecTyped DEF RecModules
<1>4. mod' = m
  BY <1>2 DEF Recorder!Watch
<1>5. \/ ~mod.armed /\ UNCHANGED verb
      \/ verb' = Recorder!Begin("idle", "release", 0, FALSE)
  BY DEF Recorder!Watch
<1>6. /\ verb' \in [Recorder!Slots -> RecProcs] /\ verb'["effect"] = verb["effect"] /\ verb'["hand"] = verb["hand"]
      /\ verb'["idle"] = verb["idle"] \/ (Recorder!Course(verb'["idle"]) /\ verb'["idle"].kind = "release")
      /\ mod.armed => verb'["idle"].kind = "release"
  <2>1. CASE ~mod.armed /\ UNCHANGED verb
    BY <2>1, RecTyped
  <2>2. CASE verb' = Recorder!Begin("idle", "release", 0, FALSE)
    <3>1. /\ verb' \in [Recorder!Slots -> RecProcs] /\ \A s \in Recorder!Slots \ {"idle"} : verb'[s] = verb[s]
          /\ verb'["idle"].kind = "release" /\ verb'["idle"].config = 0 /\ verb'["idle"].final = FALSE
          /\ verb'["idle"].at = (IF "release" \in {"stop", "release"} THEN "dial" ELSE "ask")
      <4>1. "release" \in Recorder!Verbs /\ "idle" \in Recorder!Slots /\ 0 \in 0..MaxTakes
        BY RecTyped DEF Recorder!Verbs, Recorder!Slots
      <4> QED BY <2>2, <4>1, RecStarts
    <3>2. Recorder!Course(verb'["idle"])
      BY <3>1 DEF Recorder!Course
    <3> QED BY <3>1, <3>2 DEF Recorder!Slots
  <2> QED BY <1>5, <2>1, <2>2
<1>7. Recorder!TypeOK'
  BY <1>1, <1>3, <1>4, <1>6, RecTyped, RecTypes
<1>8. Recorder!Walks'
  <2>1. obs'.config <= mod'.desired /\ verb'["effect"].config <= mod'.desired
    BY <1>1, <1>3, <1>4, <1>6, RecTyped DEF Recorder!Walks
  <2> QED BY <1>1, <1>6, <2>1, RecWalked, RecTyped
<1>9. Recorder!Books'
  BY <1>1, <1>3, <1>4, RecTyped DEF Recorder!Books
<1>10. Recorder!Take'
  BY <1>1, <1>3, <1>4, <1>6, RecTyped, RecTakeKept
<1>11. Recorder!Knob'
  BY <1>1, <1>3, <1>4, <1>6, RecTyped, RecKnobKept DEF Recorder!Queued
<1>12. Recorder!ArmIsWatched'
  BY <1>3, <1>4, <1>6, RecNone DEF Recorder!ArmIsWatched
<1> QED BY <1>7, <1>8, <1>9, <1>10, <1>11, <1>12 DEF Recorder!IInv

LEMMA RecObsQuits == ASSUME Recorder!IInv, Recorder!ObsQuits PROVE Recorder!IInv'
<1>1. UNCHANGED <<mod, disk, opened, effects, verb, disputed>> /\ obs' = Recorder!Cold /\ excused' = TRUE /\ faults' = faults + 1
  BY DEF Recorder!ObsQuits, Recorder!Fault
<1>2. Recorder!Cold \in RecObs /\ Recorder!Cold.rolling = 0 /\ Recorder!Cold.config = 0 /\ 0 <= mod.desired
  BY RecTyped DEF Recorder!Cold, RecObs
<1>3. Recorder!TypeOK'
  BY <1>1, <1>2, RecTyped, RecTypes
<1>4. Recorder!Walks'
  BY <1>1, <1>2, RecTyped DEF Recorder!Walks, Recorder!Quits
<1>5. Recorder!Books'
  BY <1>1, <1>2, RecTyped DEF Recorder!Books
<1>6. Recorder!Take'
  BY <1>1, <1>2, RecTyped, RecTakeKept
<1>7. Recorder!Knob'
  BY <1>1 DEF Recorder!Knob
<1>8. Recorder!ArmIsWatched'
  BY <1>1, RecTyped DEF Recorder!ArmIsWatched
<1> QED BY <1>3, <1>4, <1>5, <1>6, <1>7, <1>8 DEF Recorder!IInv

\* The newest of the live journals is there if one is live.
LEMMA RecNewest ==
  ASSUME Recorder!IInv, Recorder!LiveOnDisk # {}
  PROVE  \E x \in Recorder!LiveOnDisk : \A y \in Recorder!LiveOnDisk : y <= x
<1>1. Recorder!LiveOnDisk \subseteq 1..opened /\ opened \in Nat
  BY RecTyped DEF Recorder!LiveOnDisk
<1> DEFINE N == {opened - y : y \in Recorder!LiveOnDisk}
<1>a. \A y \in Recorder!LiveOnDisk : y \in 1..opened /\ y \in Nat /\ opened - y \in Nat
  BY <1>1
<1>2. N \subseteq Nat /\ N # {}
  <2>1. PICK y \in Recorder!LiveOnDisk : TRUE
    OBVIOUS
  <2>2. opened - y \in N
    BY <2>1
  <2> QED BY <1>a, <2>2
<1>3. PICK n \in N : \A k \in N : n <= k
  <2> HIDE DEF N
  <2> QED BY <1>2, LeastNat
<1>4. PICK x \in Recorder!LiveOnDisk : n = opened - x
  OBVIOUS
<1>5. ASSUME NEW y \in Recorder!LiveOnDisk PROVE y <= x
  <2>1. opened - y \in N
    OBVIOUS
  <2>2. y \in Nat /\ x \in Nat
    BY <1>a
  <2>3. n <= opened - y
    BY <1>3, <2>1
  <2> QED BY <1>1, <1>4, <2>2, <2>3
<1> QED BY <1>5

LEMMA RecRestart == ASSUME Recorder!IInv, Recorder!Restart PROVE Recorder!IInv'
<1>1. UNCHANGED <<disk, opened, obs, disputed, faults>> /\ effects' = <<>> /\ excused' = TRUE /\ verb' = [verb EXCEPT !["idle"] = Recorder!NoVerb]
  BY DEF Recorder!Restart
<1>2. PICK r : r = IF Recorder!LiveOnDisk = {} THEN 0 ELSE CHOOSE x \in Recorder!LiveOnDisk : \A y \in Recorder!LiveOnDisk : y <= x
  OBVIOUS
<1>3. PICK rec : rec = IF r = 0 THEN Recorder!NoRecording ELSE disk[r].rec
  OBVIOUS
<1>4. mod' = [run |-> r, live |-> r # 0, rec |-> rec,
              desired |-> mod.desired, applying |-> FALSE, dirty |-> FALSE, arming |-> FALSE,
              armed |-> FALSE, watch |-> FALSE]
  BY <1>2, <1>3 DEF Recorder!Restart
<1>5. \A x \in Recorder!Runs : disk[x].live <=> x \in Recorder!LiveOnDisk
  <2>1. \A x \in Recorder!Runs : disk[x].live => x <= opened
    BY RecTyped DEF Recorder!Books
  <2> QED BY <2>1, RecTyped DEF Recorder!LiveOnDisk, Recorder!Runs
<1>6. Recorder!LiveOnDisk \subseteq Recorder!Runs
  BY RecTyped DEF Recorder!LiveOnDisk, Recorder!Runs
<1>7. /\ Recorder!LiveOnDisk = {} => r = 0
      /\ Recorder!LiveOnDisk # {} => r \in Recorder!LiveOnDisk /\ \A y \in Recorder!LiveOnDisk : y <= r
  BY <1>2, RecNewest
<1>8. r \in 0..MaxTakes /\ (r # 0 => r \in Recorder!Runs /\ r <= opened /\ disk[r].live)
  BY <1>5, <1>6, <1>7, RecTyped DEF Recorder!Runs, Recorder!LiveOnDisk
<1>9. Recorder!NoRecording \in Recorder!Recordings /\ ~Recorder!NoRecording.intent /\ ~Recorder!NoRecording.started
  <2>1. 0 \in 0..MaxTakes
    BY RecTyped
  <2> QED BY <2>1 DEF Recorder!NoRecording, Recorder!Recordings
<1>10. rec \in Recorder!Recordings
  BY <1>3, <1>8, <1>9, RecTyped DEF RecJournals
<1>11. /\ mod' \in RecModules /\ mod'.run = r /\ (mod'.live <=> r # 0) /\ mod'.rec = rec /\ mod'.desired = mod.desired
       /\ ~mod'.armed
  <2>1. PICK b \in BOOLEAN : b = (r # 0)
    OBVIOUS
  <2>2. mod' = [run |-> r, live |-> b, rec |-> rec,
              desired |-> mod.desired, applying |-> FALSE, dirty |-> FALSE, arming |-> FALSE,
              armed |-> FALSE, watch |-> FALSE]
    BY <1>4, <2>1
  <2>3. mod' \in RecModules /\ mod'.run = r /\ mod'.live = b /\ mod'.rec = rec /\ mod'.desired = mod.desired /\ ~mod'.armed
    BY <1>8, <1>10, <2>1, <2>2, RecTyped DEF RecModules
  <2> QED BY <2>1, <2>3
<1>12. verb' \in [Recorder!Slots -> RecProcs] /\ verb'["idle"] = Recorder!NoVerb /\ verb'["effect"] = verb["effect"] /\ verb'["hand"] = verb["hand"]
  BY <1>1, RecTyped, RecNone DEF Recorder!Slots
<1>13. Recorder!TypeOK'
  BY <1>1, <1>11, <1>12, RecTyped, RecTypes, EmptySeq
<1>14. Recorder!Walks'
  <2>1. obs'.config <= mod'.desired /\ verb'["effect"].config <= mod'.desired
    BY <1>1, <1>11, <1>12, RecTyped DEF Recorder!Walks
  <2> QED BY <1>1, <1>12, <2>1, RecWalked, RecTyped, EmptySeq
<1>15. Recorder!Books'
  <2>1. Recorder!Books
    BY RecTyped
  <2>2. mod'.run <= opened' /\ obs'.rolling <= opened' /\ (\A x \in Recorder!Runs : disk'[x].live => x <= opened')
    BY <1>1, <1>8, <1>11, <2>1, RecTyped DEF Recorder!Books
  <2>3. (mod'.run # 0 => disk'[mod'.run].rec = mod'.rec) /\ (mod'.run = 0 => ~mod'.live /\ ~mod'.rec.intent /\ ~mod'.rec.started)
    BY <1>1, <1>3, <1>9, <1>11
  <2>4. mod'.live => disk'[mod'.run].live /\ \A x \in Recorder!Runs : disk'[x].live => x <= mod'.run
    BY <1>1, <1>5, <1>7, <1>8, <1>11
  <2>5. ~obs'.up => obs'.rolling = 0 /\ obs'.config = 0
    BY <1>1, <2>1 DEF Recorder!Books
  <2> QED BY <2>2, <2>3, <2>4, <2>5 DEF Recorder!Books
<1>16. Recorder!Take'
  <2>1. Recorder!Starting => r = mod.run /\ mod'.live /\ rec = mod.rec
    <3> SUFFICES ASSUME Recorder!Starting PROVE r = mod.run /\ mod'.live /\ rec = mod.rec
      OBVIOUS
    <3>1. mod.live
      BY RecTyped DEF Recorder!Take
    <3>2. mod.run \in Recorder!Runs /\ mod.run # 0 /\ disk[mod.run].rec = mod.rec /\ mod.run \in Recorder!LiveOnDisk
          /\ \A x \in Recorder!LiveOnDisk : x <= mod.run
      BY <1>5, <1>6, <3>1, RecOnBooks, RecTyped DEF Recorder!Books
    <3>3. r = mod.run
      <4>1. r \in Recorder!LiveOnDisk /\ mod.run <= r /\ r <= mod.run
        BY <1>7, <3>2
      <4>2. r \in 0..MaxTakes /\ mod.run \in 0..MaxTakes /\ MaxTakes \in Nat
        BY <1>8, RecTyped
      <4> QED BY ONLY <4>1, <4>2
    <3> QED BY <1>3, <1>11, <3>2, <3>3
  <2>2. Recorder!Starting' <=> Recorder!Starting
    BY <1>12 DEF Recorder!Starting
  <2>3. Recorder!Starting' =>
          /\ verb'["effect"].run = mod'.run /\ mod'.live
          /\ mod'.run \notin disputed' => Recorder!Opening(mod'.rec)
    <3>1. Recorder!Starting => verb["effect"].run = mod.run /\ (mod.run \notin disputed => Recorder!Opening(mod.rec))
      BY RecTyped DEF Recorder!Take
    <3> QED BY <1>1, <1>11, <1>12, <2>1, <2>2, <3>1
  <2>4. obs'.rolling # 0 /\ obs'.rolling \notin disputed' =>
         LET rec1 == disk'[obs'.rolling].rec IN
           /\ rec1.intent /\ ~rec1.stopped
           /\ rec1.started \/ (Recorder!Starting' /\ verb'["effect"].at = "note" /\ verb'["effect"].run = obs'.rolling)
    BY <1>1, <1>12, <2>2, RecTyped DEF Recorder!Take
  <2> QED BY <2>3, <2>4 DEF Recorder!Take
<1>17. Recorder!Knob'
  BY <1>1 DEF Recorder!Knob
<1>18. Recorder!ArmIsWatched'
  BY <1>11 DEF Recorder!ArmIsWatched
<1> QED BY <1>13, <1>14, <1>15, <1>16, <1>17, <1>18 DEF Recorder!IInv

\* The verb that asks to record opens the run's take, or is refused.
LEMMA RecRecordAsk == ASSUME Recorder!IInv, NEW slot \in Recorder!Slots, Recorder!RecordAsk(slot), UNCHANGED <<obs, disputed>> PROVE Recorder!IInv'
<1> DEFINE v == verb["effect"]
<1>1. slot = "effect" /\ v \in RecProcs /\ v.kind = "record" /\ v.at = "ask" /\ v.run \in Recorder!Runs /\ ~v.final /\ v # Recorder!NoVerb /\ v.config \in Nat
  <2>1. slot = "effect" /\ v.kind = "record" /\ v.at = "ask" /\ v \in RecProcs /\ (v = Recorder!NoVerb \/ Recorder!Course(v))
    BY RecSlots DEF Recorder!RecordAsk, Recorder!At
  <2>2. Recorder!Course(v) /\ v # Recorder!NoVerb
    BY <2>1, RecNone
  <2>3. v.run # 0 /\ ~v.final /\ v.run \in 0..MaxTakes /\ v.config \in Nat
    BY <2>1, <2>2 DEF Recorder!Course, RecProcs
  <2> QED BY <2>1, <2>2, <2>3, RecTyped DEF Recorder!Runs
<1>2. UNCHANGED <<effects, excused, obs, disputed>>
  BY DEF Recorder!RecordAsk
<1>3. ~Recorder!Starting
  BY <1>1 DEF Recorder!Starting
<1>4. \A r \in Recorder!Runs : obs.rolling = r /\ r \notin disputed => disk[r].rec.intent /\ ~disk[r].rec.stopped /\ disk[r].rec.started
  BY <1>3, RecOnBooks DEF Recorder!Runs
<1>5. CASE /\ Recorder!MayOpen(v.run) /\ Recorder!NoFault /\ Recorder!Open(Recorder!Touched(Recorder!Opened))
           /\ verb' = [verb EXCEPT !["effect"].at = "dial", !["effect"].run = Recorder!Opened.run, !["effect"].config = mod.desired]
  <2>1. mod.live /\ v.run = mod.run /\ mod.run # 0 /\ Recorder!MayOpen(mod.run)
    <3>1. v.run # 0
      BY <1>1 DEF Recorder!Runs
    <3> QED BY <1>5, <3>1 DEF Recorder!MayOpen
  <2>2. /\ Recorder!Opened \in RecModules /\ Recorder!Opened.live /\ Recorder!Opened.run = mod.run /\ Recorder!Opened.run \in Recorder!Runs
        /\ Recorder!Opened.desired = mod.desired /\ Recorder!Opened.applying = mod.applying /\ Recorder!Opened.dirty = mod.dirty
        /\ Recorder!Opening(Recorder!Opened.rec) /\ ~mod.rec.started /\ ~mod.rec.stopped
    BY <2>1, RecOpens, RecTyped, RecOnBooks
  <2>3. mod' = Recorder!Touched(Recorder!Opened)
    BY <1>5 DEF Recorder!Open
  <2>4. /\ mod' \in RecModules /\ mod'.live /\ mod'.run = mod.run /\ mod'.run \in Recorder!Runs /\ mod'.desired = mod.desired
        /\ mod'.applying = mod.applying /\ mod'.dirty = mod.dirty /\ Recorder!Opening(mod'.rec) /\ (mod'.armed => mod'.watch)
    BY <2>2, <2>3, RecTouched
  <2>5. disk' = Recorder!Journal(mod') /\ opened' = (IF mod'.run > opened THEN mod'.run ELSE opened) /\ faults' = faults
    BY <1>5, <2>3 DEF Recorder!Open, Recorder!NoFault
  <2>6. /\ Recorder!Books' /\ disk' \in RecJournals /\ opened' \in 0..MaxTakes
        /\ disk'[mod'.run].rec = mod'.rec /\ \A r \in Recorder!Runs \ {mod'.run} : disk'[r] = disk[r]
    BY <1>2, <2>1, <2>4, <2>5, RecBooksOpen
  <2>7. PICK q : q = [v EXCEPT !.at = "dial", !.run = mod.run, !.config = mod.desired]
    OBVIOUS
  <2>8. q \in RecProcs /\ q.kind = "record" /\ q.at = "dial" /\ q.run = mod.run /\ q.config = mod.desired /\ ~q.final
    BY <1>1, <2>7, RecTyped DEF RecProcs, Recorder!Steps
  <2>9. verb' = [verb EXCEPT !["effect"] = q]
    BY <1>5, <2>2, <2>7
  <2>10. verb' \in [Recorder!Slots -> RecProcs] /\ verb'["effect"] = q /\ verb'["hand"] = verb["hand"] /\ verb'["idle"] = verb["idle"]
    BY <2>8, <2>9, RecTyped DEF Recorder!Slots
  <2>11. Recorder!TypeOK'
    BY <1>2, <2>4, <2>5, <2>6, <2>10, RecTyped, RecTypes
  <2>12. Recorder!Walks'
    <3>1. Recorder!Course(q)
      BY <2>1, <2>8 DEF Recorder!Course, Recorder!AskedIn
    <3>2. obs'.config <= mod'.desired /\ q.config <= mod'.desired
      BY <1>2, <2>4, <2>8, RecTyped DEF Recorder!Walks
    <3> QED BY <1>2, <2>10, <3>1, <3>2, RecTyped, RecWalked
  <2>13. Recorder!Take'
    <3>1. Recorder!Starting' =>
            /\ verb'["effect"].run = mod'.run /\ mod'.live
            /\ mod'.run \notin disputed' => Recorder!Opening(mod'.rec)
      BY <2>4, <2>8, <2>10
    <3>2. ASSUME obs'.rolling # 0, obs'.rolling \notin disputed'
          PROVE  LET rec == disk'[obs'.rolling].rec IN
                   /\ rec.intent /\ ~rec.stopped
                   /\ rec.started \/ (Recorder!Starting' /\ verb'["effect"].at = "note" /\ verb'["effect"].run = obs'.rolling)
      <4>1. obs'.rolling = obs.rolling /\ obs.rolling \in Recorder!Runs /\ obs.rolling \notin disputed
        BY <1>2, <3>2, RecTyped DEF Recorder!Runs
      <4>2. obs.rolling # mod.run
        BY <1>4, <2>1, <2>2, <4>1, RecOnBooks
      <4>3. disk'[obs'.rolling] = disk[obs.rolling]
        BY <2>4, <2>6, <4>1, <4>2
      <4> QED BY <1>4, <4>1, <4>3
    <3> QED BY <3>1, <3>2 DEF Recorder!Take
  <2>14. Recorder!Knob'
    <3> SUFFICES ASSUME ~excused' PROVE Recorder!Knob'
      BY DEF Recorder!Knob
    <3>1. ~excused /\ (Recorder!Queued <=> Recorder!Queued')
      BY <1>2 DEF Recorder!Queued
    <3>2. (mod.applying => Recorder!Queued) /\ (obs.config \notin {0, mod.desired} => Recorder!Queued)
      BY <1>1, <3>1, RecTyped DEF Recorder!Knob, Recorder!Coming, Recorder!Applying
    <3> QED BY <1>2, <2>4, <2>8, <2>10, <3>1, <3>2 DEF Recorder!Knob, Recorder!Coming
  <2>15. Recorder!ArmIsWatched'
    BY <2>4 DEF Recorder!ArmIsWatched
  <2> QED BY <2>6, <2>11, <2>12, <2>13, <2>14, <2>15 DEF Recorder!IInv
<1>6. CASE (Recorder!Fault \/ Recorder!NoFault) /\ Recorder!Ends(slot) /\ mod' = Recorder!Touched(mod) /\ UNCHANGED <<disk, opened>>
  <2>1. /\ mod' \in RecModules /\ mod'.run = mod.run /\ mod'.live = mod.live /\ mod'.rec = mod.rec /\ mod'.desired = mod.desired
        /\ mod'.applying = mod.applying /\ mod'.dirty = mod.dirty /\ (mod'.armed => mod'.watch)
    BY <1>6, RecTyped, RecTouched
  <2>2. faults' \in Nat
    BY <1>6, RecTyped DEF Recorder!Fault, Recorder!NoFault
  <2>3. verb' \in [Recorder!Slots -> RecProcs] /\ verb'["effect"] = Recorder!NoVerb /\ verb'["hand"] = verb["hand"] /\ verb'["idle"] = verb["idle"]
    BY <1>1, <1>6, RecTyped, RecEnds DEF Recorder!Slots
  <2>4. Recorder!TypeOK'
    BY <1>2, <1>6, <2>1, <2>2, <2>3, RecTyped, RecTypes
  <2>5. Recorder!Walks'
    <3>1. obs'.config <= mod'.desired /\ verb'["effect"].config <= mod'.desired
      BY <1>2, <2>1, <2>3, RecNone, RecTyped DEF Recorder!Walks
    <3> QED BY <1>2, <2>3, <3>1, RecTyped, RecWalked
  <2>6. Recorder!Books'
    BY <1>2, <1>6, <2>1, RecTyped DEF Recorder!Books
  <2>7. Recorder!Take'
    <3>1. ~Recorder!Starting'
      BY <2>3, RecNone DEF Recorder!Starting
    <3> QED BY <1>2, <1>4, <1>6, <3>1, RecTyped, RecTakeRests
  <2>8. Recorder!Knob'
    BY <1>1, <1>2, <2>1, <2>3, RecTyped, RecKnobEnds DEF Recorder!Queued
  <2>9. Recorder!ArmIsWatched'
    BY <2>1 DEF Recorder!ArmIsWatched
  <2> QED BY <2>4, <2>5, <2>6, <2>7, <2>8, <2>9 DEF Recorder!IInv
<1>7. \/ Recorder!MayOpen(v.run) /\ Recorder!NoFault /\ Recorder!Open(Recorder!Touched(Recorder!Opened))
         /\ verb' = [verb EXCEPT !["effect"].at = "dial", !["effect"].run = Recorder!Opened.run, !["effect"].config = mod.desired]
      \/ (Recorder!Fault \/ Recorder!NoFault) /\ Recorder!Ends(slot) /\ mod' = Recorder!Touched(mod) /\ UNCHANGED <<disk, opened>>
  <2>1. slot = "effect"
    BY <1>1
  <2> QED BY <2>1 DEF Recorder!RecordAsk
<1> QED BY <1>5, <1>6, <1>7

\* The verb that asks for the configuration has the one of now.
LEMMA RecApplyAsk == ASSUME Recorder!IInv, NEW slot \in Recorder!Slots, Recorder!ApplyAsk(slot), UNCHANGED <<obs, disputed>> PROVE Recorder!IInv'
<1> DEFINE v == verb["effect"]
<1>1. slot = "effect" /\ v \in RecProcs /\ v.kind \in {"apply", "arm"} /\ v.at = "ask" /\ ~v.final /\ v # Recorder!NoVerb
  <2>1. slot = "effect" /\ v.kind \in {"apply", "arm"} /\ v.at = "ask" /\ v \in RecProcs /\ (v = Recorder!NoVerb \/ Recorder!Course(v))
    BY RecSlots DEF Recorder!ApplyAsk, Recorder!At
  <2>2. Recorder!Course(v) /\ v # Recorder!NoVerb
    BY <2>1, RecNone
  <2> QED BY <2>1, <2>2 DEF Recorder!Course
<1>2. UNCHANGED <<effects, disk, opened, obs, disputed>>
  BY DEF Recorder!ApplyAsk
<1>3. ~Recorder!Starting
  BY <1>1 DEF Recorder!Starting
<1>4. \A r \in Recorder!Runs : obs.rolling = r /\ r \notin disputed => disk[r].rec.intent /\ ~disk[r].rec.stopped /\ disk[r].rec.started
  BY <1>3, RecOnBooks DEF Recorder!Runs
<1>5. CASE /\ mod' = Recorder!Touched([mod EXCEPT !.dirty = FALSE]) /\ Recorder!NoFault /\ UNCHANGED excused
           /\ verb' = [verb EXCEPT !["effect"].at = "dial", !["effect"].config = mod.desired]
  <2>1. PICK m : m = [mod EXCEPT !.dirty = FALSE]
    OBVIOUS
  <2>2. /\ m \in RecModules /\ m.run = mod.run /\ m.live = mod.live /\ m.rec = mod.rec /\ m.desired = mod.desired
        /\ m.applying = mod.applying
    BY <2>1, RecTyped DEF RecModules
  <2>3. /\ mod' \in RecModules /\ mod'.run = mod.run /\ mod'.live = mod.live /\ mod'.rec = mod.rec /\ mod'.desired = mod.desired
        /\ mod'.applying = mod.applying /\ (mod'.armed => mod'.watch)
    BY <1>5, <2>1, <2>2, RecTouched
  <2>4. PICK q : q = [v EXCEPT !.at = "dial", !.config = mod.desired]
    OBVIOUS
  <2>5. q \in RecProcs /\ q.kind = v.kind /\ q.at = "dial" /\ q.config = mod.desired /\ ~q.final
    BY <1>1, <2>4, RecTyped DEF RecProcs, Recorder!Steps
  <2>6. verb' = [verb EXCEPT !["effect"] = q]
    BY <1>5, <2>4
  <2>7. verb' \in [Recorder!Slots -> RecProcs] /\ verb'["effect"] = q /\ verb'["hand"] = verb["hand"] /\ verb'["idle"] = verb["idle"]
    BY <2>5, <2>6, RecTyped DEF Recorder!Slots
  <2>8. Recorder!TypeOK'
    BY <1>2, <1>5, <2>3, <2>7, RecTyped, RecTypes DEF Recorder!NoFault
  <2>9. Recorder!Walks'
    <3>1. Recorder!Course(q)
      BY <1>1, <2>5 DEF Recorder!Course, Recorder!AskedIn
    <3>2. obs'.config <= mod'.desired /\ q.config <= mod'.desired
      BY <1>2, <2>3, <2>5, RecTyped DEF Recorder!Walks
    <3> QED BY <1>2, <2>7, <3>1, <3>2, RecTyped, RecWalked
  <2>10. Recorder!Books'
    BY <1>2, <2>3, RecTyped DEF Recorder!Books
  <2>11. Recorder!Take'
    <3>1. ~Recorder!Starting'
      BY <1>1, <2>5, <2>7 DEF Recorder!Starting
    <3> QED BY <1>2, <1>4, <3>1, RecTyped, RecTakeRests
  <2>12. Recorder!Knob'
    <3> SUFFICES ASSUME ~excused' PROVE Recorder!Knob'
      BY DEF Recorder!Knob
    <3>1. ~excused /\ (Recorder!Queued <=> Recorder!Queued')
      BY <1>2, <1>5 DEF Recorder!Queued
    <3>2. /\ mod.applying => Recorder!Queued \/ v.kind = "apply"
          /\ obs.config \notin {0, mod.desired} => Recorder!Queued \/ v.kind = "apply"
      BY <1>1, <3>1, RecTyped DEF Recorder!Knob, Recorder!Coming, Recorder!Applying
    <3>3. v.kind = "apply" => Recorder!Applying'
      BY <2>3, <2>5, <2>7 DEF Recorder!Applying
    <3> QED BY <1>2, <2>3, <2>5, <2>7, <3>1, <3>2, <3>3 DEF Recorder!Knob, Recorder!Coming
  <2>13. Recorder!ArmIsWatched'
    BY <2>3 DEF Recorder!ArmIsWatched
  <2> QED BY <2>8, <2>9, <2>10, <2>11, <2>12, <2>13 DEF Recorder!IInv
<1>6. CASE Recorder!Fault /\ Recorder!Ends(slot) /\ UNCHANGED mod /\ excused' = TRUE
  <2>1. verb' \in [Recorder!Slots -> RecProcs] /\ verb'["effect"] = Recorder!NoVerb /\ verb'["hand"] = verb["hand"] /\ verb'["idle"] = verb["idle"]
    BY <1>1, <1>6, RecTyped, RecEnds DEF Recorder!Slots
  <2>2. faults' = faults + 1 /\ faults' \in Nat /\ faults' > 0
    BY <1>6, RecTyped DEF Recorder!Fault
  <2>3. Recorder!TypeOK'
    BY <1>2, <1>6, <2>1, <2>2, RecTyped, RecTypes
  <2>4. Recorder!Walks'
    <3>1. obs'.config <= mod'.desired /\ verb'["effect"].config <= mod'.desired
      BY <1>2, <1>6, <2>1, RecNone, RecTyped DEF Recorder!Walks
    <3> QED BY <1>2, <2>1, <3>1, RecTyped, RecWalked
  <2>5. Recorder!Books'
    BY <1>2, <1>6, RecTyped DEF Recorder!Books
  <2>6. Recorder!Take'
    <3>1. ~Recorder!Starting'
      BY <2>1, RecNone DEF Recorder!Starting
    <3> QED BY <1>2, <1>4, <3>1, RecTyped, RecTakeRests
  <2>7. Recorder!Knob' /\ Recorder!ArmIsWatched'
    BY <1>6, <2>2 DEF Recorder!Knob, Recorder!ArmIsWatched
  <2> QED BY <2>3, <2>4, <2>5, <2>6, <2>7 DEF Recorder!IInv
<1>7. \/ /\ mod' = Recorder!Touched([mod EXCEPT !.dirty = FALSE]) /\ Recorder!NoFault /\ UNCHANGED excused
         /\ verb' = [verb EXCEPT !["effect"].at = "dial", !["effect"].config = mod.desired]
      \/ Recorder!Fault /\ Recorder!Ends(slot) /\ UNCHANGED mod /\ excused' = TRUE
  <2>1. slot = "effect"
    BY <1>1
  <2> QED BY <2>1 DEF Recorder!ApplyAsk
<1> QED BY <1>5, <1>6, <1>7

\* A quit ends the run, cuts what it queued, and takes a take that rolls on itself.
LEMMA RecQuitAsk == ASSUME Recorder!IInv, NEW slot \in Recorder!Slots, Recorder!QuitAsk(slot), UNCHANGED obs PROVE Recorder!IInv'
<1>1. slot = "hand" /\ verb["hand"].kind = "quit" /\ verb["hand"].at = "ask" /\ verb["hand"] \in RecProcs /\ Recorder!Quits(verb["hand"])
  <2>1. slot = "hand" /\ verb["hand"].kind = "quit" /\ verb["hand"].at = "ask" /\ verb["hand"] \in RecProcs
        /\ (verb["hand"] = Recorder!NoVerb \/ Recorder!Quits(verb["hand"]) \/ (Recorder!Course(verb["hand"]) /\ verb["hand"].kind = "release"))
    BY RecSlots DEF Recorder!QuitAsk, Recorder!At
  <2> QED BY <2>1, RecNone
<1>2. UNCHANGED <<opened, obs, faults>> /\ disputed' = disputed \cup ({mod.run} \ {0})
  BY DEF Recorder!QuitAsk, Recorder!NoFault
<1>3. PICK m : m = [mod EXCEPT !.live = FALSE, !.armed = FALSE, !.arming = FALSE]
  OBVIOUS
<1>4. /\ m \in RecModules /\ m.run = mod.run /\ ~m.live /\ m.rec = mod.rec /\ m.desired = mod.desired
      /\ m.applying = mod.applying /\ m.dirty = mod.dirty /\ ~m.armed
  BY <1>3, RecTyped DEF RecModules
<1>5. /\ mod' \in RecModules /\ mod'.run = mod.run /\ ~mod'.live /\ mod'.rec = mod.rec /\ mod'.desired = mod.desired
      /\ mod'.applying = mod.applying /\ mod'.dirty = mod.dirty /\ ~mod'.armed
  BY <1>3, <1>4, RecTouched DEF Recorder!QuitAsk
<1>6. PICK b \in BOOLEAN : b = Recorder!StopWorthy(mod.rec)
  BY DEF Recorder!StopWorthy
<1>7. b => mod.run # 0
  BY <1>6, RecOnBooks DEF Recorder!StopWorthy
<1>8. PICK q : q = [verb["hand"] EXCEPT !.at = "dial", !.run = mod.run, !.rolling = b]
  OBVIOUS
<1>9. q \in RecProcs /\ q.kind = "quit" /\ q.at = "dial" /\ q.run = mod.run /\ q.config = 0 /\ ~q.final /\ q.rolling = b
  BY <1>1, <1>8, RecTyped DEF RecProcs, Recorder!Steps, Recorder!Quits
<1>10. mod.run # 0 => mod.run \in Recorder!Runs /\ mod.run \in disputed'
  BY <1>2, RecTyped DEF Recorder!Runs
<1>11. disputed' \subseteq Recorder!Runs /\ disputed \subseteq disputed'
  BY <1>2, <1>10, RecTyped
<1>12. \/ /\ mod.live /\ disk' = Recorder!Journal(mod') /\ effects' = Recorder!Cut /\ excused' = (excused \/ Recorder!CutsApply)
          /\ verb' = [Recorder!CutChild EXCEPT !["hand"] = q]
       \/ ~mod.live /\ UNCHANGED <<disk, effects, excused>> /\ verb' = [verb EXCEPT !["hand"] = q]
  <2>1. Recorder!CutChild["hand"] = verb["hand"]
    BY RecCuts DEF Recorder!Slots
  <2>2. mod.live => verb' = [Recorder!CutChild EXCEPT !["hand"].at = "dial", !["hand"].run = mod.run, !["hand"].rolling = b]
    BY <1>1, <1>6 DEF Recorder!QuitAsk
  <2>3. mod.live => verb' = [Recorder!CutChild EXCEPT !["hand"] = q]
    BY <1>8, <2>1, <2>2
  <2>4. ~mod.live => verb' = [verb EXCEPT !["hand"].at = "dial", !["hand"].run = mod.run, !["hand"].rolling = b]
    BY <1>1, <1>6 DEF Recorder!QuitAsk
  <2>5. ~mod.live => verb' = [verb EXCEPT !["hand"] = q]
    BY <1>8, <2>4
  <2>6. mod.live => disk' = Recorder!Journal(mod') /\ effects' = Recorder!Cut /\ excused' = (excused \/ Recorder!CutsApply)
    BY DEF Recorder!QuitAsk
  <2>7. ~mod.live => UNCHANGED <<disk, effects, excused>>
    BY DEF Recorder!QuitAsk
  <2> QED BY <2>3, <2>5, <2>6, <2>7
<1>13. (Recorder!Quits(verb["hand"]))' \/ verb'["hand"] # q
  BY <1>7, <1>9, <1>10 DEF Recorder!Quits, Recorder!Steps
<1>14. CASE /\ mod.live /\ disk' = Recorder!Journal(mod') /\ effects' = Recorder!Cut /\ excused' = (excused \/ Recorder!CutsApply)
            /\ verb' = [Recorder!CutChild EXCEPT !["hand"] = q]
  <2>1. /\ verb' \in [Recorder!Slots -> RecProcs] /\ verb'["effect"] = Recorder!CutChild["effect"] /\ verb'["hand"] = q
        /\ verb'["idle"] = verb["idle"]
    BY <1>9, <1>14, RecCuts DEF Recorder!Slots
  <2>2. effects' \in Seq(Recorder!Queueable) /\ excused' \in BOOLEAN
    BY <1>14, RecCuts, RecTyped
  <2>3. mod.run # 0 /\ mod.run \in Recorder!Runs /\ disk[mod.run].rec = mod.rec
    BY <1>14, RecOnBooks
  <2>4. /\ disk' \in RecJournals /\ \A r \in Recorder!Runs : disk'[r].rec = disk[r].rec /\ (disk'[r].live => disk[r].live)
    <3>1. \A x \in RecModules : x.run # 0 =>
          /\ Recorder!Journal(x) \in RecJournals /\ Recorder!Journal(x)[x.run].live = x.live /\ Recorder!Journal(x)[x.run].rec = x.rec
          /\ \A r \in Recorder!Runs \ {x.run} : Recorder!Journal(x)[r] = disk[r]
      BY RecTyped, RecWrites
    <3>2. /\ disk' \in RecJournals /\ disk'[mod.run].live = mod'.live /\ disk'[mod.run].rec = mod.rec
          /\ \A r \in Recorder!Runs \ {mod.run} : disk'[r] = disk[r]
      BY <1>5, <1>14, <2>3, <3>1
    <3> QED BY <1>5, <2>3, <3>2
  <2>5. Recorder!TypeOK'
    BY <1>2, <1>5, <1>11, <2>1, <2>2, <2>4, RecTyped, RecTypes
  <2>6. Recorder!Walks'
    <3>1. obs'.config <= mod'.desired
      BY <1>2, <1>5, RecTyped DEF Recorder!Walks
    <3>2. verb'["effect"].config <= mod'.desired
      <4>1. verb["effect"].config <= mod.desired
        BY RecTyped DEF Recorder!Walks
      <4> QED BY <1>5, <2>1, <4>1, RecCuts, RecNone, RecTyped
    <3>3. verb'["effect"] = Recorder!NoVerb \/ Recorder!Course(verb'["effect"])
      BY <2>1, RecCuts
    <3> QED BY <1>11, <1>13, <2>1, <2>2, <3>1, <3>2, <3>3, RecWalked
  <2>7. Recorder!Books'
    <3>1. Recorder!Books
      BY RecTyped
    <3> QED BY <1>2, <1>5, <2>3, <2>4, <3>1 DEF Recorder!Books
  <2>8. Recorder!Take'
    <3>1. ~Recorder!Starting'
      BY <2>1, RecCuts, RecNone DEF Recorder!Starting
    <3>2. ASSUME NEW r \in Recorder!Runs, obs'.rolling = r, r \notin disputed'
          PROVE  disk'[r].rec.intent /\ ~disk'[r].rec.stopped /\ disk'[r].rec.started
      <4>1. obs.rolling = r /\ r \notin disputed /\ r # 0 /\ r # mod.run
        BY <1>2, <1>10, <2>3, <3>2 DEF Recorder!Runs
      <4>2. Recorder!Starting => verb["effect"].run = mod.run
        BY RecTyped DEF Recorder!Take
      <4> QED BY <2>4, <4>1, <4>2, RecOnBooks
    <3> QED BY <1>2, <3>1, <3>2, RecTyped, RecTakeRests
  <2>9. Recorder!Knob'
    BY <1>2, <1>5, <1>14, <2>1, RecKnobCut
  <2>10. Recorder!ArmIsWatched'
    BY <1>5 DEF Recorder!ArmIsWatched
  <2> QED BY <2>5, <2>6, <2>7, <2>8, <2>9, <2>10 DEF Recorder!IInv
<1>15. CASE ~mod.live /\ UNCHANGED <<disk, effects, excused>> /\ verb' = [verb EXCEPT !["hand"] = q]
  <2>1. verb' \in [Recorder!Slots -> RecProcs] /\ verb'["effect"] = verb["effect"] /\ verb'["hand"] = q /\ verb'["idle"] = verb["idle"]
    BY <1>9, <1>15, RecTyped DEF Recorder!Slots
  <2>2. Recorder!TypeOK'
    BY <1>2, <1>5, <1>11, <1>15, <2>1, RecTyped, RecTypes
  <2>3. Recorder!Walks'
    <3>1. obs'.config <= mod'.desired /\ verb'["effect"].config <= mod'.desired
      BY <1>2, <1>5, <2>1, RecTyped DEF Recorder!Walks
    <3> QED BY <1>11, <1>13, <1>15, <2>1, <3>1, RecWalked, RecTyped
  <2>4. Recorder!Books'
    BY <1>2, <1>5, <1>15, RecTyped DEF Recorder!Books
  <2>5. Recorder!Take'
    <3>1. ~Recorder!Starting /\ ~Recorder!Starting'
      BY <1>15, <2>1, RecTyped DEF Recorder!Starting, Recorder!Take
    <3>2. \A r \in Recorder!Runs : obs'.rolling = r /\ r \notin disputed' => disk'[r].rec.intent /\ ~disk'[r].rec.stopped /\ disk'[r].rec.started
      BY <1>2, <1>11, <1>15, <3>1, RecOnBooks, RecTyped DEF Recorder!Runs
    <3> QED BY <1>2, <3>1, <3>2, RecTyped, RecTakeRests
  <2>6. Recorder!Knob'
    BY <1>2, <1>5, <1>15, <2>1, RecTyped, RecKnobKept DEF Recorder!Queued
  <2>7. Recorder!ArmIsWatched'
    BY <1>5 DEF Recorder!ArmIsWatched
  <2> QED BY <2>2, <2>3, <2>4, <2>5, <2>6, <2>7 DEF Recorder!IInv
<1> QED BY <1>12, <1>14, <1>15

LEMMA RecAsk == ASSUME Recorder!IInv, NEW slot \in Recorder!Slots, Recorder!Ask(slot) PROVE Recorder!IInv'
BY RecRecordAsk, RecApplyAsk, RecQuitAsk DEF Recorder!Ask

\* A verb at work is on the course of its kind; only a quit goes its own.
LEMMA RecAtWork ==
  ASSUME Recorder!IInv, NEW slot \in Recorder!Slots, verb[slot] # Recorder!NoVerb
  PROVE  /\ verb[slot] \in RecProcs /\ verb[slot].kind # "none"
         /\ verb[slot].kind = "quit" => slot = "hand" /\ Recorder!Quits(verb[slot])
         /\ verb[slot].kind # "quit" => Recorder!Course(verb[slot])
         /\ verb[slot].kind \in {"record", "apply", "arm", "stop"} => slot = "effect"
<1>1. slot \in {"effect", "hand", "idle"}
  BY DEF Recorder!Slots
<1>2. \/ slot = "effect" /\ Recorder!Course(verb[slot])
      \/ slot = "hand" /\ (Recorder!Quits(verb[slot]) \/ (Recorder!Course(verb[slot]) /\ verb[slot].kind = "release"))
      \/ slot = "idle" /\ Recorder!Course(verb[slot]) /\ verb[slot].kind = "release"
  BY <1>1, RecSlots
<1>3. Recorder!Course(verb[slot]) => verb[slot].kind \in {"record", "stop", "apply", "arm", "release"}
  BY DEF Recorder!Course
<1>4. Recorder!Quits(verb[slot]) => verb[slot].kind = "quit"
  BY DEF Recorder!Quits
<1> QED BY <1>2, <1>3, <1>4, RecSlots

\* A verb that goes on from one step to the next, the module and its books left alone.
LEMMA RecMoves ==
  ASSUME Recorder!IInv, NEW slot \in Recorder!Slots, verb[slot] # Recorder!NoVerb, UNCHANGED <<mod, disk, opened, effects, disputed>>,
         obs' \in RecObs, obs'.config <= mod.desired, faults' \in Nat, faults' >= faults, excused' \in BOOLEAN,
         NEW step \in Recorder!Steps, Recorder!Goes(slot, step),
         verb[slot].kind # "quit" => Recorder!Course(verb'[slot]), verb[slot].kind = "quit" => (Recorder!Quits(verb[slot]))'
  PROVE  Recorder!TypeOK' /\ Recorder!Walks' /\ Recorder!ArmIsWatched' /\ (slot # "effect" => verb'["effect"] = verb["effect"])
<1>1. /\ verb' \in [Recorder!Slots -> RecProcs] /\ \A s \in Recorder!Slots \ {slot} : verb'[s] = verb[s]
      /\ verb'[slot].at = step /\ verb'[slot].kind = verb[slot].kind /\ verb'[slot].run = verb[slot].run
      /\ verb'[slot].config = verb[slot].config
  BY RecTyped, RecGoes
<1>2. /\ verb[slot].kind # "none" /\ (verb[slot].kind = "quit" => slot = "hand")
      /\ verb[slot].kind \in {"record", "apply", "arm", "stop"} => slot = "effect"
  BY RecAtWork
<1>3. Recorder!TypeOK'
  BY <1>1, RecTyped, RecTypes
<1>4. slot # "effect" => verb'["effect"] = verb["effect"]
  BY <1>1 DEF Recorder!Slots
<1>5. Recorder!Walks'
  <2>1. verb["effect"].config <= mod.desired
    BY RecTyped DEF Recorder!Walks
  <2>2. verb'["effect"].config <= mod'.desired /\ obs'.config <= mod'.desired
    BY <1>1, <1>4, <2>1
  <2>3. slot # "effect" => verb[slot].kind \in {"release", "quit"}
    BY <1>2, RecAtWork DEF Recorder!Course
  <2>4. verb'["effect"] = verb["effect"] \/ Recorder!Course(verb'["effect"])
    BY <1>2, <1>4
  <2>5. verb'["hand"] = verb["hand"] \/ (Recorder!Quits(verb["hand"]))' \/ (Recorder!Course(verb'["hand"]) /\ verb'["hand"].kind = "release")
    <3>1. CASE slot = "hand"
      BY <1>1, <2>3, <3>1
    <3>2. CASE slot # "hand"
      BY <1>1, <3>2 DEF Recorder!Slots
    <3> QED BY <3>1, <3>2
  <2>6. verb'["idle"] = verb["idle"] \/ (Recorder!Course(verb'["idle"]) /\ verb'["idle"].kind = "release")
    <3>1. CASE slot = "idle"
      BY <1>1, <1>2, <2>3, <3>1
    <3>2. CASE slot # "idle"
      BY <1>1, <3>2 DEF Recorder!Slots
    <3> QED BY <3>1, <3>2
  <2> QED BY <2>2, <2>4, <2>5, <2>6, RecWalked, RecTyped
<1>6. Recorder!ArmIsWatched'
  <2>1. mod.armed => mod.watch \/ verb["idle"] # Recorder!NoVerb \/ faults > 0
    BY RecTyped DEF Recorder!ArmIsWatched
  <2>2. verb["idle"] # Recorder!NoVerb => verb'["idle"] # Recorder!NoVerb
    BY <1>1, <1>2, RecNone DEF Recorder!Slots
  <2>3. faults > 0 => faults' > 0
    BY RecTyped
  <2> QED BY <2>1, <2>2, <2>3 DEF Recorder!ArmIsWatched
<1> QED BY <1>3, <1>4, <1>5, <1>6

\* A verb that leaves its slot.
LEMMA RecLeaves ==
  ASSUME Recorder!IInv, NEW slot \in Recorder!Slots, Recorder!Ends(slot), mod' \in RecModules, mod'.desired = mod.desired, disk' \in RecJournals,
         opened' = opened, effects' \in Seq(Recorder!Queueable), obs' \in RecObs, obs'.config <= mod.desired,
         disputed' \subseteq Recorder!Runs, disputed \subseteq disputed', faults' \in Nat, excused' \in BOOLEAN
  PROVE  /\ Recorder!TypeOK' /\ Recorder!Walks' /\ verb'[slot] = Recorder!NoVerb /\ \A s \in Recorder!Slots \ {slot} : verb'[s] = verb[s]
         /\ slot # "effect" => verb'["effect"] = verb["effect"]
         /\ slot # "idle" => verb'["idle"] = verb["idle"]
<1>1. verb' \in [Recorder!Slots -> RecProcs] /\ (\A s \in Recorder!Slots \ {slot} : verb'[s] = verb[s]) /\ verb'[slot] = Recorder!NoVerb
  BY RecTyped, RecEnds
<1>2. /\ verb'["effect"] = verb["effect"] \/ verb'["effect"] = Recorder!NoVerb
      /\ verb'["hand"] = verb["hand"] \/ verb'["hand"] = Recorder!NoVerb
      /\ verb'["idle"] = verb["idle"] \/ verb'["idle"] = Recorder!NoVerb
      /\ slot # "effect" => verb'["effect"] = verb["effect"]
      /\ slot # "idle" => verb'["idle"] = verb["idle"]
  BY <1>1 DEF Recorder!Slots
<1>3. Recorder!TypeOK'
  BY <1>1, RecTyped, RecTypes
<1>4. Recorder!Walks'
  <2>1. verb["effect"].config <= mod.desired
    BY RecTyped DEF Recorder!Walks
  <2>2. verb'["effect"].config <= mod'.desired /\ obs'.config <= mod'.desired
    BY <1>2, <2>1, RecNone, RecTyped
  <2> QED BY <1>2, <2>2, RecWalked
<1> QED BY <1>1, <1>2, <1>3, <1>4

\* The take while the owner's verb goes on: nothing but a note on its way is lost to it.
LEMMA RecTakeGoes ==
  ASSUME Recorder!IInv, Recorder!Starting' <=> Recorder!Starting, verb'["effect"].run = verb["effect"].run,
         verb["effect"].at # "note" \/ verb'["effect"].at = "note",
         obs'.rolling \in {obs.rolling, 0}, UNCHANGED <<mod, disk, disputed>>
  PROVE  Recorder!Take'
<1>1. Recorder!Take
  BY RecTyped
<1> QED BY <1>1 DEF Recorder!Take

\* The knob while the owner's verb goes on.
LEMMA RecKnobGoes ==
  ASSUME Recorder!Knob, excused => excused', Recorder!Queued => Recorder!Queued', mod'.desired = mod.desired, mod'.applying = mod.applying,
         mod'.dirty = mod.dirty, obs'.config = obs.config, verb'["effect"].kind = verb["effect"].kind,
         verb["effect"].kind \in {"record", "arm", "apply"} => verb'["effect"].config = verb["effect"].config,
         verb'["effect"].at \in {"dial", "scene"} => verb["effect"].at \in {"dial", "scene"},
         verb["effect"].kind = "apply" /\ verb["effect"].at \in {"ask", "dial", "scene"} =>
           excused' \/ (verb["effect"].at # "ask" /\ verb'["effect"].at \in {"dial", "scene"})
  PROVE  Recorder!Knob'
<1> SUFFICES ASSUME ~excused' PROVE Recorder!Knob'
  BY DEF Recorder!Knob
<1>1. ~excused
  OBVIOUS
<1>2. Recorder!Coming => Recorder!Coming'
  BY DEF Recorder!Coming
<1>3. Recorder!Applying => Recorder!Applying'
  BY DEF Recorder!Applying
<1>4. mod'.applying => Recorder!Queued' \/ verb'["effect"].kind = "apply"
  BY <1>1 DEF Recorder!Knob
<1>5. verb'["effect"].at \in {"dial", "scene"} /\ verb'["effect"].kind \in {"record", "arm", "apply"}
         /\ verb'["effect"].config # mod'.desired => Recorder!Coming'
  BY <1>1, <1>2 DEF Recorder!Knob
<1>6. obs'.config \notin {0, mod'.desired} => Recorder!Coming' \/ Recorder!Applying'
  BY <1>1, <1>2, <1>3 DEF Recorder!Knob
<1> QED BY <1>4, <1>5, <1>6 DEF Recorder!Knob

\* OBS has no configuration: there is nothing for the knob to differ from.
LEMMA RecKnobCold ==
  ASSUME Recorder!Knob, excused => excused', Recorder!Queued => Recorder!Queued', mod'.desired = mod.desired, mod'.applying = mod.applying,
         mod'.dirty = mod.dirty, obs'.config = 0, verb'["effect"] = verb["effect"]
  PROVE  Recorder!Knob'
<1> SUFFICES ASSUME ~excused' PROVE Recorder!Knob'
  BY DEF Recorder!Knob
<1>1. Recorder!Coming => Recorder!Coming'
  BY DEF Recorder!Coming
<1> QED BY <1>1 DEF Recorder!Knob

LEMMA RecDial == ASSUME Recorder!IInv, NEW slot \in Recorder!Slots, Recorder!Dial(slot) PROVE Recorder!IInv'
<1> DEFINE v == verb[slot]
<1>1. UNCHANGED <<mod, disk, opened, effects, disputed>> /\ v.at = "dial" /\ v.kind # "none" /\ v # Recorder!NoVerb
  BY RecNone DEF Recorder!Dial, Recorder!At
<1>2. /\ v \in RecProcs /\ (v.kind = "quit" => slot = "hand" /\ Recorder!Quits(v)) /\ (v.kind # "quit" => Recorder!Course(v))
      /\ v.kind \in {"record", "apply", "arm", "stop"} => slot = "effect"
  BY <1>1, RecAtWork
<1>3. PICK step \in Recorder!Steps :
        /\ Recorder!Goes(slot, step) /\ obs' \in RecObs /\ obs'.rolling = obs.rolling /\ obs'.config = obs.config
        /\ obs'.up \/ obs' = obs
        /\ excused => excused'
        /\ excused' \in BOOLEAN /\ faults' \in Nat /\ faults' >= faults
        /\ v.kind = "stop" => step \in {"stop", "idle"}
        /\ v.kind = "quit" => step \in {"stop", "app"}
        /\ v.kind = "record" => step \in {"scene", "fail"}
        /\ v.kind \notin {"stop", "quit", "record"} => step \in {"scene", "note", "fail"}
        /\ v.kind = "apply" => excused' \/ step = "scene"
  <2>1. CASE obs' = [obs EXCEPT !.up = TRUE] /\ Recorder!Goes(slot, Recorder!After(v.kind)) /\ Recorder!NoFault /\ UNCHANGED excused
    <3>1. obs' \in RecObs /\ obs'.rolling = obs.rolling /\ obs'.config = obs.config /\ obs'.up
      BY <2>1, RecTyped DEF RecObs
    <3>2. Recorder!After(v.kind) \in Recorder!Steps /\ (v.kind \in {"stop", "quit"} => Recorder!After(v.kind) = "stop")
          /\ (v.kind \notin {"stop", "quit"} => Recorder!After(v.kind) = "scene")
      BY DEF Recorder!After, Recorder!Steps
    <3>3. (excused => excused') /\ excused' \in BOOLEAN
      BY <2>1, RecTyped
    <3>4. faults' \in Nat /\ faults' >= faults
      BY <2>1, RecTyped DEF Recorder!NoFault
    <3>5. Recorder!Goes(slot, Recorder!After(v.kind))
      BY <2>1
    <3>6. /\ v.kind = "stop" => Recorder!After(v.kind) \in {"stop", "idle"}
          /\ v.kind = "quit" => Recorder!After(v.kind) \in {"stop", "app"}
          /\ v.kind = "record" => Recorder!After(v.kind) \in {"scene", "fail"}
          /\ v.kind \notin {"stop", "quit", "record"} => Recorder!After(v.kind) \in {"scene", "note", "fail"}
          /\ v.kind = "apply" => Recorder!After(v.kind) = "scene"
      BY <3>2
    <3>7. Recorder!After(v.kind) \in Recorder!Steps
      BY <3>2
    <3> HIDE DEF v
    <3> QED BY ONLY <3>1, <3>3, <3>4, <3>5, <3>6, <3>7
  <2>2. CASE Recorder!Fault /\ UNCHANGED obs /\ excused' = (excused \/ v.kind \in {"apply", "arm"})
             /\ Recorder!Goes(slot, CASE v.kind = "stop" -> "idle" [] v.kind = "quit" -> "app" [] OTHER -> "fail")
    <3>1. PICK step : step = CASE v.kind = "stop" -> "idle" [] v.kind = "quit" -> "app" [] OTHER -> "fail"
      OBVIOUS
    <3>2. step \in Recorder!Steps /\ (v.kind = "stop" => step = "idle") /\ (v.kind = "quit" => step = "app")
          /\ (v.kind \notin {"stop", "quit"} => step = "fail")
      BY <3>1 DEF Recorder!Steps
    <3>3. Recorder!Goes(slot, step)
      BY <2>2, <3>1
    <3>4. (excused => excused') /\ excused' \in BOOLEAN /\ (v.kind = "apply" => excused')
      BY <2>2, RecTyped
    <3>5. faults' \in Nat /\ faults' >= faults
      BY <2>2, RecTyped DEF Recorder!Fault
    <3>6. obs' \in RecObs /\ obs'.rolling = obs.rolling /\ obs'.config = obs.config /\ obs' = obs
      BY <2>2, RecTyped
    <3>7. step \in Recorder!Steps
      BY <3>2
    <3>8. /\ v.kind = "stop" => step \in {"stop", "idle"}
          /\ v.kind = "quit" => step \in {"stop", "app"}
          /\ v.kind = "record" => step \in {"scene", "fail"}
          /\ v.kind \notin {"stop", "quit", "record"} => step \in {"scene", "note", "fail"}
      BY <3>2
    <3> HIDE DEF v
    <3> QED BY ONLY <3>3, <3>4, <3>5, <3>6, <3>7, <3>8
  <2>3. CASE v.kind \notin Recorder!Boots /\ excused' = (excused \/ v.kind = "apply") /\ Recorder!NoFault /\ UNCHANGED obs
             /\ Recorder!Goes(slot, CASE v.kind = "stop" -> "idle" [] v.kind = "quit" -> "app" [] OTHER -> "note")
    <3>1. PICK step : step = CASE v.kind = "stop" -> "idle" [] v.kind = "quit" -> "app" [] OTHER -> "note"
      OBVIOUS
    <3>2. step \in Recorder!Steps /\ (v.kind = "stop" => step = "idle") /\ (v.kind = "quit" => step = "app")
          /\ (v.kind \notin {"stop", "quit"} => step = "note") /\ v.kind # "record"
      BY <2>3, <3>1 DEF Recorder!Steps, Recorder!Boots
    <3>3. Recorder!Goes(slot, step)
      BY <2>3, <3>1
    <3>4. (excused => excused') /\ excused' \in BOOLEAN /\ (v.kind = "apply" => excused')
      BY <2>3, RecTyped
    <3>5. faults' \in Nat /\ faults' >= faults
      BY <2>3, RecTyped DEF Recorder!NoFault
    <3>6. obs' \in RecObs /\ obs'.rolling = obs.rolling /\ obs'.config = obs.config /\ obs' = obs
      BY <2>3, RecTyped
    <3>7. step \in Recorder!Steps
      BY <3>2
    <3>8. /\ v.kind = "stop" => step \in {"stop", "idle"}
          /\ v.kind = "quit" => step \in {"stop", "app"}
          /\ v.kind = "record" => step \in {"scene", "fail"}
          /\ v.kind \notin {"stop", "quit", "record"} => step \in {"scene", "note", "fail"}
      BY <3>2
    <3> HIDE DEF v
    <3> QED BY ONLY <3>3, <3>4, <3>5, <3>6, <3>7, <3>8
  <2> QED BY <2>1, <2>2, <2>3 DEF Recorder!Dial
<1>4. /\ verb'[slot].at = step /\ verb'[slot].kind = v.kind /\ verb'[slot].run = v.run
      /\ verb'[slot].config = v.config /\ verb'[slot].final = v.final /\ verb'[slot].rolling = v.rolling
  BY <1>3, RecTyped, RecGoes
<1>5. v.kind # "quit" => Recorder!Course(verb'[slot])
  BY <1>1, <1>2, <1>3, <1>4 DEF Recorder!Course, Recorder!AskedIn
<1>6. v.kind = "quit" => (Recorder!Quits(verb[slot]))'
  BY <1>1, <1>2, <1>3, <1>4 DEF Recorder!Quits, Recorder!Steps
<1>7. obs'.config <= mod.desired
  BY <1>3, RecTyped DEF Recorder!Walks
<1>8. Recorder!TypeOK' /\ Recorder!Walks' /\ Recorder!ArmIsWatched' /\ (slot # "effect" => verb'["effect"] = verb["effect"])
  BY <1>1, <1>3, <1>5, <1>6, <1>7, RecMoves
<1>9. Recorder!Books'
  BY <1>1, <1>3, RecTyped DEF Recorder!Books
<1>10. Recorder!Take'
  <2>1. CASE slot = "effect"
    <3>1. Recorder!Starting' <=> Recorder!Starting
      BY <1>1, <1>3, <1>4, <2>1 DEF Recorder!Starting
    <3> QED BY <1>1, <1>3, <1>4, <2>1, <3>1, RecTakeGoes
  <2>2. CASE slot # "effect"
    BY <1>1, <1>3, <1>8, <2>2, RecTyped, RecTakeKept
  <2> QED BY <2>1, <2>2
<1>11. Recorder!Knob'
  <2>0. Recorder!Queued => Recorder!Queued'
    BY <1>1 DEF Recorder!Queued
  <2>1. CASE slot = "effect"
    BY <1>1, <1>3, <1>4, <2>0, <2>1, RecTyped, RecKnobGoes
  <2>2. CASE slot # "effect"
    BY <1>1, <1>3, <1>8, <2>0, <2>2, RecTyped, RecKnobKept
  <2> QED BY <2>1, <2>2
<1> QED BY <1>8, <1>9, <1>10, <1>11 DEF Recorder!IInv

\* A verb that failed to stop, and a quit that ends OBS.
LEMMA RecGone == ASSUME Recorder!IInv, NEW slot \in Recorder!Slots, Recorder!Gone(slot) \/ Recorder!QuitApp(slot) PROVE Recorder!IInv'
<1> DEFINE v == verb[slot]
<1>1. /\ UNCHANGED <<mod, disk, opened, effects, excused, disputed, faults>> /\ Recorder!Ends(slot)
      /\ (v.at = "idle" /\ v.kind # "none" /\ obs' = obs) \/ (v.at = "app" /\ obs' = Recorder!Cold)
  BY DEF Recorder!Gone, Recorder!QuitApp
<1>2. v # Recorder!NoVerb
  BY <1>1, RecNone
<1>3. /\ v.kind = "quit" => slot = "hand"
      /\ v.kind # "quit" => Recorder!Course(v)
      /\ v.kind = "stop" => slot = "effect"
  BY <1>2, RecAtWork
<1>4. v.kind \in {"stop", "quit"} /\ (v.at = "app" => v.kind = "quit")
  BY <1>1, <1>3 DEF Recorder!Course, Recorder!AskedIn
<1>5. obs' \in RecObs /\ (obs' = obs \/ (obs'.rolling = 0 /\ obs'.config = 0)) /\ (~obs'.up => obs'.rolling = 0 /\ obs'.config = 0)
      /\ obs'.config <= mod.desired
  <2>1. Recorder!Cold \in RecObs /\ Recorder!Cold.rolling = 0 /\ Recorder!Cold.config = 0 /\ 0 <= mod.desired
    BY RecTyped DEF Recorder!Cold, RecObs
  <2>2. (~obs.up => obs.rolling = 0 /\ obs.config = 0) /\ obs.config <= mod.desired
    BY RecTyped DEF Recorder!Books, Recorder!Walks
  <2> QED BY <1>1, <2>1, <2>2, RecTyped
<1>6. /\ Recorder!TypeOK' /\ Recorder!Walks' /\ verb'[slot] = Recorder!NoVerb
      /\ slot # "effect" => verb'["effect"] = verb["effect"]
      /\ slot # "idle" => verb'["idle"] = verb["idle"]
  BY <1>1, <1>5, RecTyped, RecLeaves
<1>7. Recorder!Books'
  BY <1>1, <1>5, RecTyped DEF Recorder!Books
<1>8. slot = "effect" => v.kind = "stop" /\ ~Recorder!Starting /\ ~Recorder!Starting' /\ obs' = obs
  BY <1>1, <1>3, <1>4, <1>6, RecNone DEF Recorder!Starting
<1>9. Recorder!Take'
  <2>1. CASE slot = "effect"
    <3>1. \A r \in Recorder!Runs : obs'.rolling = r /\ r \notin disputed' => disk'[r].rec.intent /\ ~disk'[r].rec.stopped /\ disk'[r].rec.started
      BY <1>1, <1>8, <2>1, RecOnBooks DEF Recorder!Runs
    <3> QED BY <1>8, <2>1, <3>1, RecTyped, RecTakeRests
  <2>2. CASE slot # "effect"
    BY <1>1, <1>5, <1>6, <2>2, RecTyped, RecTakeKept
  <2> QED BY <2>1, <2>2
<1>10. Recorder!Knob'
  <2>0. Recorder!Queued => Recorder!Queued'
    BY <1>1 DEF Recorder!Queued
  <2>1. CASE slot = "effect"
    BY <1>1, <1>6, <1>8, <2>0, <2>1, RecTyped, RecKnobEnds
  <2>2. CASE slot # "effect" /\ obs' = obs
    BY <1>1, <1>6, <2>0, <2>2, RecTyped, RecKnobKept
  <2>3. CASE slot # "effect" /\ obs'.config = 0
    BY <1>1, <1>6, <2>0, <2>3, RecTyped, RecKnobCold
  <2> QED BY <1>5, <2>1, <2>2, <2>3
<1>11. Recorder!ArmIsWatched'
  <2>1. slot # "idle"
    BY <1>3, <1>4
  <2> QED BY <1>1, <1>6, <2>1, RecTyped DEF Recorder!ArmIsWatched
<1> QED BY <1>6, <1>7, <1>9, <1>10, <1>11 DEF Recorder!IInv

LEMMA RecScene == ASSUME Recorder!IInv, NEW slot \in Recorder!Slots, Recorder!Scene(slot) PROVE Recorder!IInv'
<1> DEFINE v == verb[slot]
<1>1. UNCHANGED <<mod, disk, opened, effects, disputed>> /\ v.at = "scene" /\ v # Recorder!NoVerb
  BY RecNone DEF Recorder!Scene
<1>2. /\ v \in RecProcs /\ v.kind # "none"
      /\ v.kind = "quit" => slot = "hand" /\ Recorder!Quits(v)
      /\ v.kind # "quit" => Recorder!Course(v)
      /\ v.kind \in {"record", "apply", "arm", "stop"} => slot = "effect"
  BY <1>1, RecAtWork
<1>3. v.kind \in {"record", "apply", "arm", "release", "quit"}
  BY <1>1, <1>2 DEF Recorder!Course
<1>4. v.config \in Nat /\ v.config <= mod.desired
  <2>1. v.kind \in {"release", "quit"} => v.config = 0
    BY <1>2 DEF Recorder!Course, Recorder!Quits
  <2>2. v.kind \in {"record", "apply", "arm"} => v.config <= mod.desired
    BY <1>2, RecTyped DEF Recorder!Walks
  <2> QED BY <1>2, <1>3, <2>1, <2>2, RecTyped DEF RecProcs
<1>5. CASE /\ obs.up /\ Recorder!NoFault /\ UNCHANGED excused
           /\ obs' = IF v.kind \in {"release", "quit"} THEN [obs EXCEPT !.held = FALSE, !.config = 0]
                     ELSE IF v.config = 0 THEN obs ELSE [obs EXCEPT !.held = TRUE, !.config = v.config]
           /\ Recorder!Goes(slot, CASE v.kind = "record" -> "start" [] OTHER -> "note")
  <2>1. PICK step : step = CASE v.kind = "record" -> "start" [] OTHER -> "note"
    OBVIOUS
  <2>2. Recorder!Goes(slot, step) /\ step \in Recorder!Steps /\ (v.kind = "record" => step = "start") /\ (v.kind # "record" => step = "note")
    BY <1>5, <2>1 DEF Recorder!Steps
  <2>3. /\ verb'[slot].at = step /\ verb'[slot].kind = v.kind /\ verb'[slot].run = v.run
        /\ verb'[slot].config = v.config /\ verb'[slot].final = v.final /\ verb'[slot].rolling = v.rolling
    BY <2>2, RecTyped, RecGoes
  <2>4. /\ obs' \in RecObs /\ obs'.rolling = obs.rolling /\ obs'.up /\ obs.up
        /\ v.kind \in {"release", "quit"} => obs'.config = 0
        /\ v.kind \in {"record", "apply", "arm"} => obs'.config = (IF v.config = 0 THEN obs.config ELSE v.config)
    <3>1. CASE v.kind \in {"release", "quit"}
      BY <1>5, <3>1, RecTyped DEF RecObs
    <3>2. CASE v.kind \notin {"release", "quit"} /\ v.config = 0
      BY <1>5, <3>2, RecTyped
    <3>3. CASE v.kind \notin {"release", "quit"} /\ v.config # 0
      BY <1>4, <1>5, <3>3, RecTyped DEF RecObs
    <3> QED BY <1>3, <3>1, <3>2, <3>3
  <2>5. obs'.config <= mod.desired
    BY <1>3, <1>4, <2>4, RecTyped DEF Recorder!Walks
  <2>6. v.kind # "quit" => Recorder!Course(verb'[slot])
    BY <1>1, <1>2, <2>2, <2>3 DEF Recorder!Course, Recorder!AskedIn
  <2>7. v.kind = "quit" => (Recorder!Quits(verb[slot]))'
    BY <1>1, <1>2, <2>2, <2>3 DEF Recorder!Quits, Recorder!Steps
  <2>8. faults' \in Nat /\ faults' >= faults /\ excused' \in BOOLEAN /\ excused' = excused
    BY <1>5, RecTyped DEF Recorder!NoFault
  <2>9. Recorder!TypeOK' /\ Recorder!Walks' /\ Recorder!ArmIsWatched' /\ (slot # "effect" => verb'["effect"] = verb["effect"])
    BY <1>1, <2>2, <2>4, <2>5, <2>6, <2>7, <2>8, RecMoves
  <2>10. Recorder!Books'
    BY <1>1, <2>4, RecTyped DEF Recorder!Books
  <2>11. Recorder!Take'
    <3>1. CASE slot = "effect"
      <4>1. Recorder!Starting' <=> Recorder!Starting
        BY <1>1, <2>2, <2>3, <3>1 DEF Recorder!Starting
      <4> QED BY <1>1, <2>3, <2>4, <3>1, <4>1, RecTakeGoes
    <3>2. CASE slot # "effect"
      BY <1>1, <2>4, <2>9, <3>2, RecTyped, RecTakeKept
    <3> QED BY <3>1, <3>2
  <2>12. Recorder!Knob'
    <3>0. Recorder!Queued => Recorder!Queued'
      BY <1>1 DEF Recorder!Queued
    <3>1. CASE slot # "effect"
      <4>1. obs'.config = 0
        BY <1>2, <1>3, <2>4, <3>1
      <4> QED BY <1>1, <2>8, <2>9, <3>0, <3>1, <4>1, RecTyped, RecKnobCold
    <3>2. CASE slot = "effect"
      <4> SUFFICES ASSUME ~excused' PROVE Recorder!Knob'
        BY DEF Recorder!Knob
      <4>1. ~excused
        BY <2>8
      <4>2. mod.applying => Recorder!Queued \/ v.kind = "apply"
        BY <3>2, <4>1, RecTyped DEF Recorder!Knob
      <4>3. mod'.applying => Recorder!Queued' \/ verb'["effect"].kind = "apply"
        BY <1>1, <2>3, <3>0, <3>2, <4>2
      <4>4. verb'["effect"].at \notin {"dial", "scene"}
        BY <2>2, <2>3, <3>2
      <4>5. Recorder!Coming => Recorder!Coming'
        BY <1>1, <2>3, <3>0, <3>2 DEF Recorder!Coming
      <4>6. obs'.config \notin {0, mod'.desired} => Recorder!Coming'
        <5> SUFFICES ASSUME obs'.config \notin {0, mod.desired} PROVE Recorder!Coming
          BY <1>1, <4>5
        <5>1. v.kind \in {"record", "apply", "arm"}
          BY <1>3, <2>4
        <5>2. CASE v.config # 0
          <6>1. v.config # mod.desired
            BY <2>4, <5>1, <5>2
          <6> QED BY <1>1, <3>2, <4>1, <5>1, <6>1, RecTyped DEF Recorder!Knob
        <5>3. CASE v.config = 0
          <6>1. obs.config \notin {0, mod.desired}
            BY <2>4, <5>1, <5>3
          <6>2. Recorder!Coming \/ Recorder!Applying
            BY <4>1, <6>1, RecTyped DEF Recorder!Knob
          <6>3. obs.config <= mod.desired /\ obs.config # 0 /\ mod.desired # 0
            BY <6>1, RecTyped DEF Recorder!Walks
          <6>4. ~Recorder!Applying
            BY <1>1, <3>2, <5>3, <6>3 DEF Recorder!Applying
          <6> QED BY <6>2, <6>4
        <5> QED BY <5>2, <5>3
      <4> QED BY <4>3, <4>4, <4>6 DEF Recorder!Knob
    <3> QED BY <3>1, <3>2
  <2> QED BY <2>9, <2>10, <2>11, <2>12 DEF Recorder!IInv
<1>6. CASE (Recorder!Fault \/ Recorder!NoFault) /\ UNCHANGED obs /\ excused' = TRUE /\ Recorder!Goes(slot, IF v.kind = "quit" THEN "idle" ELSE "fail")
  <2>1. PICK step : step = IF v.kind = "quit" THEN "idle" ELSE "fail"
    OBVIOUS
  <2>2. Recorder!Goes(slot, step) /\ step \in Recorder!Steps /\ (v.kind = "quit" => step = "idle") /\ (v.kind # "quit" => step = "fail")
    BY <1>6, <2>1 DEF Recorder!Steps
  <2>3. /\ verb'[slot].at = step /\ verb'[slot].kind = v.kind /\ verb'[slot].run = v.run
        /\ verb'[slot].config = v.config /\ verb'[slot].final = v.final /\ verb'[slot].rolling = v.rolling
    BY <2>2, RecTyped, RecGoes
  <2>4. v.kind # "quit" => Recorder!Course(verb'[slot])
    BY <1>1, <1>2, <2>2, <2>3 DEF Recorder!Course, Recorder!AskedIn
  <2>5. v.kind = "quit" => (Recorder!Quits(verb[slot]))'
    BY <1>1, <1>2, <2>2, <2>3 DEF Recorder!Quits, Recorder!Steps
  <2>6. faults' \in Nat /\ faults' >= faults
    BY <1>6, RecTyped DEF Recorder!NoFault, Recorder!Fault
  <2>7. obs' \in RecObs /\ obs'.config <= mod.desired
    BY <1>6, RecTyped DEF Recorder!Walks
  <2>8. Recorder!TypeOK' /\ Recorder!Walks' /\ Recorder!ArmIsWatched' /\ (slot # "effect" => verb'["effect"] = verb["effect"])
    BY <1>1, <1>6, <2>2, <2>4, <2>5, <2>6, <2>7, RecMoves
  <2>9. Recorder!Books'
    BY <1>1, <1>6, RecTyped DEF Recorder!Books
  <2>10. Recorder!Take'
    <3>1. CASE slot = "effect"
      <4>1. Recorder!Starting' <=> Recorder!Starting
        BY <1>1, <1>2, <2>2, <2>3, <3>1 DEF Recorder!Starting
      <4> QED BY <1>1, <1>6, <2>3, <3>1, <4>1, RecTakeGoes
    <3>2. CASE slot # "effect"
      BY <1>1, <1>6, <2>8, <3>2, RecTyped, RecTakeKept
    <3> QED BY <3>1, <3>2
  <2>11. Recorder!Knob'
    BY <1>6 DEF Recorder!Knob
  <2> QED BY <2>8, <2>9, <2>10, <2>11 DEF Recorder!IInv
<1> QED BY <1>5, <1>6 DEF Recorder!Scene

LEMMA RecStart == ASSUME Recorder!IInv, NEW slot \in Recorder!Slots, Recorder!Start(slot) PROVE Recorder!IInv'
<1> DEFINE v == verb["effect"]
<1>1. UNCHANGED <<mod, disk, opened, effects, excused, disputed>> /\ verb[slot].at = "start" /\ verb[slot] # Recorder!NoVerb
  BY RecNone DEF Recorder!Start
<1>2. verb[slot].kind = "record" /\ slot = "effect" /\ Recorder!Course(v) /\ v # Recorder!NoVerb /\ v \in RecProcs
  <2>1. /\ verb[slot].kind = "quit" => Recorder!Quits(verb[slot])
        /\ verb[slot].kind # "quit" => Recorder!Course(verb[slot])
        /\ verb[slot].kind = "record" => slot = "effect"
        /\ verb[slot] \in RecProcs
    BY <1>1, RecAtWork
  <2>2. verb[slot].kind = "record"
    BY <1>1, <2>1 DEF Recorder!Course, Recorder!Quits, Recorder!AskedIn
  <2> QED BY <1>1, <2>1, <2>2
<1>3. Recorder!Starting /\ v.run = mod.run /\ mod.live /\ (mod.run \notin disputed => Recorder!Opening(mod.rec))
  <2>1. Recorder!Starting
    BY <1>1, <1>2 DEF Recorder!Starting
  <2> QED BY <2>1, RecTyped DEF Recorder!Take
<1>4. mod.run # 0 /\ mod.run \in Recorder!Runs /\ disk[mod.run].rec = mod.rec /\ mod.run <= opened
  BY <1>3, RecOnBooks
<1>5. PICK step \in {"note", "fail"} :
        /\ Recorder!Goes(slot, step) /\ faults' \in Nat /\ faults' >= faults
        /\ \/ step = "note" /\ obs.up /\ obs' = [obs EXCEPT !.rolling = verb[slot].run]
           \/ step = "fail" /\ obs' = obs
  BY RecTyped DEF Recorder!Start, Recorder!Fault, Recorder!NoFault
<1>6. /\ verb'["effect"].at = step /\ verb'["effect"].kind = v.kind /\ verb'["effect"].run = v.run
      /\ verb'["effect"].config = v.config /\ verb'["effect"].final = v.final
  BY <1>2, <1>5, RecTyped, RecGoes DEF Recorder!Steps
<1>7. Recorder!Course(verb'[slot]) /\ step \in Recorder!Steps
  BY <1>1, <1>2, <1>5, <1>6 DEF Recorder!Course, Recorder!AskedIn, Recorder!Steps
<1>8. /\ obs' \in RecObs /\ obs'.config = obs.config /\ obs'.up = obs.up
      /\ step = "note" => obs'.rolling = mod.run /\ obs.up
      /\ step = "fail" => obs' = obs
  BY <1>2, <1>3, <1>5, RecTyped DEF RecObs
<1>9. Recorder!TypeOK' /\ Recorder!Walks' /\ Recorder!ArmIsWatched'
  <2>1. obs'.config <= mod.desired
    BY <1>8, RecTyped DEF Recorder!Walks
  <2> QED BY <1>1, <1>2, <1>5, <1>7, <1>8, <2>1, RecTyped, RecMoves
<1>10. Recorder!Books'
  <2>1. obs'.rolling <= opened /\ (~obs'.up => obs'.rolling = 0 /\ obs'.config = 0)
    BY <1>4, <1>5, <1>8, RecTyped DEF Recorder!Books
  <2> QED BY <1>1, <2>1, RecTyped DEF Recorder!Books
<1>11. Recorder!Take'
  <2>1. Recorder!Starting'
    BY <1>2, <1>5, <1>6 DEF Recorder!Starting
  <2>2. CASE step = "fail"
    BY <1>1, <1>2, <1>3, <1>6, <1>8, <2>1, <2>2, RecTakeGoes
  <2>3. CASE step = "note"
    <3>1. obs'.rolling = mod.run
      BY <1>8, <2>3
    <3>2. obs'.rolling \notin disputed' => disk'[obs'.rolling].rec.intent /\ ~disk'[obs'.rolling].rec.stopped
      BY <1>1, <1>3, <1>4, <3>1 DEF Recorder!Opening
    <3>3. verb'["effect"].at = "note" /\ verb'["effect"].run = obs'.rolling
      BY <1>3, <1>6, <2>3, <3>1
    <3>4. verb'["effect"].run = mod'.run /\ mod'.live /\ (mod'.run \notin disputed' => Recorder!Opening(mod'.rec))
      BY <1>1, <1>3, <1>6
    <3> QED BY <2>1, <3>2, <3>3, <3>4 DEF Recorder!Take
  <2> QED BY <1>5, <2>2, <2>3
<1>12. Recorder!Knob'
  <2>1. Recorder!Queued => Recorder!Queued'
    BY <1>1 DEF Recorder!Queued
  <2> QED BY <1>1, <1>2, <1>5, <1>6, <1>8, <2>1, RecTyped, RecKnobGoes
<1> QED BY <1>9, <1>10, <1>11, <1>12 DEF Recorder!IInv

\* A note on the books leaves them in order.
LEMMA RecBooksNoted ==
  ASSUME Recorder!IInv, NEW r \in Recorder!Runs, NEW rec \in Recorder!Recordings, Recorder!Noted(r, rec), opened' = opened,
         obs'.rolling \in {obs.rolling, 0}, obs'.up = obs.up, obs'.config = obs.config
  PROVE  Recorder!Books'
<1>1. /\ mod' \in RecModules /\ mod'.run = mod.run /\ mod'.live = mod.live
      /\ mod'.rec = (IF r = mod.run THEN rec ELSE mod.rec)
      /\ disk'[r].rec = rec
      /\ disk'[r].live = (IF r = mod.run THEN mod.live ELSE disk[r].live)
      /\ \A x \in Recorder!Runs \ {r} : disk'[x] = disk[x]
  BY RecTyped, RecNotes
<1>2. /\ mod.run <= opened /\ obs.rolling <= opened
      /\ \A x \in Recorder!Runs : disk[x].live => x <= opened
      /\ mod.run # 0 => disk[mod.run].rec = mod.rec
      /\ mod.run = 0 => ~mod.live /\ ~mod.rec.intent /\ ~mod.rec.started
      /\ mod.live => disk[mod.run].live /\ \A x \in Recorder!Runs : disk[x].live => x <= mod.run
      /\ ~obs.up => obs.rolling = 0 /\ obs.config = 0
  BY RecTyped DEF Recorder!Books
<1>3. mod.run # 0 => mod.run \in Recorder!Runs
  BY RecTyped DEF Recorder!Runs
<1>4. r # 0
  BY RecTyped DEF Recorder!Runs
<1>5. \A x \in Recorder!Runs : disk'[x].live => disk[x].live \/ (x = mod.run /\ mod.live)
  BY <1>1
<1>6. mod'.run <= opened' /\ obs'.rolling <= opened' /\ (~obs'.up => obs'.rolling = 0 /\ obs'.config = 0)
  BY <1>1, <1>2, RecTyped
<1>7. \A x \in Recorder!Runs : disk'[x].live => x <= opened'
  BY <1>2, <1>5
<1>8. mod'.run # 0 => disk'[mod'.run].rec = mod'.rec
  BY <1>1, <1>2, <1>3
<1>9. mod'.run = 0 => ~mod'.live /\ ~mod'.rec.intent /\ ~mod'.rec.started
  BY <1>1, <1>2, <1>4
<1>10. mod'.live => disk'[mod'.run].live /\ \A x \in Recorder!Runs : disk'[x].live => x <= mod'.run
  BY <1>1, <1>2, <1>3, <1>5
<1> QED BY <1>6, <1>7, <1>8, <1>9, <1>10 DEF Recorder!Books

\* What is on the books for a run is a recording.
LEMMA RecRecOf ==
  ASSUME Recorder!IInv, NEW r \in Recorder!Runs
  PROVE  Recorder!RecOf(r) \in Recorder!Recordings /\ Recorder!RecOf(r) = disk[r].rec
<1>1. r # 0 /\ disk[r].rec \in Recorder!Recordings
  BY RecTyped DEF Recorder!Runs, RecJournals
<1>2. r = mod.run => disk[r].rec = mod.rec
  BY <1>1, RecOnBooks
<1> QED BY <1>1, <1>2 DEF Recorder!RecOf

LEMMA RecStopTake == ASSUME Recorder!IInv, NEW slot \in Recorder!Slots, Recorder!StopTake(slot) PROVE Recorder!IInv'
<1> DEFINE v == verb[slot]
<1>1. UNCHANGED <<opened, effects, excused, disputed>> /\ v.at = "stop" /\ v # Recorder!NoVerb
  BY RecNone DEF Recorder!StopTake
<1>2. /\ v \in RecProcs
      /\ v.kind = "quit" => slot = "hand" /\ Recorder!Quits(v)
      /\ v.kind # "quit" => v.kind = "stop" /\ slot = "effect" /\ Recorder!Course(v)
  <2>1. /\ v \in RecProcs
        /\ v.kind = "quit" => slot = "hand" /\ Recorder!Quits(v)
        /\ v.kind # "quit" => Recorder!Course(v)
        /\ v.kind \in {"record", "apply", "arm", "stop"} => slot = "effect"
    BY <1>1, RecAtWork
  <2>2. v.kind # "quit" => v.kind = "stop"
    BY <1>1, <2>1 DEF Recorder!Course, Recorder!AskedIn
  <2> QED BY <2>1, <2>2
<1>3. CASE /\ v.kind = "stop" \/ v.rolling
           /\ verb' = [verb EXCEPT ![slot].at = "stopped", ![slot].config = 0, ![slot].rolling = obs.rolling # 0]
           /\ obs' = [obs EXCEPT !.rolling = 0] /\ Recorder!NoFault
           /\ Recorder!Noted(v.run, [Recorder!RecOf(v.run) EXCEPT !.stopped = TRUE, !.clip = IF obs.rolling # 0 THEN obs.rolling ELSE @])
  <2>1. v.run \in Recorder!Runs /\ v.run # 0
    BY <1>1, <1>2, <1>3, RecTyped DEF Recorder!Course, Recorder!Quits, RecProcs, Recorder!Runs
  <2>2. v.kind = "quit" => v.run \in disputed
    BY <1>1, <1>2, <2>1 DEF Recorder!Quits
  <2>3. PICK rec : rec = [Recorder!RecOf(v.run) EXCEPT !.stopped = TRUE, !.clip = IF obs.rolling # 0 THEN obs.rolling ELSE @]
    OBVIOUS
  <2>4. rec \in Recorder!Recordings
    <3>1. PICK old \in Recorder!Recordings : old = Recorder!RecOf(v.run)
      BY <2>1, RecRecOf
    <3>2. PICK clip \in 0..MaxTakes : clip = IF obs.rolling # 0 THEN obs.rolling ELSE old.clip
      BY RecTyped DEF Recorder!Recordings
    <3>3. rec = [old EXCEPT !.stopped = TRUE, !.clip = clip]
      BY <2>3, <3>1, <3>2
    <3> QED BY <3>3 DEF Recorder!Recordings
  <2>5. Recorder!Noted(v.run, rec)
    BY <1>3, <2>3
  <2>6. /\ mod' \in RecModules /\ mod'.run = mod.run /\ mod'.live = mod.live /\ mod'.desired = mod.desired
        /\ mod'.applying = mod.applying /\ mod'.dirty = mod.dirty
        /\ (mod'.armed => mod'.watch)
        /\ mod'.rec = (IF v.run = mod.run THEN rec ELSE mod.rec)
        /\ disk' \in RecJournals
    BY <2>1, <2>4, <2>5, RecTyped, RecNotes
  <2>7. PICK b \in BOOLEAN : b = (obs.rolling # 0)
    OBVIOUS
  <2>8. PICK q : q = [v EXCEPT !.at = "stopped", !.config = 0, !.rolling = b]
    OBVIOUS
  <2>9. q \in RecProcs /\ q.kind = v.kind /\ q.at = "stopped" /\ q.run = v.run /\ q.config = 0 /\ q.final = v.final
    BY <1>2, <2>7, <2>8, RecTyped DEF RecProcs, Recorder!Steps
  <2>10. verb' = [verb EXCEPT ![slot] = q]
    BY <1>3, <2>7, <2>8
  <2>11. verb' \in [Recorder!Slots -> RecProcs] /\ verb'[slot] = q /\ \A s \in Recorder!Slots \ {slot} : verb'[s] = verb[s]
    BY <2>9, <2>10, RecTyped
  <2>12. obs' \in RecObs /\ obs'.rolling = 0 /\ obs'.up = obs.up /\ obs'.config = obs.config /\ faults' = faults
    BY <1>3, RecTyped DEF RecObs, Recorder!NoFault
  <2>13. Recorder!TypeOK'
    BY <1>1, <2>6, <2>11, <2>12, RecTyped, RecTypes
  <2>14. slot # "effect" => verb'["effect"] = verb["effect"]
    BY <2>11 DEF Recorder!Slots
  <2>15. Recorder!Walks'
    <3>1. verb["effect"].config <= mod.desired /\ obs.config <= mod.desired
      BY RecTyped DEF Recorder!Walks
    <3>2. verb'["effect"].config <= mod'.desired /\ obs'.config <= mod'.desired
      BY <2>6, <2>9, <2>11, <2>12, <2>14, <3>1, RecTyped
    <3>3. v.kind = "stop" => Recorder!Course(q)
      BY <1>2, <2>1, <2>9 DEF Recorder!Course
    <3>4. v.kind = "quit" => (Recorder!Quits(verb[slot]))'
      BY <1>1, <1>2, <2>2, <2>9, <2>11 DEF Recorder!Quits, Recorder!Steps
    <3>5. verb'["effect"] = verb["effect"] \/ Recorder!Course(verb'["effect"])
      BY <1>2, <2>11, <2>14, <3>3
    <3>6. verb'["hand"] = verb["hand"] \/ (Recorder!Quits(verb["hand"]))'
      <4>1. CASE slot = "hand"
        BY <1>2, <3>4, <4>1
      <4>2. CASE slot # "hand"
        BY <2>11, <4>2 DEF Recorder!Slots
      <4> QED BY <4>1, <4>2
    <3>7. verb'["idle"] = verb["idle"]
      BY <1>2, <2>11 DEF Recorder!Slots
    <3> QED BY <1>1, <3>2, <3>5, <3>6, <3>7, RecWalked, RecTyped
  <2>16. Recorder!Books'
    BY <1>1, <2>1, <2>4, <2>5, <2>12, RecBooksNoted
  <2>17. Recorder!Take'
    <3>1. Recorder!Starting' => slot # "effect" /\ Recorder!Starting /\ v.kind = "quit" /\ verb'["effect"] = verb["effect"]
      BY <1>2, <2>9, <2>11, <2>14 DEF Recorder!Starting
    <3>2. Recorder!Starting => verb["effect"].run = mod.run /\ mod.live /\ (mod.run \notin disputed => Recorder!Opening(mod.rec))
      BY RecTyped DEF Recorder!Take
    <3>3. Recorder!Starting' =>
            /\ verb'["effect"].run = mod'.run /\ mod'.live
            /\ mod'.run \notin disputed' => Recorder!Opening(mod'.rec)
      BY <1>1, <2>2, <2>6, <3>1, <3>2
    <3> QED BY <2>12, <3>3 DEF Recorder!Take
  <2>18. Recorder!Knob'
    <3>0. Recorder!Queued => Recorder!Queued'
      BY <1>1 DEF Recorder!Queued
    <3>1. CASE slot = "effect"
      BY <1>1, <1>2, <2>6, <2>9, <2>11, <2>12, <3>0, <3>1, RecTyped, RecKnobGoes
    <3>2. CASE slot # "effect"
      BY <1>1, <2>6, <2>12, <2>14, <3>0, <3>2, RecTyped, RecKnobKept
    <3> QED BY <3>1, <3>2
  <2>19. Recorder!ArmIsWatched'
    BY <2>6 DEF Recorder!ArmIsWatched
  <2> QED BY <2>13, <2>15, <2>16, <2>17, <2>18, <2>19 DEF Recorder!IInv
<1>4. CASE /\ UNCHANGED <<obs, mod, disk>>
           /\ \/ v.kind = "quit" /\ Recorder!Goes(slot, "scene") /\ Recorder!NoFault
              \/ Recorder!Fault /\ Recorder!Goes(slot, "idle")
  <2>1. PICK step \in {"scene", "idle"} : Recorder!Goes(slot, step) /\ (step = "scene" => v.kind = "quit")
    BY <1>4
  <2>2. faults' \in Nat /\ faults' >= faults /\ step \in Recorder!Steps
    BY <1>4, <2>1, RecTyped DEF Recorder!NoFault, Recorder!Fault, Recorder!Steps
  <2>3. /\ verb'[slot].at = step /\ verb'[slot].kind = v.kind /\ verb'[slot].run = v.run
        /\ verb'[slot].config = v.config /\ verb'[slot].final = v.final /\ verb'[slot].rolling = v.rolling
    BY <2>1, <2>2, RecTyped, RecGoes
  <2>4. v.kind # "quit" => Recorder!Course(verb'[slot])
    BY <1>1, <1>2, <2>1, <2>3 DEF Recorder!Course
  <2>5. v.kind = "quit" => (Recorder!Quits(verb[slot]))'
    BY <1>1, <1>2, <2>1, <2>3 DEF Recorder!Quits, Recorder!Steps
  <2>6. obs' \in RecObs /\ obs'.config <= mod.desired
    BY <1>4, RecTyped DEF Recorder!Walks
  <2>7. Recorder!TypeOK' /\ Recorder!Walks' /\ Recorder!ArmIsWatched' /\ (slot # "effect" => verb'["effect"] = verb["effect"])
    BY <1>1, <1>4, <2>1, <2>2, <2>4, <2>5, <2>6, RecTyped, RecMoves
  <2>8. Recorder!Books'
    BY <1>1, <1>4, RecTyped DEF Recorder!Books
  <2>9. Recorder!Queued => Recorder!Queued'
    BY <1>1 DEF Recorder!Queued
  <2>10. Recorder!Take'
    <3>1. CASE slot = "effect"
      <4>1. Recorder!Starting' <=> Recorder!Starting
        BY <1>2, <2>3, <3>1 DEF Recorder!Starting
      <4> QED BY <1>1, <1>4, <2>3, <3>1, <4>1, RecTakeGoes
    <3>2. CASE slot # "effect"
      BY <1>1, <1>4, <2>7, <3>2, RecTyped, RecTakeKept
    <3> QED BY <3>1, <3>2
  <2>11. Recorder!Knob'
    <3>1. CASE slot = "effect"
      BY <1>1, <1>2, <1>4, <2>1, <2>3, <2>9, <3>1, RecTyped, RecKnobGoes
    <3>2. CASE slot # "effect"
      BY <1>1, <1>4, <2>7, <2>9, <3>2, RecTyped, RecKnobKept
    <3> QED BY <3>1, <3>2
  <2> QED BY <2>7, <2>8, <2>10, <2>11 DEF Recorder!IInv
<1>5. \/ /\ v.kind = "stop" \/ v.rolling
         /\ verb' = [verb EXCEPT ![slot].at = "stopped", ![slot].config = 0, ![slot].rolling = obs.rolling # 0]
         /\ obs' = [obs EXCEPT !.rolling = 0] /\ Recorder!NoFault
         /\ Recorder!Noted(v.run, [Recorder!RecOf(v.run) EXCEPT !.stopped = TRUE, !.clip = IF obs.rolling # 0 THEN obs.rolling ELSE @])
      \/ /\ UNCHANGED <<obs, mod, disk>>
         /\ \/ v.kind = "quit" /\ Recorder!Goes(slot, "scene") /\ Recorder!NoFault
            \/ Recorder!Fault /\ Recorder!Goes(slot, "idle")
  BY DEF Recorder!StopTake
<1> QED BY <1>3, <1>4, <1>5

LEMMA RecStopDone == ASSUME Recorder!IInv, NEW slot \in Recorder!Slots, Recorder!StopDone(slot) PROVE Recorder!IInv'
<1> DEFINE v == verb[slot]
<1>1. UNCHANGED <<mod, disk, opened, effects, obs, excused, disputed, faults>> /\ v.at = "stopped" /\ v # Recorder!NoVerb
  BY RecNone DEF Recorder!StopDone
<1>2. /\ v.kind = "quit" => slot = "hand" /\ Recorder!Quits(v)
      /\ v.kind # "quit" => v.kind = "stop" /\ slot = "effect"
  <2>1. /\ v.kind = "quit" => slot = "hand" /\ Recorder!Quits(v)
        /\ v.kind # "quit" => Recorder!Course(v)
        /\ v.kind \in {"record", "apply", "arm", "stop"} => slot = "effect"
    BY <1>1, RecAtWork
  <2>2. v.kind # "quit" => v.kind = "stop"
    BY <1>1, <2>1 DEF Recorder!Course, Recorder!AskedIn
  <2> QED BY <2>1, <2>2
<1>3. Recorder!Books'
  BY <1>1, RecTyped DEF Recorder!Books
<1>4. Recorder!Queued => Recorder!Queued'
  BY <1>1 DEF Recorder!Queued
<1>5. obs' \in RecObs /\ obs'.config <= mod.desired
  BY <1>1, RecTyped DEF Recorder!Walks
<1>6. CASE v.kind = "quit" /\ Recorder!Goes(slot, "scene")
  <2>1. /\ verb'[slot].at = "scene" /\ verb'[slot].kind = v.kind /\ verb'[slot].run = v.run
        /\ verb'[slot].config = v.config /\ verb'[slot].final = v.final /\ verb'[slot].rolling = v.rolling
    BY <1>6, RecTyped, RecGoes DEF Recorder!Steps
  <2>2. (Recorder!Quits(verb[slot]))' /\ "scene" \in Recorder!Steps
    BY <1>1, <1>2, <1>6, <2>1 DEF Recorder!Quits, Recorder!Steps
  <2>3. Recorder!TypeOK' /\ Recorder!Walks' /\ Recorder!ArmIsWatched' /\ verb'["effect"] = verb["effect"]
    BY <1>1, <1>2, <1>5, <1>6, <2>2, RecTyped, RecMoves
  <2>4. Recorder!Take' /\ Recorder!Knob'
    BY <1>1, <1>4, <2>3, RecTyped, RecTakeKept, RecKnobKept
  <2> QED BY <1>3, <2>3, <2>4 DEF Recorder!IInv
<1>7. CASE v.kind # "quit" /\ Recorder!Ends(slot)
  <2>1. Recorder!TypeOK' /\ Recorder!Walks' /\ verb'[slot] = Recorder!NoVerb /\ (slot # "idle" => verb'["idle"] = verb["idle"])
    BY <1>1, <1>5, <1>7, RecTyped, RecLeaves
  <2>2. ~Recorder!Starting /\ ~Recorder!Starting'
    BY <1>2, <1>7, <2>1, RecNone DEF Recorder!Starting
  <2>3. Recorder!Take'
    <3>1. \A r \in Recorder!Runs : obs'.rolling = r /\ r \notin disputed' => disk'[r].rec.intent /\ ~disk'[r].rec.stopped /\ disk'[r].rec.started
      BY <1>1, <2>2, RecOnBooks DEF Recorder!Runs
    <3> QED BY <1>1, <2>2, <3>1, RecTyped, RecTakeRests
  <2>4. Recorder!Knob'
    BY <1>1, <1>2, <1>4, <1>7, <2>1, RecTyped, RecKnobEnds
  <2>5. Recorder!ArmIsWatched'
    BY <1>1, <1>2, <1>7, <2>1, RecTyped DEF Recorder!ArmIsWatched
  <2> QED BY <1>3, <2>1, <2>3, <2>4, <2>5 DEF Recorder!IInv
<1> QED BY <1>6, <1>7 DEF Recorder!StopDone

\* The rolling take of a verb that will not note it is disputed, or is not its own.
LEMMA RecTakeLeft ==
  ASSUME Recorder!IInv, ~Recorder!Starting', UNCHANGED <<disk, obs>>, disputed \subseteq disputed',
         Recorder!Starting /\ verb["effect"].at = "note" => verb["effect"].run \in disputed'
  PROVE  Recorder!Take'
<1>1. ASSUME NEW r \in Recorder!Runs, obs'.rolling = r, r \notin disputed'
      PROVE  disk'[r].rec.intent /\ ~disk'[r].rec.stopped /\ disk'[r].rec.started
  <2>1. r # 0 /\ obs.rolling = r /\ r \notin disputed
    BY <1>1, RecTyped DEF Recorder!Runs
  <2>2. ~(Recorder!Starting /\ verb["effect"].at = "note" /\ verb["effect"].run = obs.rolling)
    BY <1>1, <2>1
  <2> QED BY <2>1, <2>2, RecOnBooks
<1> QED BY <1>1, RecTyped, RecTakeRests

LEMMA RecVerbDies == ASSUME Recorder!IInv, NEW slot \in Recorder!Slots, Recorder!VerbDies(slot) PROVE Recorder!IInv'
<1> DEFINE v == verb[slot]
<1>1. /\ UNCHANGED <<mod, disk, opened, effects, obs>> /\ v # Recorder!NoVerb /\ Recorder!Ends(slot) /\ excused' = TRUE
      /\ disputed' = (IF v.kind = "record" /\ v.at = "note" THEN disputed \cup {v.run} ELSE disputed)
  BY DEF Recorder!VerbDies, Recorder!At
<1>2. faults' = faults + 1 /\ faults' \in Nat /\ faults' > 0
  BY RecTyped DEF Recorder!VerbDies, Recorder!Fault
<1>3. v.kind = "record" => v.run \in Recorder!Runs /\ slot = "effect"
  BY <1>1, RecAtWork DEF Recorder!Course, RecProcs, Recorder!Runs
<1>4. disputed' \subseteq Recorder!Runs /\ disputed \subseteq disputed'
  BY <1>1, <1>3, RecTyped
<1>5. obs' \in RecObs /\ obs'.config <= mod.desired
  BY <1>1, RecTyped DEF Recorder!Walks
<1>6. Recorder!TypeOK' /\ Recorder!Walks' /\ verb'[slot] = Recorder!NoVerb /\ (slot # "effect" => verb'["effect"] = verb["effect"])
  BY <1>1, <1>2, <1>4, <1>5, RecTyped, RecLeaves
<1>7. Recorder!Books'
  BY <1>1, RecTyped DEF Recorder!Books
<1>8. Recorder!Take'
  <2>1. CASE slot = "effect"
    <3>1. ~Recorder!Starting'
      BY <1>6, <2>1, RecNone DEF Recorder!Starting
    <3>2. Recorder!Starting /\ verb["effect"].at = "note" => verb["effect"].run \in disputed'
      BY <1>1, <2>1 DEF Recorder!Starting
    <3> QED BY <1>1, <1>4, <3>1, <3>2, RecTakeLeft
  <2>2. CASE slot # "effect"
    BY <1>1, <1>4, <1>6, <2>2, RecTyped, RecTakeKept
  <2> QED BY <2>1, <2>2
<1>9. Recorder!Knob' /\ Recorder!ArmIsWatched'
  BY <1>1, <1>2 DEF Recorder!Knob, Recorder!ArmIsWatched
<1> QED BY <1>6, <1>7, <1>8, <1>9 DEF Recorder!IInv

\* A note that is lost.
LEMMA RecNoteLost ==
  ASSUME Recorder!IInv, NEW slot \in Recorder!Slots, verb[slot].at \in {"note", "fail"}, UNCHANGED <<mod, disk, opened, effects, obs>>,
         excused' = TRUE, Recorder!Fault,
         disputed' = (IF verb[slot].kind = "record" /\ verb[slot].at = "note" THEN disputed \cup {verb[slot].run} ELSE disputed),
         IF verb[slot].kind = "quit" THEN Recorder!Goes(slot, "app") ELSE Recorder!Ends(slot)
  PROVE  Recorder!IInv'
<1> DEFINE v == verb[slot]
<1>1. v # Recorder!NoVerb
  BY RecNone
<1>2. faults' = faults + 1 /\ faults' \in Nat /\ faults' > 0 /\ faults' >= faults
  BY RecTyped DEF Recorder!Fault
<1>3. /\ v.kind = "record" => v.run \in Recorder!Runs /\ slot = "effect"
      /\ v.kind = "quit" => slot = "hand" /\ Recorder!Quits(v)
  BY <1>1, RecAtWork DEF Recorder!Course, RecProcs, Recorder!Runs
<1>4. disputed' \subseteq Recorder!Runs /\ disputed \subseteq disputed'
  BY <1>3, RecTyped
<1>5. obs' \in RecObs /\ obs'.config <= mod.desired
  BY RecTyped DEF Recorder!Walks
<1>6. Recorder!Books'
  BY RecTyped DEF Recorder!Books
<1>7. Recorder!Knob' /\ Recorder!ArmIsWatched'
  BY <1>2 DEF Recorder!Knob, Recorder!ArmIsWatched
<1>8. CASE v.kind = "quit"
  <2>1. Recorder!Goes(slot, "app") /\ disputed' = disputed
    BY <1>8
  <2>2. /\ verb'[slot].at = "app" /\ verb'[slot].kind = v.kind /\ verb'[slot].run = v.run
        /\ verb'[slot].config = v.config /\ verb'[slot].final = v.final /\ verb'[slot].rolling = v.rolling
    BY <2>1, RecTyped, RecGoes DEF Recorder!Steps
  <2>3. (Recorder!Quits(verb[slot]))' /\ "app" \in Recorder!Steps
    BY <1>3, <1>8, <2>1, <2>2 DEF Recorder!Quits, Recorder!Steps
  <2>4. Recorder!TypeOK' /\ Recorder!Walks' /\ verb'["effect"] = verb["effect"]
    BY <1>1, <1>2, <1>3, <1>5, <1>8, <2>1, <2>3, RecTyped, RecMoves
  <2>5. Recorder!Take'
    BY <1>4, <2>4, RecTyped, RecTakeKept
  <2> QED BY <1>6, <1>7, <2>4, <2>5 DEF Recorder!IInv
<1>9. CASE v.kind # "quit"
  <2>1. Recorder!Ends(slot)
    BY <1>9
  <2>2. Recorder!TypeOK' /\ Recorder!Walks' /\ verb'[slot] = Recorder!NoVerb /\ (slot # "effect" => verb'["effect"] = verb["effect"])
    BY <1>2, <1>4, <1>5, <2>1, RecTyped, RecLeaves
  <2>3. Recorder!Take'
    <3>1. CASE slot = "effect"
      <4>1. ~Recorder!Starting'
        BY <2>2, <3>1, RecNone DEF Recorder!Starting
      <4>2. Recorder!Starting /\ verb["effect"].at = "note" => verb["effect"].run \in disputed'
        BY <3>1 DEF Recorder!Starting
      <4> QED BY <1>4, <4>1, <4>2, RecTakeLeft
    <3>2. CASE slot # "effect"
      BY <1>4, <2>2, <3>2, RecTyped, RecTakeKept
    <3> QED BY <3>1, <3>2
  <2> QED BY <1>6, <1>7, <2>2, <2>3 DEF Recorder!IInv
<1> QED BY <1>8, <1>9

\* The note of a take: its books have the outcome.
LEMMA RecNoteTake ==
  ASSUME Recorder!IInv, NEW slot \in Recorder!Slots, verb[slot].at \in {"note", "fail"}, verb[slot].kind = "record", Recorder!Ends(slot),
         UNCHANGED <<opened, effects, obs, disputed, excused, faults>>,
         Recorder!Noted(verb[slot].run, [Recorder!RecOf(verb[slot].run) EXCEPT !.started = @ \/ verb[slot].at = "note", !.failed = verb[slot].at # "note"])
  PROVE  Recorder!IInv'
<1> DEFINE v == verb["effect"]
<1>1. slot = "effect" /\ v.run \in Recorder!Runs /\ v.run # 0
  BY RecAtWork, RecNone, RecTyped DEF Recorder!Course, RecProcs, Recorder!Runs
<1>2. Recorder!Starting
  BY <1>1 DEF Recorder!Starting
<1>3. PICK old \in Recorder!Recordings : old = Recorder!RecOf(v.run) /\ old = disk[v.run].rec
  BY <1>1, RecRecOf
<1>4. PICK s \in BOOLEAN, f \in BOOLEAN : s = (old.started \/ v.at = "note") /\ f = (v.at # "note")
  OBVIOUS
<1>5. PICK rec : rec = [old EXCEPT !.started = s, !.failed = f]
  OBVIOUS
<1>6. rec \in Recorder!Recordings /\ rec.intent = old.intent /\ rec.stopped = old.stopped /\ rec.started = s
  BY <1>5 DEF Recorder!Recordings
<1>7. Recorder!Noted(v.run, rec)
  BY <1>1, <1>3, <1>4, <1>5
<1>8. /\ mod' \in RecModules /\ mod'.run = mod.run /\ mod'.live = mod.live /\ mod'.desired = mod.desired
      /\ mod'.applying = mod.applying /\ mod'.dirty = mod.dirty
      /\ (mod'.armed => mod'.watch)
      /\ disk' \in RecJournals /\ disk'[v.run].rec = rec
      /\ \A x \in Recorder!Runs \ {v.run} : disk'[x] = disk[x]
  BY <1>1, <1>6, <1>7, RecTyped, RecNotes
<1>9. obs.config <= mod.desired
  BY RecTyped DEF Recorder!Walks
<1>10. Recorder!TypeOK' /\ Recorder!Walks' /\ verb'["effect"] = Recorder!NoVerb
  BY <1>1, <1>8, <1>9, RecTyped, RecLeaves
<1>11. Recorder!Books'
  BY <1>1, <1>6, <1>7, RecBooksNoted
<1>12. Recorder!Take'
  <2>1. ~Recorder!Starting'
    BY <1>10, RecNone DEF Recorder!Starting
  <2>2. ASSUME NEW r \in Recorder!Runs, obs'.rolling = r, r \notin disputed'
        PROVE  disk'[r].rec.intent /\ ~disk'[r].rec.stopped /\ disk'[r].rec.started
    <3>1. r # 0 /\ obs.rolling = r /\ r \notin disputed
      BY <2>2, RecTyped DEF Recorder!Runs
    <3>2. /\ disk[r].rec.intent /\ ~disk[r].rec.stopped
          /\ disk[r].rec.started \/ (v.at = "note" /\ v.run = r)
      BY <3>1, RecTyped DEF Recorder!Take
    <3>3. CASE r = v.run
      <4>1. old.intent /\ ~old.stopped /\ (old.started \/ v.at = "note")
        BY <1>3, <3>2, <3>3
      <4> QED BY <1>4, <1>6, <1>8, <3>3, <4>1
    <3>4. CASE r # v.run
      BY <1>8, <3>2, <3>4
    <3> QED BY <3>3, <3>4
  <2> QED BY <2>1, <2>2, RecTyped, RecTakeRests
<1>13. Recorder!Knob'
  <2>1. Recorder!Queued => Recorder!Queued'
    BY DEF Recorder!Queued
  <2> QED BY <1>1, <1>8, <1>10, <2>1, RecTyped, RecKnobEnds
<1>14. Recorder!ArmIsWatched'
  BY <1>8 DEF Recorder!ArmIsWatched
<1> QED BY <1>10, <1>11, <1>12, <1>13, <1>14 DEF Recorder!IInv

\* The note of an arm or of the hardware given back.
LEMMA RecNoteRig ==
  ASSUME Recorder!IInv, NEW slot \in Recorder!Slots, verb[slot].at \in {"note", "fail"}, verb[slot].kind \in {"arm", "release", "quit"},
         IF verb[slot].kind = "quit" THEN Recorder!Goes(slot, "app") ELSE Recorder!Ends(slot),
         UNCHANGED <<opened, disk, effects, obs, disputed, excused, faults>>,
         mod' = Recorder!Touched(Recorder!ArmNote(mod, verb[slot].at = "note" /\ verb[slot].kind = "arm"))
  PROVE  Recorder!IInv'
<1> DEFINE v == verb[slot]
<1>1. v # Recorder!NoVerb /\ (v.kind = "quit" => slot = "hand" /\ Recorder!Quits(v)) /\ v \in RecProcs
  BY RecNone, RecAtWork
<1>2. PICK b \in BOOLEAN : b = (v.at = "note" /\ v.kind = "arm")
  OBVIOUS
<1>3. PICK m : m = [mod EXCEPT !.armed = b, !.arming = FALSE]
  OBVIOUS
<1>4. /\ m \in RecModules /\ m.run = mod.run /\ m.live = mod.live /\ m.rec = mod.rec /\ m.desired = mod.desired
      /\ m.applying = mod.applying /\ m.dirty = mod.dirty
  BY <1>2, <1>3, RecTyped DEF RecModules
<1>5. mod' = Recorder!Touched(m)
  BY <1>2, <1>3 DEF Recorder!ArmNote
<1>6. /\ mod' \in RecModules /\ mod'.run = mod.run /\ mod'.live = mod.live /\ mod'.rec = mod.rec /\ mod'.desired = mod.desired
      /\ mod'.applying = mod.applying /\ mod'.dirty = mod.dirty /\ (mod'.armed => mod'.watch)
  BY <1>4, <1>5, RecTouched
<1>7. obs.config <= mod.desired
  BY RecTyped DEF Recorder!Walks
<1>8. Recorder!Books'
  BY <1>6, RecTyped DEF Recorder!Books
<1>9. Recorder!Queued => Recorder!Queued'
  BY DEF Recorder!Queued
<1>10. Recorder!ArmIsWatched'
  BY <1>6 DEF Recorder!ArmIsWatched
<1>11. CASE v.kind = "quit"
  <2>1. /\ verb' \in [Recorder!Slots -> RecProcs] /\ \A s \in Recorder!Slots \ {slot} : verb'[s] = verb[s]
        /\ verb'[slot].at = "app" /\ verb'[slot].kind = v.kind /\ verb'[slot].run = v.run
        /\ verb'[slot].config = v.config /\ verb'[slot].final = v.final /\ verb'[slot].rolling = v.rolling
    BY <1>11, RecTyped, RecGoes DEF Recorder!Steps
  <2>2. verb'["effect"] = verb["effect"] /\ verb'["idle"] = verb["idle"]
    BY <1>1, <1>11, <2>1 DEF Recorder!Slots
  <2>3. (Recorder!Quits(verb["hand"]))'
    BY <1>1, <1>11, <2>1 DEF Recorder!Quits, Recorder!Steps
  <2>4. Recorder!TypeOK'
    BY <1>6, <2>1, RecTyped, RecTypes
  <2>5. Recorder!Walks'
    <3>1. verb'["effect"].config <= mod'.desired /\ obs'.config <= mod'.desired
      BY <1>6, <1>7, <2>2, RecTyped DEF Recorder!Walks
    <3> QED BY <2>2, <2>3, <3>1, RecTyped, RecWalked
  <2>6. Recorder!Take' /\ Recorder!Knob'
    BY <1>6, <1>9, <2>2, RecTyped, RecTakeKept, RecKnobKept
  <2> QED BY <1>8, <1>10, <2>4, <2>5, <2>6 DEF Recorder!IInv
<1>12. CASE v.kind # "quit"
  <2>1. Recorder!TypeOK' /\ Recorder!Walks' /\ verb'[slot] = Recorder!NoVerb /\ (slot # "effect" => verb'["effect"] = verb["effect"])
    BY <1>6, <1>7, <1>12, RecTyped, RecLeaves
  <2>2. CASE slot = "effect"
    <3>1. ~Recorder!Starting /\ ~Recorder!Starting'
      BY <2>1, <2>2, RecNone DEF Recorder!Starting
    <3>2. Recorder!Take'
      BY <3>1, RecTakeLeft
    <3>3. Recorder!Knob'
      BY <1>6, <1>9, <2>1, <2>2, RecTyped, RecKnobEnds
    <3> QED BY <1>8, <1>10, <2>1, <3>2, <3>3 DEF Recorder!IInv
  <2>3. CASE slot # "effect"
    <3>1. Recorder!Take' /\ Recorder!Knob'
      BY <1>6, <1>9, <2>1, <2>3, RecTyped, RecTakeKept, RecKnobKept
    <3> QED BY <1>8, <1>10, <2>1, <3>1 DEF Recorder!IInv
  <2> QED BY <2>2, <2>3
<1> QED BY <1>11, <1>12

\* The note of an apply: a configuration that moved under it is queued again.
LEMMA RecNoteApply ==
  ASSUME Recorder!IInv, NEW slot \in Recorder!Slots, verb[slot].at \in {"note", "fail"}, verb[slot].kind = "apply", Recorder!Ends(slot),
         UNCHANGED <<opened, disk, obs, disputed, excused, faults>>,
         \E next \in Recorder!ApplyNote : mod' = Recorder!Touched(next[1]) /\ effects' = effects \o next[2]
  PROVE  Recorder!IInv'
<1>1. slot = "effect" /\ ~Recorder!Starting
  BY RecAtWork, RecNone DEF Recorder!Starting
<1>2. PICK next \in Recorder!ApplyNote : mod' = Recorder!Touched(next[1]) /\ effects' = effects \o next[2]
  OBVIOUS
<1>3. PICK m : m = [mod EXCEPT !.applying = FALSE]
  OBVIOUS
<1>4. /\ m \in RecModules /\ m.run = mod.run /\ m.live = mod.live /\ m.rec = mod.rec /\ m.desired = mod.desired
      /\ ~m.applying /\ m.dirty = mod.dirty
  BY <1>3, RecTyped DEF RecModules
<1>5. \/ next = <<m, <<>>>> /\ (~mod.dirty \/ mod.desired = 0)
      \/ next = <<[m EXCEPT !.applying = TRUE], <<Recorder!Effect("apply", 0, FALSE)>>>>
  <2>1. CASE ~mod.dirty
    BY <1>2, <1>3, <2>1 DEF Recorder!ApplyNote
  <2>2. CASE mod.dirty
    <3>1. next \in Recorder!Apply(m)
      BY <1>2, <1>3, <2>2 DEF Recorder!ApplyNote
    <3> QED BY <1>4, <3>1 DEF Recorder!Apply
  <2> QED BY <2>1, <2>2
<1>6. /\ mod' \in RecModules /\ mod'.run = mod.run /\ mod'.live = mod.live /\ mod'.rec = mod.rec /\ mod'.desired = mod.desired
      /\ (mod'.armed => mod'.watch) /\ effects' \in Seq(Recorder!Queueable)
      /\ Recorder!Queued' \/ (~mod'.applying /\ effects' = effects /\ (~mod.dirty \/ mod.desired = 0))
  <2>1. CASE next = <<m, <<>>>> /\ (~mod.dirty \/ mod.desired = 0)
    <3>1. next[1] = m /\ next[2] = <<>>
      BY <2>1
    <3>2. mod' = Recorder!Touched(m) /\ effects' = effects
      BY <1>2, <3>1, RecTyped, ConcatEmptySeq
    <3>3. /\ mod' \in RecModules /\ mod'.run = mod.run /\ mod'.live = mod.live /\ mod'.rec = mod.rec /\ mod'.desired = mod.desired
          /\ (mod'.armed => mod'.watch)
      BY <1>4, <3>2, RecTouched
    <3>4. ~mod'.applying
      BY <1>4, <3>2, RecTouched
    <3>5. effects' \in Seq(Recorder!Queueable)
      BY <3>2, RecTyped
    <3> QED BY <2>1, <3>2, <3>3, <3>4, <3>5
  <2>2. CASE next = <<[m EXCEPT !.applying = TRUE], <<Recorder!Effect("apply", 0, FALSE)>>>>
    <3>1. PICK q : q = [m EXCEPT !.applying = TRUE]
      OBVIOUS
    <3>2. q \in RecModules /\ q.run = mod.run /\ q.live = mod.live /\ q.rec = mod.rec /\ q.desired = mod.desired
      BY <1>4, <3>1 DEF RecModules
    <3>3. next[1] = q /\ next[2] = <<Recorder!Effect("apply", 0, FALSE)>>
      BY <2>2, <3>1
    <3>4. Recorder!Effect("apply", 0, FALSE) \in Recorder!Queueable /\ Recorder!Effect("apply", 0, FALSE).verb = "apply"
      BY RecEffects, RecTyped
    <3>5. mod' = Recorder!Touched(q) /\ effects' = Append(effects, Recorder!Effect("apply", 0, FALSE))
      BY <1>2, <3>3, <3>4, RecTyped, RecQueued
    <3>6. effects' \in Seq(Recorder!Queueable) /\ Recorder!Queued'
      BY <3>4, <3>5, RecQueues
    <3>7. /\ mod' \in RecModules /\ mod'.run = mod.run /\ mod'.live = mod.live /\ mod'.rec = mod.rec /\ mod'.desired = mod.desired
          /\ (mod'.armed => mod'.watch)
      BY <3>2, <3>5, RecTouched
    <3> QED BY <3>6, <3>7
  <2> QED BY <1>5, <2>1, <2>2
<1>7. obs.config <= mod.desired
  BY RecTyped DEF Recorder!Walks
<1>8. Recorder!TypeOK' /\ Recorder!Walks' /\ verb'["effect"] = Recorder!NoVerb
  BY <1>1, <1>6, <1>7, RecTyped, RecLeaves
<1>9. Recorder!Books'
  BY <1>6, RecTyped DEF Recorder!Books
<1>10. Recorder!Take'
  <2>1. ~Recorder!Starting'
    BY <1>8, RecNone DEF Recorder!Starting
  <2> QED BY <1>1, <2>1, RecTakeLeft
<1>11. Recorder!Knob'
  <2> SUFFICES ASSUME ~excused' PROVE Recorder!Knob'
    BY DEF Recorder!Knob
  <2>1. verb'["effect"].at = "idle"
    BY <1>8, RecNone
  <2>2. CASE Recorder!Queued'
    BY <2>1, <2>2 DEF Recorder!Knob, Recorder!Coming
  <2>3. CASE ~mod'.applying /\ effects' = effects /\ (~mod.dirty \/ mod.desired = 0)
    <3>1. obs.config \notin {0, mod.desired} => Recorder!Coming \/ Recorder!Applying
      BY RecTyped DEF Recorder!Knob
    <3>2. ~Recorder!Applying
      BY <1>1 DEF Recorder!Applying
    <3>3. mod.desired = 0 => obs.config = 0
      BY <1>7, RecTyped
    <3>4. obs'.config \notin {0, mod'.desired} => Recorder!Queued'
      BY <1>6, <2>3, <3>1, <3>2, <3>3 DEF Recorder!Coming, Recorder!Queued
    <3> QED BY <2>1, <2>3, <3>4 DEF Recorder!Knob, Recorder!Coming
  <2> QED BY <1>6, <2>2, <2>3
<1>12. Recorder!ArmIsWatched'
  BY <1>6 DEF Recorder!ArmIsWatched
<1> QED BY <1>8, <1>9, <1>10, <1>11, <1>12 DEF Recorder!IInv

LEMMA RecNote == ASSUME Recorder!IInv, NEW slot \in Recorder!Slots, Recorder!Note(slot) PROVE Recorder!IInv'
<1> DEFINE v == verb[slot]
<1>1. v.at \in {"note", "fail"} /\ UNCHANGED <<opened, obs>> /\ (IF v.kind = "quit" THEN Recorder!Goes(slot, "app") ELSE Recorder!Ends(slot))
  BY DEF Recorder!Note
<1>2. v # Recorder!NoVerb
  BY <1>1, RecNone
<1>3. v.kind \in {"record", "apply", "arm", "release", "quit"}
  <2>1. (v.kind = "quit" => Recorder!Quits(v)) /\ (v.kind # "quit" => Recorder!Course(v))
    BY <1>2, RecAtWork
  <2> QED BY <1>1, <2>1 DEF Recorder!Course
<1>4. CASE /\ Recorder!Fault /\ excused' = TRUE /\ UNCHANGED <<mod, disk, effects>>
           /\ disputed' = IF v.kind = "record" /\ v.at = "note" THEN disputed \cup {v.run} ELSE disputed
  BY <1>1, <1>4, RecNoteLost
<1>5. CASE Recorder!NoFault /\ UNCHANGED <<disputed, excused>> /\ v.kind = "record" /\ UNCHANGED effects
           /\ Recorder!Noted(v.run, [Recorder!RecOf(v.run) EXCEPT !.started = @ \/ v.at = "note", !.failed = v.at # "note"])
  BY <1>1, <1>5, RecNoteTake DEF Recorder!NoFault
<1>6. CASE Recorder!NoFault /\ UNCHANGED <<disputed, excused>> /\ v.kind \in {"arm", "release", "quit"}
           /\ mod' = Recorder!Touched(Recorder!ArmNote(mod, v.at = "note" /\ v.kind = "arm")) /\ UNCHANGED <<disk, effects>>
  BY <1>1, <1>6, RecNoteRig DEF Recorder!NoFault
<1>7. CASE Recorder!NoFault /\ UNCHANGED <<disputed, excused>> /\ v.kind = "apply" /\ UNCHANGED disk
           /\ \E next \in Recorder!ApplyNote : mod' = Recorder!Touched(next[1]) /\ effects' = effects \o next[2]
  BY <1>1, <1>7, RecNoteApply DEF Recorder!NoFault
<1>8. \/ Recorder!Fault /\ excused' = TRUE /\ UNCHANGED <<mod, disk, effects>>
         /\ disputed' = IF v.kind = "record" /\ v.at = "note" THEN disputed \cup {v.run} ELSE disputed
      \/ Recorder!NoFault /\ UNCHANGED <<disputed, excused>>
         /\ CASE v.kind = "record" ->
                  /\ Recorder!Noted(v.run, [Recorder!RecOf(v.run) EXCEPT !.started = @ \/ v.at = "note", !.failed = ~(v.at = "note")])
                  /\ UNCHANGED effects
             [] v.kind \in {"arm", "release", "quit"} ->
                  mod' = Recorder!Touched(Recorder!ArmNote(mod, v.at = "note" /\ v.kind = "arm")) /\ UNCHANGED <<disk, effects>>
             [] v.kind = "apply" ->
                  /\ \E next \in Recorder!ApplyNote : mod' = Recorder!Touched(next[1]) /\ effects' = effects \o next[2]
                  /\ UNCHANGED disk
  BY DEF Recorder!Note
<1> QED BY <1>3, <1>4, <1>5, <1>6, <1>7, <1>8

(* The recorder as a whole.                                                *)
LEMMA RecInit == ASSUME Recorder!Init PROVE Recorder!IInv
<1>1. MaxTakes \in Nat /\ 0 \in 0..MaxTakes /\ 0 \in Nat
  BY RecorderInstance DEF Recorder!RecorderAssumption
<1>2. /\ mod = [run |-> 0, live |-> FALSE, rec |-> Recorder!NoRecording, desired |-> 0, applying |-> FALSE,
                dirty |-> FALSE, arming |-> FALSE, armed |-> FALSE, watch |-> FALSE]
      /\ disk = [r \in Recorder!Runs |-> [live |-> FALSE, rec |-> Recorder!NoRecording]] /\ opened = 0
      /\ effects = <<>> /\ verb = [s \in Recorder!Slots |-> Recorder!NoVerb] /\ obs = Recorder!Cold
      /\ excused = FALSE /\ disputed = {} /\ faults = 0
  BY DEF Recorder!Init
<1>3. Recorder!NoRecording \in Recorder!Recordings /\ ~Recorder!NoRecording.intent /\ ~Recorder!NoRecording.started
  BY <1>1 DEF Recorder!NoRecording, Recorder!Recordings
<1>4. /\ mod \in [run: 0..MaxTakes, live: BOOLEAN, rec: Recorder!Recordings, desired: Nat,
                  applying: BOOLEAN, dirty: BOOLEAN, arming: BOOLEAN, armed: BOOLEAN, watch: BOOLEAN]
      /\ mod.run = 0 /\ ~mod.live /\ mod.rec = Recorder!NoRecording /\ mod.desired = 0 /\ ~mod.applying /\ ~mod.dirty /\ ~mod.armed
  BY <1>1, <1>2, <1>3
<1>5. \A r \in Recorder!Runs : disk[r].live = FALSE /\ disk[r].rec = Recorder!NoRecording
  BY <1>2
<1>6. disk \in [Recorder!Runs -> [live: BOOLEAN, rec: Recorder!Recordings]]
  BY <1>2, <1>3
<1>7. verb \in [Recorder!Slots -> RecProcs] /\ \A s \in Recorder!Slots : verb[s] = Recorder!NoVerb
  BY <1>2, RecNone
<1>8. /\ obs \in [up: BOOLEAN, rolling: 0..MaxTakes, held: BOOLEAN, config: Nat]
      /\ ~obs.up /\ obs.rolling = 0 /\ obs.config = 0
  BY <1>1, <1>2 DEF Recorder!Cold
<1>9. <<>> \in Seq([verb: Recorder!Verbs, run: 0..MaxTakes, final: BOOLEAN]) /\ <<>> \in Seq(Recorder!Queueable)
  BY EmptySeq
<1>10. Recorder!TypeOK
  BY <1>1, <1>2, <1>4, <1>6, <1>7, <1>8, <1>9 DEF Recorder!TypeOK, RecProcs
<1>11. verb["effect"] = Recorder!NoVerb /\ verb["hand"] = Recorder!NoVerb /\ verb["idle"] = Recorder!NoVerb
  BY <1>7 DEF Recorder!Slots
<1>12. Recorder!Walks
  BY <1>2, <1>4, <1>8, <1>9, <1>11, RecNone DEF Recorder!Walks
<1>13. Recorder!Books
  BY <1>2, <1>3, <1>4, <1>5, <1>8 DEF Recorder!Books
<1>14. Recorder!Take
  BY <1>8, <1>11, RecNone DEF Recorder!Take, Recorder!Starting
<1>15. Recorder!Knob
  BY <1>4, <1>8, <1>11, RecNone DEF Recorder!Knob
<1>16. Recorder!ArmIsWatched
  BY <1>4 DEF Recorder!ArmIsWatched
<1> QED BY <1>10, <1>12, <1>13, <1>14, <1>15, <1>16 DEF Recorder!IInv

LEMMA RecNext == ASSUME Recorder!IInv, [Recorder!Next]_(Recorder!vars) PROVE Recorder!IInv'
<1>1. CASE UNCHANGED Recorder!vars
  <2>1. UNCHANGED <<mod, disk, opened, effects, verb, obs, excused, disputed, faults>>
    BY <1>1 DEF Recorder!vars
  <2>2. Recorder!TypeOK'
    BY <2>1, RecTyped, RecTypes
  <2>3. Recorder!Walks'
    BY <2>1, RecTyped DEF Recorder!Walks, Recorder!Quits
  <2>4. Recorder!Books'
    BY <2>1, RecTyped DEF Recorder!Books
  <2>5. Recorder!Queued => Recorder!Queued'
    BY <2>1 DEF Recorder!Queued
  <2>6. Recorder!Take' /\ Recorder!Knob'
    BY <2>1, <2>5, RecTyped, RecTakeKept, RecKnobKept
  <2>7. Recorder!ArmIsWatched'
    BY <2>1, RecTyped DEF Recorder!ArmIsWatched
  <2> QED BY <2>2, <2>3, <2>4, <2>6, <2>7 DEF Recorder!IInv
<1>2. CASE Recorder!TapRecord \/ Recorder!TapArm \/ Recorder!TapConfig \/ Recorder!EndRun \/ Recorder!NextEffect \/ Recorder!ByHand \/ Recorder!Watch \/ Recorder!ObsQuits \/ Recorder!Restart
  BY <1>2, RecTapRecord, RecTapArm, RecTapConfig, RecEndRun, RecNextEffect, RecByHand, RecWatch, RecObsQuits, RecRestart
<1>3. ASSUME NEW slot \in Recorder!Slots,
             \/ Recorder!Ask(slot) \/ Recorder!Dial(slot) \/ Recorder!Scene(slot) \/ Recorder!Start(slot) \/ Recorder!StopTake(slot)
             \/ Recorder!StopDone(slot) \/ Recorder!Note(slot) \/ Recorder!QuitApp(slot) \/ Recorder!VerbDies(slot) \/ Recorder!Gone(slot)
      PROVE  Recorder!IInv'
  BY <1>3, RecAsk, RecDial, RecScene, RecStart, RecStopTake, RecStopDone, RecNote, RecVerbDies, RecGone
<1> QED BY <1>1, <1>2, <1>3 DEF Recorder!Next

\* What the invariant says of the take and of the knob.
LEMMA RecSafe == ASSUME Recorder!IInv PROVE Recorder!TypeOK /\ Recorder!TakeIsOwned /\ Recorder!KnobReachesObs /\ Recorder!ArmIsWatched
<1>1. Recorder!TakeIsOwned
  <2> SUFFICES ASSUME obs.rolling # 0, obs.rolling \notin disputed
               PROVE  Recorder!StopWorthy(Recorder!RecOf(obs.rolling)) /\ (obs.rolling = mod.run => Recorder!Face \in {"stop", "starting"})
    BY DEF Recorder!TakeIsOwned
  <2>1. obs.rolling \in Recorder!Runs
    BY RecTyped DEF Recorder!Runs
  <2>2. PICK rec \in Recorder!Recordings : rec = Recorder!RecOf(obs.rolling) /\ rec = disk[obs.rolling].rec
    BY <2>1, RecRecOf
  <2>3. rec.intent /\ ~rec.stopped
    BY <2>2, RecTyped DEF Recorder!Take
  <2>4. CASE rec.started
    <3>1. Recorder!StopWorthy(rec) /\ Recorder!Active(rec)
      BY <2>3, <2>4 DEF Recorder!StopWorthy, Recorder!Active
    <3>2. obs.rolling = mod.run => rec = mod.rec
      BY <2>2 DEF Recorder!RecOf
    <3>3. obs.rolling = mod.run => Recorder!Face = "stop"
      BY <3>1, <3>2 DEF Recorder!Face
    <3> QED BY <2>2, <3>1, <3>3
  <2>5. CASE ~rec.started
    <3>1. Recorder!Starting /\ verb["effect"].run = obs.rolling
      BY <2>2, <2>5, RecTyped DEF Recorder!Take
    <3>2. obs.rolling = mod.run /\ Recorder!Opening(mod.rec)
      BY <3>1, RecTyped DEF Recorder!Take
    <3>3. rec = mod.rec
      BY <2>2, <3>2 DEF Recorder!RecOf
    <3>4. Recorder!StopWorthy(rec)
      BY <3>2, <3>3 DEF Recorder!Opening, Recorder!StopWorthy
    <3>5. ~Recorder!Active(mod.rec) /\ mod.rec.intent /\ ~mod.rec.stopped /\ ~mod.rec.failed
      BY <3>2 DEF Recorder!Opening, Recorder!Active
    <3> QED BY <2>2, <3>4, <3>5 DEF Recorder!Face
  <2> QED BY <2>4, <2>5
<1>2. Recorder!KnobReachesObs
  <2> SUFFICES ASSUME obs.config # mod.desired, ~excused, obs.config # 0
               PROVE  \/ \E i \in DOMAIN effects : effects[i].verb \in {"apply", "arm"}
                      \/ \E slot \in Recorder!Slots : Recorder!Carries(slot)
                      \/ mod.dirty /\ mod.applying /\ \E slot \in Recorder!Slots : verb[slot].kind = "apply"
    BY DEF Recorder!KnobReachesObs
  <2>1. Recorder!Coming \/ Recorder!Applying
    BY RecTyped DEF Recorder!Knob
  <2>2. "effect" \in Recorder!Slots
    BY DEF Recorder!Slots
  <2>3. Recorder!Applying => Recorder!Carries("effect")
    BY DEF Recorder!Applying, Recorder!Carries
  <2> QED BY <2>1, <2>2, <2>3 DEF Recorder!Coming, Recorder!Queued
<1> QED BY <1>1, <1>2, RecTyped

\* Whatever the budgets, with releases and quits typed at any time: while OBS rolls a take nobody disputes,
\* the books of its run say it may be rolling and the button of the pad stops it; a configuration that
\* changed and met nothing that excuses it is queued, at work or fired again by the note of the apply
\* that runs; an armed rig is watched (openRecordingLocked, stopLocked, noteRecordingLocked,
\* applyEffectsLocked, armCheckLocked and the verbs of renocontrol).
THEOREM TakeIsSafe == Recorder!Spec => []TakeSafe
<1>1. Recorder!Init => Recorder!IInv
  BY RecInit
<1>2. Recorder!IInv /\ [Recorder!Next]_(Recorder!vars) => Recorder!IInv'
  BY RecNext
<1>3. Recorder!IInv => TakeSafe
  BY RecSafe DEF TakeSafe
<1> QED BY <1>1, <1>2, <1>3, PTL DEF Recorder!Spec

(***************************************************************************)
(* The camera effects.                                                     *)
(***************************************************************************)
CONSTANTS Filters, Sustained, Lamps, FXMaxLevel, Presets, MaxFXTaps, MaxFXFaults, MaxFXRestarts
VARIABLES webcam, level, parked, saved, queue, apply, motor, item, filter, pose, blind, fxTaps, fxFaults, fxRestarts
FX == INSTANCE RenoFX
ASSUME EffectsInstance == FX!FXAssumption

\* One driver per sustained effect and tiles that tell the truth (sustain.go, adhoc.go).
CameraSafe == FX!TypeOK /\ FX!OneDriver /\ FX!TilesAreTrue

\* What the module holds, and a kind of which nobody runs but at a level above zero.
FxLevels == [FX!Kinds -> FX!Levels]
FxHolds == [webcam : Presets \cup {"unset", "off"}, level : FxLevels, parked : FxLevels,
            apply : [live : BOOLEAN, dirty : BOOLEAN], motor : [Sustained -> FX!Motors], queue : Seq(FX!Effects)]
FxLoose(m, alone) ==
  /\ m.retiring # 0 => m.slot = 0
  /\ m.slot # 0 => m.driver[m.slot].level > 0
  /\ alone => \A d \in DOMAIN m.driver : m.driver[d].phase # "gone" => d \in {m.slot, m.retiring}

LEMMA FxMotor ==
  ASSUME NEW m \in FX!Motors
  PROVE  /\ m.slot \in Nat /\ m.retiring \in Nat /\ m.driver \in Seq(FX!Drivers) /\ Len(m.driver) \in Nat
         /\ m.slot \in 0..Len(m.driver) /\ m.retiring \in 0..Len(m.driver)
         /\ DOMAIN m.driver = 1..Len(m.driver) /\ \A d \in 1..Len(m.driver) : m.driver[d] \in FX!Drivers
         /\ m = [slot |-> m.slot, retiring |-> m.retiring, driver |-> m.driver]
<1>1. m \in [slot : Nat, retiring : Nat, driver : Seq(FX!Drivers)] /\ {m.slot, m.retiring} \subseteq 0..Len(m.driver)
  BY DEF FX!Motors
<1>2. m.slot \in Nat /\ m.retiring \in Nat /\ m.driver \in Seq(FX!Drivers) /\ m.slot \in 0..Len(m.driver) /\ m.retiring \in 0..Len(m.driver)
      /\ m = [slot |-> m.slot, retiring |-> m.retiring, driver |-> m.driver]
  BY <1>1
<1> QED BY <1>2, LenProperties, ElementOfSeq

LEMMA FxMade ==
  ASSUME NEW s \in Nat, NEW r \in Nat, NEW ds \in Seq(FX!Drivers), s <= Len(ds), r <= Len(ds)
  PROVE  [slot |-> s, retiring |-> r, driver |-> ds] \in FX!Motors
<1>1. Len(ds) \in Nat
  BY LenProperties
<1> QED BY <1>1 DEF FX!Motors

\* A driver that is told something is a driver still.
LEMMA FxDriverSet ==
  ASSUME NEW ds \in Seq(FX!Drivers), NEW d \in DOMAIN ds, NEW e \in FX!Drivers
  PROVE  /\ [ds EXCEPT ![d] = e] \in Seq(FX!Drivers) /\ Len([ds EXCEPT ![d] = e]) = Len(ds)
         /\ DOMAIN [ds EXCEPT ![d] = e] = DOMAIN ds /\ Len(ds) \in Nat /\ DOMAIN ds = 1..Len(ds)
         /\ \A c \in DOMAIN ds : [ds EXCEPT ![d] = e][c] = IF c = d THEN e ELSE ds[c]
<1>1. Len(ds) \in Nat /\ DOMAIN ds = 1..Len(ds)
  BY LenProperties
<1> QED BY <1>1, ExceptSeq

LEMMA FxTold ==
  ASSUME NEW e \in FX!Drivers
  PROVE  /\ [e EXCEPT !.asked = TRUE] \in FX!Drivers
         /\ [e EXCEPT !.asked = TRUE].phase = e.phase /\ [e EXCEPT !.asked = TRUE].level = e.level
BY DEF FX!Drivers

\* touchSustainLocked leaves a kind manned, whatever it was but loose.
LEMMA FxTurned ==
  ASSUME NEW m \in FX!Motors, NEW w \in FX!Levels, NEW alone \in BOOLEAN, FxLoose(m, alone)
  PROVE  /\ FX!Turned(m, w) \in FX!Motors /\ FX!Manned(FX!Turned(m, w), w, alone)
         /\ \A d \in DOMAIN m.driver :
              d \in DOMAIN FX!Turned(m, w).driver /\ FX!Turned(m, w).driver[d].phase = m.driver[d].phase
<1>1. /\ m.slot \in Nat /\ m.retiring \in Nat /\ m.driver \in Seq(FX!Drivers) /\ Len(m.driver) \in Nat
      /\ m.slot \in 0..Len(m.driver) /\ m.retiring \in 0..Len(m.driver) /\ DOMAIN m.driver = 1..Len(m.driver)
      /\ \A d \in 1..Len(m.driver) : m.driver[d] \in FX!Drivers
  BY FxMotor
<1>2. w \in Nat
  BY EffectsInstance DEF FX!Levels, FX!FXAssumption
<1>3. CASE m.retiring # 0
  BY <1>3 DEF FX!Turned, FX!Manned, FxLoose
<1>4. CASE m.retiring = 0 /\ m.slot # 0 /\ m.driver[m.slot].level # w
  <2>1. PICK e : e = [m.driver[m.slot] EXCEPT !.asked = TRUE]
    OBVIOUS
  <2>2. m.slot \in DOMAIN m.driver /\ e \in FX!Drivers /\ e.phase = m.driver[m.slot].phase
    <3>1. m.slot \in 1..Len(m.driver)
      BY <1>1, <1>4
    <3>2. m.driver[m.slot] \in FX!Drivers
      BY <1>1, <3>1
    <3> QED BY <1>1, <2>1, <3>1, <3>2, FxTold
  <2>3. PICK ds : ds = [m.driver EXCEPT ![m.slot] = e]
    OBVIOUS
  <2>4. ds \in Seq(FX!Drivers) /\ Len(ds) = Len(m.driver) /\ DOMAIN ds = DOMAIN m.driver
        /\ \A c \in DOMAIN m.driver : ds[c].phase = m.driver[c].phase
    <3>1. m.driver \in Seq(FX!Drivers)
      BY <1>1
    <3>2. /\ [m.driver EXCEPT ![m.slot] = e] \in Seq(FX!Drivers) /\ Len([m.driver EXCEPT ![m.slot] = e]) = Len(m.driver)
          /\ DOMAIN [m.driver EXCEPT ![m.slot] = e] = DOMAIN m.driver
          /\ \A c \in DOMAIN m.driver : [m.driver EXCEPT ![m.slot] = e][c] = IF c = m.slot THEN e ELSE m.driver[c]
      BY <2>2, <3>1, FxDriverSet
    <3> QED BY <2>2, <2>3, <3>2
  <2>5. PICK t : t = [slot |-> 0, retiring |-> m.slot, driver |-> ds]
    OBVIOUS
  <2>6. FX!Turned(m, w) = t
    BY <1>4, <2>1, <2>3, <2>5 DEF FX!Turned, FX!Retires
  <2>7. t \in FX!Motors
    <3>1. 0 \in Nat /\ m.slot \in Nat /\ ds \in Seq(FX!Drivers) /\ 0 <= Len(ds) /\ m.slot <= Len(ds)
      BY <1>1, <2>4
    <3> QED BY <2>5, <3>1, FxMade
  <2>8. t.slot = 0 /\ t.retiring = m.slot /\ t.driver = ds
    BY <2>5
  <2>9. FX!Manned(t, w, alone)
    BY <1>1, <1>4, <2>4, <2>8 DEF FX!Manned, FxLoose
  <2> QED BY <2>4, <2>6, <2>7, <2>8, <2>9
<1>5. CASE m.retiring = 0 /\ m.slot = 0 /\ w > 0
  <2>1. PICK e : e = [level |-> w, phase |-> "dial", asked |-> FALSE, home |-> "unset"]
    OBVIOUS
  <2>2. e \in FX!Drivers /\ e.level = w
    BY <2>1 DEF FX!Drivers, FX!Phases
  <2>3. PICK ds : ds = Append(m.driver, e)
    OBVIOUS
  <2>4. ds \in Seq(FX!Drivers) /\ Len(ds) = Len(m.driver) + 1 /\ ds[Len(m.driver) + 1] = e
        /\ \A c \in 1..Len(m.driver) : ds[c] = m.driver[c]
    BY <1>1, <2>2, <2>3, AppendProperties
  <2>5. PICK t : t = [slot |-> Len(m.driver) + 1, retiring |-> 0, driver |-> ds]
    OBVIOUS
  <2>6. FX!Turned(m, w) = t
    BY <1>5, <2>1, <2>3, <2>5 DEF FX!Turned, FX!Starts
  <2>7. t \in FX!Motors
    <3>1. 0 \in Nat /\ Len(m.driver) + 1 \in Nat /\ ds \in Seq(FX!Drivers) /\ 0 <= Len(ds) /\ Len(m.driver) + 1 <= Len(ds)
      BY <1>1, <2>4
    <3> QED BY <2>5, <3>1, FxMade
  <2>8. t.slot = Len(m.driver) + 1 /\ t.retiring = 0 /\ t.driver = ds
    BY <2>5
  <2>9. DOMAIN ds = 1..Len(m.driver) + 1
    BY <2>4, LenProperties
  <2>10. ASSUME alone, NEW d \in DOMAIN ds, ds[d].phase # "gone" PROVE d = t.slot
    <3>1. d = Len(m.driver) + 1 \/ d \in 1..Len(m.driver)
      BY <1>1, <2>9
    <3>2. CASE d \in 1..Len(m.driver)
      <4>1. m.driver[d].phase # "gone" /\ d \in DOMAIN m.driver
        BY <1>1, <2>4, <2>10, <3>2
      <4> QED BY <1>1, <1>5, <2>10, <3>2, <4>1 DEF FxLoose
    <3> QED BY <2>8, <3>1, <3>2
  <2>11. FX!Manned(t, w, alone)
    BY <1>1, <1>5, <2>2, <2>4, <2>8, <2>10 DEF FX!Manned
  <2>12. \A d \in DOMAIN m.driver : d \in DOMAIN t.driver /\ t.driver[d].phase = m.driver[d].phase
    BY <1>1, <2>4, <2>8, <2>9
  <2> QED BY <2>6, <2>7, <2>11, <2>12
<1>6. CASE m.retiring = 0 /\ (m.slot # 0 => m.driver[m.slot].level = w) /\ ~(m.slot = 0 /\ w > 0)
  <2>1. FX!Turned(m, w) = m
    BY <1>6 DEF FX!Turned
  <2> QED BY <1>1, <1>6, <2>1 DEF FX!Manned, FxLoose
<1> QED BY <1>3, <1>4, <1>5, <1>6

FxGood(h, alone) == \A k \in Sustained : FX!Manned(h.motor[k], FX!Want(h, k), alone)
FxAllLoose(h, alone) == \A k \in Sustained : FxLoose(h.motor[k], alone)
FxAlike(g, h) == g.webcam = h.webcam /\ g.level = h.level /\ g.parked = h.parked /\ g.apply = h.apply
FxMore(g, h) == \A k \in Filters : FX!Sent(h.queue, k) => FX!Sent(g.queue, k)
\* No driver of the motors ns goes on in the motors ms.
FxStays(ms, ns) ==
  \A k \in Sustained : \A d \in DOMAIN ns[k].driver :
    d \in DOMAIN ms[k].driver /\ ms[k].driver[d].phase = ns[k].driver[d].phase
LEMMA FxStill == ASSUME NEW ms PROVE FxStays(ms, ms)
BY DEF FxStays
LEMMA FxStaysOn == ASSUME NEW ls, NEW ms, NEW ns, FxStays(ls, ms), FxStays(ms, ns) PROVE FxStays(ls, ns)
BY DEF FxStays

\* The instance counts as everybody does.
LEMMA FxFinite == ASSUME NEW S PROVE FX!IsFiniteSet(S) <=> IsFiniteSet(S)
BY DEF FX!IsFiniteSet, IsFiniteSet
LEMMA FxCounts == ASSUME NEW S PROVE FX!Cardinality(S) = Cardinality(S)
BY DEF FX!Cardinality, Cardinality

LEMMA FxKinds ==
  /\ Sustained \subseteq FX!Kinds /\ Filters \subseteq FX!Kinds /\ Lamps \subseteq Sustained /\ Sustained \cap Filters = {}
  /\ FX!Levels \subseteq Nat /\ 0 \in FX!Levels /\ FXMaxLevel \in Nat /\ FX!Zero \in FxLevels /\ IsFiniteSet(FX!Kinds)
  /\ "unset" \notin Presets /\ "off" \notin Presets
  /\ \A k \in FX!Kinds : FX!Zero[k] = 0
<1>1. IsFiniteSet(Filters \cup Sustained)
  <2>1. IsFiniteSet(Filters) /\ IsFiniteSet(Sustained)
    BY EffectsInstance, FxFinite DEF FX!FXAssumption
  <2> QED BY <2>1, FS_Union
<1>2. /\ Sustained \subseteq FX!Kinds /\ Filters \subseteq FX!Kinds /\ Lamps \subseteq Sustained /\ Sustained \cap Filters = {}
      /\ "unset" \notin Presets /\ "off" \notin Presets /\ FXMaxLevel \in Nat
  BY EffectsInstance DEF FX!FXAssumption, FX!Kinds
<1>3. FX!Levels \subseteq Nat /\ 0 \in FX!Levels
  BY <1>2 DEF FX!Levels
<1> QED BY <1>1, <1>2, <1>3 DEF FX!Kinds, FX!Zero, FxLevels

LEMMA FxHeld ==
  ASSUME NEW h \in FxHolds
  PROVE  /\ h.webcam \in Presets \cup {"unset", "off"} /\ h.level \in FxLevels /\ h.parked \in FxLevels
         /\ h.apply \in [live : BOOLEAN, dirty : BOOLEAN] /\ h.motor \in [Sustained -> FX!Motors] /\ h.queue \in Seq(FX!Effects)
         /\ \A k \in FX!Kinds : h.level[k] \in FX!Levels /\ h.parked[k] \in FX!Levels
         /\ \A k \in Sustained : FX!Want(h, k) \in FX!Levels
<1>1. /\ h.webcam \in Presets \cup {"unset", "off"} /\ h.level \in FxLevels /\ h.parked \in FxLevels
      /\ h.apply \in [live : BOOLEAN, dirty : BOOLEAN] /\ h.motor \in [Sustained -> FX!Motors] /\ h.queue \in Seq(FX!Effects)
  BY DEF FxHolds
<1>2. \A k \in FX!Kinds : h.level[k] \in FX!Levels /\ h.parked[k] \in FX!Levels
  BY <1>1 DEF FxLevels
<1> QED BY <1>1, <1>2, FxKinds DEF FX!Want

\* A kind whose driver plays what is wanted is loose, whatever is wanted next.
LEMMA FxLoosens ==
  ASSUME NEW h \in FxHolds, NEW alone \in BOOLEAN, FxGood(h, alone)
  PROVE  FxAllLoose(h, alone)
BY DEF FxGood, FxAllLoose, FX!Manned, FxLoose

\* touchSustainLocked over some kinds.
LEMMA FxTouch ==
  ASSUME NEW h \in FxHolds, NEW ks, NEW alone \in BOOLEAN, FxAllLoose(h, alone),
         \A k \in Sustained : k \notin ks => FX!Manned(h.motor[k], FX!Want(h, k), alone)
  PROVE  /\ FX!Touch(h, ks) \in FxHolds /\ FxGood(FX!Touch(h, ks), alone)
         /\ FxAlike(FX!Touch(h, ks), h) /\ FX!Touch(h, ks).queue = h.queue
         /\ FxStays(FX!Touch(h, ks).motor, h.motor)
<1>1. PICK ms : ms = [k \in Sustained |-> IF k \in ks THEN FX!Turned(h.motor[k], FX!Want(h, k)) ELSE h.motor[k]]
  OBVIOUS
<1>2. ASSUME NEW k \in Sustained
      PROVE  /\ ms[k] \in FX!Motors /\ FX!Manned(ms[k], FX!Want(h, k), alone)
             /\ \A d \in DOMAIN h.motor[k].driver : d \in DOMAIN ms[k].driver /\ ms[k].driver[d].phase = h.motor[k].driver[d].phase
  <2>1. h.motor[k] \in FX!Motors /\ FX!Want(h, k) \in FX!Levels /\ FxLoose(h.motor[k], alone)
    BY FxHeld DEF FxAllLoose
  <2>2. CASE k \in ks
    <3>1. ms[k] = FX!Turned(h.motor[k], FX!Want(h, k))
      BY <1>1, <2>2
    <3> QED BY <2>1, <3>1, FxTurned
  <2>3. CASE k \notin ks
    BY <1>1, <2>1, <2>3
  <2> QED BY <2>2, <2>3
<1>3. PICK g : g = [h EXCEPT !.motor = ms]
  OBVIOUS
<1>4. g = FX!Touch(h, ks)
  BY <1>1, <1>3 DEF FX!Touch
<1>5. ms \in [Sustained -> FX!Motors]
  BY <1>1, <1>2
<1>6. g \in FxHolds /\ g.motor = ms /\ g.queue = h.queue /\ FxAlike(g, h)
  BY <1>3, <1>5 DEF FxHolds, FxAlike
<1>7. \A k \in Sustained : FX!Want(g, k) = FX!Want(h, k)
  BY <1>6 DEF FX!Want, FX!CamGone, FxAlike
<1>8. FxGood(g, alone)
  BY <1>2, <1>6, <1>7 DEF FxGood
<1>9. FxStays(g.motor, h.motor)
  BY <1>2, <1>6 DEF FxStays
<1> QED BY <1>4, <1>6, <1>8, <1>9

\* What is sent comes behind what was.
LEMMA FxQueued ==
  ASSUME NEW q \in Seq(FX!Effects), NEW es \in Seq(FX!Effects)
  PROVE  /\ q \o es \in Seq(FX!Effects)
         /\ \A k : FX!Sent(q, k) \/ FX!Sent(es, k) => FX!Sent(q \o es, k)
<1>1. PICK s \in Seq(FX!Effects) : s = q \o es
  BY ConcatProperties
<1>2. Len(q) \in Nat /\ Len(es) \in Nat /\ DOMAIN q = 1..Len(q) /\ DOMAIN es = 1..Len(es)
  BY LenProperties
<1>3. Len(s) = Len(q) + Len(es) /\ \A i \in 1..Len(q) + Len(es) : s[i] = IF i <= Len(q) THEN q[i] ELSE es[i - Len(q)]
  BY <1>1, ConcatProperties
<1>4. DOMAIN s = 1..Len(q) + Len(es)
  BY <1>3, LenProperties
<1>5. ASSUME NEW k, FX!Sent(q, k) PROVE FX!Sent(s, k)
  <2>1. PICK i \in DOMAIN q : q[i].op = "cam" /\ q[i].kind = k
    BY <1>5 DEF FX!Sent
  <2>2. i \in DOMAIN s /\ s[i] = q[i]
    BY <1>2, <1>3, <1>4
  <2> QED BY <2>1, <2>2 DEF FX!Sent
<1>6. ASSUME NEW k, FX!Sent(es, k) PROVE FX!Sent(s, k)
  <2>1. PICK i \in DOMAIN es : es[i].op = "cam" /\ es[i].kind = k
    BY <1>6 DEF FX!Sent
  <2>2. PICK j : j = Len(q) + i
    OBVIOUS
  <2>3. j \in 1..Len(q) + Len(es) /\ ~(j <= Len(q)) /\ j - Len(q) = i
    BY <1>2, <2>2
  <2>4. j \in DOMAIN s /\ s[j] = es[i]
    BY <1>3, <1>4, <2>3
  <2> QED BY <2>1, <2>4 DEF FX!Sent
<1> QED BY <1>1, <1>5, <1>6

LEMMA FxSend ==
  ASSUME NEW h \in FxHolds, NEW es \in Seq(FX!Effects)
  PROVE  /\ FX!Send(h, es) \in FxHolds /\ FxAlike(FX!Send(h, es), h) /\ FX!Send(h, es).motor = h.motor
         /\ FxMore(FX!Send(h, es), h) /\ \A k : FX!Sent(es, k) => FX!Sent(FX!Send(h, es).queue, k)
         /\ \A alone \in BOOLEAN : (FxGood(h, alone) => FxGood(FX!Send(h, es), alone))
                                   /\ (FxAllLoose(h, alone) => FxAllLoose(FX!Send(h, es), alone))
<1>1. PICK q : q = h.queue \o es
  OBVIOUS
<1>2. q \in Seq(FX!Effects) /\ \A k : FX!Sent(h.queue, k) \/ FX!Sent(es, k) => FX!Sent(q, k)
  <2>1. h.queue \in Seq(FX!Effects)
    BY FxHeld
  <2> QED BY <1>1, <2>1, FxQueued
<1>3. PICK g : g = [h EXCEPT !.queue = q]
  OBVIOUS
<1>4. g = FX!Send(h, es)
  BY <1>1, <1>3 DEF FX!Send
<1>5. g \in FxHolds /\ g.motor = h.motor /\ g.queue = q /\ FxAlike(g, h)
  BY <1>2, <1>3 DEF FxHolds, FxAlike
<1>6. \A k \in Sustained : FX!Want(g, k) = FX!Want(h, k)
  BY <1>5 DEF FX!Want, FX!CamGone, FxAlike
<1>7. \A alone \in BOOLEAN : (FxGood(h, alone) => FxGood(g, alone)) /\ (FxAllLoose(h, alone) => FxAllLoose(g, alone))
  BY <1>5, <1>6 DEF FxGood, FxAllLoose
<1>8. FxMore(g, h) /\ \A k : FX!Sent(es, k) => FX!Sent(g.queue, k)
  BY <1>2, <1>5 DEF FxMore
<1> QED BY <1>4, <1>5, <1>7, <1>8

\* One effect, and one for each of some kinds (LevelFXKinds).
LEMMA FxOne ==
  /\ \A k \in FX!Kinds, l \in FX!Levels :
       /\ FX!Cam(k, l) \in FX!Effects /\ <<FX!Cam(k, l)>> \in Seq(FX!Effects) /\ FX!Sent(<<FX!Cam(k, l)>>, k)
  /\ \A p \in Presets : <<FX!Op("move", p)>> \in Seq(FX!Effects)
  /\ <<FX!Op("apply", "unset")>> \in Seq(FX!Effects) /\ <<FX!Op("hide", "unset")>> \in Seq(FX!Effects)
<1>1. ASSUME NEW k \in FX!Kinds, NEW l \in FX!Levels
      PROVE  FX!Cam(k, l) \in FX!Effects /\ FX!Cam(k, l).op = "cam" /\ FX!Cam(k, l).kind = k
  BY DEF FX!Cam, FX!Effects
<1>2. ASSUME NEW e, e.op = "cam" PROVE FX!Sent(<<e>>, e.kind)
  <2>1. 1 \in DOMAIN <<e>> /\ <<e>>[1] = e
    OBVIOUS
  <2> QED BY <1>2, <2>1 DEF FX!Sent
<1>3. \A p \in Presets : FX!Op("move", p) \in FX!Effects
  BY FxKinds DEF FX!Op, FX!Effects
<1>4. FX!Op("apply", "unset") \in FX!Effects /\ FX!Op("hide", "unset") \in FX!Effects
  BY FxKinds DEF FX!Op, FX!Effects
<1> QED BY <1>1, <1>2, <1>3, <1>4

LEMMA FxCams ==
  ASSUME NEW ks \in SUBSET FX!Kinds, NEW l \in FxLevels
  PROVE  FX!Cams(ks, l) \in Seq(FX!Effects) /\ \A k \in ks : FX!Sent(FX!Cams(ks, l), k)
<1>1. IsFiniteSet(ks)
  BY FxKinds, FS_Subset
<1>2. PICK n : n = Cardinality(ks)
  OBVIOUS
<1>3. n \in Nat /\ \E f \in Bijection(1..n, ks) : TRUE
  BY <1>1, <1>2, FS_CardinalityType DEF ExistsBijection
<1>4. \E f \in [1..n -> ks] : FX!IsInjective(f)
  BY <1>3 DEF Bijection, Injection, IsInjective, FX!IsInjective
<1>5. PICK f : f = FX!SetToSeq(ks)
  OBVIOUS
<1>6. f \in [1..n -> ks] /\ FX!IsInjective(f)
  BY <1>2, <1>4, <1>5, FxCounts DEF FX!SetToSeq
<1>7. f \in Injection(1..n, ks)
  BY <1>6 DEF FX!IsInjective, Injection, IsInjective
<1>8. IsFiniteSet(1..n) /\ Cardinality(1..n) = n
  BY <1>3, FS_Interval
<1>9. f \in Surjection(1..n, ks)
  BY <1>1, <1>2, <1>7, <1>8, FS_Injection
<1>10. \A k \in ks : \E i \in 1..n : f[i] = k
  BY <1>9 DEF Surjection
<1>11. PICK s : s = [i \in 1..n |-> FX!Cam(f[i], l[f[i]])]
  OBVIOUS
<1>12. s = FX!Cams(ks, l)
  BY <1>2, <1>5, <1>11, FxCounts DEF FX!Cams
<1>13. \A i \in 1..n : f[i] \in FX!Kinds /\ l[f[i]] \in FX!Levels
  BY <1>6 DEF FxLevels
<1>14. \A i \in 1..n : s[i] \in FX!Effects /\ s[i].op = "cam" /\ s[i].kind = f[i]
  BY <1>11, <1>13, FxOne DEF FX!Cam
<1>15. s \in [1..n -> FX!Effects]
  BY <1>11, <1>14
<1>16. s \in Seq(FX!Effects)
  BY <1>3, <1>15
<1>17. \A k \in ks : FX!Sent(s, k)
  BY <1>10, <1>11, <1>14 DEF FX!Sent
<1> QED BY <1>12, <1>16, <1>17

\* reassertFXLocked.
LEMMA FxReassert ==
  ASSUME NEW h \in FxHolds, NEW alone \in BOOLEAN, FxAllLoose(h, alone)
  PROVE  /\ FX!Reassert(h) \in FxHolds /\ FxGood(FX!Reassert(h), alone)
         /\ FxAlike(FX!Reassert(h), h) /\ FxMore(FX!Reassert(h), h) /\ FxStays(FX!Reassert(h).motor, h.motor)
         /\ \A k \in Filters : h.level[k] > 0 => FX!Sent(FX!Reassert(h).queue, k)
<1>1. PICK ks : ks = {k \in Filters : h.level[k] > 0}
  OBVIOUS
<1>2. ks \in SUBSET FX!Kinds /\ h.level \in FxLevels
  BY <1>1, FxKinds, FxHeld
<1>3. PICK es : es = FX!Cams(ks, h.level)
  OBVIOUS
<1>4. es \in Seq(FX!Effects) /\ \A k \in ks : FX!Sent(es, k)
  BY <1>2, <1>3, FxCams
<1>5. PICK g : g = FX!Send(h, es)
  OBVIOUS
<1>6. g \in FxHolds /\ FxAlike(g, h) /\ FxMore(g, h) /\ FxAllLoose(g, alone) /\ g.motor = h.motor /\ \A k \in ks : FX!Sent(g.queue, k)
  BY <1>4, <1>5, FxSend
<1>7. PICK t : t = FX!Touch(g, Sustained)
  OBVIOUS
<1>8. t \in FxHolds /\ FxGood(t, alone) /\ FxAlike(t, g) /\ t.queue = g.queue /\ FxStays(t.motor, g.motor)
  BY <1>6, <1>7, FxTouch
<1>9. t = FX!Reassert(h)
  BY <1>1, <1>3, <1>5, <1>7 DEF FX!Reassert, FX!TouchEvery
<1>10. FxAlike(t, h) /\ FxMore(t, h) /\ \A k \in ks : FX!Sent(t.queue, k)
  BY <1>6, <1>8 DEF FxAlike, FxMore
<1> QED BY <1>1, <1>6, <1>8, <1>9, <1>10

\* parkFXLocked.
LEMMA FxPark ==
  ASSUME NEW h \in FxHolds, NEW alone \in BOOLEAN, FxAllLoose(h, alone), FX!CamGone(h) \/ FxGood(h, alone)
  PROVE  /\ FX!Park(h) \in FxHolds /\ FxGood(FX!Park(h), alone) /\ FX!Park(h).webcam = h.webcam
         /\ FxMore(FX!Park(h), h) /\ FxStays(FX!Park(h).motor, h.motor)
         /\ \A k \in Filters : FX!Park(h).level[k] = h.level[k] \/ FX!Sent(FX!Park(h).queue, k)
         /\ \A k \in FX!Kinds : h.level[k] > 0 => FX!Park(h).level[k] # 0 \/ FX!Park(h).parked[k] = h.level[k]
<1>a. h.level \in FxLevels /\ h.parked \in FxLevels /\ \A k \in FX!Kinds : h.level[k] \in FX!Levels /\ h.parked[k] \in FX!Levels
  BY FxHeld
<1>1. CASE ~FX!CamGone(h)
  <2>1. FX!Park(h) = h
    BY <1>1 DEF FX!Park
  <2>2. \A k \in FX!Kinds : h.level[k] > 0 => h.level[k] # 0
    OBVIOUS
  <2> QED BY <1>1, <2>1, <2>2, FxStill DEF FxMore
<1>2. CASE FX!CamGone(h)
  <2>1. PICK p : p = [k \in FX!Kinds |-> IF h.level[k] > 0 THEN h.level[k] ELSE h.parked[k]]
    OBVIOUS
  <2>2. p \in FxLevels /\ FX!Zero \in FxLevels
    BY <1>a, <2>1, FxKinds DEF FxLevels
  <2>3. PICK g : g = [h EXCEPT !.level = FX!Zero, !.parked = p]
    OBVIOUS
  <2>4. g \in FxHolds /\ g.webcam = h.webcam /\ g.level = FX!Zero /\ g.parked = p /\ g.motor = h.motor /\ g.queue = h.queue
    BY <2>2, <2>3 DEF FxHolds
  <2>5. FxAllLoose(g, alone)
    BY <2>4 DEF FxAllLoose
  <2>6. PICK ks : ks = {k \in Filters \cup Lamps : h.level[k] > 0}
    OBVIOUS
  <2>7. ks \in SUBSET FX!Kinds
    BY <2>6, FxKinds
  <2>8. PICK es : es = FX!Cams(ks, FX!Zero)
    OBVIOUS
  <2>9. es \in Seq(FX!Effects) /\ \A k \in ks : FX!Sent(es, k)
    BY <2>2, <2>7, <2>8, FxCams
  <2>10. PICK s : s = FX!Send(g, es)
    OBVIOUS
  <2>11. s \in FxHolds /\ FxAlike(s, g) /\ FxMore(s, g) /\ FxAllLoose(s, alone) /\ s.motor = g.motor /\ \A k \in ks : FX!Sent(s.queue, k)
    BY <2>4, <2>5, <2>9, <2>10, FxSend
  <2>12. PICK t : t = FX!Touch(s, Sustained)
    OBVIOUS
  <2>13. t \in FxHolds /\ FxGood(t, alone) /\ FxAlike(t, s) /\ t.queue = s.queue /\ FxStays(t.motor, s.motor)
    BY <2>11, <2>12, FxTouch
  <2>14. t = FX!Park(h)
    BY <1>2, <2>1, <2>3, <2>6, <2>8, <2>10, <2>12 DEF FX!Park, FX!TouchEvery
  <2>15. t.webcam = h.webcam /\ t.level = FX!Zero /\ t.parked = p /\ FxMore(t, h) /\ \A k \in ks : FX!Sent(t.queue, k)
    BY <2>4, <2>11, <2>13 DEF FxAlike, FxMore
  <2>16. ASSUME NEW k \in Filters PROVE t.level[k] = h.level[k] \/ FX!Sent(t.queue, k)
    <3>1. k \in FX!Kinds /\ FX!Zero[k] = 0 /\ h.level[k] \in Nat
      BY <1>a, FxKinds
    <3> QED BY <2>6, <2>15, <3>1
  <2>17. \A k \in FX!Kinds : h.level[k] > 0 => t.parked[k] = h.level[k]
    BY <2>1, <2>15
  <2>18. FxStays(t.motor, h.motor)
    BY <2>4, <2>11, <2>13
  <2> QED BY <2>13, <2>14, <2>15, <2>16, <2>17, <2>18
<1> QED BY <1>1, <1>2

\* unparkFXLocked.
LEMMA FxUnpark ==
  ASSUME NEW h \in FxHolds, NEW alone \in BOOLEAN, FxGood(h, alone)
  PROVE  /\ FX!Unpark(h) \in FxHolds /\ FxGood(FX!Unpark(h), alone)
         /\ FX!Unpark(h).webcam = h.webcam /\ FX!Unpark(h).apply = h.apply /\ FxMore(FX!Unpark(h), h)
         /\ FxStays(FX!Unpark(h).motor, h.motor)
         /\ \A k \in Filters : FX!Unpark(h).level[k] = h.level[k] \/ FX!Sent(FX!Unpark(h).queue, k)
         /\ \A k \in FX!Kinds : h.level[k] > 0 => FX!Unpark(h).level[k] = h.level[k]
         /\ FX!CamGone(h) => FX!Unpark(h) = h
<1>a. h.level \in FxLevels /\ h.parked \in FxLevels /\ \A k \in FX!Kinds : h.level[k] \in FX!Levels /\ h.parked[k] \in FX!Levels
  BY FxHeld
<1>1. CASE h.parked = FX!Zero \/ FX!CamGone(h)
  <2>1. FX!Unpark(h) = h
    BY <1>1 DEF FX!Unpark
  <2> QED BY <2>1, FxStill DEF FxMore
<1>2. CASE ~(h.parked = FX!Zero \/ FX!CamGone(h))
  <2>1. PICK l : l = [k \in FX!Kinds |-> IF h.parked[k] > 0 /\ h.level[k] = 0 THEN h.parked[k] ELSE h.level[k]]
    OBVIOUS
  <2>2. l \in FxLevels /\ FX!Zero \in FxLevels
    BY <1>a, <2>1, FxKinds DEF FxLevels
  <2>3. PICK g : g = [h EXCEPT !.parked = FX!Zero, !.level = l]
    OBVIOUS
  <2>4. g \in FxHolds /\ g.webcam = h.webcam /\ g.level = l /\ g.apply = h.apply /\ g.motor = h.motor /\ g.queue = h.queue
    BY <2>2, <2>3 DEF FxHolds
  <2>5. FxAllLoose(g, alone)
    BY <2>4, FxLoosens DEF FxAllLoose
  <2>6. PICK t : t = FX!Reassert(g)
    OBVIOUS
  <2>7. /\ t \in FxHolds /\ FxGood(t, alone) /\ FxAlike(t, g) /\ FxMore(t, g) /\ FxStays(t.motor, g.motor)
        /\ \A k \in Filters : g.level[k] > 0 => FX!Sent(t.queue, k)
    BY <2>4, <2>5, <2>6, FxReassert
  <2>8. t = FX!Unpark(h)
    BY <1>2, <2>1, <2>3, <2>6 DEF FX!Unpark
  <2>9. t.webcam = h.webcam /\ t.apply = h.apply /\ t.level = l /\ FxMore(t, h)
    BY <2>4, <2>7 DEF FxAlike, FxMore
  <2>10. \A k \in FX!Kinds : (h.level[k] > 0 => l[k] = h.level[k]) /\ (l[k] = h.level[k] \/ l[k] > 0)
    <3> SUFFICES ASSUME NEW k \in FX!Kinds PROVE (h.level[k] > 0 => l[k] = h.level[k]) /\ (l[k] = h.level[k] \/ l[k] > 0)
      OBVIOUS
    <3>1. l[k] = IF h.parked[k] > 0 /\ h.level[k] = 0 THEN h.parked[k] ELSE h.level[k]
      BY <2>1
    <3> QED BY <3>1
  <2>11. \A k \in Filters : t.level[k] = h.level[k] \/ FX!Sent(t.queue, k)
    BY <2>4, <2>7, <2>9, <2>10, FxKinds
  <2> QED BY <1>2, <2>4, <2>7, <2>8, <2>9, <2>10, <2>11
<1> QED BY <1>1, <1>2

\* applyEffectsLocked.
LEMMA FxApply ==
  ASSUME NEW h \in FxHolds, NEW alone \in BOOLEAN, FxGood(h, alone)
  PROVE  /\ FX!Apply(h) \in FxHolds /\ FxGood(FX!Apply(h), alone)
         /\ FX!Apply(h).webcam = h.webcam /\ FX!Apply(h).level = h.level /\ FX!Apply(h).parked = h.parked
         /\ FxMore(FX!Apply(h), h) /\ FX!Apply(h).motor = h.motor
<1>1. ASSUME NEW a \in [live : BOOLEAN, dirty : BOOLEAN], NEW g, g = [h EXCEPT !.apply = a]
      PROVE  /\ g \in FxHolds /\ FxGood(g, alone) /\ g.webcam = h.webcam /\ g.level = h.level /\ g.parked = h.parked /\ g.queue = h.queue
             /\ g.motor = h.motor
  <2>1. /\ g \in FxHolds /\ g.webcam = h.webcam /\ g.level = h.level /\ g.parked = h.parked /\ g.queue = h.queue
        /\ g.motor = h.motor
    BY <1>1 DEF FxHolds
  <2>2. \A k \in Sustained : FX!Want(g, k) = FX!Want(h, k)
    BY <2>1 DEF FX!Want, FX!CamGone
  <2> QED BY <2>1, <2>2 DEF FxGood
<1>2. PICK a : a = h.apply
  OBVIOUS
<1>3. a \in [live : BOOLEAN, dirty : BOOLEAN]
  BY <1>2, FxHeld
<1>4. CASE h.apply.live
  <2>1. PICK b : b = [a EXCEPT !.dirty = TRUE]
    OBVIOUS
  <2>2. b \in [live : BOOLEAN, dirty : BOOLEAN]
    BY <1>3, <2>1
  <2>3. PICK g : g = [h EXCEPT !.apply = b]
    OBVIOUS
  <2>4. g = FX!Apply(h)
    BY <1>2, <1>4, <2>1, <2>3 DEF FX!Apply
  <2> QED BY <1>1, <2>2, <2>3, <2>4 DEF FxMore
<1>5. CASE ~h.apply.live
  <2>1. PICK b : b = [a EXCEPT !.live = TRUE]
    OBVIOUS
  <2>2. b \in [live : BOOLEAN, dirty : BOOLEAN]
    BY <1>3, <2>1
  <2>3. PICK g : g = [h EXCEPT !.apply = b]
    OBVIOUS
  <2>4. FX!Send(g, <<FX!Op("apply", "unset")>>) = FX!Apply(h)
    BY <1>2, <1>5, <2>1, <2>3 DEF FX!Apply
  <2>5. /\ g \in FxHolds /\ FxGood(g, alone) /\ g.webcam = h.webcam /\ g.level = h.level /\ g.parked = h.parked /\ g.queue = h.queue
        /\ g.motor = h.motor
    BY <1>1, <2>2, <2>3
  <2>6. PICK es : es = <<FX!Op("apply", "unset")>>
    OBVIOUS
  <2>7. es \in Seq(FX!Effects)
    BY <2>6, FxOne
  <2>8. PICK s : s = FX!Send(g, es)
    OBVIOUS
  <2>9. s \in FxHolds /\ FxAlike(s, g) /\ FxMore(s, g) /\ FxGood(s, alone) /\ s.motor = g.motor
    BY <2>5, <2>7, <2>8, FxSend
  <2>10. s = FX!Apply(h)
    BY <2>4, <2>6, <2>8
  <2>11. s.webcam = h.webcam /\ s.level = h.level /\ s.parked = h.parked /\ FxMore(s, h)
    BY <2>5, <2>9 DEF FxMore, FxAlike
  <2> QED BY <2>5, <2>9, <2>10, <2>11
<1> QED BY <1>4, <1>5

\* A level that changes, and touchSustainLocked of its kind (bumpFXLevelLocked, adoptFXLevelLocked).
LEMMA FxLevel ==
  ASSUME NEW h \in FxHolds, NEW alone \in BOOLEAN, FxGood(h, alone), NEW k \in FX!Kinds, NEW l \in FX!Levels
  PROVE  LET g == FX!Touch([h EXCEPT !.level[k] = l], {k}) IN
         /\ g \in FxHolds /\ FxGood(g, alone) /\ g.webcam = h.webcam /\ g.parked = h.parked /\ g.apply = h.apply
         /\ g.queue = h.queue /\ g.level[k] = l /\ \A j \in FX!Kinds : j # k => g.level[j] = h.level[j]
         /\ FxStays(g.motor, h.motor)
<1>1. PICK ls : ls = [h.level EXCEPT ![k] = l]
  OBVIOUS
<1>2. ls \in FxLevels /\ ls[k] = l /\ \A j \in FX!Kinds : j # k => ls[j] = h.level[j]
  <2>1. h.level \in FxLevels
    BY FxHeld
  <2> QED BY <1>1, <2>1 DEF FxLevels
<1>3. PICK u : u = [h EXCEPT !.level = ls]
  OBVIOUS
<1>4. u = [h EXCEPT !.level[k] = l]
  BY <1>1, <1>3
<1>5. /\ u \in FxHolds /\ u.webcam = h.webcam /\ u.level = ls /\ u.parked = h.parked /\ u.apply = h.apply /\ u.motor = h.motor
      /\ u.queue = h.queue
  BY <1>2, <1>3 DEF FxHolds
<1>6. FxAllLoose(u, alone)
  BY <1>5, FxLoosens DEF FxAllLoose
<1>7. ASSUME NEW j \in Sustained, j \notin {k} PROVE FX!Manned(u.motor[j], FX!Want(u, j), alone)
  <2>1. FX!Want(u, j) = FX!Want(h, j)
    BY <1>2, <1>5, <1>7, FxKinds DEF FX!Want, FX!CamGone
  <2> QED BY <1>5, <2>1 DEF FxGood
<1>8. PICK g : g = FX!Touch(u, {k})
  OBVIOUS
<1>9. g \in FxHolds /\ FxGood(g, alone) /\ FxAlike(g, u) /\ g.queue = u.queue /\ FxStays(g.motor, u.motor)
  BY <1>5, <1>6, <1>7, <1>8, FxTouch
<1> QED BY <1>2, <1>4, <1>5, <1>8, <1>9 DEF FxAlike

LEMMA FxAdopt ==
  ASSUME NEW h \in FxHolds, NEW alone \in BOOLEAN, FxGood(h, alone), NEW k \in FX!Kinds, NEW l \in FX!Levels,
         NEW a, a = FX!Adopt(h, k, l)
  PROVE  /\ a \in FxHolds /\ FxGood(a, alone) /\ a.webcam = h.webcam /\ a.parked = h.parked /\ a.apply = h.apply
         /\ a.queue = h.queue /\ \A j \in FX!Kinds : j # k => a.level[j] = h.level[j]
         /\ k \in Filters => a.level[k] = l
         /\ FxStays(a.motor, h.motor)
         /\ k \in Sustained /\ (h.motor[k].slot # 0 \/ h.motor[k].retiring # 0) => a = h
<1>1. CASE k \in Sustained /\ (h.motor[k].slot # 0 \/ h.motor[k].retiring # 0)
  <2>1. a = h
    BY <1>1 DEF FX!Adopt
  <2> QED BY <1>1, <2>1, FxKinds, FxStill
<1>2. CASE ~(k \in Sustained /\ (h.motor[k].slot # 0 \/ h.motor[k].retiring # 0))
  <2>1. PICK g : g = FX!Touch([h EXCEPT !.level[k] = l], {k})
    OBVIOUS
  <2>2. /\ g \in FxHolds /\ FxGood(g, alone) /\ g.webcam = h.webcam /\ g.parked = h.parked /\ g.apply = h.apply
        /\ g.queue = h.queue /\ g.level[k] = l /\ (\A j \in FX!Kinds : j # k => g.level[j] = h.level[j])
        /\ FxStays(g.motor, h.motor)
    BY <2>1, FxLevel, ZenonT(30)
  <2>3. a = g
    BY <1>2, <2>1 DEF FX!Adopt
  <2> QED BY <1>2, <2>2, <2>3
<1> QED BY <1>1, <1>2

(***************************************************************************)
(* FX!IInv is inductive.                                                   *)
(***************************************************************************)
LEMMA FxTyped ==
  ASSUME FX!IInv, NEW alone \in BOOLEAN, alone <=> fxRestarts = 0
  PROVE  /\ FX!Held \in FxHolds /\ FxGood(FX!Held, alone) /\ saved \in [levels : FxLevels, parked : FxLevels]
         /\ FX!Held.webcam = webcam /\ FX!Held.level = level /\ FX!Held.parked = parked /\ FX!Held.apply = apply
         /\ FX!Held.motor = motor /\ FX!Held.queue = queue
         /\ webcam \in Presets \cup {"unset", "off"} /\ level \in FxLevels /\ parked \in FxLevels /\ queue \in Seq(FX!Effects)
         /\ motor \in [Sustained -> FX!Motors] /\ apply \in [live : BOOLEAN, dirty : BOOLEAN]
         /\ item \in {"none", "hidden", "shown"} /\ filter \in FxLevels /\ pose \in Presets \cup {"unset"} /\ blind \subseteq FX!Kinds
         /\ fxTaps \in Nat /\ fxFaults \in Nat /\ fxRestarts \in Nat
         /\ \A k \in FX!Kinds : level[k] \in FX!Levels /\ parked[k] \in FX!Levels /\ filter[k] \in FX!Levels
         /\ fxFaults + fxRestarts = 0 => FX!Told
<1>1. /\ webcam \in Presets \cup {"unset", "off"} /\ level \in FxLevels /\ parked \in FxLevels /\ queue \in Seq(FX!Effects)
      /\ motor \in [Sustained -> FX!Motors] /\ apply \in [live : BOOLEAN, dirty : BOOLEAN]
      /\ item \in {"none", "hidden", "shown"} /\ filter \in FxLevels /\ pose \in Presets \cup {"unset"} /\ blind \subseteq FX!Kinds
      /\ fxTaps \in Nat /\ fxFaults \in Nat /\ fxRestarts \in Nat /\ saved \in [levels : FxLevels, parked : FxLevels]
  BY DEF FX!IInv, FX!TypeOK, FxLevels
<1>2. \A k \in FX!Kinds : level[k] \in FX!Levels /\ parked[k] \in FX!Levels /\ filter[k] \in FX!Levels
  BY <1>1 DEF FxLevels
<1>3. /\ FX!Held.webcam = webcam /\ FX!Held.level = level /\ FX!Held.parked = parked /\ FX!Held.apply = apply
      /\ FX!Held.motor = motor /\ FX!Held.queue = queue
  BY DEF FX!Held
<1>4. FX!Held \in FxHolds
  BY <1>1 DEF FX!Held, FxHolds
<1>5. \A k \in Sustained : FX!Manned(motor[k], FX!Want(FX!Held, k), fxRestarts = 0)
  BY DEF FX!IInv
<1>6. FxGood(FX!Held, alone)
  BY <1>3, <1>5 DEF FxGood, FX!Manned
<1>7. fxFaults + fxRestarts = 0 => FX!Told
  BY DEF FX!IInv
<1> QED BY <1>1, <1>2, <1>3, <1>4, <1>6, <1>7

\* A decision that was carried out.
LEMMA FxBecomes ==
  ASSUME NEW h \in FxHolds, NEW alone \in BOOLEAN, alone <=> fxRestarts' = 0, FxGood(h, alone),
         FX!Keeps(h), (saved \in [levels : FxLevels, parked : FxLevels])',
         (item \in {"none", "hidden", "shown"} /\ filter \in FxLevels /\ pose \in Presets \cup {"unset"} /\ blind \subseteq FX!Kinds)',
         (fxTaps \in Nat /\ fxFaults \in Nat /\ fxRestarts \in Nat)',
         fxFaults' + fxRestarts' = 0 => \A k \in Filters \ blind' : FX!Sent(h.queue, k) \/ filter'[k] = h.level[k]
  PROVE  FX!IInv'
<1>1. webcam' = h.webcam /\ level' = h.level /\ parked' = h.parked /\ apply' = h.apply /\ motor' = h.motor /\ queue' = h.queue
  BY DEF FX!Keeps
<1>2. FX!TypeOK'
  BY <1>1, FxHeld DEF FX!TypeOK, FxLevels
<1>3. \A k \in Sustained : FX!Want(FX!Held, k)' = FX!Want(h, k)
  BY <1>1 DEF FX!Want, FX!CamGone, FX!Held
<1>4. (\A k \in Sustained : FX!Manned(motor[k], FX!Want(FX!Held, k), fxRestarts = 0))'
  BY <1>1, <1>3 DEF FxGood, FX!Manned
<1>5. (fxFaults + fxRestarts = 0 => FX!Told)'
  BY <1>1 DEF FX!Told
<1> QED BY <1>2, <1>4, <1>5 DEF FX!IInv

LEMMA FxSaves ==
  ASSUME NEW h \in FxHolds, saved \in [levels : FxLevels, parked : FxLevels], FX!Becomes(h)
  PROVE  saved' \in [levels : FxLevels, parked : FxLevels] /\ FX!Keeps(h)
BY FxHeld DEF FX!Becomes, FX!Saves

\* What a step never does to a level (ParkingKeeps, OffStaysOff).
FxKeepsSetAside ==
  \A k \in Filters : level[k] > 0 /\ level'[k] = 0 /\ webcam' # webcam => parked'[k] = level[k] /\ saved'.parked[k] = level[k]
FxStaysOff ==
  \A j, k \in Sustained : \A d \in DOMAIN motor[j].driver :
    motor[j].driver[d].phase = "note" /\ motor'[j].driver[d].phase = "chunk" /\ level[k] = 0 /\ fxRestarts = 0 => level'[k] = 0
FxStep == FxKeepsSetAside /\ FxStaysOff
\* The camera is where it was, or what it showed is shown or set aside.
FxAside(h) == h.webcam = webcam \/ \A k \in FX!Kinds : level[k] > 0 => h.level[k] # 0 \/ h.parked[k] = level[k]
\* No driver comes up, or no level moves while no owner has died.
FxQuiets(h) == FxStays(h.motor, motor) \/ (fxRestarts = 0 => h.level = level)

LEMMA FxLasts ==
  ASSUME FX!IInv, NEW h \in FxHolds, FX!Becomes(h), FxAside(h), FxQuiets(h)
  PROVE  FxStep
<1>1. /\ webcam' = h.webcam /\ level' = h.level /\ parked' = h.parked /\ motor' = h.motor
      /\ h.level # level => saved' = [levels |-> h.level, parked |-> h.parked]
  BY DEF FX!Becomes, FX!Keeps, FX!Saves
<1>2. FxKeepsSetAside
  <2> SUFFICES ASSUME NEW k \in Filters, level[k] > 0, level'[k] = 0, webcam' # webcam
      PROVE  parked'[k] = level[k] /\ saved'.parked[k] = level[k]
    BY DEF FxKeepsSetAside
  <2>1. k \in FX!Kinds /\ h.level[k] = 0 /\ level[k] # 0
    BY <1>1, FxKinds
  <2>2. h.parked[k] = level[k]
    BY <1>1, <2>1 DEF FxAside
  <2>3. saved'.parked = h.parked
    BY <1>1, <2>1
  <2> QED BY <1>1, <2>2, <2>3
<1>3. FxStaysOff
  <2> SUFFICES ASSUME NEW j \in Sustained, NEW k \in Sustained, NEW d \in DOMAIN motor[j].driver, fxRestarts = 0,
                      motor[j].driver[d].phase = "note", motor'[j].driver[d].phase = "chunk", level[k] = 0
      PROVE  level'[k] = 0
    BY DEF FxStaysOff
  <2>1. ~FxStays(h.motor, motor)
    BY <1>1 DEF FxStays
  <2> QED BY <1>1, <2>1 DEF FxQuiets
<1> QED BY <1>2, <1>3 DEF FxStep

\* A decision of the module alone: OBS and the faults rest.
LEMMA FxDecides ==
  ASSUME FX!IInv, NEW alone \in BOOLEAN, alone <=> fxRestarts = 0, NEW h \in FxHolds, FxGood(h, alone), FX!Becomes(h),
         UNCHANGED <<FX!Obs, fxFaults, fxRestarts>>, fxTaps' \in Nat, FxMore(h, FX!Held),
         \A k \in Filters : h.level[k] = level[k] \/ FX!Sent(h.queue, k), FxAside(h), FxQuiets(h)
  PROVE  FX!IInv' /\ FxStep
<1>1. item' = item /\ filter' = filter /\ pose' = pose /\ blind' = blind /\ fxFaults' = fxFaults /\ fxRestarts' = fxRestarts
  BY DEF FX!Obs
<1>2. (saved \in [levels : FxLevels, parked : FxLevels])' /\ FX!Keeps(h)
  BY FxTyped, FxSaves
<1>3. fxFaults' + fxRestarts' = 0 => \A k \in Filters \ blind' : FX!Sent(h.queue, k) \/ filter'[k] = h.level[k]
  <2> SUFFICES ASSUME fxFaults + fxRestarts = 0, NEW k \in Filters \ blind PROVE FX!Sent(h.queue, k) \/ filter[k] = h.level[k]
    BY <1>1
  <2>1. FX!Sent(queue, k) \/ filter[k] = level[k]
    BY FxTyped DEF FX!Told
  <2>2. FX!Sent(queue, k) => FX!Sent(h.queue, k)
    BY FxTyped DEF FxMore
  <2> QED BY <2>1, <2>2
<1>4. /\ (item \in {"none", "hidden", "shown"} /\ filter \in FxLevels /\ pose \in Presets \cup {"unset"} /\ blind \subseteq FX!Kinds)'
      /\ (fxTaps \in Nat /\ fxFaults \in Nat /\ fxRestarts \in Nat)' /\ (alone <=> fxRestarts' = 0)
  BY <1>1, FxTyped
<1>5. FX!IInv'
  BY <1>2, <1>3, <1>4, FxBecomes
<1> QED BY <1>5, FxLasts

LEMMA FxTaps == ASSUME FX!IInv, FX!FXTap PROVE fxTaps' \in Nat
BY DEF FX!IInv, FX!FXTap

LEMMA FxBump ==
  ASSUME FX!IInv, NEW k \in FX!Kinds, NEW up \in BOOLEAN, FX!Bump(k, up)
  PROVE  FX!IInv' /\ FxStep
<1>1. PICK alone \in BOOLEAN : alone <=> fxRestarts = 0
  OBVIOUS
<1>2. PICK next : next = IF up THEN level[k] + 1 ELSE level[k] - 1
  OBVIOUS
<1>3. next \in FX!Levels
  <2>1. level[k] \in FX!Levels /\ (IF up THEN level[k] < FXMaxLevel ELSE level[k] > 0)
    BY <1>1, FxTyped DEF FX!Bump
  <2> QED BY <1>2, <2>1, FxKinds DEF FX!Levels
<1>4. PICK g : g = FX!Touch([FX!Held EXCEPT !.level[k] = next], {k})
  OBVIOUS
<1>5. /\ g \in FxHolds /\ FxGood(g, alone) /\ g.queue = queue /\ g.level[k] = next /\ g.webcam = webcam
      /\ (\A j \in FX!Kinds : j # k => g.level[j] = level[j]) /\ FxStays(g.motor, motor)
  <2>1. /\ FX!Held \in FxHolds /\ FxGood(FX!Held, alone) /\ FX!Held.level = level /\ FX!Held.queue = queue
        /\ FX!Held.webcam = webcam /\ FX!Held.motor = motor
    BY <1>1, FxTyped
  <2>2. /\ g \in FxHolds /\ FxGood(g, alone) /\ g.queue = FX!Held.queue /\ g.level[k] = next /\ g.webcam = FX!Held.webcam
        /\ (\A j \in FX!Kinds : j # k => g.level[j] = FX!Held.level[j]) /\ FxStays(g.motor, FX!Held.motor)
    BY <1>3, <1>4, <2>1, FxLevel, ZenonT(30)
  <2> QED BY <2>1, <2>2
<1>6. PICK es : es = IF k \in Filters \/ (k \in Lamps /\ next = 0) THEN <<FX!Cam(k, next)>> ELSE <<>>
  OBVIOUS
<1>7. FX!Becomes(IF k \in Filters \/ (k \in Lamps /\ next = 0) THEN FX!Send(g, <<FX!Cam(k, next)>>) ELSE g)
      /\ UNCHANGED <<FX!Obs, fxFaults, fxRestarts>> /\ FX!FXTap
  BY <1>2, <1>4 DEF FX!Bump
<1>8. CASE k \in Filters \/ (k \in Lamps /\ next = 0)
  <2>1. PICK s : s = FX!Send(g, <<FX!Cam(k, next)>>)
    OBVIOUS
  <2>2. PICK q : q = <<FX!Cam(k, next)>>
    OBVIOUS
  <2>3. q \in Seq(FX!Effects) /\ FX!Sent(q, k) /\ s = FX!Send(g, q)
    BY <1>3, <2>1, <2>2, FxOne
  <2>4. s \in FxHolds /\ FxAlike(s, g) /\ FxMore(s, g) /\ FX!Sent(s.queue, k) /\ FxGood(s, alone) /\ s.motor = g.motor
    BY <1>5, <2>3, FxSend
  <2>5. \A j \in Filters : s.level[j] = level[j] \/ FX!Sent(s.queue, j)
    BY <1>5, <2>4, FxKinds DEF FxAlike
  <2>6. FxMore(s, FX!Held)
    BY <1>1, <1>5, <2>4, FxTyped DEF FxMore
  <2>7. FX!Becomes(s)
    BY <1>7, <1>8, <2>1
  <2>8. FxAside(s) /\ FxQuiets(s)
    BY <1>5, <2>4 DEF FxAlike, FxAside, FxQuiets
  <2> QED BY <1>1, <1>7, <2>4, <2>5, <2>6, <2>7, <2>8, FxTaps, FxDecides
<1>9. CASE ~(k \in Filters \/ (k \in Lamps /\ next = 0))
  <2>1. \A j \in Filters : g.level[j] = level[j]
    BY <1>5, <1>9, FxKinds
  <2>2. FxMore(g, FX!Held) /\ FX!Becomes(g)
    BY <1>1, <1>5, <1>7, <1>9, FxTyped DEF FxMore
  <2>3. FxAside(g) /\ FxQuiets(g)
    BY <1>5 DEF FxAside, FxQuiets
  <2> QED BY <1>1, <1>5, <1>7, <2>1, <2>2, <2>3, FxTaps, FxDecides
<1> QED BY <1>8, <1>9

\* Another placement: where the camera shows, who plays still plays what is wanted.
LEMMA FxPlaced ==
  ASSUME NEW h \in FxHolds, NEW alone \in BOOLEAN, FxGood(h, alone), NEW v \in Presets \cup {"unset", "off"}
  PROVE  LET g == [h EXCEPT !.webcam = v] IN
         /\ g \in FxHolds /\ FxAllLoose(g, alone) /\ (FX!CamGone(g) \/ FxGood(g, alone))
         /\ g.webcam = v /\ g.level = h.level /\ g.parked = h.parked /\ g.apply = h.apply /\ g.queue = h.queue /\ g.motor = h.motor
         /\ v \in Presets => ~FX!CamGone(g)
<1>1. PICK g : g = [h EXCEPT !.webcam = v]
  OBVIOUS
<1>2. /\ g \in FxHolds /\ g.webcam = v /\ g.level = h.level /\ g.parked = h.parked /\ g.apply = h.apply /\ g.queue = h.queue
      /\ g.motor = h.motor
  BY <1>1 DEF FxHolds
<1>3. FxAllLoose(g, alone)
  BY <1>2, FxLoosens DEF FxAllLoose
<1>4. ASSUME ~FX!CamGone(g) PROVE FxGood(g, alone)
  <2>1. ASSUME NEW k \in Sustained PROVE FX!Manned(g.motor[k], FX!Want(g, k), alone)
    <3>1. FX!Manned(h.motor[k], FX!Want(h, k), alone)
      BY DEF FxGood
    <3>2. FX!Want(g, k) = h.level[k] /\ (FX!Want(h, k) = 0 \/ FX!Want(h, k) = h.level[k])
      BY <1>2, <1>4 DEF FX!Want
    <3> QED BY <1>2, <3>1, <3>2 DEF FX!Manned
  <2> QED BY <2>1 DEF FxGood
<1>5. v \in Presets => ~FX!CamGone(g)
  BY <1>2, FxKinds DEF FX!CamGone
<1> QED BY <1>1, <1>2, <1>3, <1>4, <1>5

LEMMA FxSlide == ASSUME FX!IInv, NEW p \in Presets, FX!Slide(p) PROVE FX!IInv' /\ FxStep
<1>1. PICK alone \in BOOLEAN : alone <=> fxRestarts = 0
  OBVIOUS
<1>2. /\ FX!Held \in FxHolds /\ FxGood(FX!Held, alone) /\ FX!Held.level = level /\ FX!Held.queue = queue /\ FX!Held.motor = motor
      /\ level \in FxLevels
  BY <1>1, FxTyped
<1>3. PICK g : g = [FX!Held EXCEPT !.webcam = p]
  OBVIOUS
<1>4. g \in FxHolds /\ FxGood(g, alone) /\ g.level = level /\ g.queue = queue /\ g.motor = motor
  BY <1>2, <1>3, FxPlaced
<1>5. FX!Becomes(IF webcam = "unset" THEN FX!Apply(g) ELSE FX!Unpark(FX!Send(g, <<FX!Op("move", p)>>)))
      /\ UNCHANGED <<FX!Obs, fxFaults, fxRestarts>> /\ FX!FXTap
  BY <1>3 DEF FX!Slide
<1>6. CASE webcam = "unset"
  <2>1. PICK s : s = FX!Apply(g)
    OBVIOUS
  <2>2. s \in FxHolds /\ FxGood(s, alone) /\ s.level = level /\ s.motor = motor /\ FxMore(s, FX!Held)
    BY <1>2, <1>4, <2>1, FxApply DEF FxMore
  <2>3. FX!Becomes(s)
    BY <1>5, <1>6, <2>1
  <2>4. FxAside(s) /\ FxQuiets(s)
    BY <2>2 DEF FxAside, FxQuiets
  <2> QED BY <1>1, <1>5, <2>2, <2>3, <2>4, FxTaps, FxDecides
<1>7. CASE webcam # "unset"
  <2>1. PICK q : q = <<FX!Op("move", p)>>
    OBVIOUS
  <2>2. q \in Seq(FX!Effects)
    BY <2>1, FxOne
  <2>3. PICK s : s = FX!Send(g, q)
    OBVIOUS
  <2>4. s \in FxHolds /\ FxGood(s, alone) /\ s.level = level /\ s.motor = motor /\ FxMore(s, FX!Held)
    BY <1>2, <1>4, <2>2, <2>3, FxSend DEF FxMore, FxAlike
  <2>5. PICK t : t = FX!Unpark(s)
    OBVIOUS
  <2>6. /\ t \in FxHolds /\ FxGood(t, alone) /\ FxMore(t, s) /\ (\A k \in Filters : t.level[k] = s.level[k] \/ FX!Sent(t.queue, k))
        /\ (\A k \in FX!Kinds : s.level[k] > 0 => t.level[k] = s.level[k]) /\ FxStays(t.motor, s.motor)
    BY <2>4, <2>5, FxUnpark
  <2>7. FxMore(t, FX!Held) /\ \A k \in Filters : t.level[k] = level[k] \/ FX!Sent(t.queue, k)
    BY <2>4, <2>6 DEF FxMore
  <2>8. FX!Becomes(t)
    BY <1>5, <1>7, <2>1, <2>3, <2>5
  <2>9. FxAside(t) /\ FxQuiets(t)
    BY <2>4, <2>6 DEF FxAside, FxQuiets
  <2> QED BY <1>1, <1>5, <2>6, <2>7, <2>8, <2>9, FxTaps, FxDecides
<1> QED BY <1>6, <1>7

\* The camera put aside, or shown at another place by the knob.
LEMMA FxParks ==
  ASSUME FX!IInv, NEW alone \in BOOLEAN, alone <=> fxRestarts = 0, NEW v \in Presets \cup {"unset", "off"}
  PROVE  LET g == FX!Park([FX!Held EXCEPT !.webcam = v]) IN
         /\ g \in FxHolds /\ FxGood(g, alone) /\ FxMore(g, FX!Held)
         /\ \A k \in Filters : g.level[k] = level[k] \/ FX!Sent(g.queue, k)
         /\ \A k \in FX!Kinds : level[k] > 0 => g.level[k] # 0 \/ g.parked[k] = level[k]
         /\ FxStays(g.motor, motor)
<1>1. FX!Held \in FxHolds /\ FxGood(FX!Held, alone) /\ FX!Held.level = level /\ FX!Held.queue = queue /\ FX!Held.motor = motor
  BY FxTyped
<1>2. PICK h : h = [FX!Held EXCEPT !.webcam = v]
  OBVIOUS
<1>3. /\ h \in FxHolds /\ FxAllLoose(h, alone) /\ (FX!CamGone(h) \/ FxGood(h, alone)) /\ h.level = level /\ h.queue = queue
      /\ h.motor = motor
  BY <1>1, <1>2, FxPlaced
<1>4. PICK g : g = FX!Park(h)
  OBVIOUS
<1>5. /\ g \in FxHolds /\ FxGood(g, alone) /\ FxMore(g, h)
      /\ \A k \in Filters : g.level[k] = h.level[k] \/ FX!Sent(g.queue, k)
      /\ \A k \in FX!Kinds : h.level[k] > 0 => g.level[k] # 0 \/ g.parked[k] = h.level[k]
      /\ FxStays(g.motor, h.motor)
  BY <1>3, <1>4, FxPark
<1>6. FxMore(g, FX!Held)
  BY <1>1, <1>3, <1>5 DEF FxMore
<1> QED BY <1>2, <1>3, <1>4, <1>5, <1>6

LEMMA FxHide == ASSUME FX!IInv, FX!Hide PROVE FX!IInv' /\ FxStep
<1>1. PICK alone \in BOOLEAN : alone <=> fxRestarts = 0
  OBVIOUS
<1>2. PICK g : g = FX!Park([FX!Held EXCEPT !.webcam = "off"])
  OBVIOUS
<1>3. /\ g \in FxHolds /\ FxGood(g, alone) /\ FxMore(g, FX!Held) /\ (\A k \in Filters : g.level[k] = level[k] \/ FX!Sent(g.queue, k))
      /\ (\A k \in FX!Kinds : level[k] > 0 => g.level[k] # 0 \/ g.parked[k] = level[k]) /\ FxStays(g.motor, motor)
  BY <1>1, <1>2, FxParks
<1>4. PICK q : q = <<FX!Op("hide", "unset")>>
  OBVIOUS
<1>5. q \in Seq(FX!Effects)
  BY <1>4, FxOne
<1>6. PICK s : s = FX!Send(g, q)
  OBVIOUS
<1>7. s \in FxHolds /\ FxGood(s, alone) /\ FxMore(s, g) /\ FxAlike(s, g) /\ s.motor = g.motor
  BY <1>3, <1>5, <1>6, FxSend
<1>8. FxMore(s, FX!Held) /\ \A k \in Filters : s.level[k] = level[k] \/ FX!Sent(s.queue, k)
  BY <1>3, <1>7 DEF FxMore, FxAlike
<1>9. FX!Becomes(s) /\ UNCHANGED <<FX!Obs, fxFaults, fxRestarts>> /\ FX!FXTap
  BY <1>2, <1>4, <1>6 DEF FX!Hide
<1>10. FxAside(s) /\ FxQuiets(s)
  BY <1>3, <1>7 DEF FxAlike, FxAside, FxQuiets
<1> QED BY <1>1, <1>7, <1>8, <1>9, <1>10, FxTaps, FxDecides

LEMMA FxCfgWebcam == ASSUME FX!IInv, NEW v \in Presets \cup {"unset", "off"}, FX!CfgWebcam(v) PROVE FX!IInv' /\ FxStep
<1>1. PICK alone \in BOOLEAN : alone <=> fxRestarts = 0
  OBVIOUS
<1>2. PICK g : g = FX!Park([FX!Held EXCEPT !.webcam = v])
  OBVIOUS
<1>3. /\ g \in FxHolds /\ FxGood(g, alone) /\ FxMore(g, FX!Held) /\ (\A k \in Filters : g.level[k] = level[k] \/ FX!Sent(g.queue, k))
      /\ (\A k \in FX!Kinds : level[k] > 0 => g.level[k] # 0 \/ g.parked[k] = level[k]) /\ FxStays(g.motor, motor)
  BY <1>1, <1>2, FxParks
<1>4. PICK s : s = FX!Apply(g)
  OBVIOUS
<1>5. s \in FxHolds /\ FxGood(s, alone) /\ FxMore(s, g) /\ s.level = g.level /\ s.parked = g.parked /\ s.motor = g.motor
  BY <1>3, <1>4, FxApply
<1>6. FxMore(s, FX!Held) /\ \A k \in Filters : s.level[k] = level[k] \/ FX!Sent(s.queue, k)
  BY <1>3, <1>5 DEF FxMore
<1>7. FX!Becomes(s) /\ UNCHANGED <<FX!Obs, fxFaults, fxRestarts>> /\ FX!FXTap
  BY <1>2, <1>4 DEF FX!CfgWebcam
<1>8. FxAside(s) /\ FxQuiets(s)
  BY <1>3, <1>5 DEF FxAside, FxQuiets
<1> QED BY <1>1, <1>5, <1>6, <1>7, <1>8, FxTaps, FxDecides

LEMMA FxScriptCam == ASSUME FX!IInv, NEW k \in FX!Kinds, NEW l \in FX!Levels, FX!ScriptCam(k, l) PROVE FX!IInv' /\ FxStep
<1>1. PICK alone \in BOOLEAN : alone <=> fxRestarts = 0
  OBVIOUS
<1>2. PICK q : q = <<FX!Cam(k, l)>>
  OBVIOUS
<1>3. q \in Seq(FX!Effects)
  BY <1>2, FxOne
<1>4. PICK s : s = FX!Send(FX!Held, q)
  OBVIOUS
<1>5. s \in FxHolds /\ FxGood(s, alone) /\ FxMore(s, FX!Held) /\ s.level = level /\ s.webcam = webcam /\ s.motor = motor
  BY <1>1, <1>3, <1>4, FxTyped, FxSend DEF FxAlike
<1>6. FX!Becomes(s) /\ UNCHANGED <<FX!Obs, fxFaults, fxRestarts>> /\ FX!FXTap
  BY <1>2, <1>4 DEF FX!ScriptCam
<1>7. FxAside(s) /\ FxQuiets(s)
  BY <1>5 DEF FxAside, FxQuiets
<1> QED BY <1>1, <1>5, <1>6, <1>7, FxTaps, FxDecides

LEMMA FxArmUp == ASSUME FX!IInv, FX!ArmUp PROVE FX!IInv' /\ FxStep
<1>1. PICK alone \in BOOLEAN : alone <=> fxRestarts = 0
  OBVIOUS
<1>2. PICK s : s = FX!Reassert(FX!Held)
  OBVIOUS
<1>3. FX!Held \in FxHolds /\ FxAllLoose(FX!Held, alone) /\ FX!Held.level = level /\ FX!Held.webcam = webcam /\ FX!Held.motor = motor
  BY <1>1, FxTyped, FxLoosens
<1>4. s \in FxHolds /\ FxGood(s, alone) /\ FxMore(s, FX!Held) /\ s.level = level /\ s.webcam = webcam /\ FxStays(s.motor, motor)
  BY <1>2, <1>3, FxReassert DEF FxAlike
<1>5. FX!Becomes(s) /\ UNCHANGED <<FX!Obs, fxFaults, fxRestarts>> /\ FX!FXTap
  BY <1>2 DEF FX!ArmUp
<1>6. FxAside(s) /\ FxQuiets(s)
  BY <1>4 DEF FxAside, FxQuiets
<1> QED BY <1>1, <1>4, <1>5, <1>6, FxTaps, FxDecides

\* The effect at the head of the queue.
LEMMA FxDue ==
  ASSUME NEW q \in Seq(FX!Effects), q # <<>>
  PROVE  /\ Head(q) \in FX!Effects /\ Tail(q) \in Seq(FX!Effects)
         /\ Head(q).level \in FX!Levels /\ (Head(q).op = "cam" => Head(q).kind \in FX!Kinds) /\ (Head(q).op = "move" => Head(q).to \in Presets)
         /\ \A k : FX!Sent(q, k) => FX!Sent(Tail(q), k) \/ (Head(q).op = "cam" /\ Head(q).kind = k)
<1>1. PICK t : t = Tail(q)
  OBVIOUS
<1>2. Head(q) \in FX!Effects /\ t \in Seq(FX!Effects) /\ Len(t) = Len(q) - 1 /\ \A i \in 1..Len(t) : t[i] = q[i + 1]
  BY <1>1, HeadTailProperties
<1>3. Head(q).level \in FX!Levels /\ (Head(q).op = "cam" => Head(q).kind \in FX!Kinds) /\ (Head(q).op = "move" => Head(q).to \in Presets)
  BY <1>2 DEF FX!Effects
<1>4. Len(q) \in Nat /\ DOMAIN q = 1..Len(q) /\ DOMAIN t = 1..Len(t) /\ Len(q) # 0
  BY <1>2, LenProperties, EmptySeq
<1>5. Head(q) = q[1]
  OBVIOUS
<1>6. ASSUME NEW k, FX!Sent(q, k), ~(Head(q).op = "cam" /\ Head(q).kind = k) PROVE FX!Sent(t, k)
  <2>1. PICK i \in DOMAIN q : q[i].op = "cam" /\ q[i].kind = k
    BY <1>6 DEF FX!Sent
  <2>2. i # 1
    BY <1>5, <1>6, <2>1
  <2>3. PICK j : j = i - 1
    OBVIOUS
  <2>4. j \in 1..Len(t) /\ i = j + 1
    BY <1>2, <1>4, <2>2, <2>3
  <2>5. j \in DOMAIN t /\ t[j] = q[i]
    BY <1>2, <1>4, <2>4
  <2> QED BY <2>1, <2>5 DEF FX!Sent
<1> QED BY <1>1, <1>2, <1>3, <1>6

LEMMA FxRest ==
  ASSUME NEW h \in FxHolds, NEW alone \in BOOLEAN, FxGood(h, alone), h.queue # <<>>
  PROVE  LET g == FX!Rest(h) IN
         g \in FxHolds /\ FxGood(g, alone) /\ FxAlike(g, h) /\ g.motor = h.motor /\ g.queue = Tail(h.queue)
<1>1. PICK q : q = Tail(h.queue)
  OBVIOUS
<1>2. q \in Seq(FX!Effects)
  BY <1>1, FxHeld, FxDue
<1>3. PICK g : g = [h EXCEPT !.queue = q]
  OBVIOUS
<1>4. g = FX!Rest(h)
  BY <1>1, <1>3 DEF FX!Rest
<1>5. g \in FxHolds /\ FxAlike(g, h) /\ g.motor = h.motor /\ g.queue = q
  BY <1>2, <1>3 DEF FxHolds, FxAlike
<1>6. \A k \in Sustained : FX!Want(g, k) = FX!Want(h, k)
  BY <1>5 DEF FX!Want, FX!CamGone, FxAlike
<1>7. FxGood(g, alone)
  BY <1>5, <1>6 DEF FxGood
<1> QED BY <1>1, <1>4, <1>5, <1>7

LEMMA FxRunCam == ASSUME FX!IInv, FX!RunCam PROVE FX!IInv' /\ FxStep
<1>1. PICK alone \in BOOLEAN : alone <=> fxRestarts = 0
  OBVIOUS
<1>2. PICK k : k = Head(queue).kind
  OBVIOUS
<1>3. PICK l : l = Head(queue).level
  OBVIOUS
<1>4. PICK lands \in BOOLEAN : lands <=> item # "none" \/ (k \in Sustained /\ l > 0)
  OBVIOUS
<1>5. /\ queue # <<>> /\ Head(queue).op = "cam" /\ fxFaults' = fxFaults /\ item' = item /\ pose' = pose /\ fxTaps' = fxTaps /\ fxRestarts' = fxRestarts
      /\ filter' = IF item # "none" /\ (k \in Filters \/ (k \in Lamps /\ l = 0)) THEN [filter EXCEPT ![k] = l] ELSE filter
      /\ blind' = IF lands THEN blind \ {k} ELSE blind \cup {k}
      /\ FX!Becomes(IF lands THEN FX!Adopt(FX!Rest(FX!Held), k, l) ELSE FX!Rest(FX!Held))
  BY <1>2, <1>3, <1>4 DEF FX!RunCam, FX!Due, FX!NoFault
<1>6. k \in FX!Kinds /\ l \in FX!Levels /\ \A j : FX!Sent(queue, j) => FX!Sent(Tail(queue), j) \/ j = k
  BY <1>1, <1>2, <1>3, <1>5, FxTyped, FxDue
<1>7. PICK r : r = FX!Rest(FX!Held)
  OBVIOUS
<1>8. r \in FxHolds /\ FxGood(r, alone) /\ r.level = level /\ r.queue = Tail(queue) /\ r.webcam = webcam /\ r.motor = motor
  BY <1>1, <1>5, <1>7, FxTyped, FxRest DEF FxAlike
<1>9. PICK g : g = IF lands THEN FX!Adopt(r, k, l) ELSE r
  OBVIOUS
<1>10. /\ g \in FxHolds /\ FxGood(g, alone) /\ g.queue = Tail(queue) /\ (\A j \in FX!Kinds : j # k => g.level[j] = level[j])
       /\ (lands /\ k \in Filters => g.level[k] = l) /\ g.webcam = webcam /\ FxStays(g.motor, motor)
  <2>1. CASE lands
    <3>1. PICK a : a = FX!Adopt(r, k, l)
      OBVIOUS
    <3>2. /\ a \in FxHolds /\ FxGood(a, alone) /\ a.queue = r.queue /\ (\A j \in FX!Kinds : j # k => a.level[j] = r.level[j])
          /\ (k \in Filters => a.level[k] = l) /\ a.webcam = r.webcam /\ FxStays(a.motor, r.motor)
      BY <1>6, <1>8, <3>1, FxAdopt
    <3> QED BY <1>8, <1>9, <2>1, <3>1, <3>2
  <2>2. CASE ~lands
    BY <1>8, <1>9, <2>2, FxStill
  <2> QED BY <2>1, <2>2
<1>11. FX!Becomes(g)
  BY <1>5, <1>7, <1>9
<1>12. filter' \in FxLevels /\ (\A j \in FX!Kinds : j # k => filter'[j] = filter[j])
       /\ (lands /\ k \in Filters => filter'[k] = l)
  <2>1. filter \in [FX!Kinds -> FX!Levels]
    BY <1>1, FxTyped DEF FxLevels
  <2>2. lands /\ k \in Filters => item # "none"
    BY <1>4, FxKinds
  <2> QED BY <1>5, <1>6, <2>1, <2>2 DEF FxLevels
<1>13. fxFaults' + fxRestarts' = 0 => \A j \in Filters \ blind' : FX!Sent(g.queue, j) \/ filter'[j] = g.level[j]
  <2> SUFFICES ASSUME fxFaults + fxRestarts = 0, NEW j \in Filters, j \notin blind' PROVE FX!Sent(g.queue, j) \/ filter'[j] = g.level[j]
    BY <1>5
  <2>1. CASE j = k
    <3>1. lands
      BY <1>5, <2>1
    <3> QED BY <1>10, <1>12, <2>1, <3>1
  <2>2. CASE j # k
    <3>1. j \notin blind /\ j \in FX!Kinds
      BY <1>5, <2>2, FxKinds
    <3>2. FX!Sent(queue, j) \/ filter[j] = level[j]
      BY <1>1, <3>1, FxTyped DEF FX!Told
    <3> QED BY <1>6, <1>10, <1>12, <2>2, <3>1, <3>2
  <2> QED BY <2>1, <2>2
<1>14. (saved \in [levels : FxLevels, parked : FxLevels])' /\ FX!Keeps(g)
  BY <1>1, <1>10, <1>11, FxTyped, FxSaves
<1>15. /\ (item \in {"none", "hidden", "shown"} /\ filter \in FxLevels /\ pose \in Presets \cup {"unset"} /\ blind \subseteq FX!Kinds)'
       /\ (fxTaps \in Nat /\ fxFaults \in Nat /\ fxRestarts \in Nat)' /\ (alone <=> fxRestarts' = 0)
  BY <1>1, <1>5, <1>6, <1>12, FxTyped
<1>16. FxStep
  <2>1. FxAside(g) /\ FxQuiets(g)
    BY <1>10 DEF FxAside, FxQuiets
  <2> QED BY <1>10, <1>11, <2>1, FxLasts
<1> QED BY <1>10, <1>13, <1>14, <1>15, <1>16, FxBecomes

LEMMA FxRunMove == ASSUME FX!IInv, FX!RunMove PROVE FX!IInv' /\ FxStep
<1>1. PICK alone \in BOOLEAN : alone <=> fxRestarts = 0
  OBVIOUS
<1>2. PICK r : r = FX!Rest(FX!Held)
  OBVIOUS
<1>3. /\ queue # <<>> /\ Head(queue).op \in {"move", "hide"} /\ fxFaults' = fxFaults /\ fxTaps' = fxTaps /\ fxRestarts' = fxRestarts
      /\ filter' = filter /\ blind' = blind /\ FX!Becomes(r)
      /\ item' \in {item, "hidden", "shown"} /\ (pose' = pose \/ (Head(queue).op # "hide" /\ pose' = Head(queue).to))
  BY <1>2 DEF FX!RunMove, FX!Due, FX!NoFault
<1>4. pose' \in Presets \cup {"unset"} /\ \A j : FX!Sent(queue, j) => FX!Sent(Tail(queue), j)
  BY <1>1, <1>3, FxTyped, FxDue
<1>5. r \in FxHolds /\ FxGood(r, alone) /\ r.level = level /\ r.queue = Tail(queue) /\ r.webcam = webcam
  BY <1>1, <1>2, <1>3, FxTyped, FxRest DEF FxAlike
<1>6. fxFaults' + fxRestarts' = 0 => \A j \in Filters \ blind' : FX!Sent(r.queue, j) \/ filter'[j] = r.level[j]
  BY <1>1, <1>3, <1>4, <1>5, FxTyped DEF FX!Told
<1>7. (saved \in [levels : FxLevels, parked : FxLevels])' /\ FX!Keeps(r)
  BY <1>1, <1>3, <1>5, FxTyped, FxSaves
<1>8. /\ (item \in {"none", "hidden", "shown"} /\ filter \in FxLevels /\ pose \in Presets \cup {"unset"} /\ blind \subseteq FX!Kinds)'
      /\ (fxTaps \in Nat /\ fxFaults \in Nat /\ fxRestarts \in Nat)' /\ (alone <=> fxRestarts' = 0)
  BY <1>1, <1>3, <1>4, FxTyped
<1>9. FxStep
  <2>1. FxAside(r) /\ FxQuiets(r)
    BY <1>5 DEF FxAside, FxQuiets
  <2> QED BY <1>3, <1>5, <2>1, FxLasts
<1> QED BY <1>5, <1>6, <1>7, <1>8, <1>9, FxBecomes

\* The note of an apply, good or bad, gives the parked levels back.
LEMMA FxApplied ==
  ASSUME FX!IInv, NEW alone \in BOOLEAN, alone <=> fxRestarts = 0, queue # <<>>, Head(queue).op # "cam"
  PROVE  LET g == FX!Unpark(FX!Rest([FX!Held EXCEPT !.apply = FX!NoLatch])) IN
         /\ g \in FxHolds /\ FxGood(g, alone) /\ FxMore(g, FX!Held)
         /\ \A k \in Filters : g.level[k] = level[k] \/ FX!Sent(g.queue, k)
         /\ \A k \in FX!Kinds : level[k] > 0 => g.level[k] = level[k]
         /\ g.webcam = webcam /\ (webcam = "unset" => g.level = level)
         /\ FxStays(g.motor, motor)
<1>1. /\ FX!Held \in FxHolds /\ FxGood(FX!Held, alone) /\ FX!Held.level = level /\ FX!Held.queue = queue
      /\ FX!Held.webcam = webcam /\ FX!Held.motor = motor
  BY FxTyped
<1>2. PICK h : h = [FX!Held EXCEPT !.apply = FX!NoLatch]
  OBVIOUS
<1>3. FX!NoLatch \in [live : BOOLEAN, dirty : BOOLEAN]
  BY DEF FX!NoLatch
<1>4. h \in FxHolds /\ h.level = level /\ h.queue = queue /\ h.webcam = webcam /\ h.motor = motor
  BY <1>1, <1>2, <1>3 DEF FxHolds
<1>5. FxGood(h, alone)
  BY <1>1, <1>4 DEF FxGood, FX!Want, FX!CamGone
<1>6. PICK r : r = FX!Rest(h)
  OBVIOUS
<1>7. r \in FxHolds /\ FxGood(r, alone) /\ r.level = level /\ r.queue = Tail(queue) /\ r.webcam = webcam /\ r.motor = motor
  BY <1>4, <1>5, <1>6, FxRest DEF FxAlike
<1>8. FxMore(r, FX!Held)
  BY <1>1, <1>7, FxTyped, FxDue DEF FxMore
<1>9. PICK g : g = FX!Unpark(r)
  OBVIOUS
<1>10. /\ g \in FxHolds /\ FxGood(g, alone) /\ FxMore(g, r) /\ g.webcam = r.webcam
       /\ \A k \in Filters : g.level[k] = r.level[k] \/ FX!Sent(g.queue, k)
       /\ \A k \in FX!Kinds : r.level[k] > 0 => g.level[k] = r.level[k]
       /\ FX!CamGone(r) => g = r
       /\ FxStays(g.motor, r.motor)
  BY <1>7, <1>9, FxUnpark
<1>11. FxMore(g, FX!Held)
  BY <1>8, <1>10 DEF FxMore
<1>12. webcam = "unset" => FX!CamGone(r)
  BY <1>7 DEF FX!CamGone
<1> QED BY <1>2, <1>6, <1>7, <1>9, <1>10, <1>11, <1>12

LEMMA FxRunApply == ASSUME FX!IInv, FX!RunApply PROVE FX!IInv' /\ FxStep
<1>1. PICK alone \in BOOLEAN : alone <=> fxRestarts = 0
  OBVIOUS
<1>2. PICK u : u = FX!Unpark(FX!Rest([FX!Held EXCEPT !.apply = FX!NoLatch]))
  OBVIOUS
<1>3. PICK g : g = IF apply.dirty THEN FX!Apply(u) ELSE u
  OBVIOUS
<1>4. /\ queue # <<>> /\ Head(queue).op = "apply" /\ fxFaults' = fxFaults /\ fxTaps' = fxTaps /\ fxRestarts' = fxRestarts
      /\ item' \in {"none", "hidden", "shown"} /\ filter' = (IF webcam = "unset" THEN FX!Zero ELSE filter)
      /\ pose' = (IF webcam \in Presets THEN webcam ELSE pose) /\ FX!Becomes(g)
      /\ blind' = (IF webcam = "unset" THEN blind \cup {k \in Filters : level[k] > 0} ELSE blind)
  BY <1>2, <1>3 DEF FX!RunApply, FX!Due, FX!NoFault
<1>5. /\ u \in FxHolds /\ FxGood(u, alone) /\ FxMore(u, FX!Held)
      /\ \A k \in Filters : u.level[k] = level[k] \/ FX!Sent(u.queue, k)
      /\ (webcam = "unset" => u.level = level) /\ u.webcam = webcam /\ FxStays(u.motor, motor)
  <2>1. Head(queue).op # "cam"
    BY <1>4
  <2> QED BY <1>1, <1>2, <1>4, <2>1, FxApplied
<1>6. g \in FxHolds /\ FxGood(g, alone) /\ FxMore(g, u) /\ g.level = u.level /\ g.webcam = u.webcam /\ g.motor = u.motor
  <2>1. CASE apply.dirty
    BY <1>3, <1>5, <2>1, FxApply
  <2>2. CASE ~apply.dirty
    BY <1>3, <1>5, <2>2 DEF FxMore
  <2> QED BY <2>1, <2>2
<1>7. fxFaults' + fxRestarts' = 0 => \A j \in Filters \ blind' : FX!Sent(g.queue, j) \/ filter'[j] = g.level[j]
  <2> SUFFICES ASSUME fxFaults + fxRestarts = 0, NEW j \in Filters, j \notin blind' PROVE FX!Sent(g.queue, j) \/ filter'[j] = g.level[j]
    BY <1>4
  <2>1. j \in FX!Kinds /\ level[j] \in Nat /\ j \notin blind /\ FX!Zero[j] = 0
    BY <1>1, <1>4, FxTyped, FxKinds
  <2>2. CASE webcam = "unset"
    <3>1. ~(level[j] > 0)
      BY <1>4, <2>2
    <3>2. level[j] = 0
      BY <2>1, <3>1
    <3> QED BY <1>4, <1>5, <1>6, <2>1, <2>2, <3>2
  <2>3. CASE webcam # "unset"
    <3>1. FX!Sent(queue, j) \/ filter[j] = level[j]
      BY <1>1, <2>1, FxTyped DEF FX!Told
    <3>2. FX!Sent(queue, j) => FX!Sent(g.queue, j)
      BY <1>1, <1>5, <1>6, FxTyped DEF FxMore
    <3>3. FX!Sent(u.queue, j) => FX!Sent(g.queue, j)
      BY <1>6 DEF FxMore
    <3> QED BY <1>4, <1>5, <1>6, <2>3, <3>1, <3>2, <3>3
  <2> QED BY <2>2, <2>3
<1>8. (saved \in [levels : FxLevels, parked : FxLevels])' /\ FX!Keeps(g)
  BY <1>1, <1>4, <1>6, FxTyped, FxSaves
<1>9. /\ (item \in {"none", "hidden", "shown"} /\ filter \in FxLevels /\ pose \in Presets \cup {"unset"} /\ blind \subseteq FX!Kinds)'
      /\ (fxTaps \in Nat /\ fxFaults \in Nat /\ fxRestarts \in Nat)' /\ (alone <=> fxRestarts' = 0)
  BY <1>1, <1>4, FxTyped, FxKinds
<1>10. FxStep
  <2>1. FxAside(g) /\ FxQuiets(g)
    BY <1>5, <1>6 DEF FxAside, FxQuiets
  <2> QED BY <1>4, <1>6, <2>1, FxLasts
<1> QED BY <1>6, <1>7, <1>8, <1>9, <1>10, FxBecomes

LEMMA FxRunFails == ASSUME FX!IInv, FX!RunFails PROVE FX!IInv' /\ FxStep
<1>1. PICK alone \in BOOLEAN : alone <=> fxRestarts = 0
  OBVIOUS
<1>2. PICK g : g = IF Head(queue).op = "apply" THEN FX!Unpark(FX!Rest([FX!Held EXCEPT !.apply = FX!NoLatch])) ELSE FX!Rest(FX!Held)
  OBVIOUS
<1>3. /\ queue # <<>> /\ fxFaults' = fxFaults + 1 /\ fxTaps' = fxTaps /\ fxRestarts' = fxRestarts
      /\ item' = item /\ filter' = filter /\ pose' = pose /\ blind' = blind /\ FX!Becomes(g)
  BY <1>2 DEF FX!RunFails, FX!Due, FX!Obs
<1>4. g \in FxHolds /\ FxGood(g, alone) /\ g.webcam = webcam /\ FxStays(g.motor, motor)
  <2>1. CASE Head(queue).op = "apply"
    <3>1. Head(queue).op # "cam"
      BY <2>1
    <3> QED BY <1>1, <1>2, <1>3, <2>1, <3>1, FxApplied
  <2>2. CASE Head(queue).op # "apply"
    BY <1>1, <1>2, <1>3, <2>2, FxTyped, FxRest, FxStill DEF FxAlike
  <2> QED BY <2>1, <2>2
<1>5. (saved \in [levels : FxLevels, parked : FxLevels])' /\ FX!Keeps(g)
  BY <1>1, <1>3, <1>4, FxTyped, FxSaves
<1>6. /\ (item \in {"none", "hidden", "shown"} /\ filter \in FxLevels /\ pose \in Presets \cup {"unset"} /\ blind \subseteq FX!Kinds)'
      /\ (fxTaps \in Nat /\ fxFaults \in Nat /\ fxRestarts \in Nat)' /\ (alone <=> fxRestarts' = 0) /\ fxFaults' + fxRestarts' # 0
  BY <1>1, <1>3, FxTyped
<1>7. FxStep
  <2>1. FxAside(g) /\ FxQuiets(g)
    BY <1>4 DEF FxAside, FxQuiets
  <2> QED BY <1>3, <1>4, <2>1, FxLasts
<1> QED BY <1>4, <1>5, <1>6, <1>7, FxBecomes

\* The motors move, and OBS with them; what the module shows rests.
LEMMA FxDrives ==
  ASSUME FX!IInv, NEW alone \in BOOLEAN, alone <=> fxRestarts = 0, NEW ms \in [Sustained -> FX!Motors],
         \A k \in Sustained : FX!Manned(ms[k], FX!Want(FX!Held, k), alone), motor' = ms,
         UNCHANGED <<webcam, level, parked, saved, queue, apply, blind, fxTaps, fxRestarts>>,
         item' \in {"none", "hidden", "shown"}, pose' \in Presets \cup {"unset"},
         filter' \in FxLevels, \A j \in Filters : filter'[j] = filter[j],
         fxFaults' \in Nat, fxFaults' = 0 => fxFaults = 0
  PROVE  FX!IInv' /\ FxStep
<1>1. PICK h : h = [FX!Held EXCEPT !.motor = ms]
  OBVIOUS
<1>2. /\ h \in FxHolds /\ h.webcam = webcam /\ h.level = level /\ h.parked = parked /\ h.apply = apply /\ h.queue = queue /\ h.motor = ms
      /\ FX!Held.webcam = webcam /\ FX!Held.level = level
  <2>1. /\ FX!Held \in FxHolds /\ FX!Held.webcam = webcam /\ FX!Held.level = level /\ FX!Held.parked = parked
        /\ FX!Held.apply = apply /\ FX!Held.queue = queue
    BY FxTyped
  <2> QED BY <1>1, <2>1 DEF FxHolds
<1>3. FxGood(h, alone)
  BY <1>2 DEF FxGood, FX!Want, FX!CamGone
<1>4. FX!Keeps(h)
  BY <1>2 DEF FX!Keeps
<1>5. fxFaults' + fxRestarts' = 0 => \A k \in Filters \ blind' : FX!Sent(h.queue, k) \/ filter'[k] = h.level[k]
  <2> SUFFICES ASSUME fxFaults' + fxRestarts' = 0, NEW k \in Filters \ blind PROVE FX!Sent(queue, k) \/ filter'[k] = level[k]
    BY <1>2
  <2>1. fxFaults + fxRestarts = 0
    BY FxTyped
  <2> QED BY <2>1, FxTyped DEF FX!Told
<1>6. /\ (saved \in [levels : FxLevels, parked : FxLevels])'
      /\ (item \in {"none", "hidden", "shown"} /\ filter \in FxLevels /\ pose \in Presets \cup {"unset"} /\ blind \subseteq FX!Kinds)'
      /\ (fxTaps \in Nat /\ fxFaults \in Nat /\ fxRestarts \in Nat)' /\ (alone <=> fxRestarts' = 0)
  BY FxTyped
<1>7. FxStep
  BY DEF FxStep, FxKeepsSetAside, FxStaysOff
<1> QED BY <1>2, <1>3, <1>4, <1>5, <1>6, <1>7, FxBecomes

\* A driver goes on, and stays who it is: nobody comes back to life.
LEMMA FxGoesOn ==
  ASSUME NEW m \in FX!Motors, NEW d, NEW e, NEW w, NEW alone \in BOOLEAN, FX!Manned(m, w, alone),
         d \in DOMAIN m.driver =>
           /\ e \in FX!Drivers /\ e.level = m.driver[d].level
           /\ alone /\ m.driver[d].phase = "gone" => e.phase = "gone"
  PROVE  LET n == [m EXCEPT !.driver[d] = e] IN n \in FX!Motors /\ FX!Manned(n, w, alone)
<1>a. PICK n : n = [m EXCEPT !.driver[d] = e]
  OBVIOUS
<1>1. /\ m.slot \in Nat /\ m.retiring \in Nat /\ m.driver \in Seq(FX!Drivers) /\ Len(m.driver) \in Nat
      /\ m.slot \in 0..Len(m.driver) /\ m.retiring \in 0..Len(m.driver) /\ DOMAIN m.driver = 1..Len(m.driver)
      /\ \A c \in 1..Len(m.driver) : m.driver[c] \in FX!Drivers
      /\ m = [slot |-> m.slot, retiring |-> m.retiring, driver |-> m.driver]
  BY FxMotor
<1>2. PICK ds : ds = [m.driver EXCEPT ![d] = e]
  OBVIOUS
<1>3. PICK t : t = [slot |-> m.slot, retiring |-> m.retiring, driver |-> ds]
  OBVIOUS
<1>4. n = t
  <2>1. PICK s, r, xs : s = m.slot /\ r = m.retiring /\ xs = m.driver
    OBVIOUS
  <2>2. m = [slot |-> s, retiring |-> r, driver |-> xs]
    BY <1>1, <2>1
  <2>3. n = [m EXCEPT !.driver = ds]
    BY <1>a, <1>2
  <2> QED BY ONLY <1>3, <2>1, <2>2, <2>3
<1>5. /\ ds \in Seq(FX!Drivers) /\ Len(ds) = Len(m.driver) /\ DOMAIN ds = DOMAIN m.driver
      /\ \A c \in DOMAIN m.driver : ds[c].level = m.driver[c].level /\ (alone /\ m.driver[c].phase = "gone" => ds[c].phase = "gone")
  <2>1. CASE d \in DOMAIN m.driver
    <3>1. e \in FX!Drivers /\ m.driver \in Seq(FX!Drivers)
      BY <1>1, <2>1
    <3>2. /\ ds \in Seq(FX!Drivers) /\ Len(ds) = Len(m.driver) /\ DOMAIN ds = DOMAIN m.driver
          /\ \A c \in DOMAIN m.driver : ds[c] = IF c = d THEN e ELSE m.driver[c]
      BY <1>2, <2>1, <3>1, FxDriverSet
    <3> QED BY <2>1, <3>2
  <2>2. CASE d \notin DOMAIN m.driver
    <3>1. m.driver = [c \in DOMAIN m.driver |-> m.driver[c]]
      BY <1>1
    <3>2. ds = m.driver
      BY <1>2, <2>2, <3>1
    <3> QED BY <1>1, <3>2
  <2> QED BY <2>1, <2>2
<1>6. t \in FX!Motors /\ t.slot = m.slot /\ t.retiring = m.retiring /\ t.driver = ds
  <2>1. m.slot \in Nat /\ m.retiring \in Nat /\ m.slot <= Len(ds) /\ m.retiring <= Len(ds)
    BY <1>1, <1>5
  <2> QED BY <1>3, <1>5, <2>1, FxMade
<1>7. FX!Manned(t, w, alone)
  <2>1. t.slot # 0 => t.slot \in DOMAIN m.driver
    BY <1>1, <1>6
  <2> QED BY <1>5, <1>6, <2>1 DEF FX!Manned
<1> QED BY <1>a, <1>4, <1>6, <1>7

\* One driver of the table.
LEMMA FxOneGoes ==
  ASSUME FX!IInv, NEW alone \in BOOLEAN, alone <=> fxRestarts = 0, NEW k \in Sustained, NEW d \in DOMAIN motor[k].driver,
         NEW e \in FX!Drivers, e.level = motor[k].driver[d].level, motor[k].driver[d].phase # "gone",
         NEW ms, ms = [motor EXCEPT ![k].driver[d] = e]
  PROVE  ms \in [Sustained -> FX!Motors] /\ \A j \in Sustained : FX!Manned(ms[j], FX!Want(FX!Held, j), alone)
<1>1. motor \in [Sustained -> FX!Motors] /\ FX!Held.motor = motor /\ \A j \in Sustained : FX!Manned(motor[j], FX!Want(FX!Held, j), alone)
  BY FxTyped DEF FxGood
<1>2. PICK m : m = motor[k]
  OBVIOUS
<1>3. PICK n : n = [m EXCEPT !.driver[d] = e]
  OBVIOUS
<1>4. n \in FX!Motors /\ FX!Manned(n, FX!Want(FX!Held, k), alone)
  <2>1. m \in FX!Motors /\ FX!Manned(m, FX!Want(FX!Held, k), alone)
    BY <1>1, <1>2
  <2> QED BY <1>2, <1>3, <2>1, FxGoesOn
<1>5. ms = [motor EXCEPT ![k] = n]
  BY <1>2, <1>3
<1> QED BY <1>1, <1>4, <1>5

LEMMA FxDriverIs ==
  ASSUME FX!IInv, NEW k \in Sustained, NEW d \in DOMAIN motor[k].driver
  PROVE  motor[k].driver[d] \in FX!Drivers /\ motor[k].driver[d].level \in FX!Levels /\ k \in FX!Kinds /\ motor[k] \in FX!Motors
<1>1. PICK m : m = motor[k]
  OBVIOUS
<1>2. m \in FX!Motors /\ k \in FX!Kinds
  <2>1. \E alone \in BOOLEAN : alone <=> fxRestarts = 0
    OBVIOUS
  <2> QED BY <1>1, <2>1, FxTyped, FxKinds
<1>3. m.driver[d] \in FX!Drivers
  BY <1>1, <1>2, FxMotor
<1> QED BY <1>1, <1>2, <1>3 DEF FX!Drivers

LEMMA FxGone ==
  ASSUME FX!IInv, NEW alone \in BOOLEAN, alone <=> fxRestarts = 0, NEW k \in Sustained, NEW d \in DOMAIN motor[k].driver,
         motor[k].driver[d].phase # "gone", FX!Gone(k, d)
  PROVE  motor' \in [Sustained -> FX!Motors] /\ \A j \in Sustained : FX!Manned(motor'[j], FX!Want(FX!Held, j), alone)
<1>1. PICK e : e = [motor[k].driver[d] EXCEPT !.phase = "gone"]
  OBVIOUS
<1>2. e \in FX!Drivers /\ e.level = motor[k].driver[d].level
  BY <1>1, FxDriverIs DEF FX!Drivers, FX!Phases
<1>3. PICK ms : ms = [motor EXCEPT ![k].driver[d] = e]
  OBVIOUS
<1>4. motor' = ms
  BY <1>1, <1>3 DEF FX!Gone
<1> QED BY <1>2, <1>3, <1>4, FxOneGoes

LEMMA FxDriverSetup ==
  ASSUME FX!IInv, NEW k \in Sustained, NEW d \in DOMAIN motor[k].driver, FX!DriverSetup(k, d)
  PROVE  FX!IInv' /\ FxStep
<1>1. PICK alone \in BOOLEAN : alone <=> fxRestarts = 0
  OBVIOUS
<1>2. /\ motor[k].driver[d].phase # "gone"
      /\ UNCHANGED <<webcam, level, parked, saved, queue, apply, pose, blind, fxTaps, fxFaults, fxRestarts>>
  BY DEF FX!DriverSetup
<1>3. CASE item = "none"
  <2>1. FX!Gone(k, d) /\ item' = item /\ filter' = filter
    BY <1>3 DEF FX!DriverSetup
  <2>2. motor' \in [Sustained -> FX!Motors] /\ \A j \in Sustained : FX!Manned(motor'[j], FX!Want(FX!Held, j), alone)
    BY <1>1, <1>2, <2>1, FxGone
  <2> QED BY <1>1, <1>2, <2>1, <2>2, FxTyped, FxDrives
<1>4. CASE item # "none"
  <2>1. PICK e : e = [motor[k].driver[d] EXCEPT !.phase = "note", !.home = pose]
    OBVIOUS
  <2>2. e \in FX!Drivers /\ e.level = motor[k].driver[d].level
    <3>1. pose \in Presets \cup {"unset"}
      BY <1>1, FxTyped
    <3>2. PICK x \in FX!Drivers : x = motor[k].driver[d]
      BY FxDriverIs
    <3>3. x.level \in FX!Levels /\ e = [level |-> x.level, phase |-> "note", asked |-> x.asked, home |-> pose]
      BY <2>1, <3>2 DEF FX!Drivers
    <3>4. x.asked \in BOOLEAN
      BY DEF FX!Drivers
    <3> QED BY <3>1, <3>2, <3>3, <3>4 DEF FX!Drivers, FX!Phases
  <2>3. PICK ms : ms = [motor EXCEPT ![k].driver[d] = e]
    OBVIOUS
  <2>4. motor' = ms /\ item' = "shown"
        /\ filter' = IF k \in Lamps THEN [filter EXCEPT ![k] = motor[k].driver[d].level] ELSE filter
    BY <1>4, <2>1, <2>3 DEF FX!DriverSetup
  <2>5. ms \in [Sustained -> FX!Motors] /\ \A j \in Sustained : FX!Manned(ms[j], FX!Want(FX!Held, j), alone)
    BY <1>1, <1>2, <2>2, <2>3, FxOneGoes
  <2>6. filter' \in FxLevels /\ \A j \in Filters : filter'[j] = filter[j]
    <3>1. filter \in [FX!Kinds -> FX!Levels] /\ motor[k].driver[d].level \in FX!Levels /\ \A j \in Filters : j # k
      BY <1>1, FxTyped, FxDriverIs, FxKinds DEF FxLevels
    <3> QED BY <2>4, <3>1, FxKinds DEF FxLevels
  <2> QED BY <1>1, <1>2, <2>4, <2>5, <2>6, FxTyped, FxDrives
<1> QED BY <1>3, <1>4

LEMMA FxDriverHome ==
  ASSUME FX!IInv, NEW k \in Sustained, NEW d \in DOMAIN motor[k].driver, FX!DriverHome(k, d)
  PROVE  FX!IInv' /\ FxStep
<1>1. PICK alone \in BOOLEAN : alone <=> fxRestarts = 0
  OBVIOUS
<1>2. /\ motor[k].driver[d].phase # "gone" /\ FX!Gone(k, d) /\ pose' \in {pose, motor[k].driver[d].home}
      /\ UNCHANGED <<webcam, level, parked, saved, queue, apply, item, filter, blind, fxTaps, fxFaults, fxRestarts>>
  BY DEF FX!DriverHome
<1>3. motor' \in [Sustained -> FX!Motors] /\ \A j \in Sustained : FX!Manned(motor'[j], FX!Want(FX!Held, j), alone)
  BY <1>1, <1>2, FxGone
<1>4. motor[k].driver[d].home \in Presets \cup {"unset"}
  BY FxDriverIs DEF FX!Drivers
<1> QED BY <1>1, <1>2, <1>3, <1>4, FxTyped, FxDrives

LEMMA FxDriverDies ==
  ASSUME FX!IInv, NEW k \in Sustained, NEW d \in DOMAIN motor[k].driver, FX!DriverDies(k, d)
  PROVE  FX!IInv' /\ FxStep
<1>1. PICK alone \in BOOLEAN : alone <=> fxRestarts = 0
  OBVIOUS
<1>2. /\ motor[k].driver[d].phase # "gone" /\ FX!Gone(k, d) /\ fxFaults' = fxFaults + 1
      /\ UNCHANGED <<webcam, level, parked, saved, queue, apply, item, filter, pose, blind, fxTaps, fxRestarts>>
  BY DEF FX!DriverDies, FX!Alive, FX!Obs
<1>3. motor' \in [Sustained -> FX!Motors] /\ \A j \in Sustained : FX!Manned(motor'[j], FX!Want(FX!Held, j), alone)
  BY <1>1, <1>2, FxGone
<1> QED BY <1>1, <1>2, <1>3, FxTyped, FxDrives

LEMMA FxReap ==
  ASSUME FX!IInv, NEW k \in Sustained, FX!Reap(k)
  PROVE  FX!IInv' /\ FxStep
<1>1. PICK alone \in BOOLEAN : alone <=> fxRestarts = 0
  OBVIOUS
<1>2. /\ motor[k].slot # 0 /\ motor[k].driver[motor[k].slot].phase = "gone" /\ motor' = [motor EXCEPT ![k].slot = 0]
      /\ UNCHANGED <<webcam, level, parked, saved, queue, apply, item, filter, pose, blind, fxTaps, fxFaults, fxRestarts>>
  BY DEF FX!Reap, FX!Alive, FX!Obs
<1>3. PICK m : m = motor[k]
  OBVIOUS
<1>4. motor \in [Sustained -> FX!Motors] /\ \A j \in Sustained : FX!Manned(motor[j], FX!Want(FX!Held, j), alone)
  BY <1>1, FxTyped DEF FxGood
<1>5. PICK n : n = [m EXCEPT !.slot = 0]
  OBVIOUS
<1>6. n \in FX!Motors /\ n.slot = 0 /\ n.retiring = m.retiring /\ n.driver = m.driver
  <2>1. m \in FX!Motors
    BY <1>3, <1>4
  <2> QED BY <1>5, <2>1, FxMotor DEF FX!Motors
<1>7. FX!Manned(n, FX!Want(FX!Held, k), alone)
  <2>1. FX!Manned(m, FX!Want(FX!Held, k), alone) /\ m.slot # 0 /\ m.driver[m.slot].phase = "gone"
    BY <1>2, <1>3, <1>4
  <2>2. \A d \in DOMAIN m.driver : m.driver[d].phase # "gone" => d # m.slot
    BY <2>1
  <2> QED BY <1>6, <2>1, <2>2 DEF FX!Manned
<1>8. PICK ms : ms = [motor EXCEPT ![k] = n]
  OBVIOUS
<1>9. ms \in [Sustained -> FX!Motors] /\ motor' = ms /\ \A j \in Sustained : FX!Manned(ms[j], FX!Want(FX!Held, j), alone)
  BY <1>2, <1>3, <1>4, <1>5, <1>6, <1>7, <1>8
<1> QED BY <1>1, <1>2, <1>9, FxTyped, FxDrives

LEMMA FxDriverNote ==
  ASSUME FX!IInv, NEW k \in Sustained, NEW d \in DOMAIN motor[k].driver, FX!DriverNote(k, d)
  PROVE  FX!IInv' /\ FxStep
<1>1. PICK alone \in BOOLEAN : alone <=> fxRestarts = 0
  OBVIOUS
<1>2. PICK l : l = motor[k].driver[d].level
  OBVIOUS
<1>3. PICK h : h = FX!Adopt(FX!Held, k, l)
  OBVIOUS
<1>4. PICK g : g = [h EXCEPT !.motor[k].driver[d].phase = "chunk"]
  OBVIOUS
<1>5. motor[k].driver[d].phase = "note" /\ FX!Becomes(g) /\ UNCHANGED <<FX!Obs, fxTaps, fxFaults, fxRestarts>>
  BY <1>2, <1>3, <1>4 DEF FX!DriverNote
<1>6. /\ FX!Held \in FxHolds /\ FxGood(FX!Held, alone) /\ FX!Held.level = level /\ FX!Held.queue = queue /\ FX!Held.motor = motor
      /\ motor \in [Sustained -> FX!Motors] /\ fxTaps \in Nat /\ FX!Held.webcam = webcam
  BY <1>1, FxTyped
<1>7. k \in FX!Kinds /\ l \in FX!Levels
  BY <1>2, FxDriverIs
<1>8. /\ h \in FxHolds /\ FxGood(h, alone) /\ h.queue = queue /\ h.webcam = webcam /\ (\A j \in FX!Kinds : j # k => h.level[j] = level[j])
      /\ motor[k].slot # 0 \/ motor[k].retiring # 0 => h = FX!Held
  BY <1>3, <1>6, <1>7, FxAdopt
<1>9. PICK m : m = h.motor[k]
  OBVIOUS
<1>10. h.motor \in [Sustained -> FX!Motors] /\ m \in FX!Motors /\ FX!Manned(m, FX!Want(h, k), alone)
  BY <1>8, <1>9, FxHeld DEF FxGood
<1>11. alone => m = motor[k] /\ h.level = level
  <2> SUFFICES ASSUME alone PROVE m = motor[k] /\ h.level = level
    OBVIOUS
  <2>1. PICK o : o = motor[k]
    OBVIOUS
  <2>2. o \in FX!Motors /\ FX!Manned(o, FX!Want(FX!Held, k), alone) /\ d \in DOMAIN o.driver /\ o.driver[d].phase = "note"
    BY <1>5, <1>6, <2>1 DEF FxGood
  <2>3. d \in {o.slot, o.retiring}
    BY <2>2 DEF FX!Manned
  <2>4. d # 0
    BY <2>2, FxMotor
  <2>5. h = FX!Held
    BY <1>8, <2>1, <2>3, <2>4
  <2> QED BY <1>6, <1>9, <2>5
<1>12. PICK e : e = [m.driver[d] EXCEPT !.phase = "chunk"]
  OBVIOUS
<1>13. d \in DOMAIN m.driver =>
         /\ e \in FX!Drivers /\ e.level = m.driver[d].level
         /\ alone /\ m.driver[d].phase = "gone" => e.phase = "gone"
  <2> SUFFICES ASSUME d \in DOMAIN m.driver
      PROVE  e \in FX!Drivers /\ e.level = m.driver[d].level /\ (alone => m.driver[d].phase = "note")
    OBVIOUS
  <2>1. m.driver[d] \in FX!Drivers
    BY <1>10, FxMotor
  <2>2. e \in FX!Drivers /\ e.level = m.driver[d].level
    BY <1>12, <2>1 DEF FX!Drivers, FX!Phases
  <2> QED BY <1>5, <1>11, <2>2
<1>14. PICK n : n = [m EXCEPT !.driver[d] = e]
  OBVIOUS
<1>15. n \in FX!Motors /\ FX!Manned(n, FX!Want(h, k), alone)
  <2>1. PICK w : w = FX!Want(h, k)
    OBVIOUS
  <2>2. m \in FX!Motors /\ FX!Manned(m, w, alone)
    BY <1>10, <2>1
  <2>3. n \in FX!Motors /\ FX!Manned(n, w, alone)
    BY ONLY <1>13, <1>14, <2>2, FxGoesOn, ZenonT(60)
  <2> QED BY <2>1, <2>3
<1>16. PICK ms : ms = [h.motor EXCEPT ![k] = n]
  OBVIOUS
<1>17. ms \in [Sustained -> FX!Motors] /\ ms[k] = n /\ \A j \in Sustained : j # k => ms[j] = h.motor[j]
  BY <1>10, <1>15, <1>16
<1>18. g = [h EXCEPT !.motor = ms]
  BY <1>4, <1>9, <1>12, <1>14, <1>16
<1>19. g \in FxHolds /\ g.motor = ms /\ g.queue = h.queue /\ g.level = h.level /\ g.webcam = h.webcam
  BY <1>8, <1>17, <1>18 DEF FxHolds
<1>20. FxGood(g, alone)
  <2>1. \A j \in Sustained : FX!Want(g, j) = FX!Want(h, j)
    BY <1>19 DEF FX!Want, FX!CamGone
  <2> QED BY <1>8, <1>15, <1>17, <1>19, <2>1 DEF FxGood
<1>21. FxMore(g, FX!Held) /\ \A j \in Filters : g.level[j] = level[j]
  BY <1>6, <1>8, <1>19, FxKinds DEF FxMore
<1>22. fxTaps' \in Nat /\ UNCHANGED <<FX!Obs, fxFaults, fxRestarts>>
  BY <1>5, <1>6
<1>23. FxAside(g) /\ FxQuiets(g)
  BY <1>1, <1>8, <1>11, <1>19 DEF FxAside, FxQuiets
<1> QED BY <1>1, <1>5, <1>19, <1>20, <1>21, <1>22, <1>23, FxDecides

LEMMA FxRetired ==
  ASSUME FX!IInv, NEW k \in Sustained, FX!Retired(k)
  PROVE  FX!IInv' /\ FxStep
<1>1. PICK alone \in BOOLEAN : alone <=> fxRestarts = 0
  OBVIOUS
<1>2. PICK m : m = motor[k]
  OBVIOUS
<1>3. PICK n : n = [m EXCEPT !.retiring = 0]
  OBVIOUS
<1>4. PICK h : h = [FX!Held EXCEPT !.motor[k].retiring = 0]
  OBVIOUS
<1>5. PICK g : g = FX!Touch(h, {k})
  OBVIOUS
<1>6. m.retiring # 0 /\ m.driver[m.retiring].phase = "gone" /\ FX!Becomes(g) /\ UNCHANGED <<FX!Obs, fxTaps, fxFaults, fxRestarts>>
  BY <1>2, <1>4, <1>5 DEF FX!Retired, FX!Alive
<1>7. /\ FX!Held \in FxHolds /\ FX!Held.webcam = webcam /\ FX!Held.level = level /\ FX!Held.queue = queue /\ FX!Held.motor = motor
      /\ motor \in [Sustained -> FX!Motors] /\ fxTaps \in Nat /\ \A j \in Sustained : FX!Manned(motor[j], FX!Want(FX!Held, j), alone)
  BY <1>1, FxTyped DEF FxGood
<1>8. n \in FX!Motors /\ n.slot = m.slot /\ n.retiring = 0 /\ n.driver = m.driver
  <2>1. m \in FX!Motors
    BY <1>2, <1>7
  <2> QED BY <1>3, <2>1, FxMotor DEF FX!Motors
<1>9. FxLoose(n, alone)
  <2>1. FX!Manned(m, FX!Want(FX!Held, k), alone)
    BY <1>2, <1>7
  <2>2. \A d \in DOMAIN m.driver : m.driver[d].phase # "gone" => d # m.retiring
    BY <1>6
  <2> QED BY <1>6, <1>8, <2>1, <2>2 DEF FX!Manned, FxLoose
<1>10. PICK ms : ms = [motor EXCEPT ![k] = n]
  OBVIOUS
<1>11. ms \in [Sustained -> FX!Motors] /\ ms[k] = n /\ \A j \in Sustained : j # k => ms[j] = motor[j]
  BY <1>7, <1>8, <1>10
<1>12. h = [FX!Held EXCEPT !.motor = ms]
  BY <1>2, <1>3, <1>4, <1>7, <1>10
<1>13. h \in FxHolds /\ h.motor = ms /\ h.queue = queue /\ h.level = level /\ h.webcam = FX!Held.webcam
  BY <1>7, <1>11, <1>12 DEF FxHolds
<1>14. \A j \in Sustained : FX!Want(h, j) = FX!Want(FX!Held, j)
  BY <1>7, <1>13 DEF FX!Want, FX!CamGone
<1>15. \A j \in Sustained : j \notin {k} => FX!Manned(h.motor[j], FX!Want(h, j), alone)
  BY <1>7, <1>11, <1>13, <1>14
<1>16. FxAllLoose(h, alone)
  <2>1. \A j \in Sustained : j # k => FxLoose(h.motor[j], alone)
    BY <1>15 DEF FX!Manned, FxLoose
  <2> QED BY <1>9, <1>11, <1>13, <2>1 DEF FxAllLoose
<1>17. g \in FxHolds /\ FxGood(g, alone) /\ FxAlike(g, h) /\ g.queue = h.queue /\ FxStays(g.motor, h.motor)
  BY <1>5, <1>13, <1>15, <1>16, FxTouch
<1>18. FxMore(g, FX!Held) /\ \A j \in Filters : g.level[j] = level[j]
  BY <1>7, <1>13, <1>17 DEF FxMore, FxAlike
<1>19. fxTaps' \in Nat /\ UNCHANGED <<FX!Obs, fxFaults, fxRestarts>>
  BY <1>6, <1>7
<1>20. FxStays(ms, motor)
  BY <1>2, <1>8, <1>11 DEF FxStays
<1>21. FxAside(g) /\ FxQuiets(g)
  BY <1>7, <1>13, <1>17, <1>20, FxStaysOn DEF FxAlike, FxAside, FxQuiets
<1> QED BY <1>1, <1>6, <1>17, <1>18, <1>19, <1>21, FxDecides

LEMMA FxRestarts == ASSUME FX!IInv, FX!FXRestart PROVE FX!IInv' /\ FxStep
<1>1. PICK alone \in BOOLEAN : alone <=> fxRestarts = 0
  OBVIOUS
<1>2. /\ fxRestarts' = fxRestarts + 1 /\ queue' = <<>> /\ apply' = FX!NoLatch
      /\ level' = FX!Recovered(saved.levels) /\ parked' = FX!Recovered(saved.parked)
      /\ motor' = [k \in Sustained |->
                    [slot |-> 0, retiring |-> 0,
                     driver |-> [d \in DOMAIN motor[k].driver |-> [motor[k].driver[d] EXCEPT !.asked = TRUE]]]]
      /\ UNCHANGED <<webcam, saved, item, filter, pose, blind, fxTaps, fxFaults>>
  BY DEF FX!FXRestart, FX!Obs
<1>3. level' \in FxLevels /\ parked' \in FxLevels
  <2>1. saved.levels \in FxLevels /\ saved.parked \in FxLevels
    BY <1>1, FxTyped
  <2> QED BY <1>2, <2>1, FxKinds DEF FX!Recovered, FxLevels
<1>4. ASSUME NEW k \in Sustained
      PROVE  motor'[k] \in FX!Motors /\ \A w : FX!Manned(motor'[k], w, FALSE)
  <2>1. PICK m : m = motor[k]
    OBVIOUS
  <2>2. m \in FX!Motors
    BY <1>1, <2>1, FxTyped
  <2>3. m.driver \in Seq(FX!Drivers) /\ Len(m.driver) \in Nat /\ DOMAIN m.driver = 1..Len(m.driver)
    BY <2>2, FxMotor
  <2>4. \A d \in DOMAIN m.driver : [m.driver[d] EXCEPT !.asked = TRUE] \in FX!Drivers
    BY <2>2, <2>3, FxMotor, FxTold
  <2>5. PICK ds : ds = [d \in DOMAIN m.driver |-> [m.driver[d] EXCEPT !.asked = TRUE]]
    OBVIOUS
  <2>6. ds \in [1..Len(m.driver) -> FX!Drivers]
    BY <2>3, <2>4, <2>5
  <2>7. ds \in Seq(FX!Drivers) /\ Len(ds) \in Nat
    BY <2>3, <2>6, LenProperties
  <2>8. PICK t : t = [slot |-> 0, retiring |-> 0, driver |-> ds]
    OBVIOUS
  <2>9. t \in FX!Motors /\ t.slot = 0 /\ t.retiring = 0
    <3>1. 0 \in Nat /\ 0 <= Len(ds)
      BY <2>7
    <3> QED BY <2>7, <2>8, <3>1, FxMade
  <2>10. motor'[k] = t
    BY <1>2, <2>1, <2>5, <2>8
  <2> QED BY <2>9, <2>10 DEF FX!Manned
<1>5. PICK h : h = [webcam |-> webcam, level |-> level', parked |-> parked', apply |-> apply', motor |-> motor', queue |-> queue']
  OBVIOUS
<1>6. motor' \in [Sustained -> FX!Motors]
  <2>1. \A k \in Sustained : motor'[k] \in FX!Motors
    BY <1>4
  <2>2. PICK ms : ms = [k \in Sustained |->
                    [slot |-> 0, retiring |-> 0,
                     driver |-> [d \in DOMAIN motor[k].driver |-> [motor[k].driver[d] EXCEPT !.asked = TRUE]]]]
    OBVIOUS
  <2>3. motor' = ms
    BY <1>2, <2>2
  <2>4. \A k \in Sustained : ms[k] \in FX!Motors
    BY <2>1, <2>3
  <2>5. ms \in [Sustained -> FX!Motors]
    BY <2>2, <2>4
  <2> QED BY <2>3, <2>5
<1>7. apply' \in [live : BOOLEAN, dirty : BOOLEAN] /\ queue' \in Seq(FX!Effects)
  BY <1>2 DEF FX!NoLatch
<1>8. h \in FxHolds /\ h.motor = motor' /\ FX!Keeps(h)
  <2>1. webcam \in Presets \cup {"unset", "off"}
    BY <1>1, FxTyped
  <2> QED BY <1>2, <1>3, <1>5, <1>6, <1>7, <2>1 DEF FxHolds, FX!Keeps
<1>9. FxGood(h, FALSE)
  BY <1>4, <1>8 DEF FxGood
<1>10. /\ (saved \in [levels : FxLevels, parked : FxLevels])'
       /\ (item \in {"none", "hidden", "shown"} /\ filter \in FxLevels /\ pose \in Presets \cup {"unset"} /\ blind \subseteq FX!Kinds)'
       /\ (fxTaps \in Nat /\ fxFaults \in Nat /\ fxRestarts \in Nat)' /\ (FALSE <=> fxRestarts' = 0) /\ fxFaults' + fxRestarts' # 0
  BY <1>1, <1>2, FxTyped
<1>11. FxStep
  <2>1. FxKeepsSetAside
    BY <1>2 DEF FxKeepsSetAside
  <2>2. ASSUME NEW j \in Sustained, NEW d \in DOMAIN motor[j].driver PROVE motor'[j].driver[d].phase = motor[j].driver[d].phase
    <3>1. PICK x : x = motor[j].driver[d]
      OBVIOUS
    <3>2. x \in FX!Drivers
      BY <3>1, FxDriverIs
    <3>3. motor'[j].driver[d] = [x EXCEPT !.asked = TRUE]
      BY <1>2, <3>1
    <3> QED BY <3>1, <3>2, <3>3, FxTold
  <2>3. FxStaysOff
    BY <2>2 DEF FxStaysOff
  <2> QED BY <2>1, <2>3 DEF FxStep
<1> QED BY <1>8, <1>9, <1>10, <1>11, FxBecomes

LEMMA FxInit == FX!Init => FX!IInv
<1> SUFFICES ASSUME FX!Init PROVE FX!IInv
  OBVIOUS
<1>1. PICK none : none = [slot |-> 0, retiring |-> 0, driver |-> <<>>]
  OBVIOUS
<1>2. none \in FX!Motors /\ none.slot = 0 /\ none.retiring = 0 /\ none.driver = <<>>
  BY <1>1 DEF FX!Motors
<1>3. motor = [k \in Sustained |-> none]
  BY <1>1 DEF FX!Init
<1>4. FX!TypeOK
  BY <1>2, <1>3, FxKinds DEF FX!Init, FX!TypeOK, FX!NoLatch, FxLevels
<1>5. \A k \in Sustained : FX!Manned(motor[k], FX!Want(FX!Held, k), fxRestarts = 0)
  BY <1>2, <1>3 DEF FX!Manned
<1>6. FX!Told
  BY DEF FX!Told, FX!Init
<1> QED BY <1>4, <1>5, <1>6 DEF FX!IInv, FX!Init

LEMMA FxNext == ASSUME FX!IInv, [FX!Next]_FX!vars PROVE FX!IInv' /\ FxStep
<1>1. ASSUME FX!Next PROVE FX!IInv' /\ FxStep
  <2>1. ASSUME NEW k \in FX!Kinds, (\E up \in BOOLEAN : FX!Bump(k, up)) \/ (\E l \in FX!Levels : FX!ScriptCam(k, l)) PROVE FX!IInv' /\ FxStep
    BY <2>1, FxBump, FxScriptCam
  <2>2. ASSUME NEW p \in Presets, FX!Slide(p) \/ FX!CfgWebcam(p) PROVE FX!IInv' /\ FxStep
    BY <2>2, FxSlide, FxCfgWebcam
  <2>3. ASSUME NEW v \in {"unset", "off"}, FX!CfgWebcam(v) PROVE FX!IInv' /\ FxStep
    BY <2>3, FxCfgWebcam
  <2>4. CASE FX!Hide \/ FX!ArmUp \/ FX!RunCam \/ FX!RunMove \/ FX!RunApply \/ FX!RunFails \/ FX!FXRestart
    BY <2>4, FxHide, FxArmUp, FxRunCam, FxRunMove, FxRunApply, FxRunFails, FxRestarts
  <2>5. ASSUME NEW k \in Sustained, NEW d \in DOMAIN motor[k].driver,
               FX!DriverSetup(k, d) \/ FX!DriverNote(k, d) \/ FX!DriverHome(k, d) \/ FX!DriverDies(k, d)
        PROVE  FX!IInv' /\ FxStep
    BY <2>5, FxDriverSetup, FxDriverNote, FxDriverHome, FxDriverDies
  <2>6. ASSUME NEW k \in Sustained, FX!Reap(k) \/ FX!Retired(k) PROVE FX!IInv' /\ FxStep
    BY <2>6, FxReap, FxRetired
  <2> QED BY <1>1, <2>1, <2>2, <2>3, <2>4, <2>5, <2>6 DEF FX!Next
<1>2. ASSUME UNCHANGED FX!vars PROVE FX!IInv' /\ FxStep
  <2>1. FX!IInv'
    BY <1>2 DEF FX!vars, FX!IInv, FX!TypeOK, FX!Told, FX!Want, FX!CamGone, FX!Held, FX!Manned
  <2>2. FxStep
    BY <1>2 DEF FX!vars, FxStep, FxKeepsSetAside, FxStaysOff
  <2> QED BY <2>1, <2>2
<1> QED BY <1>1, <1>2

\* The two promises follow: who is alive is in the slot or being retired, never both, and
\* with nothing queued every filter holds the level of its tile.
LEMMA FxSafe == FX!IInv => CameraSafe
<1> SUFFICES ASSUME FX!IInv PROVE CameraSafe
  OBVIOUS
<1>1. PICK alone \in BOOLEAN : alone <=> fxRestarts = 0
  OBVIOUS
<1>2. motor \in [Sustained -> FX!Motors] /\ \A k \in Sustained : FX!Manned(motor[k], FX!Want(FX!Held, k), alone)
  BY <1>1, FxTyped DEF FxGood
<1>3. FX!OneDriver
  <2> SUFFICES ASSUME alone, NEW k \in Sustained, NEW c \in DOMAIN motor[k].driver, NEW d \in DOMAIN motor[k].driver,
                      motor[k].driver[c].phase # "gone", motor[k].driver[d].phase # "gone"
      PROVE  c = d
    BY <1>1 DEF FX!OneDriver, FX!Alive
  <2>1. PICK m : m = motor[k]
    OBVIOUS
  <2>2. m \in FX!Motors /\ FX!Manned(m, FX!Want(FX!Held, k), alone) /\ c \in DOMAIN m.driver /\ d \in DOMAIN m.driver
    BY <1>2, <2>1
  <2>3. c # 0 /\ d # 0
    BY <2>2, FxMotor
  <2>4. c \in {m.slot, m.retiring} /\ d \in {m.slot, m.retiring} /\ (m.retiring # 0 => m.slot = 0)
    BY <2>1, <2>2 DEF FX!Manned
  <2> QED BY <2>3, <2>4
<1>4. FX!TilesAreTrue
  <2> SUFFICES ASSUME queue = <<>>, fxFaults + fxRestarts = 0
      PROVE  /\ \A k \in Filters \ blind : filter[k] = level[k]
             /\ \A k \in Sustained : motor[k].slot # 0 => motor[k].driver[motor[k].slot].level = level[k]
    BY DEF FX!TilesAreTrue, FX!Quiet
  <2>1. \A k : ~FX!Sent(queue, k)
    BY DEF FX!Sent
  <2>2. \A k \in Filters \ blind : filter[k] = level[k]
    BY <1>1, <2>1, FxTyped DEF FX!Told
  <2>3. ASSUME NEW k \in Sustained, motor[k].slot # 0 PROVE motor[k].driver[motor[k].slot].level = level[k]
    <3>1. motor[k].driver[motor[k].slot].level = FX!Want(FX!Held, k) /\ FX!Want(FX!Held, k) > 0
      BY <1>2, <2>3 DEF FX!Manned
    <3>2. FX!Want(FX!Held, k) # 0
      BY <3>1
    <3>3. FX!Want(FX!Held, k) = level[k]
      BY <3>2 DEF FX!Want, FX!Held
    <3> QED BY <3>1, <3>3
  <2> QED BY <2>2, <2>3
<1> QED BY <1>3, <1>4 DEF CameraSafe, FX!IInv

\* One driver per sustained effect, and tiles that tell the truth, in every reachable state.
THEOREM CameraIsSafe == FX!Spec => []CameraSafe
<1>1. FX!Init => FX!IInv
  BY FxInit
<1>2. FX!IInv /\ [FX!Next]_FX!vars => FX!IInv'
  BY FxNext
<1>3. FX!IInv => CameraSafe
  BY FxSafe
<1> QED BY <1>1, <1>2, <1>3, PTL DEF FX!Spec

\* Setting the camera aside loses no level, and the note of a driver raises none.
THEOREM CameraStepsHold == FX!Spec => FX!ParkingKeeps /\ FX!OffStaysOff
<1>1. FX!Init => FX!IInv
  BY FxInit
<1>2. FX!IInv /\ [FX!Next]_FX!vars => FX!IInv'
  BY FxNext
<1>3. FX!IInv /\ [FX!Next]_FX!vars =>
        [\A k \in Filters : level[k] > 0 /\ level'[k] = 0 /\ webcam' # webcam => parked'[k] = level[k] /\ saved'.parked[k] = level[k]]_FX!vars
  BY FxNext DEF FxStep, FxKeepsSetAside
<1>4. FX!IInv /\ [FX!Next]_FX!vars =>
        [\A j, k \in Sustained : \A d \in DOMAIN motor[j].driver :
           motor[j].driver[d].phase = "note" /\ motor'[j].driver[d].phase = "chunk" /\ level[k] = 0 /\ fxRestarts = 0 => level'[k] = 0]_FX!vars
  BY FxNext DEF FxStep, FxStaysOff
<1> QED BY <1>1, <1>2, <1>3, <1>4, PTL DEF FX!Spec, FX!ParkingKeeps, FX!OffStaysOff

(***************************************************************************)
(* The demo run.                                                           *)
(***************************************************************************)
CONSTANTS Script, GotoWindow, MaxRuns, MaxRunTaps, MaxEdits, MaxRunFaults, MaxRunRestarts, ScriptVerbs, StepIDs, MaxLines
VARIABLES script, file, staged, run, journal, stale, journalErr, gotoOff, queued, refusedRuns, runTaps, edits,
          runFaults, runRestarts
Demo == INSTANCE RenoRun WITH Verbs <- ScriptVerbs, refused <- refusedRuns
ASSUME RunInstance == Demo!RunAssumption

LEMMA DemoFacts ==
  /\ Demo!Versions = 1..Len(Script) /\ Len(Script) \in Nat /\ 0 \notin Demo!Versions
  /\ \A v \in Demo!Versions : /\ Len(Script[v].steps) \in Nat /\ Demo!StepsOf(v) = 1..Len(Script[v].steps)
                              /\ Demo!StepsOf(v) \subseteq Demo!AnyStep /\ Script[v].record \in BOOLEAN
                              /\ Script[v].name # "adhoc" /\ Script[v].name \in Demo!RunNames
                              /\ ~Demo!Broken(v) => Len(Script[v].steps) > 0
  /\ 0 \in Demo!AnyStep /\ Demo!AnyStep \subseteq Nat /\ "adhoc" \in Demo!RunNames
  /\ Demo!Runs \subseteq Nat /\ 0 \notin Demo!Runs /\ MaxRunTaps \in Nat /\ GotoWindow \in Nat \ {0}
<1>1. Script \in Seq([name : STRING, steps : Seq(STRING), record : BOOLEAN])
  BY RunInstance DEF Demo!RunAssumption
<1>2. Len(Script) \in Nat /\ DOMAIN Script = 1..Len(Script)
  BY <1>1, LenProperties
<1>3. ASSUME NEW v \in DOMAIN Script
      PROVE  Script[v].steps \in Seq(STRING) /\ Script[v].record \in BOOLEAN
  <2>1. Script[v] \in [name : STRING, steps : Seq(STRING), record : BOOLEAN]
    BY <1>1, <1>2, <1>3, ElementOfSeq
  <2> QED BY <2>1
<1>4. ASSUME NEW v \in DOMAIN Script
      PROVE  Len(Script[v].steps) \in Nat /\ (Script[v].steps # <<>> => Len(Script[v].steps) > 0)
  BY <1>3, LenProperties, EmptySeq
<1>5. \A v \in DOMAIN Script : Script[v].name # "adhoc"
  BY RunInstance DEF Demo!RunAssumption
<1>6. Demo!Versions = DOMAIN Script
  BY DEF Demo!Versions
<1>7. \A v \in Demo!Versions : Demo!StepsOf(v) = 1..Len(Script[v].steps) /\ Demo!StepsOf(v) \subseteq Demo!AnyStep
  BY DEF Demo!StepsOf, Demo!AnyStep
<1>8. 0 \in Demo!AnyStep /\ Demo!AnyStep \subseteq Nat
  BY <1>4, <1>6, <1>7 DEF Demo!AnyStep
<1>9. Demo!Runs \subseteq Nat /\ 0 \notin Demo!Runs /\ MaxRunTaps \in Nat /\ GotoWindow \in Nat \ {0}
  BY RunInstance DEF Demo!RunAssumption, Demo!Runs
<1> QED BY <1>2, <1>3, <1>4, <1>5, <1>6, <1>7, <1>8, <1>9 DEF Demo!RunNames, Demo!Broken

(* What happens to one run keeps its books.                                  *)

LEMMA KeptMore ==
  ASSUME NEW r, NEW n \in Nat, NEW m \in Nat, n <= m, Demo!Kept(r, n)
  PROVE  Demo!Kept(r, m)
<1>1. r \in Demo!RunStates /\ \A i \in DOMAIN r.visits : r.visits[i] \in Nat
  <2>1. r \in Demo!RunStates /\ r.visits \in Seq(0..MaxRunTaps)
    BY DEF Demo!Kept, Demo!RunStates
  <2>2. DOMAIN r.visits = 1..Len(r.visits) /\ \A i \in 1..Len(r.visits) : r.visits[i] \in 0..MaxRunTaps
    BY <2>1, LenProperties, ElementOfSeq
  <2> QED BY <2>1, <2>2, DemoFacts
<1> QED BY <1>1 DEF Demo!Kept

LEMMA KeptFinished ==
  ASSUME NEW r, NEW n, Demo!Kept(r, n)
  PROVE  Demo!Kept(Demo!Finished(r), n) /\ Demo!Finished(r).id = r.id /\ ~Demo!Finished(r).live /\ Demo!Finished(r).script = r.script
BY DEF Demo!Kept, Demo!Finished, Demo!RunStates

LEMMA KeptRec ==
  ASSUME NEW r, NEW n, Demo!Kept(r, n), NEW s \in {"none", "intent", "failed", "started"}
  PROVE  /\ Demo!Kept([r EXCEPT !.rec = s], n) /\ [r EXCEPT !.rec = s].id = r.id /\ [r EXCEPT !.rec = s].live = r.live
         /\ [r EXCEPT !.rec = s].script = r.script
BY DEF Demo!Kept, Demo!RunStates

LEMMA KeptRecorded ==
  ASSUME NEW r, NEW n \in Nat, r = Demo!NoRun \/ Demo!Kept(r, n), r.live \/ Demo!CanOpen
  PROVE  /\ Demo!Kept(Demo!Recorded(r), n) /\ Demo!Recorded(r).live
         /\ Demo!Recorded(r).id = (IF r.live THEN r.id ELSE Demo!NewID)
         /\ Demo!Recorded(r).script = (IF r.live THEN r.script ELSE 0)
<1>1. CASE r.live
  <2>1. Demo!Kept(r, n) /\ Demo!Recorded(r) = [r EXCEPT !.rec = "intent"]
    BY <1>1 DEF Demo!NoRun, Demo!Recorded
  <2> QED BY <1>1, <2>1, KeptRec
<1>2. CASE ~r.live
  <2>1. Demo!Recorded(r) = [id |-> Demo!NewID, script |-> 0, name |-> "adhoc", live |-> TRUE, cursor |-> 0, visits |-> <<>>,
                            clocks |-> {}, shown |-> FALSE, rec |-> "intent"]
    <3>1. Demo!Recorded(r) = [[Demo!NoRun EXCEPT !.id = Demo!NewID, !.name = "adhoc", !.live = TRUE] EXCEPT !.rec = "intent"]
      BY <1>2 DEF Demo!Recorded
    <3> QED BY <3>1 DEF Demo!NoRun
  <2>2. Demo!NewID \in Demo!Runs /\ <<>> \in Seq(0..MaxRunTaps) /\ DOMAIN <<>> = {}
    BY <1>2 DEF Demo!CanOpen
  <2> QED BY <1>2, <2>1, <2>2, DemoFacts DEF Demo!Kept, Demo!RunStates
<1> QED BY <1>1, <1>2

LEMMA KeptStarted ==
  ASSUME NEW n \in Nat, staged \in Demo!Versions, Demo!CanOpen
  PROVE  /\ Demo!Kept(Demo!Started, n) /\ Demo!Started.live /\ Demo!Started.id = Demo!NewID /\ Demo!Started.script = staged
<1>1. PICK vs : vs = [s \in Demo!StepsOf(staged) |-> 0]
  OBVIOUS
<1>2. vs \in Seq(0..MaxRunTaps) /\ DOMAIN vs = Demo!StepsOf(staged) /\ \A s \in DOMAIN vs : vs[s] = 0
  <2>1. Len(Script[staged].steps) \in Nat /\ Demo!StepsOf(staged) = 1..Len(Script[staged].steps) /\ 0 \in 0..MaxRunTaps
    BY DemoFacts
  <2>2. vs \in [1..Len(Script[staged].steps) -> 0..MaxRunTaps]
    BY <1>1, <2>1
  <2> QED BY <1>1, <2>1, <2>2, SeqDef
<1>3. Demo!Started = [id |-> Demo!NewID, script |-> staged, name |-> Script[staged].name, live |-> TRUE, cursor |-> 0, visits |-> vs,
                      clocks |-> {}, shown |-> FALSE, rec |-> "none"]
  <2>1. Demo!Started = [Demo!NoRun EXCEPT !.id = Demo!NewID, !.script = staged, !.name = Script[staged].name, !.live = TRUE, !.visits = vs]
    BY <1>1 DEF Demo!Started
  <2> QED BY <2>1 DEF Demo!NoRun
<1>4. Demo!NewID \in Demo!Runs
  BY DEF Demo!CanOpen
<1> QED BY <1>2, <1>3, <1>4, DemoFacts DEF Demo!Kept, Demo!RunStates

LEMMA KeptEntered ==
  ASSUME NEW r, NEW n \in Nat, Demo!Kept(r, n), r.live, n + 1 <= MaxRunTaps, NEW to \in DOMAIN r.visits
  PROVE  /\ Demo!Kept(Demo!Entered(r, to), n + 1) /\ Demo!Entered(r, to).live /\ Demo!Entered(r, to).id = r.id
         /\ Demo!Entered(r, to).script = r.script
<1>1. /\ r \in Demo!RunStates /\ r.visits \in Seq(0..MaxRunTaps) /\ r.script # 0 /\ DOMAIN r.visits = Demo!StepsOf(r.script)
      /\ r.script \in Demo!Versions
  BY DEF Demo!Kept, Demo!RunStates
<1>2. DOMAIN r.visits = 1..Len(r.visits) /\ Len(r.visits) \in Nat /\ \A i \in 1..Len(r.visits) : r.visits[i] \in 0..MaxRunTaps
  BY <1>1, LenProperties, ElementOfSeq
<1>3. r.visits[to] <= n /\ r.visits[to] \in Nat /\ r.visits[to] + 1 \in 0..MaxRunTaps
  BY <1>2, DemoFacts DEF Demo!Kept
<1>4. PICK vs : vs = [r.visits EXCEPT ![to] = r.visits[to] + 1]
  OBVIOUS
<1>5. /\ vs \in Seq(0..MaxRunTaps) /\ DOMAIN vs = DOMAIN r.visits
      /\ \A i \in DOMAIN vs : vs[i] = IF i = to THEN r.visits[to] + 1 ELSE r.visits[i]
  BY <1>1, <1>2, <1>3, <1>4, ExceptSeq
<1>6. to \in Demo!AnyStep /\ to > 0
  BY <1>1, DemoFacts
<1>7. (r.clocks \ {r.cursor}) \cup {to} = {to}
  BY DEF Demo!Kept
<1>8. PICK e : e = Demo!Entered(r, to)
  OBVIOUS
<1>9. e = [id |-> r.id, script |-> r.script, name |-> r.name, live |-> r.live, cursor |-> to, visits |-> vs, clocks |-> {to},
           shown |-> TRUE, rec |-> r.rec]
  BY <1>1, <1>4, <1>7, <1>8 DEF Demo!Entered, Demo!RunStates
<1>10. e \in Demo!RunStates
  BY <1>1, <1>5, <1>6, <1>9 DEF Demo!RunStates
<1>11. \A i \in DOMAIN vs : vs[i] <= n + 1 /\ (i = to => vs[i] > 0)
  BY <1>2, <1>3, <1>5 DEF Demo!Kept
<1> QED BY <1>1, <1>5, <1>6, <1>8, <1>9, <1>10, <1>11 DEF Demo!Kept

\* WriteRun, of a run whose books are right.
LEMMA DemoWrites ==
  ASSUME Demo!IInv, NEW r, NEW how \in Demo!Outcomes, Demo!Writes(r, how),
         runTaps' \in Nat, runTaps <= runTaps', Demo!Kept(r, runTaps')
  PROVE  /\ DOMAIN journal' \subseteq Demo!Runs /\ journalErr' \in BOOLEAN /\ runFaults' \in Nat
         /\ \A i \in DOMAIN journal' : Demo!Kept(journal'[i], runTaps') /\ journal'[i].id = i
         /\ \A i \in DOMAIN journal' : i # r.id => i \in DOMAIN journal /\ journal'[i] = journal[i]
         /\ how = "written" => /\ ~journalErr' /\ runFaults' = runFaults
                               /\ r.id \in DOMAIN journal' /\ journal'[r.id] = r
         /\ how # "written" => journalErr' /\ runFaults' # 0
<1>1. /\ DOMAIN journal \subseteq Demo!Runs /\ runFaults \in Nat /\ runTaps \in Nat
      /\ \A i \in DOMAIN journal : Demo!Kept(journal[i], runTaps) /\ journal[i].id = i
  BY DemoFacts DEF Demo!IInv, Demo!Journalled
<1>2. \A i \in DOMAIN journal : Demo!Kept(journal[i], runTaps')
  BY <1>1, KeptMore
<1>3. r.id \in Demo!Runs
  BY DEF Demo!Kept, Demo!RunStates
<1>4. journalErr' = (how # "written") /\ (how = "written" => runFaults' = runFaults) /\ (how # "written" => runFaults' = runFaults + 1)
  BY DEF Demo!Writes
<1>5. CASE how = "lost"
  <2>1. journal' = journal
    BY <1>5 DEF Demo!Writes
  <2>2. \A i \in DOMAIN journal' : Demo!Kept(journal'[i], runTaps') /\ journal'[i].id = i
    BY <1>1, <1>2, <2>1
  <2>3. how # "written" /\ journalErr' = TRUE /\ runFaults' = runFaults + 1
    BY <1>4, <1>5
  <2> QED BY <1>1, <2>1, <2>2, <2>3
<1>6. CASE how # "lost"
  <2>1. journal' = [i \in DOMAIN journal \cup {r.id} |-> IF i = r.id THEN r ELSE journal[i]]
    BY <1>6 DEF Demo!Writes
  <2>2. /\ DOMAIN journal' = DOMAIN journal \cup {r.id} /\ journal'[r.id] = r
        /\ \A i \in DOMAIN journal' : i # r.id => i \in DOMAIN journal /\ journal'[i] = journal[i]
    BY <2>1
  <2>3. PICK j : j = journal'
    OBVIOUS
  <2>4. \A i \in DOMAIN j : Demo!Kept(j[i], runTaps') /\ j[i].id = i
    BY <1>1, <1>2, <2>2, <2>3
  <2>5. CASE how = "written"
    BY <1>1, <1>3, <1>4, <2>2, <2>3, <2>4, <2>5
  <2>6. CASE how # "written"
    <3>1. journalErr' /\ journalErr' \in BOOLEAN
      BY <1>4, <2>6
    <3>2. runFaults' \in Nat /\ runFaults' # 0
      BY <1>1, <1>4, <2>6
    <3>3. DOMAIN journal' \subseteq Demo!Runs
      BY <1>1, <1>3, <2>2
    <3> QED BY <2>2, <2>3, <2>4, <2>6, <3>1, <3>2, <3>3, Zenon
  <2> QED BY <2>5, <2>6
<1> QED BY <1>5, <1>6

\* The run and the journal after a write that stands for the run, or for one that is refused.
LEMMA DemoBooks ==
  ASSUME Demo!IInv, NEW r, NEW how \in Demo!Outcomes, Demo!Writes(r, how),
         runTaps' \in Nat, runTaps <= runTaps', Demo!Kept(r, runTaps'),
         run' = r \/ (how # "written" /\ (run' = Demo!NoRun \/ Demo!Kept(run', runTaps'))),
         r.live \/ r.id = run.id, run.live => r.id = run.id
  PROVE  (run' = Demo!NoRun \/ Demo!Kept(run', runTaps')) /\ Demo!Journalled' /\ journalErr' \in BOOLEAN /\ runFaults' \in Nat
<1>1. /\ DOMAIN journal' \subseteq Demo!Runs /\ journalErr' \in BOOLEAN /\ runFaults' \in Nat
      /\ \A i \in DOMAIN journal' : Demo!Kept(journal'[i], runTaps') /\ journal'[i].id = i
      /\ \A i \in DOMAIN journal' : i # r.id => i \in DOMAIN journal /\ journal'[i] = journal[i]
      /\ how = "written" => /\ ~journalErr' /\ runFaults' = runFaults
                            /\ r.id \in DOMAIN journal' /\ journal'[r.id] = r
      /\ how # "written" => journalErr' /\ runFaults' # 0
  BY DemoWrites
<1>2. Demo!JournalIsTruth'
  BY <1>1 DEF Demo!JournalIsTruth
<1>3. ASSUME runFaults' = 0, NEW i \in DOMAIN journal', journal'[i].live PROVE run'.live /\ i = run'.id
  <2>1. how = "written" /\ run' = r /\ runFaults = 0
    BY <1>1, <1>3
  <2>2. CASE i = r.id
    BY <1>1, <1>3, <2>1, <2>2
  <2>3. CASE i # r.id
    <3>1. i \in DOMAIN journal /\ journal[i].live
      BY <1>1, <1>3, <2>3
    <3>2. run.live /\ i = run.id
      BY <2>1, <3>1 DEF Demo!IInv, Demo!Journalled
    <3> QED BY <2>3, <3>2
  <2> QED BY <2>2, <2>3
<1> QED BY <1>1, <1>2, <1>3 DEF Demo!Journalled

LEMMA DemoTyped ==
  ASSUME Demo!IInv
  PROVE  /\ run.live => Demo!Kept(run, runTaps) /\ run # Demo!NoRun
         /\ runTaps \in Nat /\ runTaps <= MaxRunTaps /\ runFaults \in Nat /\ runRestarts \in Nat
         /\ ~run.live => queued = <<>>
         /\ staged = 0 \/ staged \in Demo!Versions
<1>1. queued \in Seq([run : Demo!Runs, step : Demo!AnyStep, version : {0} \cup Demo!Versions])
  BY DEF Demo!IInv, Demo!Queued
<1>2. ~run.live => queued = <<>>
  <2>1. DOMAIN queued = 1..Len(queued) /\ Len(queued) \in Nat
    BY <1>1, LenProperties
  <2>2. ~run.live => DOMAIN queued = {}
    BY DEF Demo!IInv, Demo!Queued
  <2>3. DOMAIN queued = {} => queued = <<>>
    <3>1. DOMAIN queued = {} => Len(queued) = 0
      BY <2>1
    <3> QED BY <1>1, <3>1, EmptySeq
  <2> QED BY <2>2, <2>3
<1> QED BY <1>2, DemoFacts DEF Demo!IInv, Demo!NoRun, Demo!Staged

Tapping == runTaps' \in 0..MaxRunTaps /\ runTaps <= runTaps' /\ runTaps' \in Nat
LEMMA DemoTapped == ASSUME Demo!IInv, Demo!Tapped PROVE Tapping /\ runTaps' = runTaps + 1
BY DemoFacts DEF Demo!IInv, Demo!Tapped, Tapping

\* A boundary leaves nothing queued.
LEMMA DemoBoundary == ASSUME Demo!Boundary PROVE Demo!Queued'
BY DEF Demo!Boundary, Demo!Queued

LEMMA DemoEnd ==
  ASSUME Demo!IInv, Demo!Tapped, run.live, NEW how \in Demo!Outcomes, Demo!End(how)
  PROVE  /\ (run' = Demo!NoRun \/ Demo!Kept(run', runTaps')) /\ Demo!Journalled' /\ journalErr' \in BOOLEAN /\ runFaults' \in Nat
         /\ Demo!Queued' /\ ~run'.live /\ stale' = FALSE
<1>1. Tapping
  BY DemoTapped
<1>2. Demo!Kept(run, runTaps')
  BY <1>1, DemoTyped, KeptMore DEF Tapping
<1>3. PICK r : r = Demo!Finished(run)
  OBVIOUS
<1>4. Demo!Kept(r, runTaps') /\ r.id = run.id /\ ~r.live
  BY <1>2, <1>3, KeptFinished
<1>5. run' = r /\ Demo!Writes(r, how) /\ stale' = FALSE /\ Demo!Boundary
  BY <1>3 DEF Demo!End
<1> QED BY <1>1, <1>4, <1>5, DemoBooks, DemoBoundary DEF Tapping

LEMMA DemoStopRun == ASSUME Demo!IInv, NEW how \in Demo!Outcomes, Demo!StopRun(how) PROVE Demo!IInv'
<1>1. Demo!Tapped /\ run.live /\ Demo!End(how) /\ UNCHANGED <<file, staged, gotoOff, refusedRuns, edits, runRestarts>>
  BY DEF Demo!StopRun
<1>2. /\ (run' = Demo!NoRun \/ Demo!Kept(run', runTaps')) /\ Demo!Journalled' /\ journalErr' \in BOOLEAN /\ runFaults' \in Nat
      /\ Demo!Queued' /\ ~run'.live /\ stale' = FALSE
  BY <1>1, DemoEnd
<1>3. Demo!Staged'
  BY <1>1, <1>2 DEF Demo!Staged, Demo!IInv
<1> QED BY <1>1, <1>2, <1>3, DemoTapped DEF Demo!IInv, Tapping

LEMMA DemoLoad ==
  ASSUME Demo!IInv, NEW replace \in BOOLEAN, NEW how \in Demo!Outcomes, Demo!Load(replace, how)
  PROVE  Demo!IInv'
<1>1. /\ Demo!Tapped /\ ~Demo!Broken(file) /\ staged' = file /\ gotoOff' = 0 /\ UNCHANGED <<file, refusedRuns, edits, runRestarts>>
      /\ \/ run.live /\ Demo!End(how)
         \/ ~run.live /\ stale' = FALSE /\ UNCHANGED <<run, journal, journalErr, queued, runFaults>>
  BY DEF Demo!Load
<1>2. Tapping
  BY <1>1, DemoTapped
<1>3. CASE run.live /\ Demo!End(how)
  <2>1. /\ (run' = Demo!NoRun \/ Demo!Kept(run', runTaps')) /\ Demo!Journalled' /\ journalErr' \in BOOLEAN /\ runFaults' \in Nat
        /\ Demo!Queued' /\ ~run'.live /\ stale' = FALSE
    BY <1>1, <1>3, DemoEnd
  <2>2. Demo!Staged'
    BY <1>1, <2>1 DEF Demo!Staged, Demo!IInv, Demo!Broken
  <2>3. stale' \in BOOLEAN /\ gotoOff' \in Int /\ refusedRuns' \subseteq Demo!Runs /\ runRestarts' \in Nat
    <3>1. gotoOff' = 0 /\ refusedRuns' = refusedRuns /\ runRestarts' = runRestarts
      BY <1>1
    <3>2. refusedRuns \subseteq Demo!Runs /\ runRestarts \in Nat
      BY DEF Demo!IInv
    <3>3. gotoOff' \in Int
      BY <3>1
    <3> QED BY <2>1, <3>1, <3>2, <3>3, Zenon
  <2> QED BY <1>2, <2>1, <2>2, <2>3 DEF Demo!IInv, Tapping
<1>4. CASE ~run.live /\ stale' = FALSE /\ UNCHANGED <<run, journal, journalErr, queued, runFaults>>
  <2>1. run' = Demo!NoRun \/ Demo!Kept(run', runTaps')
    BY <1>2, <1>4, KeptMore DEF Demo!IInv, Tapping
  <2>2. Demo!Staged'
    BY <1>1, <1>4 DEF Demo!Staged, Demo!IInv, Demo!Broken
  <2>3. Demo!Journalled' /\ Demo!Queued'
    BY <1>2, <1>4, KeptMore DEF Demo!Journalled, Demo!Queued, Demo!JournalIsTruth, Demo!IInv, Tapping
  <2>4. /\ stale' \in BOOLEAN /\ gotoOff' \in Int /\ refusedRuns' \subseteq Demo!Runs /\ runRestarts' \in Nat
        /\ journalErr' \in BOOLEAN /\ runFaults' \in Nat
    <3>1. /\ gotoOff' = 0 /\ refusedRuns' = refusedRuns /\ runRestarts' = runRestarts
          /\ stale' = FALSE /\ journalErr' = journalErr /\ runFaults' = runFaults
      BY <1>1, <1>4
    <3>2. refusedRuns \subseteq Demo!Runs /\ runRestarts \in Nat /\ journalErr \in BOOLEAN /\ runFaults \in Nat
      BY DEF Demo!IInv
    <3>3. gotoOff' \in Int
      BY <3>1
    <3> QED BY <3>1, <3>2, <3>3, Zenon
  <2> QED BY <1>2, <2>1, <2>2, <2>3, <2>4 DEF Demo!IInv, Tapping
<1> QED BY <1>1, <1>3, <1>4

LEMMA DemoStart == ASSUME Demo!IInv, NEW how \in Demo!Outcomes, Demo!Start(how) PROVE Demo!IInv'
<1>1. /\ Demo!Tapped /\ staged # 0 /\ ~run.live /\ Demo!CanOpen /\ Demo!Writes(Demo!Started, how) /\ stale' = FALSE
      /\ UNCHANGED <<file, staged, gotoOff, edits, runRestarts>>
      /\ IF how = "written" THEN run' = Demo!Started /\ Demo!Boundary /\ UNCHANGED refusedRuns
         ELSE run' = Demo!NoRun /\ refusedRuns' = refusedRuns \cup {Demo!NewID} /\ UNCHANGED queued
  BY DEF Demo!Start
<1>2. Tapping /\ staged \in Demo!Versions
  BY <1>1, DemoTapped, DemoTyped
<1>3. PICK r : r = Demo!Started
  OBVIOUS
<1>4. Demo!Kept(r, runTaps') /\ r.live /\ r.id = Demo!NewID /\ r.script = staged
  BY <1>1, <1>2, <1>3, KeptStarted DEF Tapping
<1>5. Demo!Writes(r, how) /\ (run' = r \/ (how # "written" /\ run' = Demo!NoRun)) /\ (how = "written" => run' = r)
  BY <1>1, <1>3
<1>6. (run' = Demo!NoRun \/ Demo!Kept(run', runTaps')) /\ Demo!Journalled' /\ journalErr' \in BOOLEAN /\ runFaults' \in Nat
  BY <1>1, <1>2, <1>4, <1>5, DemoBooks DEF Tapping
<1>7. Demo!Queued'
  <2>1. CASE how = "written"
    BY <1>1, <2>1, DemoBoundary
  <2>2. CASE how # "written"
    <3>1. queued' = <<>>
      BY <1>1, <2>2, DemoTyped
    <3> QED BY <3>1 DEF Demo!Queued
  <2> QED BY <2>1, <2>2
<1>8. refusedRuns' \subseteq Demo!Runs
  BY <1>1 DEF Demo!CanOpen, Demo!IInv
<1>9. Demo!Staged'
  BY <1>1, <1>4, <1>5 DEF Demo!Staged, Demo!IInv, Demo!NoRun, Demo!Broken
<1> QED BY <1>1, <1>2, <1>6, <1>7, <1>8, <1>9 DEF Demo!IInv, Tapping

\* What an effect is, and a queue of effects of one run and one script.
RunEffects == [run : Demo!Runs, step : Demo!AnyStep, version : {0} \cup Demo!Versions]
OwnQueue(q, id, ver) == q \in Seq(RunEffects) /\ \A i \in DOMAIN q : q[i].run = id /\ q[i].version = ver

LEMMA DemoAppended ==
  ASSUME NEW q, NEW id, NEW ver, OwnQueue(q, id, ver), NEW e \in RunEffects, e.run = id, e.version = ver
  PROVE  OwnQueue(Append(q, e), id, ver)
<1>1. q \in Seq(RunEffects)
  BY DEF OwnQueue
<1>2. /\ Append(q, e) \in Seq(RunEffects) /\ Len(Append(q, e)) = Len(q) + 1 /\ Len(q) \in Nat
      /\ Append(q, e)[Len(q) + 1] = e /\ \A i \in 1..Len(q) : Append(q, e)[i] = q[i]
  BY <1>1, AppendProperties, LenProperties
<1>3. DOMAIN Append(q, e) = 1..(Len(q) + 1) /\ DOMAIN q = 1..Len(q)
  BY <1>1, <1>2, LenProperties
<1>4. PICK a : a = Append(q, e)
  OBVIOUS
<1>5. ASSUME NEW i \in DOMAIN a PROVE a[i].run = id /\ a[i].version = ver
  <2>1. CASE i \in 1..Len(q)
    BY <1>2, <1>3, <1>4, <2>1 DEF OwnQueue
  <2>2. CASE i = Len(q) + 1
    BY <1>2, <1>4, <2>2
  <2> QED BY <1>2, <1>3, <1>4, <1>5, <2>1, <2>2
<1> QED BY <1>2, <1>4, <1>5 DEF OwnQueue

LEMMA DemoOwn ==
  ASSUME Demo!IInv, run.live
  PROVE  OwnQueue(queued, run.id, run.script)
BY DEF Demo!IInv, Demo!Queued, OwnQueue, RunEffects

LEMMA DemoFresh == ASSUME NEW id, NEW ver PROVE OwnQueue(<<>>, id, ver)
BY DEF OwnQueue

LEMMA DemoTapRecord == ASSUME Demo!IInv, NEW how \in Demo!Outcomes, Demo!TapRecord(how) PROVE Demo!IInv'
<1>1. /\ Demo!Tapped /\ (run.live \/ Demo!CanOpen) /\ Demo!Writes(Demo!Recorded(run), how)
      /\ UNCHANGED <<file, staged, gotoOff, edits, runRestarts>> /\ stale' = (run.live /\ stale)
      /\ IF how = "written"
         THEN run' = Demo!Recorded(run) /\ queued' = Append(queued, Demo!RecordEffect(run')) /\ UNCHANGED refusedRuns
         ELSE refusedRuns' = (IF run.live THEN refusedRuns ELSE refusedRuns \cup {Demo!NewID}) /\ UNCHANGED <<run, queued>>
  BY DEF Demo!TapRecord
<1>2. Tapping
  BY <1>1, DemoTapped
<1>3. run = Demo!NoRun \/ Demo!Kept(run, runTaps')
  BY <1>2, KeptMore DEF Tapping, Demo!IInv
<1>4. PICK r : r = Demo!Recorded(run)
  OBVIOUS
<1>5. /\ Demo!Kept(r, runTaps') /\ r.live /\ r.id = (IF run.live THEN run.id ELSE Demo!NewID)
      /\ r.script = (IF run.live THEN run.script ELSE 0)
  BY <1>1, <1>2, <1>3, <1>4, KeptRecorded DEF Tapping
<1>6. Demo!Writes(r, how) /\ (run' = r \/ (how # "written" /\ run' = run)) /\ (how = "written" => run' = r)
  BY <1>1, <1>4
<1>7. (run' = Demo!NoRun \/ Demo!Kept(run', runTaps')) /\ Demo!Journalled' /\ journalErr' \in BOOLEAN /\ runFaults' \in Nat
  <2>1. run' = r \/ (how # "written" /\ (run' = Demo!NoRun \/ Demo!Kept(run', runTaps')))
    BY <1>3, <1>6
  <2>2. r.live /\ (run.live => r.id = run.id)
    BY <1>5
  <2> QED BY <1>2, <1>5, <1>6, <2>1, <2>2, DemoBooks DEF Tapping
<1>8. Demo!Queued'
  <2>1. CASE how = "written"
    <3>1. run' = r /\ queued' = Append(queued, Demo!RecordEffect(r))
      BY <1>1, <1>6, <2>1
    <3>2. Demo!RecordEffect(r) \in RunEffects /\ Demo!RecordEffect(r).run = r.id /\ Demo!RecordEffect(r).version = r.script
      <4>1. r.id \in Demo!Runs /\ r.script \in {0} \cup Demo!Versions
        BY <1>5 DEF Demo!Kept, Demo!RunStates
      <4> QED BY <4>1, DemoFacts DEF Demo!RecordEffect, RunEffects
    <3>3. OwnQueue(queued, r.id, r.script)
      <4>1. CASE run.live
        BY <1>5, <4>1, DemoOwn
      <4>2. CASE ~run.live
        BY <4>2, DemoTyped, DemoFresh
      <4> QED BY <4>1, <4>2
    <3>4. OwnQueue(queued', r.id, r.script)
      BY <3>1, <3>2, <3>3, DemoAppended
    <3> QED BY <1>5, <3>1, <3>4 DEF OwnQueue, RunEffects, Demo!Queued
  <2>2. CASE how # "written"
    <3>1. UNCHANGED <<run, queued>>
      BY <1>1, <2>2
    <3> QED BY <3>1 DEF Demo!IInv, Demo!Queued
  <2> QED BY <2>1, <2>2
<1>9. refusedRuns' \subseteq Demo!Runs
  BY <1>1 DEF Demo!CanOpen, Demo!IInv
<1>10. stale' \in BOOLEAN /\ (~run.live => ~stale') /\ (run.live => stale' = stale)
  BY <1>1 DEF Demo!IInv
<1>11. Demo!Staged'
  <2>1. /\ file \in Demo!Versions /\ staged \in {0} \cup Demo!Versions /\ (staged # 0 => ~Demo!Broken(staged))
        /\ (run.live /\ staged # 0 => run.script \in {0, staged} /\ ~stale)
    BY DEF Demo!IInv, Demo!Staged
  <2>2. file' = file /\ staged' = staged
    BY <1>1
  <2>3. run'.live /\ staged # 0 => run'.script \in {0, staged} /\ ~stale'
    BY <1>5, <1>6, <1>10, <2>1
  <2> QED BY <2>1, <2>2, <2>3 DEF Demo!Staged, Demo!Broken
<1> QED
  <2>1. gotoOff' = gotoOff /\ runRestarts' = runRestarts /\ gotoOff \in Int /\ runRestarts \in Nat
    BY <1>1 DEF Demo!IInv
  <2> QED BY <1>2, <1>7, <1>8, <1>9, <1>10, <1>11, <2>1 DEF Demo!IInv, Tapping

\* The run whose script is walked is the run of the staged script.
LEMMA DemoVetted ==
  ASSUME Demo!IInv, run.live, staged # 0, run.name = Script[staged].name
  PROVE  /\ staged \in Demo!Versions /\ run.script = staged /\ DOMAIN run.visits = Demo!StepsOf(staged)
         /\ Demo!Kept(run, runTaps) /\ ~stale
<1>1. staged \in Demo!Versions /\ run.script \in {0, staged} /\ ~stale
  BY DEF Demo!IInv, Demo!Staged
<1>2. Demo!Kept(run, runTaps)
  BY DemoTyped
<1>3. run.script # 0
  BY <1>1, <1>2, DemoFacts DEF Demo!Kept
<1> QED BY <1>1, <1>2, <1>3 DEF Demo!Kept

LEMMA DemoMove ==
  ASSUME Demo!IInv, NEW to, NEW how \in Demo!Outcomes, Demo!Move(to, how)
  PROVE  Demo!IInv'
<1>1. /\ Demo!Tapped /\ Demo!MayEnter(to) /\ gotoOff' = 0
      /\ file' = file /\ staged' = staged /\ stale' = stale /\ refusedRuns' = refusedRuns /\ runRestarts' = runRestarts
  BY DEF Demo!Move
<1>2. Tapping /\ runTaps' = runTaps + 1
  BY <1>1, DemoTapped
<1>3. run.live /\ staged # 0 /\ ~stale /\ run.name = Script[staged].name /\ to \in Demo!StepsOf(staged)
  BY <1>1 DEF Demo!MayEnter
<1>4. staged \in Demo!Versions /\ run.script = staged /\ to \in DOMAIN run.visits /\ Demo!Kept(run, runTaps)
  BY <1>3, DemoVetted
<1>5. runTaps \in Nat /\ runTaps + 1 <= MaxRunTaps
  BY <1>2, DemoTyped, DemoFacts DEF Tapping
<1>6. PICK m : m = Demo!Entered(run, to)
  OBVIOUS
<1>7. Demo!Kept(m, runTaps') /\ m.live /\ m.id = run.id /\ m.script = staged
  BY <1>2, <1>3, <1>4, <1>5, <1>6, KeptEntered
<1>8. PICK r : r = Demo!Recorded(m)
  OBVIOUS
<1>9. Demo!Kept(r, runTaps') /\ r.live /\ r.id = run.id /\ r.script = staged
  BY <1>2, <1>7, <1>8, KeptRecorded DEF Tapping
<1>10. \/ /\ Demo!Writes(r, how)
          /\ IF how = "written"
             THEN run' = r /\ queued' = queued \o <<Demo!RecordEffect(m), Demo!StepEffect(m, to)>>
             ELSE run' = m /\ queued' = Append(queued, Demo!StepEffect(m, to))
       \/ Demo!Writes(m, how) /\ run' = m /\ queued' = Append(queued, Demo!StepEffect(m, to))
  BY <1>6, <1>8 DEF Demo!Move
<1>11. (run' = Demo!NoRun \/ Demo!Kept(run', runTaps')) /\ Demo!Journalled' /\ journalErr' \in BOOLEAN /\ runFaults' \in Nat
  <2>1. CASE Demo!Writes(r, how) /\ (run' = r \/ (how # "written" /\ run' = m))
    BY <1>2, <1>7, <1>9, <2>1, DemoBooks DEF Tapping
  <2>2. CASE Demo!Writes(m, how) /\ run' = m
    BY <1>2, <1>7, <2>2, DemoBooks DEF Tapping
  <2> QED BY <1>10, <2>1, <2>2
<1>12. run'.live /\ run'.id = run.id /\ run'.script = staged
  BY <1>7, <1>9, <1>10
<1>13. OwnQueue(queued, run.id, staged)
  BY <1>3, <1>4, DemoOwn
<1>14. /\ Demo!StepEffect(m, to) \in RunEffects /\ Demo!StepEffect(m, to).run = run.id /\ Demo!StepEffect(m, to).version = staged
       /\ Demo!RecordEffect(m) \in RunEffects /\ Demo!RecordEffect(m).run = run.id /\ Demo!RecordEffect(m).version = staged
  <2>1. run.id \in Demo!Runs /\ to \in Demo!AnyStep
    BY <1>3, <1>4, DemoFacts DEF Demo!Kept, Demo!RunStates
  <2> QED BY <1>4, <1>7, <2>1, DemoFacts DEF Demo!StepEffect, Demo!RecordEffect, RunEffects
<1>15. Demo!Queued'
  <2>1. OwnQueue(Append(queued, Demo!StepEffect(m, to)), run.id, staged)
    BY <1>13, <1>14, DemoAppended
  <2>2. OwnQueue(Append(Append(queued, Demo!RecordEffect(m)), Demo!StepEffect(m, to)), run.id, staged)
    BY <1>13, <1>14, DemoAppended
  <2>3. queued \o <<Demo!RecordEffect(m), Demo!StepEffect(m, to)>> = Append(Append(queued, Demo!RecordEffect(m)), Demo!StepEffect(m, to))
    <3>1. queued \in Seq(RunEffects) /\ Demo!RecordEffect(m) \in RunEffects /\ Demo!StepEffect(m, to) \in RunEffects
      BY <1>13, <1>14 DEF OwnQueue
    <3> HIDE DEF RunEffects
    <3>2. \A q \in Seq(RunEffects), a, b \in RunEffects : q \o <<a, b>> = Append(Append(q, a), b)
      OBVIOUS
    <3> QED BY <3>1, <3>2
  <2>4. OwnQueue(queued', run.id, staged)
    BY <1>10, <2>1, <2>2, <2>3
  <2> QED BY <1>12, <2>4 DEF OwnQueue, RunEffects, Demo!Queued
<1>16. Demo!Staged'
  BY <1>1, <1>3, <1>12 DEF Demo!Staged, Demo!IInv, Demo!Broken
<1> QED
  <2>1. gotoOff' \in Int /\ refusedRuns \subseteq Demo!Runs /\ runRestarts \in Nat /\ stale \in BOOLEAN
    BY <1>1 DEF Demo!IInv
  <2> QED BY <1>1, <1>2, <1>11, <1>15, <1>16, <2>1 DEF Demo!IInv, Tapping

\* A step that leaves the runs, the journal and the queue alone.
LEMMA DemoIdle ==
  ASSUME Demo!IInv, UNCHANGED <<run, staged, journal, stale, journalErr, queued, refusedRuns, runFaults, runRestarts>>,
         file' \in Demo!Versions, gotoOff' \in Int, Tapping
  PROVE  Demo!IInv'
<1>1. run' = Demo!NoRun \/ Demo!Kept(run', runTaps')
  BY KeptMore DEF Demo!IInv, Tapping
<1>2. Demo!Staged'
  BY DEF Demo!Staged, Demo!IInv, Demo!Broken
<1>3. Demo!Queued'
  BY DEF Demo!Queued, Demo!IInv
<1>4. Demo!Journalled'
  <2>1. DOMAIN journal \subseteq Demo!Runs /\ \A r \in DOMAIN journal : Demo!Kept(journal[r], runTaps) /\ journal[r].id = r
    BY DEF Demo!Journalled, Demo!IInv
  <2>2. \A r \in DOMAIN journal : Demo!Kept(journal[r], runTaps')
    BY <2>1, KeptMore DEF Tapping, Demo!IInv
  <2> QED BY <2>1, <2>2 DEF Demo!Journalled, Demo!JournalIsTruth, Demo!IInv
<1> QED BY <1>1, <1>2, <1>3, <1>4 DEF Demo!IInv, Tapping

LEMMA DemoPage == ASSUME Demo!IInv, NEW d \in {-1, 1}, Demo!Page(d) PROVE Demo!IInv'
<1>1. /\ Demo!Tapped /\ gotoOff' = gotoOff + d * GotoWindow
      /\ UNCHANGED <<file, staged, run, journal, stale, journalErr, queued, refusedRuns, edits, runFaults, runRestarts>>
  BY DEF Demo!Page
<1>2. gotoOff \in Int /\ file \in Demo!Versions
  BY DEF Demo!IInv, Demo!Staged
<1>3. gotoOff' \in Int
  BY <1>1, <1>2, DemoFacts
<1> QED BY <1>1, <1>2, <1>3, DemoTapped, DemoIdle

LEMMA DemoStill ==
  ASSUME Demo!IInv, UNCHANGED runTaps
  PROVE  Tapping
BY DemoFacts DEF Demo!IInv, Tapping

LEMMA DemoEditScript == ASSUME Demo!IInv, NEW v \in Demo!Versions, Demo!EditScript(v) PROVE Demo!IInv'
<1>1. /\ file' = v
      /\ UNCHANGED <<staged, run, journal, stale, journalErr, gotoOff, queued, refusedRuns, runTaps, runFaults, runRestarts>>
  BY DEF Demo!EditScript
<1>2. gotoOff \in Int
  BY DEF Demo!IInv
<1> QED BY <1>1, <1>2, DemoStill, DemoIdle

LEMMA DemoFire == ASSUME Demo!IInv, Demo!Fire PROVE Demo!IInv'
<1>1. /\ queued # <<>> /\ queued' = Tail(queued)
      /\ UNCHANGED <<file, staged, stale, gotoOff, refusedRuns, runTaps, edits, runRestarts>>
      /\ \/ run.rec = "intent" /\ \E s \in {"started", "failed"} : run' = [run EXCEPT !.rec = s] /\ Demo!Writes(run', "written")
         \/ UNCHANGED <<run, journal, journalErr, runFaults>>
  BY DEF Demo!Fire
<1>2. Tapping /\ run.live
  BY <1>1, DemoStill, DemoTyped
<1>3. OwnQueue(queued', run.id, run.script)
  <2>1. OwnQueue(queued, run.id, run.script)
    BY <1>2, DemoOwn
  <2>2. queued \in Seq(RunEffects)
    BY <2>1 DEF OwnQueue
  <2>3. /\ Tail(queued) \in Seq(RunEffects) /\ Len(Tail(queued)) = Len(queued) - 1 /\ Len(queued) \in Nat
        /\ \A i \in 1..Len(Tail(queued)) : Tail(queued)[i] = queued[i + 1]
    BY <1>1, <2>2, HeadTailProperties, LenProperties
  <2>4. DOMAIN Tail(queued) = 1..(Len(queued) - 1) /\ DOMAIN queued = 1..Len(queued)
    BY <2>2, <2>3, LenProperties
  <2>5. PICK a : a = Tail(queued)
    OBVIOUS
  <2>6. ASSUME NEW i \in DOMAIN a PROVE a[i].run = run.id /\ a[i].version = run.script
    <3>1. i + 1 \in DOMAIN queued /\ a[i] = queued[i + 1]
      BY <2>3, <2>4, <2>5, <2>6
    <3> QED BY <2>1, <3>1 DEF OwnQueue
  <2> QED BY <1>1, <2>3, <2>5, <2>6 DEF OwnQueue
<1>4. /\ (run' = Demo!NoRun \/ Demo!Kept(run', runTaps')) /\ Demo!Journalled' /\ journalErr' \in BOOLEAN /\ runFaults' \in Nat
      /\ run'.live = run.live /\ run'.id = run.id /\ run'.script = run.script
  <2>1. CASE run.rec = "intent" /\ \E s \in {"started", "failed"} : run' = [run EXCEPT !.rec = s] /\ Demo!Writes(run', "written")
    <3>1. PICK s \in {"started", "failed"} : run' = [run EXCEPT !.rec = s] /\ Demo!Writes(run', "written")
      BY <2>1
    <3>2. Demo!Kept(run, runTaps')
      BY <1>2, DemoTyped, KeptMore DEF Tapping
    <3>3. PICK r : r = [run EXCEPT !.rec = s]
      OBVIOUS
    <3>4. Demo!Kept(r, runTaps') /\ r.id = run.id /\ r.live = run.live /\ r.script = run.script
      BY <3>2, <3>3, KeptRec
    <3>5. run' = r /\ Demo!Writes(r, "written") /\ "written" \in Demo!Outcomes
      BY <3>1, <3>3 DEF Demo!Outcomes
    <3> QED BY <1>2, <3>4, <3>5, DemoBooks DEF Tapping
  <2>2. CASE UNCHANGED <<run, journal, journalErr, runFaults>>
    BY <1>1, <2>2 DEF Demo!IInv, Demo!Journalled, Demo!JournalIsTruth
  <2> QED BY <1>1, <2>1, <2>2
<1>5. Demo!Queued'
  BY <1>2, <1>3, <1>4 DEF OwnQueue, RunEffects, Demo!Queued
<1>6. Demo!Staged'
  BY <1>1, <1>4 DEF Demo!Staged, Demo!IInv, Demo!Broken
<1> QED BY <1>1, <1>2, <1>4, <1>5, <1>6 DEF Demo!IInv, Tapping

\* The greatest of finitely many numbers.
LEMMA GreatestOf ==
  ASSUME NEW S, NEW n \in Nat, S \subseteq 0..n, S # {}
  PROVE  Demo!Max(S) \in S /\ \A x \in S : x <= Demo!Max(S)
<1>1. PICK T : T = {n - x : x \in S}
  OBVIOUS
<1>2. T \subseteq Nat /\ T # {}
  <2>1. \A x \in S : n - x \in Nat
    OBVIOUS
  <2>2. \A t \in T : \E x \in S : t = n - x
    BY <1>1
  <2>3. \E x \in S : n - x \in T
    BY <1>1
  <2> QED BY <2>1, <2>2, <2>3
<1>3. PICK k \in T : \A m \in T : k <= m
  BY <1>2, LeastNat
<1>4. PICK y \in S : k = n - y
  BY <1>1, <1>3
<1>5. ASSUME NEW x \in S PROVE x <= y
  <2>1. n - x \in T
    BY <1>1
  <2>2. n - y <= n - x /\ x \in 0..n /\ y \in 0..n
    BY <1>3, <1>4, <1>5, <2>1
  <2> QED BY <2>2
<1>6. \E z \in S : \A x \in S : z >= x
  BY <1>4, <1>5
<1>7. Demo!Max(S) \in S /\ \A x \in S : Demo!Max(S) >= x
  BY <1>6 DEF Demo!Max
<1> QED BY <1>7

LEMMA DemoLatest ==
  ASSUME Demo!IInv, Demo!Recoverable # {}
  PROVE  Demo!Max(Demo!Recoverable) \in Demo!Recoverable /\ \A r \in Demo!Recoverable : r <= Demo!Max(Demo!Recoverable)
<1>1. Demo!Recoverable \subseteq Demo!Runs
  BY DEF Demo!Recoverable, Demo!IInv, Demo!Journalled
<1>2. MaxRuns \in Nat /\ Demo!Runs = 1..MaxRuns
  BY RunInstance DEF Demo!RunAssumption, Demo!Runs
<1>3. Demo!Recoverable \subseteq 0..MaxRuns
  BY <1>1, <1>2
<1> QED BY <1>2, <1>3, GreatestOf

LEMMA DemoRestart == ASSUME Demo!IInv, Demo!Restart PROVE Demo!IInv'
<1>1. /\ runRestarts' = runRestarts + 1
      /\ run' = (IF Demo!Recoverable = {} THEN Demo!NoRun ELSE journal[Demo!Max(Demo!Recoverable)])
      /\ staged' = (IF Demo!Restages(run') THEN file ELSE 0) /\ stale' = (run'.script # 0 /\ ~Demo!Restages(run'))
      /\ \E old \in SUBSET {r \in DOMAIN journal : ~journal[r].live} : journal' = [r \in DOMAIN journal \ old |-> journal[r]]
      /\ journalErr' = FALSE /\ gotoOff' = 0 /\ queued' = <<>>
      /\ file' = file /\ refusedRuns' = refusedRuns /\ runTaps' = runTaps /\ runFaults' = runFaults
  BY DEF Demo!Restart
<1>2. /\ DOMAIN journal \subseteq Demo!Runs /\ \A r \in DOMAIN journal : Demo!Kept(journal[r], runTaps) /\ journal[r].id = r
      /\ runFaults = 0 => \A r \in DOMAIN journal : journal[r].live => run.live /\ r = run.id
  BY DEF Demo!IInv, Demo!Journalled
<1>3. \/ Demo!Recoverable = {} /\ run' = Demo!NoRun
      \/ \E m \in DOMAIN journal : journal[m].live /\ run' = journal[m] /\ \A r \in Demo!Recoverable : r <= m
  BY <1>1, DemoLatest DEF Demo!Recoverable
<1>4. run' = Demo!NoRun \/ Demo!Kept(run', runTaps')
  BY <1>1, <1>2, <1>3
<1>5. PICK old \in SUBSET {r \in DOMAIN journal : ~journal[r].live} : journal' = [r \in DOMAIN journal \ old |-> journal[r]]
  BY <1>1
<1>6. PICK j : j = journal'
  OBVIOUS
<1>7. /\ DOMAIN j = DOMAIN journal \ old /\ \A r \in DOMAIN j : r \in DOMAIN journal /\ j[r] = journal[r]
      /\ \A r \in DOMAIN journal : journal[r].live => r \in DOMAIN j
  BY <1>5, <1>6
<1>8. Demo!Journalled'
  <2>1. Demo!JournalIsTruth'
    <3>1. CASE run' = Demo!NoRun
      BY <3>1 DEF Demo!JournalIsTruth, Demo!NoRun
    <3>2. CASE \E m \in DOMAIN journal : journal[m].live /\ run' = journal[m]
      <4>1. PICK m \in DOMAIN journal : journal[m].live /\ run' = journal[m]
        BY <3>2
      <4>2. m \in DOMAIN j /\ j[m] = run' /\ run'.id = m
        BY <1>2, <1>7, <4>1
      <4> QED BY <1>6, <4>2 DEF Demo!JournalIsTruth
    <3> QED BY <1>3, <3>1, <3>2
  <2>2. \A r \in DOMAIN j : Demo!Kept(j[r], runTaps') /\ j[r].id = r
    BY <1>1, <1>2, <1>7
  <2>3. ASSUME runFaults' = 0, NEW r \in DOMAIN j, j[r].live PROVE run'.live /\ r = run'.id
    <3>1. r \in DOMAIN journal /\ journal[r].live /\ r = run.id
      BY <1>1, <1>2, <1>7, <2>3
    <3>2. r \in Demo!Recoverable
      BY <3>1 DEF Demo!Recoverable
    <3>3. PICK m \in DOMAIN journal : journal[m].live /\ run' = journal[m]
      BY <1>3, <3>2
    <3>4. m = run.id /\ run'.id = m
      BY <1>1, <1>2, <2>3, <3>3
    <3> QED BY <3>1, <3>3, <3>4
  <2>4. DOMAIN j \subseteq Demo!Runs
    BY <1>2, <1>7
  <2> QED BY <1>6, <2>1, <2>2, <2>3, <2>4 DEF Demo!Journalled
<1>9. Demo!Queued'
  BY <1>1 DEF Demo!Queued
<1>10. Demo!Staged'
  <2>1. file \in Demo!Versions
    BY DEF Demo!IInv, Demo!Staged
  <2>2. CASE Demo!Restages(run')
    <3>1. staged' = file /\ ~stale' /\ ~Demo!Broken(file) /\ run'.script = file
      BY <1>1, <2>2 DEF Demo!Restages
    <3> QED BY <1>1, <2>1, <3>1 DEF Demo!Staged, Demo!Broken
  <2>3. CASE ~Demo!Restages(run')
    <3>1. staged' = 0
      BY <1>1, <2>3
    <3> QED BY <1>1, <2>1, <3>1 DEF Demo!Staged, Demo!Broken
  <2> QED BY <2>2, <2>3
<1>11. stale' \in BOOLEAN /\ journalErr' \in BOOLEAN
  BY <1>1
<1>12. gotoOff' \in Int /\ refusedRuns' \subseteq Demo!Runs /\ runFaults' \in Nat /\ runTaps' \in 0..MaxRunTaps /\ runRestarts' \in Nat
  BY <1>1 DEF Demo!IInv
<1> QED BY <1>4, <1>8, <1>9, <1>10, <1>11, <1>12 DEF Demo!IInv

LEMMA DemoInit == ASSUME Demo!Init PROVE Demo!IInv
<1>1. /\ file \in Demo!Versions /\ staged = 0 /\ run = Demo!NoRun /\ journal = <<>> /\ stale = FALSE /\ journalErr = FALSE
      /\ gotoOff = 0 /\ queued = <<>> /\ refusedRuns = {} /\ runTaps = 0 /\ runFaults = 0 /\ runRestarts = 0
  BY DEF Demo!Init
<1>2. run = Demo!NoRun /\ ~run.live /\ run.id = 0
  BY <1>1 DEF Demo!NoRun
<1>3. Demo!Staged
  BY <1>1, <1>2 DEF Demo!Staged, Demo!Broken
<1>4. Demo!Queued
  BY <1>1 DEF Demo!Queued
<1>5. Demo!Journalled
  BY <1>1, <1>2 DEF Demo!Journalled, Demo!JournalIsTruth
<1>6. stale \in BOOLEAN /\ journalErr \in BOOLEAN
  BY <1>1
<1>7. gotoOff \in Int /\ refusedRuns \subseteq Demo!Runs /\ runTaps \in 0..MaxRunTaps /\ runFaults \in Nat /\ runRestarts \in Nat
  BY <1>1, DemoFacts
<1> QED BY <1>2, <1>3, <1>4, <1>5, <1>6, <1>7 DEF Demo!IInv

LEMMA DemoNext == ASSUME Demo!IInv, Demo!Next PROVE Demo!IInv'
<1>1. CASE \E v \in Demo!Versions : Demo!EditScript(v)
  BY <1>1, DemoEditScript
<1>2. ASSUME NEW how \in Demo!Outcomes,
             \/ Demo!StopRun(how) \/ Demo!Start(how) \/ Demo!TapRecord(how) \/ Demo!Next1(how) \/ Demo!Prev1(how)
             \/ \E replace \in BOOLEAN : Demo!Load(replace, how)
             \/ \E to \in Demo!AnyStep : Demo!Goto(to, how)
      PROVE  Demo!IInv'
  BY <1>2, DemoStopRun, DemoStart, DemoTapRecord, DemoMove, DemoLoad DEF Demo!Next1, Demo!Prev1, Demo!Goto
<1>3. CASE \E d \in {-1, 1} : Demo!Page(d)
  BY <1>3, DemoPage
<1>4. CASE Demo!Fire
  BY <1>4, DemoFire
<1>5. CASE Demo!Restart
  BY <1>5, DemoRestart
<1> QED BY <1>1, <1>2, <1>3, <1>4, <1>5 DEF Demo!Next

\* The books of the run and of every journalled run stay right, through every tap, edit,
\* command, failed write and restart (reno.go, run.go).
THEOREM DemoInvariant == Demo!Spec => []Demo!IInv
<1>1. Demo!Init => Demo!IInv
  BY DemoInit
<1>2. ASSUME Demo!IInv, Demo!Next PROVE Demo!IInv'
  BY <1>2, DemoNext
<1>3. ASSUME Demo!IInv, UNCHANGED Demo!vars PROVE Demo!IInv'
  <2>1. Tapping
    BY <1>3, DemoStill DEF Demo!vars
  <2>2. file \in Demo!Versions /\ gotoOff \in Int
    BY <1>3 DEF Demo!IInv, Demo!Staged
  <2> QED BY <1>3, <2>1, <2>2, DemoIdle DEF Demo!vars
<1>4. Demo!IInv /\ [(Demo!Next /\ UNCHANGED script) \/ (Demo!Typing /\ UNCHANGED Demo!vars)]_<<Demo!vars, script>> => Demo!IInv'
  BY <1>2, <1>3
<1> QED BY <1>1, <1>4, PTL DEF Demo!Spec

LEMMA DemoCounts == ASSUME NEW S PROVE Demo!Cardinality(S) = Cardinality(S)
BY DEF Demo!Cardinality, Cardinality

LEMMA DemoMax ==
  ASSUME NEW a \in Int, NEW b \in Int
  PROVE  Demo!Max({a, b}) = IF a >= b THEN a ELSE b
<1>1. \E x \in {a, b} : \A y \in {a, b} : x >= y
  OBVIOUS
<1>2. Demo!Max({a, b}) \in {a, b} /\ \A y \in {a, b} : Demo!Max({a, b}) >= y
  BY <1>1 DEF Demo!Max
<1> QED BY <1>2

LEMMA DemoMin ==
  ASSUME NEW a \in Int, NEW b \in Int
  PROVE  Demo!Min({a, b}) = IF a <= b THEN a ELSE b
<1>1. \E x \in {a, b} : \A y \in {a, b} : x <= y
  OBVIOUS
<1>2. Demo!Min({a, b}) \in {a, b} /\ \A y \in {a, b} : Demo!Min({a, b}) <= y
  BY <1>1 DEF Demo!Min
<1> QED BY <1>2

\* The window of the goto menu: as long as it can be, inside the script, and on the cursor.
WindowAt(w, total, cur, off, at, lo, hi) ==
  /\ at = Demo!Max({cur - (w \div 2), 0}) + off
  /\ lo = Demo!Min({Demo!Max({at, 0}), Demo!Max({total - w, 0})})
  /\ hi = Demo!Min({lo + w, total})
LEMMA MenuWindow ==
  ASSUME NEW w \in Nat \ {0}, NEW total \in Nat \ {0}, NEW cur \in Int, cur >= -1, NEW off \in Int,
         NEW at, NEW lo, NEW hi, WindowAt(w, total, cur, off, at, lo, hi)
  PROVE  /\ lo \in Nat /\ hi \in Nat /\ hi <= total /\ hi - lo = Demo!Min({w, total}) /\ lo < hi
         /\ off = 0 /\ cur >= 0 /\ cur < total => lo <= cur /\ cur < hi
<1>0. /\ at = Demo!Max({cur - (w \div 2), 0}) + off
      /\ lo = Demo!Min({Demo!Max({at, 0}), Demo!Max({total - w, 0})})
      /\ hi = Demo!Min({lo + w, total})
  BY DEF WindowAt
<1>1. w \div 2 \in Nat /\ w \div 2 < w
  OBVIOUS
<1>2. PICK half : half = w \div 2
  OBVIOUS
<1>3. half \in Nat /\ half < w
  BY <1>1, <1>2
<1>4. at = (IF cur - half >= 0 THEN cur - half ELSE 0) + off
  BY <1>0, <1>2, <1>3, DemoMax
<1>5. at \in Int /\ total - w \in Int
  BY <1>3, <1>4
<1>6. Demo!Max({at, 0}) = (IF at >= 0 THEN at ELSE 0) /\ Demo!Max({total - w, 0}) = (IF total - w >= 0 THEN total - w ELSE 0)
  BY <1>5, DemoMax
<1>7. PICK x, y : x = Demo!Max({at, 0}) /\ y = Demo!Max({total - w, 0})
  OBVIOUS
<1>8. x = (IF at >= 0 THEN at ELSE 0) /\ y = (IF total - w >= 0 THEN total - w ELSE 0) /\ x \in Int /\ y \in Int
  BY <1>5, <1>6, <1>7
<1>9. lo = (IF x <= y THEN x ELSE y)
  BY <1>0, <1>7, <1>8, DemoMin
<1>10. lo \in Int /\ lo + w \in Int
  BY <1>8, <1>9
<1>11. hi = (IF lo + w <= total THEN lo + w ELSE total)
  <2>1. PICK sum : sum = lo + w
    OBVIOUS
  <2>2. sum \in Int /\ hi = Demo!Min({sum, total})
    BY <1>0, <1>10, <2>1
  <2>3. hi = (IF sum <= total THEN sum ELSE total)
    BY <2>2, DemoMin
  <2> QED BY <2>1, <2>3
<1>12. Demo!Min({w, total}) = (IF w <= total THEN w ELSE total)
  BY DemoMin
<1> QED BY <1>3, <1>4, <1>5, <1>8, <1>9, <1>10, <1>11, <1>12

LEMMA MenuIsHonest == ASSUME Demo!IInv PROVE Demo!MenuHonest
<1> SUFFICES ASSUME Demo!Panel = "live"
             PROVE  /\ Demo!Cardinality(Demo!Menu.steps) = Demo!Min({GotoWindow, Len(Script[staged].steps)})
                    /\ Demo!Menu.steps \subseteq Demo!StepsOf(staged)
                    /\ run.script # 0 => \A to \in Demo!Menu.steps : Demo!MayEnter(to)
                    /\ gotoOff = 0 /\ run.cursor > 0 => run.cursor \in Demo!Menu.steps
                    /\ Demo!Menu.earlier <=> (1 \notin Demo!Menu.steps)
                    /\ Demo!Menu.later <=> (Len(Script[staged].steps) \notin Demo!Menu.steps)
  BY DEF Demo!MenuHonest
<1>1. run.live /\ staged # 0 /\ ~stale
  BY DEF Demo!Panel
<1>2. staged \in Demo!Versions /\ ~Demo!Broken(staged) /\ run.script \in {0, staged} /\ gotoOff \in Int
  BY <1>1 DEF Demo!IInv, Demo!Staged
<1>3. PICK total : total = Len(Script[staged].steps)
  OBVIOUS
<1>4. total \in Nat \ {0} /\ Demo!StepsOf(staged) = 1..total
  BY <1>2, <1>3, DemoFacts
<1>5. Demo!Kept(run, runTaps) /\ run.cursor \in Nat
  BY <1>1, DemoTyped, DemoFacts DEF Demo!Kept, Demo!RunStates
<1>6. PICK cur : cur = run.cursor - 1
  OBVIOUS
<1>7. cur \in Int /\ cur >= -1
  BY <1>5, <1>6
<1>8. PICK at : at = Demo!Max({cur - (GotoWindow \div 2), 0}) + gotoOff
  OBVIOUS
<1>9. PICK lo : lo = Demo!Min({Demo!Max({at, 0}), Demo!Max({total - GotoWindow, 0})})
  OBVIOUS
<1>10. PICK hi : hi = Demo!Min({lo + GotoWindow, total})
  OBVIOUS
<1>11. PICK m : m = Demo!Menu
  OBVIOUS
<1>12. m.steps = (lo + 1)..hi /\ (m.earlier <=> lo > 0) /\ (m.later <=> hi < total)
  <2>1. m = [steps |-> (lo + 1)..hi, earlier |-> lo > 0, later |-> hi < total]
    BY <1>1, <1>3, <1>6, <1>8, <1>9, <1>10, <1>11 DEF Demo!Menu
  <2> QED BY <2>1
<1>13. /\ lo \in Nat /\ hi \in Nat /\ hi <= total /\ hi - lo = Demo!Min({GotoWindow, total}) /\ lo < hi
       /\ gotoOff = 0 /\ cur >= 0 /\ cur < total => lo <= cur /\ cur < hi
  <2>1. GotoWindow \in Nat \ {0}
    BY DemoFacts
  <2>2. WindowAt(GotoWindow, total, cur, gotoOff, at, lo, hi)
    BY <1>8, <1>9, <1>10 DEF WindowAt
  <2> QED BY <1>2, <1>4, <1>7, <2>1, <2>2, MenuWindow
<1>14. Demo!Cardinality(m.steps) = Demo!Min({GotoWindow, total})
  <2>1. Cardinality((lo + 1)..hi) = hi - (lo + 1) + 1
    BY <1>13, FS_Interval
  <2>2. Cardinality((lo + 1)..hi) = Demo!Min({GotoWindow, total})
    BY <1>13, <2>1
  <2> QED BY <1>12, <2>2, DemoCounts
<1>15. m.steps \subseteq 1..total
  BY <1>4, <1>12, <1>13
<1>16. ASSUME run.script # 0, NEW to \in m.steps PROVE Demo!MayEnter(to)
  BY <1>1, <1>2, <1>4, <1>5, <1>15, <1>16 DEF Demo!MayEnter, Demo!Kept
<1>17. ASSUME gotoOff = 0, run.cursor > 0 PROVE run.cursor \in m.steps
  <2>1. run.cursor \in DOMAIN run.visits /\ run.script = staged
    BY <1>2, <1>5, <1>17 DEF Demo!Kept
  <2>2. run.cursor \in 1..total
    BY <1>2, <1>4, <1>5, <2>1, DemoFacts DEF Demo!Kept
  <2>3. cur >= 0 /\ cur < total
    BY <1>4, <1>6, <2>2
  <2>4. lo <= cur /\ cur < hi
    BY <1>13, <1>17, <2>3
  <2> QED BY <1>5, <1>6, <1>12, <1>13, <2>4
<1>18. m.earlier <=> 1 \notin m.steps
  BY <1>12, <1>13
<1>19. m.later <=> total \notin m.steps
  BY <1>4, <1>12, <1>13
<1> QED BY <1>3, <1>4, <1>11, <1>14, <1>15, <1>16, <1>17, <1>18, <1>19

LEMMA DemoTypeOK == ASSUME Demo!IInv PROVE Demo!TypeOK
<1>1. /\ run.id \in {0} \cup Demo!Runs /\ run.script \in {0} \cup Demo!Versions /\ run.cursor \in Demo!AnyStep
      /\ run.visits \in Seq(0..MaxRunTaps) /\ run.clocks \subseteq Demo!AnyStep /\ run.rec \in {"none", "intent", "failed", "started"}
  <2>1. CASE run = Demo!NoRun
    <3>1. run.id = 0 /\ run.script = 0 /\ run.cursor = 0 /\ run.visits = <<>> /\ run.clocks = {} /\ run.rec = "none"
      BY <2>1 DEF Demo!NoRun
    <3>2. <<>> \in Seq(0..MaxRunTaps)
      BY EmptySeq
    <3> QED BY <3>1, <3>2, DemoFacts
  <2>2. CASE Demo!Kept(run, runTaps)
    BY <2>2 DEF Demo!Kept, Demo!RunStates
  <2> QED BY <2>1, <2>2 DEF Demo!IInv
<1> QED BY <1>1 DEF Demo!IInv, Demo!TypeOK, Demo!Staged, Demo!Queued, Demo!Journalled

LEMMA DemoRunSafe == ASSUME Demo!IInv PROVE Demo!RunSafe
<1>1. Demo!ClockAtCursor /\ (run.script = 0 => run.cursor = 0)
  <2>1. CASE run = Demo!NoRun
    BY <2>1 DEF Demo!NoRun, Demo!ClockAtCursor
  <2>2. CASE Demo!Kept(run, runTaps)
    <3>1. run.cursor \in Nat
      BY <2>2, DemoFacts DEF Demo!Kept, Demo!RunStates
    <3> QED BY <2>2, <3>1 DEF Demo!Kept, Demo!ClockAtCursor
  <2> QED BY <2>1, <2>2 DEF Demo!IInv
<1>2. Demo!VettedSteps
  BY <1>1, DemoVetted DEF Demo!VettedSteps, Demo!IInv, Demo!Staged
<1>3. Demo!JournalIsTruth
  BY DEF Demo!IInv, Demo!Journalled
<1> QED BY <1>1, <1>2, <1>3, MenuIsHonest DEF Demo!RunSafe

\* The clock of a demo ticks at its cursor and nowhere else, queued steps are those of the run
\* in progress as it was vetted, the journal tells what the panel told, and the menu reaches
\* every step from every page, for any scripts (transition, finishRunLocked, gotoMenu).
THEOREM RunIsSafe == Demo!Spec => [](Demo!TypeOK /\ Demo!RunSafe)
<1>1. Demo!IInv => Demo!TypeOK /\ Demo!RunSafe
  BY DemoTypeOK, DemoRunSafe
<1> QED BY <1>1, DemoInvariant, PTL

LEMMA DemoFires == ASSUME Demo!IInv PROVE Demo!FiresOwnRun
<1> SUFFICES ASSUME queued # <<>> PROVE run.live /\ Head(queued).run = run.id /\ Head(queued).version = run.script
  BY DEF Demo!FiresOwnRun
<1>1. run.live
  BY DemoTyped
<1>2. OwnQueue(queued, run.id, run.script)
  BY <1>1, DemoOwn
<1>3. queued \in Seq(RunEffects)
  BY <1>2 DEF OwnQueue
<1>4. Head(queued) = queued[1] /\ 1 \in DOMAIN queued
  BY <1>3, HeadTailProperties, LenProperties, EmptySeq
<1> QED BY <1>1, <1>2, <1>4 DEF OwnQueue

LEMMA DemoResumes == ASSUME Demo!IInv, Demo!Restart PROVE Demo!ResumesWhereItWas
<1>1. /\ run' = (IF Demo!Recoverable = {} THEN Demo!NoRun ELSE journal[Demo!Max(Demo!Recoverable)])
      /\ staged' = (IF Demo!Restages(run') THEN file ELSE 0)
  BY DEF Demo!Restart
<1>2. ASSUME run.live, ~journalErr, \A r \in DOMAIN journal : r <= run.id PROVE run' = run
  <2>1. Demo!Kept(run, runTaps) /\ run.id \in Demo!Runs
    BY <1>2, DemoTyped DEF Demo!Kept, Demo!RunStates
  <2>2. run.id \in DOMAIN journal /\ journal[run.id] = run
    BY <1>2, <2>1, DemoFacts DEF Demo!IInv, Demo!Journalled, Demo!JournalIsTruth
  <2>3. run.id \in Demo!Recoverable
    BY <1>2, <2>2 DEF Demo!Recoverable
  <2>4. PICK m : m = Demo!Max(Demo!Recoverable)
    OBVIOUS
  <2>5. m \in Demo!Recoverable /\ run.id <= m
    BY <2>3, <2>4, DemoLatest
  <2>6. m \in DOMAIN journal /\ m <= run.id /\ m \in Demo!Runs
    BY <1>2, <2>5 DEF Demo!Recoverable, Demo!IInv, Demo!Journalled
  <2>7. m = run.id
    BY <2>1, <2>5, <2>6, DemoFacts
  <2> QED BY <1>1, <2>2, <2>3, <2>4, <2>7
<1>3. ASSUME runFaults = 0, ~run.live PROVE run' = Demo!NoRun
  <2>1. Demo!Recoverable = {}
    BY <1>3 DEF Demo!Recoverable, Demo!IInv, Demo!Journalled
  <2> QED BY <1>1, <2>1
<1>4. ASSUME staged' # 0 PROVE Script[staged'] = Script[run'.script]
  BY <1>1, <1>4 DEF Demo!Restages
<1> QED BY <1>2, <1>3, <1>4 DEF Demo!ResumesWhereItWas

LEMMA DemoKeepsRunning ==
  ASSUME Demo!IInv, Demo!Next
  PROVE  Demo!Restart \/ UNCHANGED runRestarts
<1>1. ASSUME NEW how \in Demo!Outcomes,
             \/ Demo!StopRun(how) \/ Demo!Start(how) \/ Demo!TapRecord(how) \/ Demo!Next1(how) \/ Demo!Prev1(how)
             \/ \E replace \in BOOLEAN : Demo!Load(replace, how)
             \/ \E to \in Demo!AnyStep : Demo!Goto(to, how)
      PROVE  UNCHANGED runRestarts
  BY <1>1 DEF Demo!StopRun, Demo!Start, Demo!TapRecord, Demo!Next1, Demo!Prev1, Demo!Load, Demo!Goto, Demo!Move
<1>2. ASSUME (\E v \in Demo!Versions : Demo!EditScript(v)) \/ (\E d \in {-1, 1} : Demo!Page(d)) \/ Demo!Fire
      PROVE  UNCHANGED runRestarts
  BY <1>2 DEF Demo!EditScript, Demo!Page, Demo!Fire
<1> QED BY <1>1, <1>2 DEF Demo!Next

\* Only the live run's steps fire, each as its script was vetted, and the next owner resumes
\* the newest live run where it was and none that was over (commandArgv, RecoverLatest).
THEOREM RunStepsHold == Demo!Spec => Demo!RunSteps
<1>1. ASSUME Demo!IInv, (Demo!Next /\ UNCHANGED script) \/ UNCHANGED Demo!vars PROVE Demo!FiresOwnRun /\ Demo!ResumesWhereItWas
  <2>1. Demo!FiresOwnRun
    BY <1>1, DemoFires
  <2>2. CASE Demo!Restart
    BY <1>1, <2>1, <2>2, DemoResumes
  <2>3. CASE UNCHANGED runRestarts
    <3>1. ~(runRestarts' > runRestarts)
      BY <1>1, <2>3, DemoTyped
    <3> QED BY <2>1, <3>1 DEF Demo!ResumesWhereItWas
  <2> QED BY <1>1, <2>2, <2>3, DemoKeepsRunning DEF Demo!vars
<1>2. /\ Demo!IInv
      /\ [(Demo!Next /\ UNCHANGED script) \/ (Demo!Typing /\ UNCHANGED Demo!vars)]_<<Demo!vars, script>>
      => [Demo!FiresOwnRun /\ Demo!ResumesWhereItWas]_Demo!vars
  BY <1>1
<1> QED BY <1>2, DemoInvariant, PTL DEF Demo!Spec, Demo!RunSteps

(***************************************************************************)
(* The recorder pad.                                                       *)
(***************************************************************************)
CONSTANTS Attachable, MaxPadTaps, MaxPlugs, MaxPadRestarts
VARIABLES attached, inv, desired, posture, win, lapsed, padTaps, plugs, padRestarts
Pad == INSTANCE RenoPad WITH saved <- posture

\* A display taken out of a list.
LEMMA PadRemove ==
  ASSUME NEW S, NEW s \in Seq(S), NEW i \in DOMAIN s
  PROVE  /\ Pad!RemoveAt(s, i) \in Seq(S) /\ DOMAIN Pad!RemoveAt(s, i) = 1..(Len(s) - 1)
         /\ \A j \in 1..(Len(s) - 1) : Pad!RemoveAt(s, i)[j] = s[IF j < i THEN j ELSE j + 1]
<1>1. DOMAIN s = 1..Len(s) /\ Len(s) \in Nat /\ i \in 1..Len(s) /\ \A j \in 1..Len(s) : s[j] \in S
  BY LenProperties, ElementOfSeq
<1>2. PICK a, b : a = SubSeq(s, 1, i - 1) /\ b = SubSeq(s, i + 1, Len(s))
  OBVIOUS
<1>3. a \in Seq(S) /\ Len(a) = i - 1 /\ \A j \in 1..(i - 1) : a[j] = s[j]
  <2>1. \A j \in 1..(i - 1) : s[j] \in S
    BY <1>1
  <2>2. a \in Seq(S) /\ Len(a) = (IF 1 <= i - 1 THEN i - 1 - 1 + 1 ELSE 0) /\ \A j \in 1..(i - 1 - 1 + 1) : a[j] = s[1 + j - 1]
    BY <1>1, <1>2, <2>1, SubSeqProperties
  <2> QED BY <1>1, <2>2
<1>4. b \in Seq(S) /\ Len(b) = Len(s) - i /\ \A j \in 1..(Len(s) - i) : b[j] = s[i + j]
  <2>1. \A j \in (i + 1)..Len(s) : s[j] \in S
    BY <1>1
  <2>2. /\ b \in Seq(S) /\ Len(b) = (IF i + 1 <= Len(s) THEN Len(s) - (i + 1) + 1 ELSE 0)
        /\ \A j \in 1..(Len(s) - (i + 1) + 1) : b[j] = s[i + 1 + j - 1]
    BY <1>1, <1>2, <2>1, SubSeqProperties
  <2>3. Len(b) = Len(s) - i
    BY <1>1, <2>2
  <2>4. ASSUME NEW j \in 1..(Len(s) - i) PROVE b[j] = s[i + j]
    <3>1. j \in 1..(Len(s) - (i + 1) + 1) /\ i + 1 + j - 1 = i + j
      BY <1>1
    <3> QED BY <2>2, <3>1
  <2> QED BY <2>2, <2>3, <2>4
<1>5. PICK c : c = a \o b
  OBVIOUS
<1>6. c \in Seq(S) /\ Len(c) = Len(s) - 1 /\ \A j \in 1..(Len(s) - 1) : c[j] = (IF j <= i - 1 THEN a[j] ELSE b[j - (i - 1)])
  <2>1. c \in Seq(S) /\ Len(c) = Len(a) + Len(b) /\ \A j \in 1..(Len(a) + Len(b)) : c[j] = (IF j <= Len(a) THEN a[j] ELSE b[j - Len(a)])
    BY <1>3, <1>4, <1>5, ConcatProperties
  <2> QED BY <1>1, <1>3, <1>4, <2>1
<1>7. \A j \in 1..(Len(s) - 1) : c[j] = s[IF j < i THEN j ELSE j + 1]
  <2> SUFFICES ASSUME NEW j \in 1..(Len(s) - 1) PROVE c[j] = s[IF j < i THEN j ELSE j + 1]
    OBVIOUS
  <2>1. CASE j < i
    BY <1>1, <1>3, <1>6, <2>1
  <2>2. CASE ~(j < i)
    <3>1. j - (i - 1) \in 1..(Len(s) - i) /\ i + (j - (i - 1)) = j + 1
      BY <1>1, <2>2
    <3>2. c[j] = b[j - (i - 1)]
      BY <1>1, <1>6, <2>2
    <3> QED BY <1>4, <2>2, <3>1, <3>2
  <2> QED BY <2>1, <2>2
<1>8. c = Pad!RemoveAt(s, i)
  BY <1>2, <1>5 DEF Pad!RemoveAt
<1> QED BY <1>6, <1>7, <1>8, LenProperties

LEMMA PadLists ==
  ASSUME NEW s \in Seq(Attachable)
  PROVE  DOMAIN s = 1..Len(s) /\ Len(s) \in Nat /\ (\A i \in DOMAIN s : s[i] \in Attachable) /\ (s # <<>> => Len(s) > 0)
BY LenProperties, ElementOfSeq, EmptySeq

LEMMA PadHas == ASSUME NEW s \in Seq(Attachable), NEW d PROVE Pad!Contains(s, d) <=> d \in Pad!Range(s)
BY PadLists DEF Pad!Contains, Pad!Range

\* A healed list shows what is attached, each display once.
LEMMA PadHealed ==
  ASSUME NEW i \in Pad!Listing, Pad!Distinct(i.screens), i.named \subseteq Pad!Range(i.screens),
         NEW local \in Seq(Attachable), Pad!Distinct(local)
  PROVE  /\ Pad!Healed(i, local) \in Pad!Listing /\ Pad!Distinct(Pad!Healed(i, local).screens)
         /\ Pad!Healed(i, local).probed = i.probed
         /\ Pad!Healed(i, local).named \subseteq Pad!Range(Pad!Healed(i, local).screens)
         /\ i.probed /\ local # <<>> => Pad!Range(Pad!Healed(i, local).screens) = Pad!Range(local)
         /\ ~Pad!DisplaysMoved(Pad!Healed(i, local), local)
         /\ \A d \in i.named : d \in Pad!Range(Pad!Healed(i, local).screens) => d \in Pad!Healed(i, local).named
<1>1. i.screens \in Seq(Attachable) /\ i.named \subseteq Attachable /\ i.probed \in BOOLEAN
  BY DEF Pad!Listing
<1>2. /\ DOMAIN local = 1..Len(local) /\ Len(local) \in Nat /\ DOMAIN i.screens = 1..Len(i.screens) /\ Len(i.screens) \in Nat
      /\ local # <<>> => Len(local) > 0
  BY <1>1, PadLists
<1>3. \A d : Pad!Contains(local, d) <=> d \in Pad!Range(local)
  BY PadHas
<1>4. PICK h : h = Pad!Healed(i, local)
  OBVIOUS
<1>5. CASE Pad!DisplaysMoved(i, local)
  <2>1. h = [i EXCEPT !.screens = local, !.named = i.named \cap Pad!Range(i.screens) \cap Pad!Range(local)]
    BY <1>4, <1>5 DEF Pad!Healed
  <2>2. /\ h = [probed |-> i.probed, screens |-> local, named |-> i.named \cap Pad!Range(i.screens) \cap Pad!Range(local)]
    BY <2>1 DEF Pad!Listing
  <2>3. h \in Pad!Listing
    BY <1>1, <2>2 DEF Pad!Listing
  <2>4. ~Pad!DisplaysMoved(h, local)
    BY <1>3, <2>2 DEF Pad!DisplaysMoved, Pad!Range
  <2> QED BY <1>4, <2>2, <2>3, <2>4
<1>6. CASE ~Pad!DisplaysMoved(i, local)
  <2>1. h = i
    BY <1>4, <1>6 DEF Pad!Healed
  <2>2. ASSUME i.probed, local # <<>> PROVE Pad!Range(i.screens) = Pad!Range(local)
    <3>1. Len(local) = Len(i.screens) /\ \A k \in DOMAIN i.screens : i.screens[k] \in Pad!Range(local)
      BY <1>3, <1>6, <2>2 DEF Pad!DisplaysMoved
    <3>2. \A k \in 1..Len(local) : \E j \in 1..Len(local) : local[j] = i.screens[k]
      BY <1>2, <3>1 DEF Pad!Range
    <3>3. PICK f : f = [k \in 1..Len(local) |-> CHOOSE j \in 1..Len(local) : local[j] = i.screens[k]]
      OBVIOUS
    <3>4. f \in [1..Len(local) -> 1..Len(local)] /\ \A k \in 1..Len(local) : local[f[k]] = i.screens[k]
      BY <3>2, <3>3
    <3>5. f \in Injection(1..Len(local), 1..Len(local))
      <4>1. \A a, b \in 1..Len(local) : f[a] = f[b] => a = b
        BY <1>2, <3>1, <3>4 DEF Pad!Distinct
      <4> QED BY <3>4, <4>1 DEF Injection, IsInjective
    <3>6. IsFiniteSet(1..Len(local))
      BY <1>2, FS_Interval
    <3>7. f \in Surjection(1..Len(local), 1..Len(local))
      BY <3>5, <3>6, FS_Injection
    <3>8. \A j \in 1..Len(local) : \E k \in 1..Len(local) : f[k] = j
      BY <3>7 DEF Surjection
    <3>9. \A j \in 1..Len(local) : local[j] \in Pad!Range(i.screens)
      <4> SUFFICES ASSUME NEW j \in 1..Len(local) PROVE local[j] \in Pad!Range(i.screens)
        OBVIOUS
      <4>1. PICK k \in 1..Len(local) : f[k] = j
        BY <3>8
      <4>2. local[j] = i.screens[k] /\ k \in DOMAIN i.screens
        BY <1>2, <3>1, <3>4, <4>1
      <4> QED BY <4>2 DEF Pad!Range
    <3> QED BY <1>2, <3>1, <3>9 DEF Pad!Range
  <2> QED BY <1>4, <1>6, <2>1, <2>2
<1> QED BY <1>5, <1>6

\* The corner and the size of a placement.
LEMMA PadCorners ==
  /\ \A c \in Pad!Corners : \A g \in BOOLEAN : Pad!Corner(Pad!Placement(c, g)) = c /\ (Pad!Grown(Pad!Placement(c, g)) <=> g)
  /\ \A w : Pad!Corner(w) \in Pad!Corners \cup {"none"}
<1>1. ASSUME NEW c \in Pad!Corners, NEW g \in BOOLEAN, NEW k \in Pad!Corners, NEW h \in BOOLEAN,
             Pad!Placement(c, g) = Pad!Placement(k, h)
      PROVE  c = k /\ (g <=> h)
  BY <1>1 DEF Pad!Placement, Pad!Corners
<1>2. ASSUME NEW c \in Pad!Corners, NEW g \in BOOLEAN
      PROVE  Pad!Corner(Pad!Placement(c, g)) = c /\ (Pad!Grown(Pad!Placement(c, g)) <=> g)
  <2>1. \A k \in Pad!Corners : Pad!Sits(Pad!Placement(c, g), k) <=> k = c
    BY <1>1 DEF Pad!Sits
  <2>2. Pad!Corner(Pad!Placement(c, g)) = c
    BY <2>1 DEF Pad!Corner
  <2>3. Pad!Grown(Pad!Placement(c, g)) <=> g
    BY <1>1 DEF Pad!Grown
  <2> QED BY <2>2, <2>3
<1>3. ASSUME NEW w PROVE Pad!Corner(w) \in Pad!Corners \cup {"none"}
  BY DEF Pad!Corner
<1> QED BY <1>2, <1>3

LEMMA PadPlacements ==
  ASSUME NEW c \in Pad!Corners, NEW g \in BOOLEAN
  PROVE  Pad!Placement(c, g) \in Pad!Placements
BY DEF Pad!Placements

LEMMA PadGrown == ASSUME NEW w PROVE Pad!Grown(w) \in BOOLEAN
BY DEF Pad!Grown

Asked == [display : Attachable, by : Pad!Spellings]

\* A tap leaves a posture.
LEMMA PadActed ==
  ASSUME NEW i \in Pad!Listing, NEW c \in Pad!Postures, NEW t \in Pad!Tiles(i, c)
  PROVE  Pad!Acted(c, t) \in Pad!Postures
<1>1. /\ c.screens \in Seq(Asked) /\ c.audio \in {"unset", "none", "mic"} /\ c.webcam \in Pad!Placements /\ c.lemmings \in BOOLEAN
      /\ i.screens \in Seq(Attachable)
  BY DEF Pad!Postures, Asked, Pad!Listing
<1>2. \/ t.act = "screen" /\ t.value \in Asked
      \/ t.act = "audio" /\ t.value \in {"unset", "none", "mic"}
      \/ t.act = "move" /\ t.value \in Pad!Placements
      \/ t.act = "hide" \/ t.act = "lemmings"
  <2>1. t \in Pad!ScreenTiles(i, c) => t.act = "screen" /\ t.value \in Asked
    <3>1. ASSUME NEW d \in Pad!Range(i.screens) PROVE Pad!Selector(d, "value") \in Asked
      <4>1. d \in Attachable
        BY <1>1, PadLists DEF Pad!Range
      <4> QED BY <4>1 DEF Pad!Selector, Asked, Pad!Spellings
    <3>2. Pad!Missing(i, c) \subseteq Asked
      BY <1>1, ElementOfSeq, LenProperties DEF Pad!Missing
    <3> QED BY <3>1, <3>2 DEF Pad!ScreenTiles, Pad!Tile
  <2>2. t \in Pad!ChoiceTiles(c) => t.act = "audio" /\ t.value \in {"unset", "none", "mic"}
    BY DEF Pad!ChoiceTiles, Pad!Tile
  <2>3. t \in Pad!SlideTiles(c) => t.act = "move" /\ t.value \in Pad!Placements
    BY PadPlacements, PadGrown DEF Pad!SlideTiles, Pad!Tile
  <2>4. t \in Pad!SizeTiles(c) => t.act = "move" /\ t.value \in Pad!Placements
    <3> SUFFICES ASSUME t \in Pad!SizeTiles(c) PROVE t.act = "move" /\ t.value \in Pad!Placements
      OBVIOUS
    <3>0. PICK p : p = Pad!Placement(Pad!Corner(c.webcam), ~Pad!Grown(c.webcam))
      OBVIOUS
    <3>1. Pad!Corner(c.webcam) # "none" /\ t = Pad!Tile("fx", p, FALSE, "move")
      BY <3>0 DEF Pad!SizeTiles
    <3>2. Pad!Corner(c.webcam) \in Pad!Corners
      BY <3>1, PadCorners
    <3>3. (~Pad!Grown(c.webcam)) \in BOOLEAN
      BY PadGrown
    <3>4. p \in Pad!Placements
      BY <3>0, <3>2, <3>3, PadPlacements
    <3> QED BY <3>1, <3>4 DEF Pad!Tile
  <2>5. t = Pad!Tile("fx", "big", c.webcam = "big", "move") => t.act = "move" /\ t.value \in Pad!Placements
    BY DEF Pad!Tile, Pad!Placements
  <2>6. t = Pad!Tile("fx", "off", FALSE, "hide") => t.act = "hide"
    BY DEF Pad!Tile
  <2>7. t = Pad!LemmingsTile(c) => t.act = "lemmings"
    <3>1. PICK v : v = IF ~c.lemmings THEN "off" ELSE IF c.webcam \in {"unset", "off"} THEN "no cam" ELSE "on"
      OBVIOUS
    <3>2. PICK l : l = c.lemmings
      OBVIOUS
    <3>3. Pad!LemmingsTile(c) = Pad!Tile("fx", v, l, "lemmings")
      BY <3>1, <3>2, Zenon DEF Pad!LemmingsTile
    <3> QED BY <3>3 DEF Pad!Tile
  <2> QED BY <2>1, <2>2, <2>3, <2>4, <2>5, <2>6, <2>7 DEF Pad!Tiles
<1>3. CASE t.act = "screen" /\ t.value \in Asked
  <2>1. Pad!ToggleScreen(c.screens, t.value) \in Seq(Asked)
    <3>1. PICK same : same = {k \in DOMAIN c.screens : c.screens[k].display = t.value.display /\ c.screens[k].by = t.value.by}
      OBVIOUS
    <3>2. CASE same # {}
      <4>1. same \subseteq Nat /\ same \subseteq DOMAIN c.screens
        BY <1>1, <3>1, LenProperties
      <4>2. \E k \in same : \A j \in same : k <= j
        BY <3>2, <4>1, LeastNat
      <4>3. PICK k : k = CHOOSE n \in same : \A j \in same : n <= j
        OBVIOUS
      <4>4. k \in DOMAIN c.screens
        BY <4>1, <4>2, <4>3
      <4>5. Pad!ToggleScreen(c.screens, t.value) = Pad!RemoveAt(c.screens, k)
        BY <3>1, <3>2, <4>3 DEF Pad!ToggleScreen
      <4> QED BY <1>1, <4>4, <4>5, PadRemove
    <3>3. CASE same = {}
      <4>1. Pad!ToggleScreen(c.screens, t.value) = Append(c.screens, t.value)
        BY <3>1, <3>3 DEF Pad!ToggleScreen
      <4> QED BY <1>1, <1>3, <4>1, AppendProperties
    <3> QED BY <3>2, <3>3
  <2>2. Pad!Acted(c, t) = [c EXCEPT !.screens = Pad!ToggleScreen(c.screens, t.value)]
    BY <1>3 DEF Pad!Acted
  <2> QED BY <2>1, <2>2 DEF Pad!Postures, Asked
<1>4. CASE t.act = "audio" /\ t.value \in {"unset", "none", "mic"}
  <2>1. Pad!Acted(c, t) = [c EXCEPT !.audio = t.value]
    BY <1>4 DEF Pad!Acted
  <2> QED BY <1>4, <2>1 DEF Pad!Postures
<1>5. CASE t.act = "move" /\ t.value \in Pad!Placements
  <2>1. Pad!Acted(c, t) = [c EXCEPT !.webcam = t.value]
    BY <1>5 DEF Pad!Acted
  <2> QED BY <1>5, <2>1 DEF Pad!Postures
<1>6. CASE t.act = "hide"
  <2>1. Pad!Acted(c, t) = [c EXCEPT !.webcam = IF c.webcam = "unset" THEN c.webcam ELSE "off"]
    BY <1>6 DEF Pad!Acted
  <2>2. "off" \in Pad!Placements
    BY DEF Pad!Placements
  <2> QED BY <1>1, <2>1, <2>2 DEF Pad!Postures
<1>7. CASE t.act = "lemmings"
  <2>1. Pad!Acted(c, t) = [c EXCEPT !.lemmings = ~c.lemmings]
    BY <1>7 DEF Pad!Acted
  <2> QED BY <1>1, <2>1 DEF Pad!Postures
<1> QED BY <1>2, <1>3, <1>4, <1>5, <1>6, <1>7

LEMMA PadWindow ==
  ASSUME Pad!IInv
  PROVE  /\ win.flying \in Nat /\ win.latch \in BOOLEAN /\ win.tile \in {"?", "shown", "hidden", "error"} /\ win.real \in {"shown", "hidden"}
         /\ win = [flying |-> win.flying, latch |-> win.latch, tile |-> win.tile, real |-> win.real]
BY DEF Pad!IInv

\* What a step leaves of the window's switch when it does not touch it.
LEMMA PadSame ==
  ASSUME Pad!IInv, UNCHANGED <<win, lapsed>>,
         attached' \in Seq(Attachable), Pad!Distinct(attached'),
         inv' \in Pad!Listing, Pad!Distinct(inv'.screens), inv'.named \subseteq Pad!Range(inv'.screens),
         desired' \in Pad!Postures, posture' = [config |-> desired', inv |-> inv']
  PROVE  Pad!IInv'
BY DEF Pad!IInv

LEMMA PadNotes ==
  ASSUME Pad!IInv, UNCHANGED <<attached, inv, desired, posture>>,
         win' \in [flying : Nat, latch : BOOLEAN, tile : {"?", "shown", "hidden", "error"}, real : {"shown", "hidden"}],
         ~lapsed' => win'.flying <= 1 /\ (win'.flying > 0 => win'.latch),
         win'.tile \in {"shown", "hidden"} => win'.tile = win'.real
  PROVE  Pad!IInv'
BY DEF Pad!IInv

LEMMA PadPlug == ASSUME Pad!IInv, Pad!Plug PROVE Pad!IInv'
<1>1. UNCHANGED <<inv, desired, posture, win, lapsed>>
  BY DEF Pad!Plug
<1>2. attached \in Seq(Attachable) /\ Pad!Distinct(attached)
  BY DEF Pad!IInv
<1>3. DOMAIN attached = 1..Len(attached) /\ Len(attached) \in Nat
  BY <1>2, PadLists
<1>4. PICK a : a = attached'
  OBVIOUS
<1>5. a \in Seq(Attachable) /\ Pad!Distinct(a)
  <2>1. ASSUME NEW i \in DOMAIN attached, a = Pad!RemoveAt(attached, i) PROVE a \in Seq(Attachable) /\ Pad!Distinct(a)
    <3>1. /\ a \in Seq(Attachable) /\ DOMAIN a = 1..(Len(attached) - 1)
          /\ \A j \in 1..(Len(attached) - 1) : a[j] = attached[IF j < i THEN j ELSE j + 1]
      BY <1>2, <2>1, PadRemove
    <3>2. ASSUME NEW j \in DOMAIN a, NEW k \in DOMAIN a, a[j] = a[k] PROVE j = k
      <4>1. PICK x, y : x = (IF j < i THEN j ELSE j + 1) /\ y = (IF k < i THEN k ELSE k + 1)
        OBVIOUS
      <4>2. j \in 1..(Len(attached) - 1) /\ k \in 1..(Len(attached) - 1) /\ i \in 1..Len(attached)
        BY <1>3, <3>1
      <4>3. x \in DOMAIN attached /\ y \in DOMAIN attached
        BY <1>3, <4>1, <4>2
      <4>4. attached[x] = attached[y]
        BY <3>1, <3>2, <4>1, <4>2
      <4>5. x = y
        BY <1>2, <4>3, <4>4 DEF Pad!Distinct
      <4> QED BY <4>1, <4>2, <4>5
    <3> QED BY <3>1, <3>2 DEF Pad!Distinct
  <2>2. ASSUME NEW d \in Attachable \ Pad!Range(attached), a = Append(attached, d) PROVE a \in Seq(Attachable) /\ Pad!Distinct(a)
    <3>1. /\ a \in Seq(Attachable) /\ DOMAIN a = 1..(Len(attached) + 1) /\ a[Len(attached) + 1] = d
          /\ \A j \in 1..Len(attached) : a[j] = attached[j]
      BY <1>2, <2>2, AppendProperties, LenProperties
    <3>2. \A j \in 1..Len(attached) : attached[j] # d
      BY <1>3, <2>2 DEF Pad!Range
    <3>3. ASSUME NEW j \in DOMAIN a, NEW k \in DOMAIN a, a[j] = a[k] PROVE j = k
      BY <1>2, <1>3, <3>1, <3>2, <3>3 DEF Pad!Distinct
    <3> QED BY <3>1, <3>3 DEF Pad!Distinct
  <2> QED BY <1>4, <2>1, <2>2 DEF Pad!Plug
<1> QED BY <1>1, <1>4, <1>5, PadSame DEF Pad!IInv

LEMMA PadPoll == ASSUME Pad!IInv, Pad!Poll PROVE Pad!IInv'
<1>1. /\ inv' = Pad!Healed(inv, attached) /\ UNCHANGED <<attached, desired, win, lapsed>>
      /\ posture' = IF inv' # inv THEN [posture EXCEPT !.inv = inv'] ELSE posture
  BY DEF Pad!Poll
<1>2. inv' \in Pad!Listing /\ Pad!Distinct(inv'.screens) /\ inv'.named \subseteq Pad!Range(inv'.screens)
  BY <1>1, PadHealed DEF Pad!IInv
<1>3. posture' = [config |-> desired, inv |-> inv']
  BY <1>1 DEF Pad!IInv
<1> QED BY <1>1, <1>2, <1>3, PadSame DEF Pad!IInv

LEMMA PadProbed == ASSUME Pad!IInv, Pad!Probed PROVE Pad!IInv'
<1>1. /\ inv' = [probed |-> TRUE, screens |-> attached, named |-> Pad!Range(attached)] /\ UNCHANGED <<attached, desired, win, lapsed>>
      /\ posture' = [posture EXCEPT !.inv = inv']
  BY DEF Pad!Probed
<1>2. Pad!Range(attached) \subseteq Attachable
  BY PadLists DEF Pad!Range, Pad!IInv
<1>3. inv' \in Pad!Listing /\ Pad!Distinct(inv'.screens) /\ inv'.named \subseteq Pad!Range(inv'.screens)
  BY <1>1, <1>2 DEF Pad!IInv, Pad!Listing
<1>4. posture' = [config |-> desired, inv |-> inv']
  BY <1>1 DEF Pad!IInv
<1> QED BY <1>1, <1>3, <1>4, PadSame DEF Pad!IInv

LEMMA PadTap == ASSUME Pad!IInv, NEW t, Pad!Tap(t) PROVE Pad!IInv'
<1>1. /\ t \in Pad!Tiles(inv, desired) /\ desired' = Pad!Acted(desired, t) /\ posture' = [posture EXCEPT !.config = desired']
      /\ UNCHANGED <<attached, inv, win, lapsed>>
  BY DEF Pad!Tap, Pad!Saves
<1>2. desired' \in Pad!Postures
  BY <1>1, PadActed DEF Pad!IInv
<1>3. posture' = [config |-> desired', inv |-> inv]
  BY <1>1 DEF Pad!IInv
<1> QED BY <1>1, <1>2, <1>3, PadSame DEF Pad!IInv

LEMMA PadConfigure == ASSUME Pad!IInv, NEW d \in Attachable, Pad!Configure(Pad!Named(<<d>>)) PROVE Pad!IInv'
<1>1. PICK ss : ss = Pad!Named(<<d>>)
  OBVIOUS
<1>2. /\ desired' = [desired EXCEPT !.screens = ss] /\ posture' = [posture EXCEPT !.config = desired']
      /\ UNCHANGED <<attached, inv, win, lapsed>>
  BY <1>1 DEF Pad!Configure, Pad!Saves
<1>3. ss \in Seq(Asked)
  <2>1. DOMAIN <<d>> = 1..1 /\ <<d>>[1] = d
    OBVIOUS
  <2>2. Pad!Selector(d, "name") \in Asked
    BY DEF Pad!Selector, Asked, Pad!Spellings
  <2>3. ss \in [1..1 -> Asked]
    BY <1>1, <2>1, <2>2 DEF Pad!Named
  <2> QED BY <2>3, SeqDef
<1>4. desired' \in Pad!Postures
  BY <1>2, <1>3 DEF Pad!IInv, Pad!Postures, Asked
<1>5. posture' = [config |-> desired', inv |-> inv]
  BY <1>2 DEF Pad!IInv
<1> QED BY <1>2, <1>4, <1>5, PadSame DEF Pad!IInv

LEMMA PadToggles == ASSUME Pad!IInv, Pad!TapWindow \/ Pad!Wedge \/ (\E ok \in BOOLEAN : Pad!NoteWindow(ok)) PROVE Pad!IInv'
<1>1. /\ win.flying \in Nat /\ win.latch \in BOOLEAN /\ win.tile \in {"?", "shown", "hidden", "error"} /\ win.real \in {"shown", "hidden"}
      /\ win = [flying |-> win.flying, latch |-> win.latch, tile |-> win.tile, real |-> win.real]
  BY PadWindow
<1>2. ~lapsed => win.flying <= 1 /\ (win.flying > 0 => win.latch)
  BY DEF Pad!IInv
<1>3. win.tile \in {"shown", "hidden"} => win.tile = win.real
  BY DEF Pad!IInv
<1>4. CASE Pad!TapWindow
  <2>1. ~win.latch /\ win' = [win EXCEPT !.latch = TRUE, !.flying = win.flying + 1] /\ UNCHANGED <<attached, inv, desired, posture, lapsed>>
    BY <1>4 DEF Pad!TapWindow, Pad!MayToggle
  <2>2. win' = [flying |-> win.flying + 1, latch |-> TRUE, tile |-> win.tile, real |-> win.real]
    BY <1>1, <2>1
  <2>3. win' \in [flying : Nat, latch : BOOLEAN, tile : {"?", "shown", "hidden", "error"}, real : {"shown", "hidden"}]
    BY <1>1, <2>2
  <2>4. ~lapsed' => win'.flying <= 1 /\ (win'.flying > 0 => win'.latch)
    BY <1>1, <1>2, <2>1, <2>2
  <2>5. win'.tile \in {"shown", "hidden"} => win'.tile = win'.real
    BY <1>3, <2>2
  <2> QED BY <2>1, <2>3, <2>4, <2>5, PadNotes
<1>5. CASE Pad!Wedge
  <2>1. lapsed' = TRUE /\ win' = [win EXCEPT !.latch = FALSE] /\ UNCHANGED <<attached, inv, desired, posture>>
    BY <1>5 DEF Pad!Wedge
  <2>2. win' = [flying |-> win.flying, latch |-> FALSE, tile |-> win.tile, real |-> win.real]
    BY <1>1, <2>1
  <2> QED BY <1>1, <1>3, <2>1, <2>2, PadNotes
<1>6. ASSUME NEW ok \in BOOLEAN, Pad!NoteWindow(ok) PROVE Pad!IInv'
  <2>1. win.flying > 0 /\ win' = Pad!Noted(ok) /\ UNCHANGED <<attached, inv, desired, posture, lapsed>>
    BY <1>6 DEF Pad!NoteWindow
  <2>2. CASE ok
    <3>1. PICK to \in {"shown", "hidden"} : win' = [win EXCEPT !.flying = win.flying - 1, !.latch = FALSE, !.real = to, !.tile = to]
      BY <2>1, <2>2 DEF Pad!Noted
    <3>2. win' = [flying |-> win.flying - 1, latch |-> FALSE, tile |-> to, real |-> to]
      BY <1>1, <3>1
    <3> QED BY <1>1, <1>2, <2>1, <3>2, PadNotes
  <2>3. CASE ~ok
    <3>1. win' = [win EXCEPT !.flying = win.flying - 1, !.latch = FALSE, !.tile = "error"]
      BY <2>1, <2>3 DEF Pad!Noted
    <3>2. win' = [flying |-> win.flying - 1, latch |-> FALSE, tile |-> "error", real |-> win.real]
      BY <1>1, <3>1
    <3> QED BY <1>1, <1>2, <2>1, <3>2, PadNotes
  <2> QED BY <2>2, <2>3
<1> QED BY <1>4, <1>5, <1>6

LEMMA PadRestart == ASSUME Pad!IInv, Pad!Restart PROVE Pad!IInv'
<1>1. /\ desired' = posture.config /\ inv' = posture.inv /\ win' = [win EXCEPT !.flying = 0, !.latch = FALSE, !.tile = "?"]
      /\ UNCHANGED <<attached, posture, lapsed>>
  BY DEF Pad!Restart
<1>2. desired' = desired /\ inv' = inv
  BY <1>1 DEF Pad!IInv
<1>3. win' = [flying |-> 0, latch |-> FALSE, tile |-> "?", real |-> win.real]
  BY <1>1, PadWindow
<1>4. win' \in [flying : Nat, latch : BOOLEAN, tile : {"?", "shown", "hidden", "error"}, real : {"shown", "hidden"}]
  BY <1>3, PadWindow
<1>5. ~lapsed' => win'.flying <= 1 /\ (win'.flying > 0 => win'.latch)
  BY <1>3
<1>6. win'.tile \in {"shown", "hidden"} => win'.tile = win'.real
  BY <1>3
<1>7. UNCHANGED <<attached, inv, desired, posture>>
  BY <1>1, <1>2
<1> QED BY <1>4, <1>5, <1>6, <1>7, PadNotes

\* What is on disk is what the owner has, and the toggle of the OBS window that flies is
\* latched (saveConfigLocked, windowEffectsLocked).
THEOREM PadInvariant == Pad!Spec => []Pad!IInv
<1>1. ASSUME Pad!Init PROVE Pad!IInv
  <2>1. /\ attached \in UNION {[1..n -> Attachable] : n \in 0..Pad!Cardinality(Attachable)} /\ Pad!Distinct(attached)
        /\ inv = Pad!NoInventory /\ desired = Pad!NoConfig /\ posture = [config |-> Pad!NoConfig, inv |-> Pad!NoInventory]
        /\ win = [flying |-> 0, latch |-> FALSE, tile |-> "?", real |-> "shown"]
    BY <1>1 DEF Pad!Init
  <2>2. attached \in Seq(Attachable)
    <3>1. PICK n \in 0..Pad!Cardinality(Attachable) : attached \in [1..n -> Attachable]
      BY <2>1
    <3>2. n \in Nat
      OBVIOUS
    <3> QED BY <3>1, <3>2, SeqDef
  <2>3. /\ inv \in Pad!Listing /\ Pad!Distinct(inv.screens) /\ inv.named \subseteq Pad!Range(inv.screens)
    BY <2>1 DEF Pad!NoInventory, Pad!Listing, Pad!Distinct
  <2>4. desired \in Pad!Postures
    BY <2>1 DEF Pad!NoConfig, Pad!Postures, Pad!Placements
  <2> QED BY <2>1, <2>2, <2>3, <2>4 DEF Pad!IInv
<1>2. ASSUME Pad!IInv, Pad!Next PROVE Pad!IInv'
  BY <1>2, PadPlug, PadPoll, PadProbed, PadTap, PadConfigure, PadToggles, PadRestart DEF Pad!Next
<1>3. ASSUME Pad!IInv, UNCHANGED Pad!vars PROVE Pad!IInv'
  BY <1>3 DEF Pad!IInv, Pad!vars
<1>4. Pad!IInv /\ [Pad!Next]_Pad!vars => Pad!IInv'
  BY <1>2, <1>3
<1> QED BY <1>1, <1>4, PTL DEF Pad!Spec

\* The tiles of the screens are the tiles of their section.
LEMMA PadScreens ==
  ASSUME NEW i, NEW c, i.probed
  PROVE  /\ Pad!ScreenTiles(i, c) \subseteq Pad!Tiles(i, c)
         /\ \A t \in Pad!Tiles(i, c) : t.section = "screens" => t \in Pad!ScreenTiles(i, c)
<1>1. Pad!Tiles(i, c) = Pad!ScreenTiles(i, c) \cup Pad!ChoiceTiles(c) \cup Pad!SlideTiles(c) \cup Pad!SizeTiles(c)
       \cup {Pad!Tile("fx", "big", c.webcam = "big", "move"), Pad!Tile("fx", "off", FALSE, "hide"), Pad!LemmingsTile(c)}
  BY DEF Pad!Tiles
<1>2. \A t \in Pad!ChoiceTiles(c) \cup Pad!SlideTiles(c) : t.section # "screens"
  BY DEF Pad!ChoiceTiles, Pad!SlideTiles, Pad!Tile
<1>3. \A t \in Pad!SizeTiles(c) : t.section # "screens"
  <2> SUFFICES ASSUME NEW t \in Pad!SizeTiles(c) PROVE t.section # "screens"
    OBVIOUS
  <2>1. PICK p : p = Pad!Placement(Pad!Corner(c.webcam), ~Pad!Grown(c.webcam))
    OBVIOUS
  <2>2. t = Pad!Tile("fx", p, FALSE, "move")
    BY <2>1 DEF Pad!SizeTiles
  <2> QED BY <2>2 DEF Pad!Tile
<1>4. Pad!Tile("fx", "big", c.webcam = "big", "move").section # "screens" /\ Pad!Tile("fx", "off", FALSE, "hide").section # "screens"
  BY DEF Pad!Tile
<1>5. Pad!LemmingsTile(c).section # "screens"
  <2>1. PICK v : v = IF ~c.lemmings THEN "off" ELSE IF c.webcam \in {"unset", "off"} THEN "no cam" ELSE "on"
    OBVIOUS
  <2>2. PICK l : l = c.lemmings
    OBVIOUS
  <2>3. Pad!LemmingsTile(c) = Pad!Tile("fx", v, l, "lemmings")
    BY <2>1, <2>2, Zenon DEF Pad!LemmingsTile
  <2> QED BY <2>3 DEF Pad!Tile
<1> QED BY <1>1, <1>2, <1>3, <1>4, <1>5

LEMMA PadIsThePlan == ASSUME Pad!IInv PROVE Pad!PadIsPlan
<1> SUFFICES ASSUME inv.probed, attached # <<>>
             PROVE  /\ {t.value.display : t \in {u \in Pad!Drawn : u.section = "screens" /\ u.lit}} = Pad!Recorded
                    /\ Pad!Recorded \subseteq Pad!Range(attached)
                    /\ \A s \in Pad!Range(desired.screens) :
                         s.display \in Pad!Recorded \/ \E t \in Pad!Drawn : t.section = "screens" /\ t.value = s /\ ~t.lit
                    /\ \A d \in Pad!Range(attached) :
                         \E t \in Pad!Drawn : t.section = "screens" /\ t.value = Pad!Selector(d, "value")
  BY DEF Pad!PadIsPlan
<1>1. PICK h : h = Pad!Healed(inv, attached)
  OBVIOUS
<1>2. h \in Pad!Listing /\ h.probed /\ Pad!Range(h.screens) = Pad!Range(attached)
  BY <1>1, PadHealed DEF Pad!IInv
<1>3. h.screens \in Seq(Attachable)
  BY <1>2 DEF Pad!Listing
<1>4. /\ Pad!ScreenTiles(h, desired) \subseteq Pad!Drawn
      /\ \A t \in Pad!Drawn : t.section = "screens" => t \in Pad!ScreenTiles(h, desired)
  BY <1>1, <1>2, PadScreens DEF Pad!Drawn
<1>5. \A s : Pad!Resolves(h, s) => s.display \in Pad!Range(attached)
  BY <1>2, <1>3, PadHas DEF Pad!Resolves
<1>6. Pad!Recorded = {s.display : s \in {t \in Pad!Range(desired.screens) : Pad!Resolves(h, t)}}
  BY <1>1 DEF Pad!Recorded
<1>7. \A d : Pad!Lit(h, desired, d) <=> d \in Pad!Recorded
  BY <1>6 DEF Pad!Lit, Pad!Range
<1>8. Pad!Recorded \subseteq Pad!Range(attached)
  BY <1>5, <1>6
<1>9. ASSUME NEW d \in Pad!Range(attached)
      PROVE  \E t \in Pad!Drawn : /\ t.section = "screens" /\ t.value = Pad!Selector(d, "value") /\ t.value.display = d
                                /\ (t.lit <=> d \in Pad!Recorded)
  <2>1. PICK l \in BOOLEAN : l = Pad!Lit(h, desired, d)
    BY DEF Pad!Lit
  <2>2. PICK t : t = Pad!Tile("screens", Pad!Selector(d, "value"), Pad!Lit(h, desired, d), "screen")
    OBVIOUS
  <2>3. t \in Pad!ScreenTiles(h, desired)
    BY <1>2, <2>2 DEF Pad!ScreenTiles
  <2>4. t.section = "screens" /\ t.value = Pad!Selector(d, "value") /\ (t.lit <=> Pad!Lit(h, desired, d))
    BY <2>2 DEF Pad!Tile
  <2>5. Pad!Selector(d, "value").display = d
    BY DEF Pad!Selector
  <2> QED BY <1>4, <1>7, <2>3, <2>4, <2>5
<1>10. ASSUME NEW t \in Pad!Drawn, t.section = "screens", t.lit PROVE t.value.display \in Pad!Recorded
  <2>1. t \in Pad!ScreenTiles(h, desired)
    BY <1>4, <1>10
  <2>2. CASE \E d \in Pad!Range(h.screens) : t = Pad!Tile("screens", Pad!Selector(d, "value"), Pad!Lit(h, desired, d), "screen")
    <3>1. PICK d \in Pad!Range(h.screens) : t = Pad!Tile("screens", Pad!Selector(d, "value"), Pad!Lit(h, desired, d), "screen")
      BY <2>2
    <3>2. t.value = Pad!Selector(d, "value") /\ (t.lit <=> Pad!Lit(h, desired, d))
      BY <3>1 DEF Pad!Tile
    <3>3. Pad!Selector(d, "value").display = d
      BY DEF Pad!Selector
    <3> QED BY <1>7, <1>10, <3>2, <3>3
  <2>3. CASE \E s : t = Pad!Tile("screens", s, FALSE, "screen")
    BY <1>10, <2>3 DEF Pad!Tile
  <2> QED BY <2>1, <2>2, <2>3 DEF Pad!ScreenTiles
<1>11. {t.value.display : t \in {u \in Pad!Drawn : u.section = "screens" /\ u.lit}} = Pad!Recorded
  <2>1. ASSUME NEW d \in Pad!Recorded PROVE \E t \in Pad!Drawn : t.section = "screens" /\ t.lit /\ t.value.display = d
    BY <1>8, <1>9
  <2> QED BY <1>10, <2>1
<1>12. ASSUME NEW s \in Pad!Range(desired.screens)
       PROVE  s.display \in Pad!Recorded \/ \E t \in Pad!Drawn : t.section = "screens" /\ t.value = s /\ ~t.lit
  <2>1. CASE Pad!Resolves(h, s)
    BY <1>6, <2>1
  <2>2. CASE ~Pad!Resolves(h, s)
    <3>1. s \in Pad!Missing(h, desired)
      BY <2>2 DEF Pad!Missing, Pad!Range
    <3>2. PICK t : t = Pad!Tile("screens", s, FALSE, "screen")
      OBVIOUS
    <3>3. t \in Pad!ScreenTiles(h, desired)
      BY <3>1, <3>2 DEF Pad!ScreenTiles
    <3>4. t.section = "screens" /\ t.value = s /\ ~t.lit
      BY <3>2 DEF Pad!Tile
    <3> QED BY <1>4, <3>3, <3>4
  <2> QED BY <2>1, <2>2
<1> QED BY <1>8, <1>9, <1>11, <1>12

LEMMA PadSlides == Pad!SlideKeepsSize
<1>1. ASSUME NEW t \in Pad!SlideTiles(desired) PROVE Pad!Grown(t.value) = Pad!Grown(desired.webcam)
  <2>1. PICK g \in BOOLEAN : g = Pad!Grown(desired.webcam)
    BY PadGrown
  <2>2. PICK k \in Pad!Corners : t.value = Pad!Placement(k, g)
    BY <2>1 DEF Pad!SlideTiles, Pad!Tile
  <2>3. Pad!Grown(t.value) <=> g
    BY <2>2, PadCorners
  <2> QED BY <2>1, <2>3, PadGrown
<1>2. ASSUME NEW t \in Pad!SizeTiles(desired) PROVE Pad!Corner(t.value) = Pad!Corner(desired.webcam)
  <2>1. PICK g \in BOOLEAN : g = (~Pad!Grown(desired.webcam))
    BY PadGrown
  <2>2. PICK p : p = Pad!Placement(Pad!Corner(desired.webcam), g)
    OBVIOUS
  <2>3. Pad!Corner(desired.webcam) # "none" /\ t = Pad!Tile("fx", p, FALSE, "move")
    BY <2>1, <2>2 DEF Pad!SizeTiles
  <2>4. t.value = p
    BY <2>3 DEF Pad!Tile
  <2>5. Pad!Corner(desired.webcam) \in Pad!Corners
    BY <2>3, PadCorners
  <2> QED BY <2>2, <2>4, <2>5, PadCorners
<1> QED BY <1>1, <1>2 DEF Pad!SlideKeepsSize

\* The recorder pad draws what the next take would record, in every enumeration of displays,
\* and its window tile what OBS shows (recorderTiles, obsWindowTile).
THEOREM PadIsSafe == Pad!Spec => [](Pad!TypeOK /\ Pad!PadSafe)
<1>1. ASSUME Pad!IInv PROVE Pad!TypeOK
  BY <1>1 DEF Pad!IInv, Pad!TypeOK, Pad!Listing
<1>2. ASSUME Pad!IInv PROVE Pad!HealSettles
  BY <1>2, PadHealed DEF Pad!IInv, Pad!HealSettles
<1>3. ASSUME Pad!IInv PROVE Pad!PostureIsSaved /\ Pad!WindowTileTrue
  BY <1>3 DEF Pad!IInv, Pad!PostureIsSaved, Pad!WindowTileTrue
<1>4. Pad!IInv => Pad!TypeOK /\ Pad!PadSafe
  BY <1>1, <1>2, <1>3, PadIsThePlan, PadSlides DEF Pad!PadSafe
<1> QED BY <1>4, PadInvariant, PTL

(***************************************************************************)
(* What the presenter has in hand: the run and the pad.                    *)
(***************************************************************************)
\* The clock of a demo ticks at its cursor, steps come from the script that was vetted, the
\* journal is the run and the menu reaches every step (reno.go); the recorder pad draws what
\* the next take would record, in every enumeration of displays (view.go, adhoc.go).
DemoSafe == /\ Demo!TypeOK /\ Demo!RunSafe
            /\ Pad!TypeOK /\ Pad!PadSafe

\* DemoSafe for any scripts, menus, displays, taps, edits, failed writes and restarts.
THEOREM DemoIsSafe == Demo!Spec /\ Pad!Spec => []DemoSafe
BY RunIsSafe, PadIsSafe, PTL DEF DemoSafe

(***************************************************************************)
(* The scene.                                                              *)
(***************************************************************************)
CONSTANTS Displays, Wanted, MaxApplies, MaxSceneEdits, MaxRequestFaults
VARIABLES input, items, canvas, stash, home, present, sceneVerb, result, applies, obsEdits, obsFaults
Scene == INSTANCE RenoScene WITH verb <- sceneVerb, MaxEdits <- MaxSceneEdits

\* The user's canvas is shown or set aside; an answer stands until the next verb; and an
\* answered release is still true.
SceneInv ==
  /\ stash \in {{}, {home}} /\ (stash = {} => canvas = home)
  /\ result.end # "none" => sceneVerb.at = "idle"
  /\ result.end = "released" => Scene!On \cap Scene!Ours = {} /\ canvas = home

LEMMA SceneReleases == ASSUME SceneInv, NEW kept, NEW restored \in BOOLEAN, Scene!Release(kept, restored) PROVE SceneInv'
<1>1. /\ items' = Scene!Released(kept) /\ stash' = {} /\ canvas' = Scene!Restored(restored)
      /\ home' = (IF stash # {} /\ ~restored THEN canvas ELSE home) /\ sceneVerb.at = "idle" /\ sceneVerb' = sceneVerb
      /\ result' = [end |-> IF kept = {} /\ restored THEN "released" ELSE "failed", config |-> Scene!None]
  BY DEF Scene!Release
<1>2. canvas' = home'
  <2>1. CASE stash = {home} /\ restored
    BY <1>1, <2>1 DEF Scene!Restored
  <2>2. CASE stash = {home} /\ ~restored
    BY <1>1, <2>2 DEF Scene!Restored
  <2>3. CASE stash = {}
    BY <1>1, <2>3 DEF Scene!Restored, SceneInv
  <2> QED BY <2>1, <2>2, <2>3 DEF SceneInv
<1>3. ASSUME result'.end = "released" PROVE Scene!On' \cap Scene!Ours = {}
  <2>1. kept = {}
    BY <1>1, <1>3
  <2>2. PICK is : is = items'
    OBVIOUS
  <2>3. DOMAIN is = DOMAIN items /\ \A i \in DOMAIN items : is[i] = (IF items[i].name \in Scene!Ours THEN [name |-> items[i].name, on |-> FALSE] ELSE items[i])
    BY <1>1, <2>1, <2>2 DEF Scene!Released
  <2>4. \A i \in DOMAIN is : is[i].on => is[i].name \notin Scene!Ours
    BY <2>3
  <2> QED BY <2>2, <2>4 DEF Scene!On
<1> QED BY <1>1, <1>2, <1>3 DEF SceneInv

\* A verb on its way: the canvas is set aside before it is resized.
LEMMA SceneGoesOn ==
  ASSUME SceneInv, sceneVerb.at # "idle", home' = home,
         \/ stash' = stash /\ canvas' = canvas
         \/ stash' = Scene!Stashed,
         result' = result \/ (sceneVerb' = Scene!Idle /\ result'.end \in {"ok", "failed"})
  PROVE  SceneInv'
<1>1. result.end = "none"
  BY DEF SceneInv
<1>2. stash' \in {{}, {home'}} /\ (stash' = {} => canvas' = home')
  BY DEF SceneInv, Scene!Stashed
<1> QED BY <1>1, <1>2 DEF SceneInv, Scene!Idle

LEMMA SceneSteps == ASSUME SceneInv, Scene!Next PROVE SceneInv'
<1>1. ASSUME NEW c \in Wanted, Scene!Apply(c) PROVE SceneInv'
  BY <1>1 DEF SceneInv, Scene!Apply
<1>2. CASE Scene!Probe
  BY <1>2, SceneGoesOn DEF Scene!Probe, Scene!Unchanged
<1>3. CASE Scene!MakePlan
  BY <1>3, SceneGoesOn DEF Scene!MakePlan, Scene!Unchanged, Scene!Ends
<1>4. CASE Scene!PlaceNext
  BY <1>4, SceneGoesOn DEF Scene!PlaceNext, Scene!Unchanged
<1>5. CASE Scene!FitCanvas
  BY <1>5, SceneGoesOn DEF Scene!FitCanvas
<1>6. CASE Scene!CanvasFails
  BY <1>6, SceneGoesOn DEF Scene!CanvasFails, Scene!Ends
<1>7. CASE Scene!RemoveStale
  BY <1>7, SceneGoesOn DEF Scene!RemoveStale, Scene!Unchanged
<1>8. CASE Scene!MuteNext
  BY <1>8, SceneGoesOn DEF Scene!MuteNext, Scene!Unchanged
<1>9. CASE Scene!StackNext
  BY <1>9, SceneGoesOn DEF Scene!StackNext, Scene!Unchanged, Scene!Ends
<1>10. CASE Scene!RequestFails
  BY <1>10, SceneGoesOn DEF Scene!RequestFails, Scene!Unchanged, Scene!Ends
<1>11. CASE Scene!HandEdit
  BY <1>11 DEF Scene!HandEdit, SceneInv
<1> QED BY <1>1, <1>2, <1>3, <1>4, <1>5, <1>6, <1>7, <1>8, <1>9, <1>10, <1>11, SceneReleases DEF Scene!Next

\* A release that reports no failure leaves nothing of reno up and the user's canvas on, and
\* the canvas set aside is always his (releaseHardware, restoreCanvas, stashCanvas).
THEOREM ReleaseIsHonest == Scene!Spec => [](Scene!ReleasedIsDown /\ Scene!StashIsHome)
<1>1. ASSUME Scene!Init PROVE SceneInv
  <2>1. result = [end |-> "none", config |-> Scene!None]
    BY <1>1 DEF Scene!Init
  <2>2. result.end = "none"
    BY <2>1
  <2>3. stash = {} /\ canvas = <<>> /\ home = <<>>
    BY <1>1 DEF Scene!Init
  <2> QED BY <2>2, <2>3 DEF SceneInv
<1>2. ASSUME SceneInv, UNCHANGED Scene!vars PROVE SceneInv'
  BY <1>2 DEF SceneInv, Scene!vars, Scene!On
<1>3. SceneInv /\ [Scene!Next]_Scene!vars => SceneInv'
  BY <1>2, SceneSteps
<1>4. SceneInv => Scene!ReleasedIsDown /\ Scene!StashIsHome
  BY DEF SceneInv, Scene!ReleasedIsDown, Scene!StashIsHome
<1> QED BY <1>1, <1>3, <1>4, PTL DEF Scene!Spec

(***************************************************************************)
(* Bringing OBS up.                                                        *)
(***************************************************************************)
CONSTANTS Files, Asserted, Local, Installed, MaxHandActs, MaxBoots
VARIABLES password, config, ini, sentinel, log, app, boot, raced, handActs, boots
Boot == INSTANCE RenoBoot WITH obs <- app

\* An OBS a verb launched undisturbed, as long as it runs.
Launched == app.by = "reno" => app.at = "up" /\ app.bound = "ours" /\ password

\* Where a verb that nobody disturbed stands: what it seeded is on disk, and the OBS it found
\* down stays down until it launches one that binds its own websocket; and a question in the
\* log of a live OBS is still being asked.
BootInv ==
  /\ DOMAIN boot = {"at", "answer"} /\ DOMAIN app = {"at", "bound", "ini", "by"}
  /\ log = "unclean" /\ Boot!Running => app.at = "asking"
  /\ boot.at \in {"seeded", "probed", "cleared", "launched"} => config = "seeded" /\ password
  /\ ~ raced /\ boot.at \in {"probed", "cleared"} => ~ Boot!Running
  /\ ~ raced /\ boot.at = "cleared" => ~ sentinel
  /\ ~ raced /\ boot.at = "launched" => app.bound = "ours"
  /\ ~ raced /\ boot.at = "idle" => boot.answer # "unreachable" /\ (boot.answer = "safe mode" => app.at = "asking")
  /\ Launched

\* A verb goes on without an answer, or answers.
LEMMA BootGoesOn ==
  ASSUME NEW step, Boot!At(step), DOMAIN boot = {"at", "answer"}
  PROVE  DOMAIN boot' = {"at", "answer"} /\ boot'.at = step /\ boot'.answer = boot.answer
BY DEF Boot!At
LEMMA BootAnswers ==
  ASSUME NEW a, Boot!Answer(a)
  PROVE  DOMAIN boot' = {"at", "answer"} /\ boot'.at = "idle" /\ boot'.answer = a
BY DEF Boot!Answer

\* OBS starts, over a sentinel with a question.
LEMMA BootOpens ==
  ASSUME NEW by, Boot!Opens(by)
  PROVE  /\ DOMAIN app' = {"at", "bound", "ini", "by"} /\ app'.by = by /\ sentinel'
         /\ sentinel => app'.at = "asking" /\ log' = "unclean"
         /\ ~ sentinel => app'.at = "up" /\ log' # "unclean" /\ (config = "seeded" => app'.bound = "ours")
BY DEF Boot!Opens, Boot!Binds

LEMMA BootGoes == ASSUME BootInv, Boot!Next PROVE BootInv'
<1>1. CASE Boot!Dial
  <2>1. /\ UNCHANGED <<password, config, ini, sentinel, log, app>> /\ DOMAIN boot' = {"at", "answer"}
        /\ \/ boot'.at = "dialed"
           \/ boot'.at = "idle" /\ boot'.answer \in {"connected", "not local", "no app"}
    BY <1>1, BootGoesOn, BootAnswers DEF Boot!Dial, BootInv
  <2> QED BY <2>1 DEF BootInv, Launched, Boot!Running
<1>2. CASE Boot!Seed
  <2>1. /\ UNCHANGED <<sentinel, log, app, raced>> /\ password' /\ DOMAIN boot' = {"at", "answer"}
        /\ \/ boot'.at = "seeded" /\ config' = "seeded"
           \/ boot'.at = "idle" /\ boot'.answer = "bad config"
    BY <1>2, BootGoesOn, BootAnswers DEF Boot!Seed, BootInv
  <2> QED BY <2>1 DEF BootInv, Launched, Boot!Running
<1>3. CASE Boot!Probe
  <2>1. /\ UNCHANGED <<password, config, ini, sentinel, log, app, raced>> /\ DOMAIN boot' = {"at", "answer"} /\ boot.at = "seeded"
        /\ \/ boot'.at = "probed" /\ ~ Boot!Running
           \/ boot'.at = "idle" /\ Boot!Running /\ boot'.answer = "quit it first"
           \/ boot'.at = "idle" /\ Boot!Running /\ boot'.answer = "safe mode" /\ log = "unclean"
    BY <1>3, BootGoesOn, BootAnswers DEF Boot!Probe, Boot!Probed, BootInv
  <2> QED BY <2>1 DEF BootInv, Launched, Boot!Running
<1>4. CASE Boot!ClearSentinel
  <2>1. /\ UNCHANGED <<password, config, ini, log, app, raced>> /\ DOMAIN boot' = {"at", "answer"} /\ boot.at = "probed"
        /\ boot'.at = "cleared" /\ ~ sentinel'
    BY <1>4, BootGoesOn DEF Boot!ClearSentinel, Boot!Cleared, BootInv
  <2> QED BY <2>1 DEF BootInv, Launched, Boot!Running
<1>5. CASE Boot!Launch
  <2>1. /\ UNCHANGED <<password, config, raced>> /\ DOMAIN boot' = {"at", "answer"} /\ boot.at = "cleared" /\ boot'.at = "launched"
    BY <1>5, BootGoesOn DEF Boot!Launch, BootInv
  <2>2. CASE Boot!Running
    <3>1. UNCHANGED <<app, log>>
      BY <1>5, <2>2 DEF Boot!Launch
    <3> QED BY <2>1, <2>2, <3>1 DEF BootInv, Launched, Boot!Running
  <2>3. CASE ~ Boot!Running /\ raced
    <3>1. Boot!Opens("user")
      BY <1>5, <2>3 DEF Boot!Launch
    <3> QED BY <2>1, <2>3, <3>1, BootOpens DEF BootInv, Launched, Boot!Running
  <2>4. CASE ~ Boot!Running /\ ~ raced
    <3>1. Boot!Opens("reno")
      BY <1>5, <2>4 DEF Boot!Launch
    <3> QED BY <2>1, <2>4, <3>1, BootOpens DEF BootInv, Launched, Boot!Running
  <2> QED BY <2>2, <2>3, <2>4
<1>6. CASE Boot!Await
  <2>1. /\ UNCHANGED <<password, config, ini, sentinel, log, app, raced>> /\ DOMAIN boot' = {"at", "answer"} /\ boot.at = "launched"
        /\ boot'.at = "idle" /\ boot'.answer = IF app.bound = "ours" THEN "connected" ELSE "unreachable"
    BY <1>6, BootAnswers DEF Boot!Await
  <2> QED BY <2>1 DEF BootInv, Launched, Boot!Running
<1>7. CASE Boot!Open
  <2>1. UNCHANGED <<password, boot, config>> /\ raced' /\ Boot!Opens("user")
    BY <1>7 DEF Boot!Open, Boot!ByHand
  <2>2. DOMAIN app' = {"at", "bound", "ini", "by"} /\ app'.by = "user" /\ (log' = "unclean" => app'.at = "asking")
    BY <2>1, BootOpens
  <2> QED BY <2>1, <2>2 DEF BootInv, Launched, Boot!Running
<1>8. CASE Boot!Decide
  <2>1. /\ UNCHANGED <<password, boot, config>> /\ raced' /\ log' = "answered" /\ app.at = "asking"
        /\ \/ app' = [app EXCEPT !.at = "up", !.bound = Boot!Binds]
           \/ app' = [app EXCEPT !.at = "up"]
    BY <1>8 DEF Boot!Decide, Boot!ByHand
  <2>2. DOMAIN app' = DOMAIN app /\ app'.by = app.by
    BY <2>1 DEF BootInv
  <2> QED BY <2>1, <2>2 DEF BootInv, Launched, Boot!Running
<1>9. CASE Boot!Quit \/ Boot!Crash
  <2>1. UNCHANGED <<password, boot, config, log>> /\ raced' /\ app' = Boot!Down
    BY <1>9 DEF Boot!Quit, Boot!Crash, Boot!ByHand
  <2>2. DOMAIN app' = {"at", "bound", "ini", "by"} /\ app'.at = "down" /\ app'.by = "user"
    BY <2>1 DEF Boot!Down
  <2> QED BY <2>1, <2>2 DEF BootInv, Launched, Boot!Running
<1> QED BY <1>1, <1>2, <1>3, <1>4, <1>5, <1>6, <1>7, <1>8, <1>9 DEF Boot!Next

\* A verb waits in vain only for an OBS that somebody touched, and blames the safe-mode
\* question only while it is asked; and an OBS that a verb launched, and that nobody touched
\* since it dialled, answers the password on file (Ensure).
THEOREM ExcuseHolds == Boot!Spec => [](Boot!ExcuseIsTrue /\ Launched)
<1>1. ASSUME Boot!Init PROVE BootInv
  <2>1. /\ log = "" /\ app = Boot!Down /\ boot = [at |-> "idle", answer |-> ""]
    BY <1>1 DEF Boot!Init
  <2>2. DOMAIN app = {"at", "bound", "ini", "by"} /\ app.at = "down" /\ app.by = "user"
    BY <2>1 DEF Boot!Down
  <2>3. DOMAIN boot = {"at", "answer"} /\ boot.at = "idle" /\ boot.answer = ""
    BY <2>1
  <2> QED BY <2>1, <2>2, <2>3 DEF BootInv, Launched, Boot!Running
<1>2. ASSUME BootInv, UNCHANGED Boot!vars PROVE BootInv'
  BY <1>2 DEF BootInv, Launched, Boot!vars, Boot!Running
<1>3. BootInv /\ [Boot!Next]_Boot!vars => BootInv'
  BY <1>2, BootGoes
<1>4. BootInv => Boot!ExcuseIsTrue /\ Launched
  BY DEF BootInv, Boot!ExcuseIsTrue
<1> QED BY <1>1, <1>3, <1>4, PTL DEF Boot!Spec

\* What a step of the verb owes the user.
BootOwes ==
  /\ Boot!Running => app' = app /\ (ini # <<>> => ini' = ini)
  /\ config = "garbage" => config' = config
  /\ boot'.answer = boot.answer \/ boot'.answer # "connected" \/ app.bound = "ours"

LEMMA BootAnswerStays == ASSUME NEW step, Boot!At(step), DOMAIN boot = {"at", "answer"} PROVE boot'.answer = boot.answer
BY BootGoesOn
LEMMA BootAnswerIs == ASSUME NEW a, Boot!Answer(a) PROVE boot'.answer = a
BY BootAnswers

LEMMA BootOwesStep == ASSUME DOMAIN boot = {"at", "answer"}, Boot!Next, boot' # boot PROVE BootOwes
<1>1. CASE Boot!Dial
  <2>1. app' = app /\ ini' = ini /\ config' = config
    BY <1>1 DEF Boot!Dial
  <2>2. boot'.answer = boot.answer \/ boot'.answer # "connected" \/ app.bound = "ours"
    BY <1>1, BootAnswerStays, BootAnswerIs DEF Boot!Dial
  <2> QED BY <2>1, <2>2 DEF BootOwes
<1>2. CASE Boot!Seed
  <2>1. app' = app /\ (config = "garbage" => config' = config)
    BY <1>2 DEF Boot!Seed
  <2>2. Boot!Running /\ ini # <<>> => ini' = ini
    BY <1>2 DEF Boot!Seed, Boot!SeededIni, Boot!Present
  <2>3. boot'.answer = boot.answer \/ boot'.answer # "connected"
    BY <1>2, BootAnswerStays, BootAnswerIs DEF Boot!Seed
  <2> QED BY <2>1, <2>2, <2>3 DEF BootOwes
<1>3. CASE Boot!Probe
  <2>1. app' = app /\ ini' = ini /\ config' = config
    BY <1>3 DEF Boot!Probe
  <2>2. boot'.answer = boot.answer \/ boot'.answer # "connected"
    BY <1>3, BootAnswerStays, BootAnswerIs DEF Boot!Probe, Boot!Probed
  <2> QED BY <2>1, <2>2 DEF BootOwes
<1>4. CASE Boot!ClearSentinel
  <2>1. app' = app /\ ini' = ini /\ config' = config
    BY <1>4 DEF Boot!ClearSentinel
  <2>2. boot'.answer = boot.answer
    BY <1>4, BootAnswerStays DEF Boot!ClearSentinel
  <2> QED BY <2>1, <2>2 DEF BootOwes
<1>5. CASE Boot!Launch
  <2>1. ini' = ini /\ config' = config /\ (Boot!Running => app' = app)
    BY <1>5 DEF Boot!Launch
  <2>2. boot'.answer = boot.answer
    BY <1>5, BootAnswerStays DEF Boot!Launch
  <2> QED BY <2>1, <2>2 DEF BootOwes
<1>6. CASE Boot!Await
  <2>1. app' = app /\ ini' = ini /\ config' = config
    BY <1>6 DEF Boot!Await
  <2>2. boot'.answer # "connected" \/ app.bound = "ours"
    BY <1>6, BootAnswerIs DEF Boot!Await
  <2> QED BY <2>1, <2>2 DEF BootOwes
<1>7. CASE Boot!Open \/ Boot!Decide \/ Boot!Quit \/ Boot!Crash
  BY <1>7 DEF Boot!Open, Boot!Decide, Boot!Quit, Boot!Crash, Boot!ByHand
<1> QED BY <1>1, <1>2, <1>3, <1>4, <1>5, <1>6, <1>7 DEF Boot!Next

\* A verb ends no OBS, launches no second one over it, and leaves alone the ini of a live OBS
\* and a configuration it cannot read (Seed, Ensure).
THEOREM BootHandsOff == Boot!Spec => Boot!HandsOff
<1>1. Boot!Init => DOMAIN boot = {"at", "answer"}
  BY DEF Boot!Init
<1>2. DOMAIN boot = {"at", "answer"} /\ [Boot!Next]_Boot!vars => (DOMAIN boot = {"at", "answer"})'
  BY DEF Boot!Next, Boot!vars, Boot!Dial, Boot!Seed, Boot!Probe, Boot!Probed, Boot!ClearSentinel, Boot!Launch, Boot!Await,
    Boot!Open, Boot!Decide, Boot!Quit, Boot!Crash, Boot!ByHand, Boot!Answer, Boot!At
<1>3. DOMAIN boot = {"at", "answer"} /\ [Boot!Next]_Boot!vars => [boot' # boot => BootOwes]_Boot!vars
  BY BootOwesStep
<1>4. Boot!HandsOff <=> [][boot' # boot => BootOwes]_Boot!vars
  BY PTL DEF Boot!HandsOff, BootOwes
<1> QED BY <1>1, <1>2, <1>3, <1>4, PTL DEF Boot!Spec
=============================================================================
