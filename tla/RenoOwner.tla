------------------------------ MODULE RenoOwner ------------------------------
(***************************************************************************)
(* The service that owns Reno (renoservice/service.go, client.go, the verbs*)
(* of renocli): at most one process holds the lock, the socket and the     *)
(* journal; every request but a read is journalled, applied by the module  *)
(* and settled, while the caller may time out, either process may die and  *)
(* the journal may refuse a write.  A caller asks for one operation, whose *)
(* identity several callers may share.                                     *)
(***************************************************************************)
EXTENDS Naturals, Sequences, FiniteSets

CONSTANTS
  Processes,     \* owner processes that may be started
  Copies,        \* callers that share an operation
  Ids, Requests, NoRequest, MaxRecords, RecentHistory,
  MaxDeaths, MaxJournalFaults

J == INSTANCE ActionJournal
Callers == Ids \X (1 .. Copies)
Nobody == "nobody"
OpOf(c) == c[1]

ASSUME OwnerAssumption ==
  /\ Nobody \notin Processes /\ "corpse" \notin Processes
  /\ {Copies, MaxDeaths, MaxJournalFaults} \subseteq Nat
  /\ \E r \in Requests : r.policy = "review"

VARIABLES
  phase,      \* of each process: where Run is
  lock,       \* who holds owner.lock
  socket,     \* who listens on owner.sock; the file outlives a killed owner
  rows,       \* actions.sqlite
  serial,     \* the sequence number of the next row
  call,       \* of each caller: where its request is, and the answer on its way back
  verdict,    \* what Call returned
  refused,    \* operations the module refused
  applied,    \* operations the module applied, in order
  deaths, journalFaults
vars == <<phase, lock, socket, rows, serial, call, verdict, refused, applied, deaths, journalFaults>>

Answers == {"", "dispatched", "failed", "discarded", "uncertain", "running", "refused"}
Steps == {"idle", "sent", "accepted", "turn", "ran", "answered", "gone"}
Outcomes == {"dispatched", "failed", "uncertain"}
Phases == {"down", "locked", "bound", "serving", "draining", "drained"}
TypeOK ==
  /\ phase \in [Processes -> Phases] /\ lock \in Processes \cup {Nobody} /\ socket \in Processes \cup {Nobody, "corpse"}
  /\ rows \in [Ids -> J!Row] /\ call \in [Callers -> [at : Steps, outcome : Outcomes \cup {""}, answer : Answers, by : Processes \cup {Nobody}]]
  /\ verdict \in [Callers -> {"none", "yes", "no", "unsure", "refused"}]
  /\ refused \subseteq Ids /\ applied \in Seq(Ids)

Idle == [at |-> "idle", outcome |-> "", answer |-> "", by |-> Nobody]
Init ==
  /\ phase = [p \in Processes |-> "down"] /\ lock = Nobody /\ socket = Nobody
  /\ rows = J!EmptyTable /\ serial = 1
  /\ call = [c \in Callers |-> Idle] /\ verdict = [c \in Callers |-> "none"]
  /\ refused = {} /\ applied = <<>> /\ deaths = 0 /\ journalFaults = 0

(***************************************************************************)
(* The life of an owner.                                                   *)
(***************************************************************************)
\* ownerlock.Acquire: whoever does not get the lock at once gives up.
MayOwn(p) == lock = Nobody
Lock(p) ==
  /\ phase[p] = "down" /\ MayOwn(p)
  /\ lock' = p /\ phase' = [phase EXCEPT ![p] = "locked"]
  /\ UNCHANGED <<socket, rows, serial, call, verdict, refused, applied, deaths, journalFaults>>
\* sockclaim: a file nobody listens behind is removed, a live listener is refused.
Bind(p) ==
  /\ phase[p] = "locked" /\ socket \in {Nobody, "corpse"}
  /\ socket' = p /\ phase' = [phase EXCEPT ![p] = "bound"]
  /\ UNCHANGED <<lock, rows, serial, call, verdict, refused, applied, deaths, journalFaults>>
\* Before the first request what the last owner left open becomes uncertain.
FaultRecovered == rows
Recovered == J!Recover(rows)
Recover(p) ==
  /\ phase[p] = "bound" /\ rows' = Recovered
  /\ phase' = [phase EXCEPT ![p] = "serving"]
  /\ UNCHANGED <<lock, socket, serial, call, verdict, refused, applied, deaths, journalFaults>>
\* A caller whose connection is closed under it, or whose peer is gone, reads an error.
InHand(p) == {c \in Callers : call[c].by = p /\ call[c].at \notin {"idle", "gone"}}
Cut(cs) == [c \in Callers |-> IF c \in cs THEN [call[c] EXCEPT !.at = "gone"] ELSE call[c]]
\* Hung up on, a caller knows only that it may have happened (Call).
HungUp(cs) == [c \in Callers |-> IF c \in cs /\ verdict[c] = "none" THEN "unsure" ELSE verdict[c]]
\* Shutdown closes the connections; the requests in hand go on to their end.
Shutdown(p) ==
  /\ phase[p] = "serving" /\ deaths < MaxDeaths /\ deaths' = deaths + 1
  /\ phase' = [phase EXCEPT ![p] = "draining"] /\ verdict' = HungUp(InHand(p))
  /\ UNCHANGED <<lock, socket, rows, serial, call, refused, applied, journalFaults>>
\* clients.Wait, then the deferred closes in turn: the journal, the socket, the lock.
Drained(p) == \A c \in InHand(p) : call[c].at \in {"sent", "answered"}
Wait(p) ==
  /\ phase[p] = "draining" /\ Drained(p)
  /\ phase' = [phase EXCEPT ![p] = "drained"] /\ call' = Cut(InHand(p)) /\ socket' = Nobody
  /\ UNCHANGED <<lock, rows, serial, verdict, refused, applied, deaths, journalFaults>>
Unlock(p) ==
  /\ phase[p] = "drained" /\ lock' = Nobody /\ phase' = [phase EXCEPT ![p] = "down"]
  /\ UNCHANGED <<socket, rows, serial, call, verdict, refused, applied, deaths, journalFaults>>
\* A kill frees the lock at once and leaves the socket's file behind.
Die(p) ==
  /\ phase[p] # "down" /\ deaths < MaxDeaths /\ deaths' = deaths + 1
  /\ phase' = [phase EXCEPT ![p] = "down"]
  /\ lock' = (IF lock = p THEN Nobody ELSE lock) /\ socket' = (IF socket = p THEN "corpse" ELSE socket)
  /\ call' = Cut(InHand(p)) /\ verdict' = HungUp(InHand(p))
  /\ UNCHANGED <<rows, serial, refused, applied, journalFaults>>

(***************************************************************************)
(* A request.                                                              *)
(***************************************************************************)
Stage(c, at) == call' = [call EXCEPT ![c].at = at]
Answer(c, a) == call' = [call EXCEPT ![c].at = "answered", ![c].answer = a]
Journalled == journalFaults' = journalFaults
Refuses == journalFaults < MaxJournalFaults /\ journalFaults' = journalFaults + 1
\* The request every caller of an operation makes (its payload is its own).
RequestOf(i) == CHOOSE r \in Requests : r.policy = "review"

\* Call: nothing is sent without a connection.
Send(c) ==
  /\ call[c].at = "idle"
  /\ \/ \E p \in Processes : /\ socket = p /\ phase[p] = "serving"
                             /\ call' = [call EXCEPT ![c] = [Idle EXCEPT !.at = "sent", !.by = p]] /\ UNCHANGED verdict
     \/ socket \notin Processes /\ Stage(c, "gone") /\ verdict' = [verdict EXCEPT ![c] = "refused"]
  /\ UNCHANGED <<phase, lock, socket, rows, serial, refused, applied, deaths, journalFaults>>
\* Twelve seconds without an answer: the request itself goes on.
TimeOut(c) ==
  /\ call[c].at \notin {"idle", "gone"} /\ verdict[c] = "none" /\ verdict' = HungUp({c})
  /\ UNCHANGED <<phase, lock, socket, rows, serial, call, refused, applied, deaths, journalFaults>>

\* accept: a new operation, or a pending one another caller brought, is taken on.
TakenOn(i) == ~J!Duplicate(rows, i) \/ rows[i].state = "pending"
Accept(c) == LET i == OpOf(c) IN
  /\ call[c].at = "sent"
  /\ \/ /\ J!Duplicate(rows, i) /\ Journalled /\ UNCHANGED <<rows, serial>>
        /\ IF TakenOn(i) THEN Stage(c, "accepted") ELSE Answer(c, rows[i].state)
     \/ /\ ~J!Duplicate(rows, i) /\ ~J!AtCapacity(rows) /\ Journalled
        /\ rows' = J!Insert(rows, i, serial, RequestOf(i)) /\ serial' = serial + 1 /\ Stage(c, "accepted")
     \/ /\ \/ J!AtCapacity(rows) /\ ~J!Duplicate(rows, i) /\ Journalled
           \/ Refuses
        /\ Answer(c, "refused") /\ UNCHANGED <<rows, serial>>
  /\ UNCHANGED <<phase, lock, socket, verdict, refused, applied, deaths>>
\* Of two that took the operation on, one moves it to running.
FaultClaims(i) == rows[i].state \in {"pending", "running"}
Claims(i) == J!CanMove(rows, i, "pending", "running")
Claim(c) == LET i == OpOf(c) IN
  /\ call[c].at = "accepted"
  /\ \/ Claims(i) /\ Journalled /\ rows' = J!Move(rows, i, "running") /\ Stage(c, "turn")
     \/ (IF Claims(i) THEN Refuses ELSE Journalled) /\ Answer(c, "uncertain") /\ UNCHANGED rows
  /\ UNCHANGED <<phase, lock, socket, serial, verdict, refused, applied, deaths>>
\* The module's turn, one at a time. A request that has expired, or whose owner is
\* going, is not run; the module may refuse, and its effects may not be dispatched.
Expired == "failed"
Outcome(ok, sent) == IF ~ok THEN "failed" ELSE IF sent THEN "dispatched" ELSE "uncertain"
Transition(c) == LET i == OpOf(c) IN
  /\ call[c].at = "turn"
  /\ \/ /\ \E ok, sent \in BOOLEAN :
             /\ call' = [call EXCEPT ![c].at = "ran", ![c].outcome = Outcome(ok, sent)]
             /\ IF ok THEN applied' = Append(applied, i) /\ UNCHANGED refused
                ELSE refused' = refused \cup {i} /\ UNCHANGED applied
     \/ call' = [call EXCEPT ![c].at = "ran", ![c].outcome = Expired] /\ UNCHANGED <<applied, refused>>
  /\ UNCHANGED <<phase, lock, socket, rows, serial, verdict, deaths, journalFaults>>
\* What became of it is recorded before it is told; unrecorded, it is told as unknown.
Unrecorded(c) == "uncertain"
Settle(c) == LET i == OpOf(c) IN
  /\ call[c].at = "ran"
  /\ \/ Journalled /\ rows' = J!Move(rows, i, call[c].outcome) /\ Answer(c, call[c].outcome)
     \/ Refuses /\ Answer(c, Unrecorded(c)) /\ UNCHANGED rows
  /\ UNCHANGED <<phase, lock, socket, serial, verdict, refused, applied, deaths>>
\* Call's reading of the answer: only a definite state is a definite verdict.
Meaning(a) ==
  CASE a = "dispatched" -> "yes" [] a = "failed" -> "no" [] a \in {"refused", "discarded"} -> "refused" [] OTHER -> "unsure"
Receive(c) ==
  /\ call[c].at = "answered" /\ Stage(c, "gone")
  /\ verdict' = IF verdict[c] = "none" THEN [verdict EXCEPT ![c] = Meaning(call[c].answer)] ELSE verdict
  /\ UNCHANGED <<phase, lock, socket, rows, serial, refused, applied, deaths, journalFaults>>
\* discard-job: a user who has looked closes what is uncertain.
Discard(i) ==
  /\ \E p \in Processes : phase[p] = "serving" /\ socket = p
  /\ J!CanMove(rows, i, "uncertain", "discarded") /\ rows' = J!Move(rows, i, "discarded")
  /\ UNCHANGED <<phase, lock, socket, serial, call, verdict, refused, applied, deaths, journalFaults>>

Next ==
  \/ \E p \in Processes : Lock(p) \/ Bind(p) \/ Recover(p) \/ Shutdown(p) \/ Wait(p) \/ Unlock(p) \/ Die(p)
  \/ \E c \in Callers : Send(c) \/ TimeOut(c) \/ Accept(c) \/ Claim(c) \/ Transition(c) \/ Settle(c) \/ Receive(c)
  \/ \E i \in Ids : Discard(i)
Spec == Init /\ [][Next]_vars

(***************************************************************************)
(* Properties.                                                             *)
(***************************************************************************)
\* One owner at a time works on the module and its journal, whoever was killed or is
\* still draining (ownerlock, sockclaim, the order of Run's deferred closes).
OneOwner ==
  /\ Cardinality({p \in Processes : phase[p] \notin {"down"}}) <= 1
  /\ \A c \in Callers : call[c].at \in {"accepted", "turn", "ran"} => phase[call[c].by] \in {"serving", "draining"}
\* While the journal works nothing stays open that no request of the living owner is
\* working on: what an earlier owner left was recovered (Recover, handle).
OpenIsOwned ==
  \A p \in Processes, i \in Ids :
    phase[p] = "serving" /\ journalFaults = 0 /\ rows[i].state \in {"pending", "running"} =>
      \E c \in InHand(p) : OpOf(c) = i /\ call[c].at \in {"accepted", "turn", "ran"}
\* The owner service as a whole, in states of the types (service.go).
OwnerSafe == TypeOK /\ OneOwner /\ OpenIsOwned

\* The ledger's view: applied is for ever; closed once the journal says it was not.
Fate(i) ==
  IF \E k, l \in DOMAIN applied : k # l /\ applied[k] = i /\ applied[l] = i THEN "applied twice"
  ELSE IF \E k \in DOMAIN applied : applied[k] = i THEN "applied"
  ELSE IF rows[i].state \in {"failed", "discarded"} THEN "closed" ELSE "open"
Ledger == INSTANCE OperationLedger WITH
  Operations <- Ids, Askers <- Callers, About <- [c \in Callers |-> OpOf(c)], fate <- [i \in Ids |-> Fate(i)]
\* An operation is applied at most once whatever is retried or killed, and no caller is
\* told yes of one not applied, or no of one that was or still may be (Call, handle).
LedgerSpec == Ledger!Spec
=============================================================================
