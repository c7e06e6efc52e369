--------------------------- MODULE ActionJournal ---------------------------
(***************************************************************************)
(* The durable operation journal (internal/actionjournal/journal.go): one  *)
(* SQLite table of operations keyed by operation ID, written by short      *)
(* transactions.  This module holds the table and its transactions as      *)
(* operators on a value `rows`, so that the bus and the Reno owner, which  *)
(* each keep one, share them.  A row exists iff its state is not Absent.   *)
(***************************************************************************)
EXTENDS Integers, FiniteSets

CONSTANTS
  Ids,            \* operation IDs
  Requests,       \* the rest of a request: kind, source, policy, payload
  NoRequest,      \* the request of a row that does not exist
  MaxRecords,     \* maxRecords: rows the table may hold
  RecentHistory   \* newest rows kept whatever their state (1024 in the code)

ASSUME JournalAssumption ==
  /\ MaxRecords \in Nat \ {0}
  /\ RecentHistory \in Nat
  /\ NoRequest \notin Requests
  /\ \A r \in Requests :
       r.policy \in {"discard-on-restart", "reconcile", "review"}

Absent      == "absent"
Applied     == {"succeeded", "dispatched"}
Terminal    == Applied \cup {"failed", "discarded"}
Unresolved  == {"pending", "running", "uncertain"}
States      == Terminal \cup Unresolved

Row == [state : States \cup {Absent}, seq : Nat, req : Requests \cup {NoRequest}]
NoRow == [state |-> Absent, seq |-> 0, req |-> NoRequest]
EmptyTable == [i \in Ids |-> NoRow]

Retained(rows) == {i \in Ids : rows[i].state # Absent}

-----------------------------------------------------------------------------
(* Accept: duplicate detection, pruning, capacity and insertion are one     *)
(* transaction, so pruning is undone when the table is still full.          *)

Duplicate(rows, i)      == rows[i].state # Absent
Conflicts(rows, i, req) == Duplicate(rows, i) /\ rows[i].req # req

SameStream(r, s) == r.kind = s.kind /\ r.source = s.source

Newer(rows, i) == {j \in Retained(rows) : rows[j].seq > rows[i].seq}
Recent(rows, i) == Cardinality(Newer(rows, i)) < RecentHistory

\* The newest applied outcome of its kind, source and policy is kept while an
\* older desired-state operation of that kind and source is unresolved.
ProvesSupersession(rows, i) ==
  /\ rows[i].state \in Applied
  /\ \E older \in Retained(rows) :
       /\ rows[older].state \in {"pending", "running"}
       /\ rows[older].req.policy = "reconcile"
       /\ SameStream(rows[older].req, rows[i].req)
       /\ rows[older].seq < rows[i].seq
  /\ ~ \E newer \in Newer(rows, i) :
       /\ rows[newer].state \in Applied
       /\ SameStream(rows[newer].req, rows[i].req)
       /\ rows[newer].req.policy = rows[i].req.policy

Prunable(rows, i) ==
  /\ rows[i].state \in Terminal
  /\ ~ Recent(rows, i)
  /\ ~ ProvesSupersession(rows, i)

Prune(rows) == [i \in Ids |-> IF Prunable(rows, i) THEN NoRow ELSE rows[i]]

AtCapacity(rows) == Cardinality(Retained(Prune(rows))) >= MaxRecords

\* Seeded fault: a state no reader knows.
FaultInsertState(rows, i, n, req) ==
  [Prune(rows) EXCEPT ![i] = [state |-> "accepted", seq |-> n, req |-> req]]

Insert(rows, i, n, req) ==
  [Prune(rows) EXCEPT ![i] = [state |-> "pending", seq |-> n, req |-> req]]

-----------------------------------------------------------------------------
(* Transition: a compare-and-set on the state along the legal edges.        *)

Edges == ({"pending"} \X {"running", "discarded", "uncertain"})
           \cup ({"running"} \X {"succeeded", "failed", "discarded",
                                 "uncertain", "dispatched"})
           \cup {<<"uncertain", "discarded">>}

\* Seeded fault: the UPDATE without AND state=?.
FaultMoveAnyState(rows, i, from, to) == <<from, to>> \in Edges /\ rows[i].state # Absent

CanMove(rows, i, from, to) == <<from, to>> \in Edges /\ rows[i].state = from
Move(rows, i, to) == [rows EXCEPT ![i].state = to]

-----------------------------------------------------------------------------
(* Recover: what the owner does with the rows its predecessor left.         *)

\* Seeded faults: an interrupted input is taken for one that never ran;
\* interrupted operations are left running.
FaultDiscardRunning(s, policy) ==
  CASE s = "running" /\ policy = "reconcile" -> "pending"
    [] s = "running" /\ policy = "review"    -> "uncertain"
    [] s = "running"                         -> "discarded"
    [] s = "pending" /\ policy = "review"    -> "uncertain"
    [] s = "pending" /\ policy = "discard-on-restart" -> "discarded"
    [] OTHER                                 -> s
FaultLeaveRunning(s, policy) ==
  CASE s = "pending" /\ policy = "discard-on-restart" -> "discarded"
    [] s = "pending" /\ policy = "review"             -> "uncertain"
    [] OTHER                                          -> s

RecoveredState(s, policy) ==
  CASE s = "running" /\ policy = "reconcile"          -> "pending"
    [] s = "running" /\ policy # "reconcile"          -> "uncertain"
    [] s = "pending" /\ policy = "discard-on-restart" -> "discarded"
    [] s = "pending" /\ policy = "review"             -> "uncertain"
    [] OTHER                                          -> s

Recover(rows) ==
  [i \in Ids |-> IF rows[i].state = Absent THEN rows[i]
                 ELSE [rows[i] EXCEPT !.state = RecoveredState(@, rows[i].req.policy)]]
=============================================================================
