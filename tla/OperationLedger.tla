--------------------------- MODULE OperationLedger ---------------------------
(***************************************************************************)
(* What an owner of durable operations promises whoever hands it one: an   *)
(* operation is applied at most once, and nobody is told a definite        *)
(* outcome that a later step can contradict.  RenoOwner implements it.     *)
(***************************************************************************)
CONSTANTS
  Operations,
  Askers,
  About        \* the operation each asker asks for, a function of Askers

VARIABLES
  fate,     \* of an operation: open, applied, or closed without having been applied
  verdict   \* of who asked: none, and then yes, no or unsure

Init == fate = [o \in Operations |-> "open"] /\ verdict = [a \in Askers |-> "none"]

Apply(o) == fate[o] = "open" /\ fate' = [fate EXCEPT ![o] = "applied"] /\ UNCHANGED verdict
Close(o) == fate[o] = "open" /\ fate' = [fate EXCEPT ![o] = "closed"] /\ UNCHANGED verdict
\* A definite answer is about the operation the asker asked for.
Tell(a, v) ==
  /\ verdict[a] = "none" /\ verdict' = [verdict EXCEPT ![a] = v] /\ UNCHANGED fate
  /\ v = "yes" => fate[About[a]] = "applied"
  /\ v = "no" => fate[About[a]] = "closed"
\* Whoever has lost its owner knows nothing.
GiveUp(as) ==
  /\ verdict' = [a \in Askers |-> IF a \in as /\ verdict[a] = "none" THEN "unsure" ELSE verdict[a]] /\ UNCHANGED fate

Next ==
  \/ \E as \in SUBSET Askers : GiveUp(as)
  \/ \E o \in Operations : Apply(o) \/ Close(o)
  \/ \E a \in Askers, v \in {"yes", "no", "unsure", "refused"} : Tell(a, v)
Spec == Init /\ [][Next]_<<fate, verdict>>
=============================================================================
