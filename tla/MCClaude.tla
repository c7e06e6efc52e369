------------------------------ MODULE MCClaude ------------------------------
(***************************************************************************)
(* The four parts that follow Claude Code on small instances, side by side:*)
(* a behaviour picks its part and the others keep their initial state.     *)
(***************************************************************************)
EXTENDS Naturals, Sequences

CONSTANT Overlap   \* hooks of one session that may run at a time

VARIABLES
  part,
  clock, real, parked, tail, reg, spool, sidecar, hooks, overlapped, fired,                      \* spool
  now, disk, landed, head, registry, agents, idx, resync, missing, grace, fleet, starts, shown, writes,  \* index
  sess, trees, occupant, folded, zone, changes, folds,                                           \* panel
  windows, procs, spoolWin, spoolCwd, verb, epoch, moves, verbs, last                            \* focus

spoolVars == <<clock, real, parked, tail, reg, spool, sidecar, hooks, overlapped, fired>>
indexVars == <<now, disk, landed, head, registry, agents, idx, resync, missing, grace, fleet, starts, shown, writes>>
panelVars == <<sess, trees, occupant, folded, zone, changes, folds>>
focusVars == <<windows, procs, spoolWin, spoolCwd, verb, epoch, moves, verbs, last>>
vars == <<part, spoolVars, indexVars, panelVars, focusVars>>

Spool == INSTANCE ClaudeSpool WITH
  Horizon <- 1, ReapAfter <- 1, Version <- 1, MaxClock <- 3, MaxEvents <- 3
Index == INSTANCE ClaudeIndex WITH
  Sids <- {"s", "t"}, Projects <- {"p"}, Files <- {"f"}, ResyncEvery <- 2, LiveWithin <- 1, HotFor <- 1,
  MaxTick <- 4, MaxWrites <- 4

\* No fleet, two trees of which one runs, a small one, and one with more agents than rows.
Tree(key, agts, live) == [key |-> key, agents |-> agts, live |-> live]
Fleets ==
  {<<>>, <<Tree("a", 3, 0), Tree("b", 1, 1)>>, <<Tree("a", 1, 1)>>, <<Tree("a", 2, 1), Tree("b", 5, 1), Tree("c", 1, 0)>>}
Panel == INSTANCE ClaudePanel WITH
  PanelSids <- {1, 2, 3}, Fleets <- Fleets, DetailRows <- 6, MaxChanges <- 4, MaxFolds <- 2, now <- changes
Focus == INSTANCE ClaudeFocus WITH FocusSids <- {"s", "t"}, MaxPids <- 3, MaxMoves <- 4, MaxVerbs <- 2

Init ==
  /\ part \in {"spool", "index", "panel", "focus"}
  /\ Spool!Init /\ (part # "spool" => real = "gone" /\ reg.speaks /\ ~spool.there)
  /\ Index!Init /\ Panel!Init /\ Focus!Init

Hooks    == part = "spool" /\ Spool!Next /\ UNCHANGED <<part, indexVars, panelVars, focusVars>>
Polls    == part = "index" /\ Index!Next /\ UNCHANGED <<part, spoolVars, panelVars, focusVars>>
Draws    == part = "panel" /\ Panel!Next /\ UNCHANGED <<part, spoolVars, indexVars, focusVars>>
Resolves == part = "focus" /\ Focus!Next /\ UNCHANGED <<part, spoolVars, indexVars, panelVars>>
Next == Hooks \/ Polls \/ Draws \/ Resolves
Spec == Init /\ [][Next]_vars

(***************************************************************************)
(* Properties: those of the parts.                                         *)
(***************************************************************************)
\* The bell rings for a session exactly while it needs its user, whatever hooks, registry and
\* transcript say late or not at all (hookspool.go, claudesessions.go); the index has its types.
BellIsTrue == (part = "spool" => Spool!TypeOK /\ Spool!SpoolSafe) /\ (part = "index" => Index!TypeOK)

\* The detail zone keeps its rows, counts what it cuts off and shows the oldest need
\* (panel.go); a focus lands on a window of its session (verbs.go).
PanelSafe == (part = "panel" => Panel!TypeOK /\ Panel!PanelSafe) /\ (part = "focus" => Focus!TypeOK /\ Focus!FocusSafe)

\* What no step may do: drop a spool that is still wanted or a field another hook wrote
\* (hookspool.go), show a dead session or hide a living one (fscache.go), let the zone wander
\* (panel.go), run a session twice (verbs.go).
ClaudeSteps == Spool!SpoolOutlives /\ Spool!MergesOnly /\ Index!IndexSteps /\ Panel!ZoneStays /\ Focus!NeverDuplicated
=============================================================================
