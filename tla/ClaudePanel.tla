------------------------------ MODULE ClaudePanel ------------------------------
(***************************************************************************)
(* The Claude panel (module/claudesessions/panel.go): which session holds  *)
(* the detail zone, how its fleet is laid out in a fixed number of rows,   *)
(* and the taps that fold its trees while sessions and fleets change.      *)
(***************************************************************************)
EXTENDS Integers, Sequences, FiniteSets, SequencesExt, FiniteSetsExt

CONSTANTS PanelSids,      \* sessions, numbered by their start
          Fleets,         \* what a session's fleet may be: per tree, its key, its agents, how many run
          DetailRows,     \* panelDetailRows
          MaxChanges, MaxFolds

VARIABLES
  sess,       \* per session: shown by discover, needs the user since, a bell that may be stale, active,
              \* last activity
  trees,      \* the fleet of a session
  occupant,   \* the latch
  folded,     \* the folded trees, by session and key
  zone,       \* the last poll: who holds the zone, and its rows
  now, folds
vars == <<sess, trees, occupant, folded, zone, now, folds>>

None == 0
Keys == UNION {{t[i].key : i \in DOMAIN t} : t \in Fleets}
Gone == [up |-> FALSE, need |-> 0, bell |-> FALSE, act |-> FALSE, mtime |-> 0]
TypeOK ==
  /\ occupant \in PanelSids \cup {None} /\ folded \subseteq PanelSids \X Keys
  /\ zone.occ \in PanelSids \cup {None} /\ \A i \in DOMAIN zone.rows : zone.rows[i].key \in Keys \cup {""}
  /\ \A s \in PanelSids : trees[s] \in Fleets /\ sess[s].need \in 0..now /\ sess[s].mtime \in 0..now
Init ==
  /\ sess = [s \in PanelSids |-> Gone] /\ trees \in [PanelSids -> {<<>>}]
  /\ occupant = None /\ folded = {} /\ zone = [occ |-> None, rows |-> <<>>, polled |-> FALSE] /\ now = 0 /\ folds = 0

(***************************************************************************)
(* The world: a session appears or leaves, works, rests, asks, is answered; *)
(* its fleet grows and shrinks.                                            *)
(***************************************************************************)
Changed == now < MaxChanges /\ now' = now + 1 /\ zone' = [zone EXCEPT !.polled = FALSE]
Change(s) ==
  /\ Changed
  /\ \/ sess' = [sess EXCEPT ![s] = IF @.up THEN Gone ELSE [@ EXCEPT !.up = TRUE, !.mtime = now']]
     \/ sess[s].up /\ \E a, b \in BOOLEAN, n \in {0, now'} :
          sess' = [sess EXCEPT ![s] = [up |-> TRUE, need |-> IF n # 0 /\ @.need # 0 THEN @.need ELSE n,
                                       bell |-> b \/ n # 0, act |-> a, mtime |-> now']]
  /\ UNCHANGED <<trees, occupant, folded, folds>>
Grow(s) ==
  /\ Changed /\ sess[s].up /\ \E t \in Fleets : trees' = [trees EXCEPT ![s] = t]
  /\ UNCHANGED <<sess, occupant, folded, folds>>

(***************************************************************************)
(* The occupant (pickOccupant).                                            *)
(***************************************************************************)
Up == {s \in PanelSids : sess[s].up}
Needy == {s \in Up : sess[s].need # 0}
Active == {s \in Up : sess[s].act}
Least(ss, Lower(_, _)) == CHOOSE s \in ss : \A t \in ss \ {s} : Lower(s, t)
Oldest == Least(Needy, LAMBDA a, b : sess[a].need < sess[b].need \/ (sess[a].need = sess[b].need /\ a < b))
Incumbent == IF occupant \in Active THEN occupant ELSE None
Busiest == Least(Active, LAMBDA a, b : sess[a].mtime > sess[b].mtime \/ (sess[a].mtime = sess[b].mtime /\ a > b))
\* With nobody asking or active, the newest; a lone idle session without a bell collapses the zone.
Pick ==
  IF Needy # {} THEN Oldest
  ELSE IF Active # {} THEN IF Incumbent # None THEN Incumbent ELSE Busiest
  ELSE IF Up = {} \/ (Cardinality(Up) = 1 /\ \A s \in Up : ~sess[s].bell) THEN None ELSE Max(Up)

(***************************************************************************)
(* The rows (fleetNodes, fleetRows, detailRows).                           *)
(***************************************************************************)
Row(key, kind, n) == [key |-> key, kind |-> kind, n |-> n]
\* Trees with running agents lead; keys keep their order within each class.
LiveFirst(t) == SelectSeq(t, LAMBDA n : n.live > 0) \o SelectSeq(t, LAMBDA n : n.live = 0)
Rows(k, n) == [i \in 1..n |-> Row(k, "agent", 1)]
\* One tree in the rows left to it: its root, then its agents and what is over.
Tree(n, fold, left) ==
  LET room == left - 1
  IN <<Row(n.key, "root", n.agents)>>
     \o (IF fold \/ room < 1 THEN <<>>
         ELSE IF n.agents > room THEN Append(Rows(n.key, room - 1), Row(n.key, "over", n.agents - room + 1))
         ELSE Rows(n.key, n.agents))
\* A row stays reserved for the marker of the trees past the cutoff.
FaultReserve(t, i) == 0
Reserve(t, i) == IF i < Len(t) THEN 1 ELSE 0
FleetRows(s, t, budget) ==
  LET laid[i \in 0..Len(t)] ==
        IF i = 0 THEN [rows |-> <<>>, cut |-> 0]
        ELSE LET before == laid[i - 1]
                 left == budget - Len(before.rows) - Reserve(t, i)
             IN IF before.cut # 0 \/ left < 1 THEN [before EXCEPT !.cut = IF @ = 0 THEN i ELSE @]
                ELSE [before EXCEPT !.rows = @ \o Tree(t[i], <<s, t[i].key>> \in folded, left)]
      all == laid[Len(t)]
  IN IF t = <<>> THEN <<Row("", "none", 0)>>
     ELSE IF all.cut = 0 THEN all.rows ELSE Append(all.rows, Row("", "more", Len(t) - all.cut + 1))
Blank == Row("", "blank", 0)
Detail(s) ==
  LET rows == <<Row("", "head", 0), Row("", "outcome", 0)>> \o FleetRows(s, LiveFirst(trees[s]), DetailRows - 2)
  IN rows \o [i \in 1..(DetailRows - Len(rows)) |-> Blank]
\* foldSnapshot drops the folds of sessions that are gone.
Pruned == {f \in folded : sess[f[1]].up}
Poll ==
  /\ occupant' = Pick /\ folded' = Pruned
  /\ zone' = [occ |-> Pick, rows |-> IF Pick = None THEN <<Row("", "placeholder", 0)>> ELSE Detail(Pick), polled |-> TRUE]
  /\ UNCHANGED <<sess, trees, now, folds>>

\* A tap on any row of a drawn tree folds or unfolds it (HandleAct); the poll that shows
\* it follows, or does not for a while.
Tap(i) ==
  /\ folds < MaxFolds /\ folds' = folds + 1 /\ zone.rows[i].key # ""
  /\ LET f == <<zone.occ, zone.rows[i].key>>
     IN folded' = IF f \in folded THEN folded \ {f} ELSE folded \cup {f}
  /\ zone' = [zone EXCEPT !.polled = FALSE]
  /\ UNCHANGED <<sess, trees, occupant, now>>

Next ==
  \/ Poll
  \/ \E s \in PanelSids : Change(s) \/ Grow(s)
  \/ \E i \in DOMAIN zone.rows : Tap(i)
Spec == Init /\ [][Next]_vars

(***************************************************************************)
(* Properties.                                                             *)
(***************************************************************************)
Of(k) == {i \in DOMAIN zone.rows : zone.rows[i].key = k}
Total(is) == MapThenSumSet(LAMBDA i : zone.rows[i].n, is)
\* The list below never shifts while the zone is held: the zone has its fixed rows whatever
\* the fleet and the folds.
ZoneIsFixed == zone.polled /\ zone.occ # None => Len(zone.rows) = DetailRows
\* The cutoff is never silent: every tree has its root, with all its agents below it or
\* counted, or is counted by the marker.
NothingIsSilent ==
  zone.polled /\ zone.occ # None =>
    LET t == trees[zone.occ]
        drawn == {i \in DOMAIN t : Of(t[i].key) # {}}
        marker == {i \in DOMAIN zone.rows : zone.rows[i].kind = "more"}
    IN /\ Len(t) = Cardinality(drawn) + Total(marker)
       /\ \A i \in drawn :
            LET below == {j \in Of(t[i].key) : zone.rows[j].kind # "root"}
            IN below = {} \/ Total(below) = t[i].agents
       \* An unfolded leading tree shows its agents before any other tree shows its root.
       /\ t # <<>> /\ <<zone.occ, LiveFirst(t)[1].key>> \notin folded /\ t # <<>> /\ LiveFirst(t)[1].agents > 0 /\ DetailRows > 4
            => Cardinality(Of(LiveFirst(t)[1].key)) > 1
\* A need in the zone is a real one, and no session that has waited longer is kept out.
OldestNeedShows ==
  zone.polled /\ Needy # {} => zone.occ \in Needy /\ \A s \in Needy : sess[zone.occ].need <= sess[s].need
\* Folds belong to sessions that are there.
FoldsAreOwned == zone.polled => \A f \in folded : sess[f[1]].up
\* The detail zone as a whole (panel.go).
PanelSafe == ZoneIsFixed /\ NothingIsSilent /\ OldestNeedShows /\ FoldsAreOwned

\* The zone does not wander: while its session stays active and nobody asks, activity
\* elsewhere does not take it away (pickOccupant).
ZoneStays == [][Poll /\ Needy = {} /\ zone.occ # None /\ zone.occ \in Active => zone'.occ = zone.occ]_vars
=============================================================================
