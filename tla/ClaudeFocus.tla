------------------------------ MODULE ClaudeFocus ------------------------------
(***************************************************************************)
(* The verbs of the panel's rows (internal/claudecontrol): focus the       *)
(* kitty window a session runs in, or resume it in a new tab. A verb is a  *)
(* process of its own: it lists the windows, looks the session up, and     *)
(* acts, while windows close, sessions change and kitty restarts.          *)
(***************************************************************************)
EXTENDS Naturals, Sequences, FiniteSets, FiniteSetsExt

CONSTANTS FocusSids, MaxPids, MaxMoves, MaxVerbs

VARIABLES
  windows,   \* kitty: per window id, the planted session, and the process in front
  procs,     \* per claude process: the session it runs, when its registry record was written
  spoolWin,  \* per session: the window its spool names
  spoolCwd,  \* sessions whose spool has a directory
  verb,      \* verbs under way: what, of whom, the listing
  epoch,     \* kitty starts, and the next window id it gives
  moves, verbs,
  last       \* what the last verb did
vars == <<windows, procs, spoolWin, spoolCwd, verb, epoch, moves, verbs, last>>

NoSid == "none"
Done(what, sid, win, ls, at) == [what |-> what, sid |-> sid, win |-> win, ls |-> ls, at |-> at]
Live == {p \in 1..MaxPids : procs[p].up}
TypeOK ==
  /\ \A w \in DOMAIN windows : windows[w].var \in FocusSids \cup {NoSid} /\ windows[w].pid \in 0..MaxPids
  /\ \A p \in 1..MaxPids : procs[p].sid \in FocusSids \cup {NoSid}
  /\ spoolWin \in [FocusSids -> Nat] /\ \A v \in verb : v.sid \in FocusSids /\ v.what \in {"focus", "resume"}
Init ==
  /\ windows = <<>> /\ procs = [p \in 1..MaxPids |-> [up |-> FALSE, sid |-> NoSid, at |-> 0]]
  /\ spoolWin = [s \in FocusSids |-> 0] /\ spoolCwd = {} /\ verb = {} /\ epoch = [kitty |-> 1, next |-> 1]
  /\ moves = 0 /\ verbs = 0 /\ last = Done("", NoSid, 0, <<>>, 0)

(***************************************************************************)
(* The desktop.                                                            *)
(***************************************************************************)
Moved == moves < MaxMoves /\ moves' = moves + 1 /\ last' = [last EXCEPT !.what = ""] /\ UNCHANGED <<verb, verbs>>
Fresh == {p \in 1..MaxPids : procs[p].sid = NoSid}
With(f, k, x) == [i \in DOMAIN f \cup {k} |-> IF i = k THEN x ELSE f[i]]
Without(f, k) == [i \in DOMAIN f \ {k} |-> f[i]]
\* claude is started by hand in a window of its own; its start hook notes the window.
StartHere(s) ==
  /\ Moved /\ Fresh # {} /\ \A p \in Live : procs[p].sid # s
  /\ LET p == Min(Fresh)
     IN /\ procs' = [procs EXCEPT ![p] = [up |-> TRUE, sid |-> s, at |-> moves']]
        /\ windows' = With(windows, epoch.next, [var |-> NoSid, pid |-> p])
  /\ spoolWin' = [spoolWin EXCEPT ![s] = epoch.next] /\ spoolCwd' = spoolCwd \cup {s}
  /\ epoch' = [epoch EXCEPT !.next = @ + 1]
\* The process ends: a tab it was launched as closes, a shell stays.
Exit(p, closes) ==
  /\ Moved /\ p \in Live /\ procs' = [procs EXCEPT ![p].up = FALSE]
  /\ windows' = [w \in {x \in DOMAIN windows : ~(closes /\ windows[x].pid = p)} |->
                   IF windows[w].pid = p THEN [windows[w] EXCEPT !.pid = 0] ELSE windows[w]]
  /\ UNCHANGED <<spoolWin, spoolCwd, epoch>>
\* Another program comes to the front of a window, or claude back from it.
Front(w) ==
  /\ Moved /\ windows[w].pid \in Live /\ windows' = [windows EXCEPT ![w].pid = 0]
  /\ UNCHANGED <<procs, spoolWin, spoolCwd, epoch>>
\* kitty restarts: every window and process is gone, and ids start over.
KittyRestarts ==
  /\ Moved /\ epoch.kitty = 1 /\ epoch' = [kitty |-> 2, next |-> 1]
  /\ windows' = <<>> /\ procs' = [p \in 1..MaxPids |-> [procs[p] EXCEPT !.up = FALSE]]
  /\ UNCHANGED <<spoolWin, spoolCwd>>
\* A clear gives the process another session; its window keeps the planted one.
Clear(p, s) ==
  /\ Moved /\ p \in Live /\ \A q \in Live : procs[q].sid # s
  /\ procs' = [procs EXCEPT ![p] = [@ EXCEPT !.sid = s, !.at = moves']]
  /\ UNCHANGED <<windows, spoolWin, spoolCwd, epoch>>

(***************************************************************************)
(* The verbs.                                                              *)
(***************************************************************************)
\* resolveWindow, in a listing that may be older than the registry it reads now.
\* registryPID: the newest record of the session.
RegistryPid(s) ==
  LET ps == {p \in 1..MaxPids : procs[p].sid = s}
  IN IF ps = {} THEN 0 ELSE CHOOSE p \in ps : \A q \in ps : procs[q].at <= procs[p].at
BySpool(ls, s, p) == IF p # 0 /\ spoolWin[s] \in DOMAIN ls /\ ls[spoolWin[s]].pid = p THEN {spoolWin[s]} ELSE {}
Resolve(ls, s) ==
  LET byVar == {w \in DOMAIN ls : ls[w].var = s}
      p == RegistryPid(s)
      byPid == {w \in DOMAIN ls : p # 0 /\ ls[w].pid = p}
  IN IF byVar # {} THEN Min(byVar) ELSE IF BySpool(ls, s, p) # {} THEN Min(BySpool(ls, s, p))
     ELSE IF byPid # {} THEN Min(byPid) ELSE 0
\* freshLS: every verb lists the windows when it starts, never from an older reading.
Begin(what, s) ==
  /\ verbs < MaxVerbs /\ verbs' = verbs + 1 /\ (what = "resume" => s \in spoolCwd)
  /\ verb' = verb \cup {[what |-> what, sid |-> s, ls |-> windows, kitty |-> epoch.kitty, n |-> verbs]}
  /\ last' = [last EXCEPT !.what = ""] /\ UNCHANGED <<windows, procs, spoolWin, spoolCwd, epoch, moves>>
\* focus-window fails when the window is gone.
FocusIt(v) ==
  /\ v \in verb /\ Resolve(v.ls, v.sid) # 0 /\ verb' = verb \ {v}
  /\ last' = Done(IF Resolve(v.ls, v.sid) \in DOMAIN windows THEN "focused" ELSE "failed", v.sid, Resolve(v.ls, v.sid), v.ls, v.kitty)
  /\ UNCHANGED <<windows, procs, spoolWin, spoolCwd, epoch, moves, verbs>>
Miss(v) ==
  /\ v \in verb /\ v.what = "focus" /\ Resolve(v.ls, v.sid) = 0 /\ verb' = verb \ {v}
  /\ last' = Done("missed", v.sid, 0, v.ls, v.kitty)
  /\ UNCHANGED <<windows, procs, spoolWin, spoolCwd, epoch, moves, verbs>>
Launch(v) ==
  /\ v \in verb /\ v.what = "resume" /\ Resolve(v.ls, v.sid) = 0 /\ Fresh # {} /\ verb' = verb \ {v}
  /\ LET p == Min(Fresh)
     IN /\ procs' = [procs EXCEPT ![p] = [up |-> TRUE, sid |-> v.sid, at |-> moves]]
        /\ windows' = With(windows, epoch.next, [var |-> v.sid, pid |-> p])
  /\ spoolWin' = [spoolWin EXCEPT ![v.sid] = epoch.next] /\ epoch' = [epoch EXCEPT !.next = @ + 1]
  /\ last' = Done("launched", v.sid, epoch.next, v.ls, v.kitty)
  /\ UNCHANGED <<spoolCwd, moves, verbs>>

Next ==
  \/ KittyRestarts
  \/ \E s \in FocusSids : StartHere(s) \/ \E p \in Live : Clear(p, s)
  \/ \E p \in Live, c \in BOOLEAN : Exit(p, c)
  \/ \E w \in DOMAIN windows : Front(w)
  \/ \E what \in {"focus", "resume"}, s \in FocusSids : Begin(what, s)
  \/ \E v \in verb : FocusIt(v) \/ Miss(v) \/ Launch(v)
Spec == Init /\ [][Next]_vars

(***************************************************************************)
(* Properties.                                                             *)
(***************************************************************************)
\* The session of a window: of the process in front, else of the one it was launched for.
Hosts(w, s) == w \in DOMAIN windows /\ windows[w].pid # 0 /\ procs[windows[w].pid].sid = s
Planted(w, s) == w \in DOMAIN windows /\ windows[w].var = s
\* A focus lands on a window that runs the session, or on the one planted for it; a window
\* id a spool remembers from an earlier kitty never decides.
FocusLands == last.what = "focused" => Hosts(last.win, last.sid) \/ Planted(last.win, last.sid) \/ last.at # epoch.kitty
                                       \/ last.ls[last.win] # windows[last.win]
\* A miss is true: in the listing it read, no window ran the newest process of the session.
MissIsTrue ==
  last.what = "missed" => \A w \in DOMAIN last.ls : RegistryPid(last.sid) = 0 \/ last.ls[w].pid # RegistryPid(last.sid)
\* A focus lands on a window of its session, and a miss is true (verbs.go).
FocusSafe == FocusLands /\ MissIsTrue
\* A resume never runs a session twice, unless two resumes were under way or the running one
\* cannot be seen (verbs.go: "A still-running session is focused, never duplicated").
NeverDuplicated ==
  [][\A v \in verb : v.ls = windows /\ Launch(v) /\ (\A p \in Live : procs[p].sid = v.sid => \E w \in DOMAIN windows : windows[w].pid = p)
        => \A p \in Live : procs[p].sid # v.sid]_vars
=============================================================================
