---------------------------- MODULE MCBusActions ----------------------------
(* Instances of BusActions for TLC: which messages clients may send.        *)
EXTENDS BusActions

Request(kind, source, policy, payload) ==
  [kind |-> kind, source |-> source, policy |-> policy, payload |-> payload]

Day     == Request("ctl", "theme", "reconcile", "day")
Night   == Request("ctl", "theme", "reconcile", "night")
Reno    == Request("ctl", "reno", "review", "start")
Tap     == Request("act", "w", "discard-on-restart", "run")
MCRequests == {Day, Night, Reno, Tap}

Message(i, r, k) == [id |-> i, req |-> r, key |-> k]

\* Transient work, a conflicting reuse of an ID, and one desired state.
MCReplayMessages == {Message(1, Reno, NoKey), Message(2, Tap, NoKey),
                     Message(1, Day, "theme")}
MCReplayKeys == {"theme"}

\* Desired states that overtake one another.
MCDesiredMessages == {Message(1, Day, "theme"), Message(2, Night, "theme"),
                      Message(3, Day, "theme")}
=============================================================================
