------------------------------ MODULE ClaudeIndex ------------------------------
(***************************************************************************)
(* How a poll of the Claude panel finds its sessions (module/claudesessions *)
(* discover, fscache.go): the registry says which live, an index gated on  *)
(* directory mtimes where their transcripts are, and a cache of the agent  *)
(* files how large their fleets are, without reading more than what moved. *)
(* Mtimes are coarse: two changes of one tick look like one.               *)
(***************************************************************************)
EXTENDS Naturals, Sequences, FiniteSets, SequencesExt, FiniteSetsExt

CONSTANTS Sids, Projects, Files,   \* sessions, project directories, agent files of a session
          ResyncEvery, LiveWithin, HotFor,
          MaxTick, MaxWrites

VARIABLES
  now,
  disk,      \* per project: whether it is there, its mtime, its transcripts; the root's mtime
  landed,    \* when a session's transcript was put where it is
  head,      \* the first line of a transcript has its stamp
  registry,  \* per session: live, torn in this reading, or gone
  agents,    \* per agent file of a session: its mtime, 0 while there is none; the directory's
  idx,       \* projIndex: the mtimes and contributions of the last reading
  resync,    \* fleetCache.nextResync, and when the last forced pass was
  missing,   \* missingTx
  grace,     \* alivePrev and aliveGraced
  fleet,     \* fleetCache: per session, absent or the mtimes of the last reading
  starts,    \* the starts read from heads
  shown,     \* the last poll: what it shows, in order, how many agents each runs, and what
             \* it met: the living records, the agent files as they were, and those that had
             \* gone cold between two polls since the last forced pass
  writes
vars == <<now, disk, landed, head, registry, agents, idx, resync, missing, grace, fleet, starts, shown, writes>>
World == <<disk, landed, head, registry, agents>>
Cache == <<idx, resync, missing, grace, fleet, starts, shown>>

Start(s) == CHOOSE n \in 1..Cardinality(Sids) : SetToSeq(Sids)[n] = s   \* the stamp of a head
NoDir == [there |-> FALSE, mtime |-> 0, tx |-> {}]
NoFleet == [there |-> FALSE, mtime |-> 0, files |-> [f \in Files |-> 0]]
TypeOK ==
  /\ now \in 1..MaxTick /\ registry \in [Sids -> {"live", "torn", "gone"}]
  /\ \A p \in Projects : disk.proj[p].mtime <= now /\ disk.proj[p].tx \subseteq Sids
  /\ idx.tx \in SUBSET (Sids \X Projects) /\ missing \subseteq Sids /\ shown.list \in Seq(Sids)
  /\ \A s \in Sids : \A f \in Files : fleet[s].files[f] <= now
  /\ resync.last <= now

Init ==
  /\ now = 1 /\ disk = [root |-> 1, proj |-> [p \in Projects |-> NoDir]]
  /\ landed = [s \in Sids |-> 0] /\ head = [s \in Sids |-> FALSE] /\ registry = [s \in Sids |-> "gone"]
  /\ agents = [s \in Sids |-> NoFleet]
  /\ idx = [root |-> 0, known |-> [p \in Projects |-> 0], sets |-> [p \in Projects |-> {}], tx |-> {}]
  /\ resync = [next |-> 0, last |-> 0] /\ missing = {} /\ grace = [prev |-> {}, graced |-> {}]
  /\ fleet = [s \in Sids |-> NoFleet] /\ starts = {} /\ shown = [list |-> <<>>, count |-> [s \in Sids |-> 0], live |-> {}, cold |-> {}, files |-> [s \in Sids |-> NoFleet.files]] /\ writes = 0

(***************************************************************************)
(* The machine: sessions come and go and write their files.                *)
(***************************************************************************)
Wrote == writes < MaxWrites /\ writes' = writes + 1 /\ UNCHANGED now
Register(s) ==
  /\ Wrote /\ registry[s] = "gone" /\ registry' = [registry EXCEPT ![s] = "live"]
  /\ UNCHANGED <<disk, landed, head, agents>> /\ UNCHANGED Cache
Die(s) ==
  /\ Wrote /\ registry[s] = "live" /\ registry' = [registry EXCEPT ![s] = "gone"]
  /\ UNCHANGED <<disk, landed, head, agents>> /\ UNCHANGED Cache
\* A registry file caught while it is rewritten.
Tear(s) ==
  /\ Wrote /\ registry[s] = "live" /\ registry' = [registry EXCEPT ![s] = "torn"]
  /\ UNCHANGED <<disk, landed, head, agents>> /\ UNCHANGED Cache
\* A transcript appears; its first line may follow. The session's agents live beside it.
Land(s, p) ==
  /\ Wrote /\ landed[s] = 0 /\ landed' = [landed EXCEPT ![s] = now]
  /\ disk' = [root |-> IF disk.proj[p].there THEN disk.root ELSE now,
              proj |-> [disk.proj EXCEPT ![p] = [there |-> TRUE, mtime |-> now, tx |-> @.tx \cup {s}]]]
  /\ \E b \in BOOLEAN : head' = [head EXCEPT ![s] = b]
  /\ UNCHANGED <<registry, agents>> /\ UNCHANGED Cache
\* A project directory is removed with all it holds.
Purge(p) ==
  /\ Wrote /\ disk.proj[p].there /\ disk' = [root |-> now, proj |-> [disk.proj EXCEPT ![p] = NoDir]]
  /\ landed' = [s \in Sids |-> IF s \in disk.proj[p].tx THEN 0 ELSE landed[s]]
  /\ head' = [s \in Sids |-> head[s] /\ s \notin disk.proj[p].tx]
  /\ agents' = [s \in Sids |-> IF s \in disk.proj[p].tx THEN NoFleet ELSE agents[s]]
  /\ UNCHANGED registry /\ UNCHANGED Cache
Speak(s) ==
  /\ landed[s] # 0 /\ ~head[s] /\ head' = [head EXCEPT ![s] = TRUE]
  /\ UNCHANGED <<now, disk, landed, registry, agents, writes>> /\ UNCHANGED Cache
\* An agent's transcript is created or appended to; only a creation touches the directory.
AgentWrites(s, f) ==
  /\ Wrote /\ landed[s] # 0
  /\ agents' = [agents EXCEPT ![s] = [there |-> TRUE, mtime |-> IF @.files[f] = 0 THEN now ELSE @.mtime,
                                      files |-> [@.files EXCEPT ![f] = now]]]
  /\ UNCHANGED <<disk, landed, head, registry>> /\ UNCHANGED Cache
Tick == now < MaxTick /\ now' = now + 1 /\ UNCHANGED <<World, writes>> /\ UNCHANGED Cache

(***************************************************************************)
(* A poll (discover, orderSessions).                                       *)
(***************************************************************************)
\* aliveSessions: a miss is forgiven once.
Alive ==
  LET read == {s \in Sids : registry[s] = "live"}
      graced == {s \in grace.prev : s \notin read /\ s \notin grace.graced}
  IN [on |-> read \cup graced, graced |-> graced]
\* projIndex.lookup: the root is listed when it moved, a project is read when it moved.
Moved(p, root, force) == force \/ idx.known[p] # disk.proj[p].mtime
Lookup(x, force) ==
  LET listed == force \/ x.root # disk.root
      here == {p \in Projects : disk.proj[p].there /\ (listed \/ x.known[p] # 0)}
      read == {p \in here : x.known[p] = 0 \/ Moved(p, x.root, force)}
      sets == [p \in Projects |-> IF p \in read THEN disk.proj[p].tx ELSE IF p \in here THEN x.sets[p] ELSE {}]
  IN [root |-> IF listed THEN disk.root ELSE x.root,
      known |-> [p \in Projects |-> IF p \in here THEN IF p \in read THEN disk.proj[p].mtime ELSE x.known[p] ELSE 0],
      sets |-> sets, tx |-> {<<s, p>> \in Sids \X Projects : s \in sets[p]}]
Found(x) == {s \in Sids : \E p \in Projects : <<s, p>> \in x.tx}
ResyncDue == now >= resync.next
\* fleetCache.sync: a directory that moved is listed, else only its hot files are looked at.
Hot(m) == now - m <= HotFor
FaultSynced(s, force) ==
  IF ~agents[s].there THEN NoFleet
  ELSE IF force \/ ~fleet[s].there \/ fleet[s].mtime # agents[s].mtime THEN agents[s] ELSE fleet[s]
Synced(s, force) ==
  IF ~agents[s].there THEN NoFleet
  ELSE IF force \/ ~fleet[s].there \/ fleet[s].mtime # agents[s].mtime THEN agents[s]
  ELSE [fleet[s] EXCEPT !.files = [f \in Files |-> IF @[f] # 0 /\ Hot(@[f]) THEN agents[s].files[f] ELSE @[f]]]
IsLive(m) == m # 0 /\ now - m <= LiveWithin
Running(fl) == Cardinality({f \in Files : IsLive(fl.files[f])})
\* orderSessions: by a start read once from the head; a head without a stamp sorts last.
Starts(on) == {s \in on : s \in starts \/ head[s]}
Before(st, a, b) ==
  LET k(s) == IF s \in st THEN Start(s) ELSE 0
  IN k(a) > k(b) \/ (k(a) = k(b) /\ Start(a) < Start(b))
Ordered(st, on) == SetToSortSeq(on, LAMBDA a, b : Before(st, a, b))
Poll ==
  LET force == ResyncDue
      alive == Alive
      forgotten == IF force THEN {} ELSE missing
      first == Lookup(idx, force)
      \* One forced reading for a session the index does not know yet, remembered so that
      \* one without a transcript does not cost a walk at every poll.
      rescue == \E s \in alive.on : s \notin Found(first) /\ s \notin forgotten
      second == IF rescue THEN Lookup(first, TRUE) ELSE first
      on == {s \in alive.on : \E p \in Projects : <<s, p>> \in second.tx /\ s \in disk.proj[p].tx}
      synced == [s \in Sids |-> IF s \in on THEN Synced(s, force) ELSE NoFleet]   \* prune
  IN /\ grace' = [prev |-> alive.on, graced |-> alive.graced]
     /\ resync' = IF force THEN [next |-> now + ResyncEvery, last |-> now] ELSE resync
     /\ idx' = second /\ missing' = IF rescue THEN forgotten \cup (alive.on \ Found(second)) ELSE forgotten
     /\ fleet' = synced /\ starts' = Starts(on)
     /\ shown' = [list |-> Ordered(Starts(on), on), count |-> [s \in Sids |-> Running(synced[s])],
                   live |-> {s \in Sids : registry[s] = "live"},
                   cold |-> (IF force THEN {} ELSE shown.cold \cup {c \in Sids \X Files : ~Hot(shown.files[c[1]][c[2]])}),
                   files |-> [s \in Sids |-> agents[s].files]]
     /\ registry' = [s \in Sids |-> IF registry[s] = "torn" THEN "live" ELSE registry[s]]
     /\ UNCHANGED <<now, disk, landed, head, agents, writes>>

Next ==
  \/ Poll \/ Tick \/ \E p \in Projects : Purge(p)
  \/ \E s \in Sids : Register(s) \/ Die(s) \/ Tear(s) \/ Speak(s) \/ \E p \in Projects : Land(s, p)
  \/ \E s \in Sids, f \in Files : AgentWrites(s, f)
Spec == Init /\ [][Next]_vars

(***************************************************************************)
(* Properties, about the poll that was just made.                          *)
(***************************************************************************)
Polled == Poll
On == Range(shown'.list)
\* A session is shown only with a transcript on disk, and while its registry record was
\* read alive in this poll or the one before; one torn reading never drops it.
ShownLives ==
  Polled => /\ \A s \in On : landed[s] # 0 /\ (registry[s] = "live" \/ s \in shown.live)
            /\ \A s \in Range(shown.list) : registry[s] = "torn" /\ s \in shown.live /\ landed[s] # 0 => s \in On
\* A living session whose transcript is on disk is missed for less than a resync.
LiveIsShown ==
  Polled => \A s \in Sids : registry[s] = "live" /\ landed[s] # 0 /\ s \notin On => now - landed[s] < ResyncEvery
\* The count of running agents is never too high, and too low only for a file that had gone
\* cold and was written again since the last forced pass.
FleetIsTrue ==
  Polled => \A s \in On :
    LET really == {f \in Files : IsLive(agents[s].files[f])}
    IN /\ shown'.count[s] <= Cardinality(really)
       /\ shown'.count[s] < Cardinality(really) =>
            \E f \in really : <<s, f>> \in shown'.cold
\* The list does not move under a finger: two sessions that stay keep their order, but for
\* the one move of a session whose head is parsed.
OrderHolds ==
  Polled => \A i, j \in DOMAIN shown.list :
    LET a == shown.list[i]
        b == shown.list[j]
    IN i < j /\ a \in On /\ b \in On /\ (b \in starts \/ b \notin starts')
       => \E k, l \in DOMAIN shown'.list : k < l /\ shown'.list[k] = a /\ shown'.list[l] = b
\* What no poll may do to the list of sessions and fleets (fscache.go, claudesessions.go).
IndexSteps == [][ShownLives /\ LiveIsShown /\ FleetIsTrue /\ OrderHolds]_vars
=============================================================================
