------------------------------ MODULE ClaudeSpool ------------------------------
(***************************************************************************)
(* The hook spool of one Claude session (internal/hookspool) and what the  *)
(* panel makes of it (module/claudesessions): every event of the session   *)
(* is a short process that reads the spool, merges its fields and renames  *)
(* a new file over it; an end also sweeps the directory. The registry of   *)
(* Claude Code itself and the transcript tell the panel the rest.          *)
(***************************************************************************)
EXTENDS Naturals, FiniteSets

CONSTANTS Horizon,     \* attentionHorizon, in seconds of the model
          ReapAfter,   \* reapAfter
          Version,     \* the shape stamp
          Overlap,     \* hooks of the session that may run at a time
          MaxClock, MaxEvents

VARIABLES
  clock,
  real,      \* what the session does: rest, turn, gate, dialog, gone
  parked,    \* background tasks of the last turn
  tail,      \* the transcript: when it moved, when a prompt was last typed into it
  reg,       \* the registry: whether it has a status this code knows, the status, its flip
  spool,     \* the file, or NoSpool, with its mtime
  sidecar,   \* the directory of agent files exists
  hooks,     \* hook processes that have not ended
  overlapped,\* two of them have been under way at once, one died, or a living session's file was reaped
  fired      \* events so far
vars == <<clock, real, parked, tail, reg, spool, sidecar, hooks, overlapped, fired>>

Gates == {"permission_prompt", "agent_needs_input"}
Types == Gates \cup {"", "idle_prompt"}
Fields == {"ver", "ts", "attention", "nts", "ntype", "sts", "error", "bg", "win"}
Empty == [ver |-> 0, ts |-> 0, attention |-> FALSE, nts |-> 0, ntype |-> "", sts |-> 0, error |-> FALSE, bg |-> 0,
          win |-> FALSE]
NoSpool == [there |-> FALSE, mtime |-> 0, data |-> Empty]
Ago(t) == clock - t
Settled == hooks = {}
TypeOK ==
  /\ clock \in 1..MaxClock /\ real \in {"rest", "turn", "gate", "dialog", "gone"} /\ parked \in 0..1
  /\ spool.data.ts \in 0..clock /\ spool.data.nts \in 0..clock /\ spool.data.sts \in 0..clock
  /\ spool.data.ntype \in Types /\ spool.mtime <= clock
  /\ Cardinality(hooks) <= Overlap /\ \A h \in hooks : h.phase \in {"fired", "read", "sweep", "orphans"}

Init ==
  /\ clock = 1 /\ real \in {"gone", "rest"} /\ parked = 0 /\ tail = [moved |-> 0, typed |-> 0]
  /\ reg \in {[speaks |-> b, status |-> "idle", since |-> 1] : b \in BOOLEAN}
  \* Nothing, a spool of another shape left by an older build, or one of this shape.
  /\ spool \in {NoSpool, [there |-> TRUE, mtime |-> 1, data |-> [Empty EXCEPT !.ver = Version + 1, !.ts = 1, !.error = TRUE]],
                [there |-> TRUE, mtime |-> 1, data |-> [Empty EXCEPT !.ver = Version, !.ts = 1]]}
  /\ sidecar = spool.there /\ hooks = {} /\ overlapped = FALSE /\ fired = 0

(***************************************************************************)
(* The hook process (Run).                                                 *)
(***************************************************************************)
\* The fields an event merges over what it has read; only the first and a later start of
\* the session leave the prompt of an earlier one standing.
FaultMerge(h) ==
  CASE h.event = "prompt" -> [ver |-> Version, ts |-> h.at]
    [] h.event = "start" -> [ver |-> Version, win |-> TRUE]
    [] h.event = "stop" -> [ver |-> Version, sts |-> h.at, bg |-> h.bg, attention |-> FALSE, error |-> FALSE]
    [] h.event = "stopfail" -> [ver |-> Version, sts |-> h.at, attention |-> FALSE, error |-> TRUE]
    [] h.event = "notify" -> [ver |-> Version, nts |-> h.at, ntype |-> h.typ, attention |-> TRUE]
Merge(h) ==
  CASE h.event = "prompt" -> [ver |-> Version, ts |-> h.at, attention |-> FALSE]
    [] h.event = "start" -> [ver |-> Version, win |-> TRUE]
    [] h.event = "stop" -> [ver |-> Version, sts |-> h.at, bg |-> h.bg, attention |-> FALSE, error |-> FALSE]
    [] h.event = "stopfail" -> [ver |-> Version, sts |-> h.at, attention |-> FALSE, error |-> TRUE]
    [] h.event = "notify" -> [ver |-> Version, nts |-> h.at, ntype |-> h.typ, attention |-> TRUE]
Merged(base, h) == LET m == Merge(h) IN [f \in Fields |-> IF f \in DOMAIN m THEN m[f] ELSE base[f]]
\* readBase: whatever is there and parses, of any version, is the base.
ReadBase(h) ==
  /\ h \in hooks /\ h.phase = "fired" /\ h.event # "end"
  /\ hooks' = (hooks \ {h}) \cup {[h EXCEPT !.phase = "read", !.base = spool.data]}
  /\ UNCHANGED <<clock, real, parked, tail, reg, spool, sidecar, overlapped, fired>>
\* writeAtomic renames the whole file over what is there by now.
WriteAtomic(h) ==
  /\ h \in hooks /\ h.phase = "read"
  /\ spool' = [there |-> TRUE, mtime |-> clock, data |-> Merged(h.base, h)]
  /\ hooks' = hooks \ {h}
  /\ UNCHANGED <<clock, real, parked, tail, reg, sidecar, overlapped, fired>>
\* end: a clear or a logout drops the spool and its sidecar, a quit keeps the likeliest
\* resume target; then Sweep, which reads what each file is before it removes it.
Stale(s) == s.there /\ (Ago(s.mtime) > ReapAfter \/ s.data.ver \notin {0, Version})
Reaped(s) == Stale(s)
Keeps(h) == h.reason \notin {"clear", "logout"}
End(h) ==
  /\ h \in hooks /\ h.phase = "fired" /\ h.event = "end"
  /\ spool' = IF Keeps(h) THEN spool ELSE NoSpool
  /\ sidecar' = (sidecar /\ Keeps(h))
  /\ hooks' = (hooks \ {h}) \cup {[h EXCEPT !.phase = "sweep", !.reaps = Reaped(spool')]}
  /\ UNCHANGED <<clock, real, parked, tail, reg, overlapped, fired>>
\* Sweep also runs at the boot of the bus, beside whatever hooks are under way.
BootSweep ==
  /\ fired < MaxEvents /\ Cardinality(hooks) < Overlap /\ fired' = fired + 1
  /\ hooks' = hooks \cup {[event |-> "end", phase |-> "sweep", reaps |-> Reaped(spool), at |-> clock]}
  /\ overlapped' = (overlapped \/ hooks # {})
  /\ UNCHANGED <<clock, real, parked, tail, reg, spool, sidecar>>
Reap(h) ==
  /\ h \in hooks /\ h.phase = "sweep"
  /\ spool' = IF h.reaps THEN NoSpool ELSE spool
  /\ overlapped' = (overlapped \/ (h.reaps /\ real # "gone"))
  /\ hooks' = (hooks \ {h}) \cup {[h EXCEPT !.phase = "orphans"]}
  /\ UNCHANGED <<clock, real, parked, tail, reg, sidecar, fired>>
\* Orphaned sidecars go with their owners.
Orphans(h) ==
  /\ h \in hooks /\ h.phase = "orphans" /\ sidecar' = (sidecar /\ spool.there) /\ hooks' = hooks \ {h}
  /\ UNCHANGED <<clock, real, parked, tail, reg, spool, overlapped, fired>>
HookDies(h) ==
  /\ h \in hooks /\ hooks' = hooks \ {h} /\ overlapped' = TRUE
  /\ UNCHANGED <<clock, real, parked, tail, reg, spool, sidecar, fired>>

(***************************************************************************)
(* The session: what it does, and the hook it fires for it.                *)
(***************************************************************************)
Hook(e) == [event |-> e, phase |-> "fired", at |-> clock, base |-> Empty, typ |-> "", bg |-> 0,
            reason |-> "", reaps |-> FALSE]
Fires(h) ==
  /\ fired < MaxEvents /\ Cardinality(hooks) < Overlap /\ fired' = fired + 1
  /\ hooks' = hooks \cup {h} /\ overlapped' = (overlapped \/ hooks # {})
\* Claude Code flips its status with the session, or a moment later (RegistryCatchesUp).
StatusOf(r) == CASE r \in {"gate", "dialog"} -> "waiting" [] r = "turn" -> "busy" [] OTHER -> "idle"
Moves == tail' = [tail EXCEPT !.moved = clock]
Same == UNCHANGED <<clock, spool, sidecar>>
StartSession ==
  /\ real = "gone" /\ real' = "rest" /\ Fires(Hook("start")) /\ Moves /\ UNCHANGED <<parked, reg>> /\ Same
Prompt ==
  /\ real = "rest" /\ real' = "turn" /\ Fires(Hook("prompt"))
  /\ tail' = [moved |-> clock, typed |-> clock] /\ UNCHANGED <<parked, reg>> /\ Same
\* Steering a running turn fires no hook; the transcript has it.
Steer ==
  /\ real = "turn" /\ tail.typed < clock /\ tail' = [moved |-> clock, typed |-> clock]
  /\ UNCHANGED <<real, parked, reg, hooks, overlapped, fired>> /\ Same
Work ==
  /\ real = "turn" /\ tail.moved < clock /\ Moves /\ UNCHANGED <<real, parked, reg, hooks, overlapped, fired>> /\ Same
\* The tool's entry is written before the gate's notification; granting it fires nothing.
OpenGate(t) ==
  /\ real = "turn" /\ real' = "gate" /\ Fires([Hook("notify") EXCEPT !.typ = t]) /\ Moves
  /\ UNCHANGED <<parked, reg>> /\ Same
GrantGate ==
  /\ real = "gate" /\ real' = "turn" /\ UNCHANGED <<parked, tail, reg, hooks, overlapped, fired>> /\ Same
\* A dialog the user opens themselves.
Dialog ==
  /\ real \in {"rest", "dialog"} /\ real' = (IF real = "rest" THEN "dialog" ELSE "rest")
  /\ UNCHANGED <<parked, tail, reg, hooks, overlapped, fired>> /\ Same
EndTurn(e, bg) ==
  /\ real = "turn" /\ real' = "rest" /\ parked' = bg /\ Fires([Hook(e) EXCEPT !.bg = bg]) /\ Moves
  /\ UNCHANGED reg /\ Same
\* The harness rings while the session rests; background work wakes it without a prompt.
IdleBell ==
  /\ real = "rest" /\ Fires([Hook("notify") EXCEPT !.typ = "idle_prompt"])
  /\ UNCHANGED <<real, parked, tail, reg>> /\ Same
WakeUp ==
  /\ real = "rest" /\ parked > 0 /\ real' = "turn" /\ Moves /\ UNCHANGED <<parked, reg, hooks, overlapped, fired>> /\ Same
Quit(reason) ==
  /\ real = "rest" /\ real' = "gone" /\ parked' = 0 /\ Fires([Hook("end") EXCEPT !.reason = reason])
  /\ UNCHANGED <<tail, reg>> /\ Same
RegistryCatchesUp ==
  /\ reg.speaks /\ reg.status # StatusOf(real) /\ reg' = [reg EXCEPT !.status = StatusOf(real), !.since = clock]
  /\ UNCHANGED <<clock, real, parked, tail, spool, sidecar, hooks, overlapped, fired>>
Tick ==
  /\ clock < MaxClock /\ clock' = clock + 1
  /\ UNCHANGED <<real, parked, tail, reg, spool, sidecar, hooks, overlapped, fired>>

Next ==
  \/ StartSession \/ Prompt \/ Steer \/ Work \/ GrantGate \/ Dialog \/ IdleBell \/ WakeUp
  \/ RegistryCatchesUp \/ Tick \/ BootSweep
  \/ \E t \in Gates : OpenGate(t)
  \/ \E bg \in 0..1 : EndTurn("stop", bg)
  \/ EndTurn("stopfail", 0)
  \/ \E r \in {"clear", "prompt_input_exit"} : Quit(r)
  \/ \E h \in hooks : ReadBase(h) \/ WriteAtomic(h) \/ End(h) \/ Reap(h) \/ Orphans(h) \/ HookDies(h)
Spec == Init /\ [][Next]_vars

(***************************************************************************)
(* What the panel reads (overlay, parseSpool, freshenPrompts) and makes of *)
(* it (attentionLive, needsUser, stateSpan).                               *)
(***************************************************************************)
\* A spool of another shape is read as none at all.
Parsed == IF spool.there /\ spool.data.ver \in {0, Version} THEN spool.data ELSE Empty
\* The tail's prompt counts only when it beats the spool's.
TailPrompt == IF tail.typed > Parsed.ts THEN tail.typed ELSE 0
\* Granting a gate fires no hook: the transcript moving again, or a turn's end, is the
\* answer to it; a parked turn waits for its own work, not the user.
Answered(s) ==
  \/ s.ntype \in Gates /\ (tail.moved > s.nts \/ s.sts > s.nts)
  \/ s.ntype = "idle_prompt" /\ s.bg > 0
  \/ s.ts > s.nts \/ TailPrompt > s.nts
AttentionLive ==
  LET s == Parsed
      times == {s.nts, s.ts, TailPrompt, s.sts}
  IN /\ s.attention
     /\ \E t \in times : t # 0 /\ Ago(t) <= Horizon
     /\ s.nts # 0 => ~Answered(s)
\* The registry is the truth when it speaks; a notification newer than the busy flip is
\* one it has not caught up to.
DialogOpen == reg.speaks /\ reg.status = "waiting" /\ real = "dialog"
NeedsUser ==
  IF ~reg.speaks THEN AttentionLive
  ELSE CASE reg.status = "waiting" -> ~DialogOpen
         [] reg.status = "idle" -> FALSE
         [] OTHER -> Parsed.nts > reg.since /\ AttentionLive
TurnDone == Parsed.sts # 0 /\ Parsed.sts >= Parsed.ts
StateSpan ==
  CASE NeedsUser -> "bell"
    [] ~NeedsUser /\ DialogOpen -> "dialog"
    [] ~NeedsUser /\ ~DialogOpen /\ ~reg.speaks /\ Parsed.attention -> "dim bell"
    [] OTHER -> IF TurnDone THEN (IF Parsed.error THEN "error" ELSE "done") ELSE ""

(***************************************************************************)
(* Properties.                                                             *)
(***************************************************************************)
Clean == Settled /\ ~overlapped /\ spool.there
InStep == reg.speaks /\ reg.status = StatusOf(real)
\* The bell is the session's need, whatever the spool remembers of older bells: exactly so
\* while the registry speaks and is in step. One granted before the registry saw it rings
\* only until the transcript moves.
NeedIsReal ==
  InStep => /\ real = "gate" => NeedsUser
            /\ NeedsUser /\ Clean => real = "gate" \/ (real = "turn" /\ Parsed.nts > reg.since /\ tail.moved <= Parsed.nts)
\* Without the registry, an answered gate stops ringing as soon as the transcript has moved
\* in a later second; one that is open rings until the horizon; a resting session rings
\* only for an idle bell of a turn that parked nothing.
SpoolRings ==
  ~reg.speaks /\ Clean =>
    /\ NeedsUser /\ real = "turn" => tail.moved <= Parsed.nts
    /\ NeedsUser /\ real = "rest" => Parsed.ntype = "idle_prompt" /\ parked = 0
    /\ real = "gate" /\ Ago(Parsed.nts) <= Horizon => NeedsUser
\* A glyph of an ended turn is never shown over one that runs: the spool's own ends are
\* older than its prompt.
GlyphIsCurrent ==
  Clean /\ real = "turn" /\ StateSpan \in {"done", "error"} => Parsed.sts = Parsed.ts \/ tail.typed < Parsed.ts \/ parked > 0
\* A spool that ended by a quit is there to be resumed from until it is old, and one of
\* this shape is never taken for garbage.
ResumeIsKept ==
  Settled /\ ~overlapped /\ real = "gone" /\ spool.there => spool.data.ver \in {0, Version} \/ fired = 0
\* The spool and the bell it rings, as a whole (hookspool.go).
SpoolSafe == NeedIsReal /\ SpoolRings /\ GlyphIsCurrent /\ ResumeIsKept

\* Only a clear, an age past the horizon or a foreign shape removes a spool, as long as
\* hooks do not overlap.
SpoolOutlives ==
  [][~overlapped' /\ spool.there /\ ~spool'.there =>
       \/ \E h \in hooks : h.event = "end" /\ h.phase = "fired" /\ h.reason = "clear"
       \/ Stale(spool)]_vars
\* An event changes its own fields and leaves the others (hookspool.go: "merge-don't-clobber").
MergesOnly ==
  [][\A h \in hooks : WriteAtomic(h) /\ spool.there =>
       \A f \in Fields \ DOMAIN Merge(h) : spool'.data[f] = spool.data[f]]_vars
=============================================================================
