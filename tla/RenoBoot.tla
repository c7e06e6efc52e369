------------------------------- MODULE RenoBoot -------------------------------
(***************************************************************************)
(* Bringing OBS up (renocontrol/obsboot.go, obsini.go): a verb dials, seeds*)
(* the password, the websocket's configuration and the ini files, refuses  *)
(* to fight a live OBS, answers the safe-mode question and launches it,    *)
(* while the user starts, quits or loses OBS by hand.  One verb at a time: *)
(* the owner runs them so.  An ini file is a sequence of lines.            *)
(***************************************************************************)
EXTENDS Naturals, Sequences, FiniteSets, SequencesExt

CONSTANTS
  Files,          \* what user.ini may hold at first
  Asserted,       \* the settings reno asserts, in order: a section, a key, a value
  Local, Installed,   \* whether OBS runs here, and whether its application is there
  MaxHandActs, MaxBoots

Header(s) == [kind |-> "section", section |-> s, key |-> "", value |-> ""]
Entry(k, v) == [kind |-> "entry", section |-> "", key |-> k, value |-> v]
Blank == [kind |-> "blank", section |-> "", key |-> "", value |-> ""]

VARIABLES
  password,   \* the state directory holds a password, generated once
  config,     \* obs-websocket's config.json: absent, garbage, disabled, foreign or seeded
  ini,        \* user.ini, as lines; none when there is no file
  sentinel,   \* a run of OBS left its sentinel behind
  log,        \* what the newest log says: nothing, an unclean shutdown, that the question was answered
  obs,        \* OBS: down, asking or up, whose websocket, the ini in its memory, whether a verb launched it undisturbed
  boot,       \* the verb: where Ensure is, and its last answer
  raced,      \* the user touched OBS since the verb dialled
  handActs, boots
vars == <<password, config, ini, sentinel, log, obs, boot, raced, handActs, boots>>

Down == [at |-> "down", bound |-> "no", ini |-> <<>>, by |-> "user"]
Answers == {"", "connected", "unreachable", "not local", "no app", "bad config", "safe mode", "quit it first"}
TypeOK ==
  /\ password \in BOOLEAN /\ config \in {"absent", "garbage", "disabled", "foreign", "seeded"} /\ sentinel \in BOOLEAN
  /\ log \in {"", "unclean", "answered"} /\ obs.at \in {"down", "asking", "up"} /\ obs.bound \in {"no", "foreign", "ours"}
  /\ boot.at \in {"idle", "dialed", "seeded", "probed", "cleared", "launched"} /\ boot.answer \in Answers

Init ==
  /\ password \in BOOLEAN /\ config \in {"absent", "garbage", "disabled", "foreign"} /\ ini \in Files
  /\ sentinel \in BOOLEAN /\ log = "" /\ obs = Down /\ boot = [at |-> "idle", answer |-> ""]
  /\ raced = FALSE /\ handActs = 0 /\ boots = 0

(***************************************************************************)
(* Ini files.                                                              *)
(***************************************************************************)
First(S) == CHOOSE i \in S : \A j \in S : i <= j
Last1(S) == CHOOSE i \in S : \A j \in S : i >= j
Headers(f, s) == {i \in DOMAIN f : f[i] = Header(s)}
\* findIniKey: the lines of the first section of that name, and its line that sets the key.
Body(f, s) ==
  IF Headers(f, s) = {} THEN {}
  ELSE {i \in DOMAIN f : i > First(Headers(f, s)) /\ \A j \in (First(Headers(f, s)) + 1) .. i : f[j].kind # "section"}
KeyLines(f, s, k) == {i \in Body(f, s) : f[i].kind = "entry" /\ f[i].key = k}
\* setIniKey: the line is rewritten where it is, put after the last line of the section
\* that says something, or under a new section at the end.
SetKey(f, a) ==
  LET want == Entry(a.key, a.value)
      said == {First(Headers(f, a.section))} \cup {i \in Body(f, a.section) : f[i].kind # "blank"}
  IN IF KeyLines(f, a.section, a.key) # {} THEN [f EXCEPT ![First(KeyLines(f, a.section, a.key))] = want]
     ELSE IF Headers(f, a.section) # {} THEN InsertAt(f, Last1(said) + 1, want)
     ELSE f \o (IF f # <<>> /\ f[Len(f)] # Blank THEN <<Blank>> ELSE <<>>) \o <<Header(a.section), want>>
\* The lines read back: blank ones at the end are not.
Read(f) ==
  LET said == {i \in DOMAIN f : f[i] # Blank} IN IF said = {} THEN (IF f = <<>> THEN f ELSE <<Blank>>) ELSE SubSeq(f, 1, Last1(said))
\* applyIniSettings: the file is written only when a setting changed it.
Apply(f) == LET g == FoldLeft(SetKey, Read(f), Asserted) IN IF g = Read(f) THEN f ELSE g
\* checkIniSettings.
Drift(f) ==
  {a \in Range(Asserted) : LET at == KeyLines(Read(f), a.section, a.key) IN at = {} \/ f[First(at)].value # a.value}

(***************************************************************************)
(* The verb (Ensure).                                                      *)
(***************************************************************************)
Answer(a) == boot' = [at |-> "idle", answer |-> a]
At(step) == boot' = [boot EXCEPT !.at = step]
Running == obs.at # "down"
\* The first dial needs nothing seeded; only a local OBS that is installed is launched.
Dial ==
  /\ boot.at = "idle" /\ boots < MaxBoots /\ boots' = boots + 1 /\ raced' = FALSE
  /\ IF obs.bound = "ours" /\ password THEN Answer("connected")
     ELSE IF ~Local THEN Answer("not local")
     ELSE IF ~Installed THEN Answer("no app") ELSE At("dialed")
  /\ UNCHANGED <<password, config, ini, sentinel, log, obs, handActs>>
\* Seed: the password exists from now on, a configuration that is not JSON stops the verb,
\* and the ini of a live OBS, which it would write over, is left alone but for a missing file.
FirstRun == <<Header("General"), Entry("FirstRun", "true")>>
Present(f) == IF f = <<>> THEN FirstRun ELSE f
SeededIni == IF Running THEN Present(ini) ELSE Apply(Present(ini))
Seed ==
  /\ boot.at = "dialed" /\ password' = TRUE
  /\ IF config = "garbage" THEN Answer("bad config") /\ UNCHANGED <<config, ini>>
     ELSE At("seeded") /\ config' = "seeded" /\ ini' = SeededIni
  /\ UNCHANGED <<sentinel, log, obs, raced, handActs, boots>>
\* A live OBS that does not answer is the user's to quit, or to answer the dialog of.
Probed == IF Running THEN Answer(IF log = "unclean" THEN "safe mode" ELSE "quit it first") ELSE At("probed")
Probe ==
  /\ boot.at = "seeded" /\ Probed
  /\ UNCHANGED <<password, config, ini, sentinel, log, obs, raced, handActs, boots>>
\* Safe mode is declined for the user, or the websocket would not bind.
Cleared == FALSE
ClearSentinel ==
  /\ boot.at = "probed" /\ At("cleared") /\ sentinel' = Cleared
  /\ UNCHANGED <<password, config, ini, log, obs, raced, handActs, boots>>
Binds == CASE config = "seeded" -> "ours" [] config = "foreign" -> "foreign" [] OTHER -> "no"
\* OBS starting: over a sentinel it asks first; its own sentinel is down until it ends well.
Opens(by) ==
  /\ obs' = [at |-> IF sentinel THEN "asking" ELSE "up", bound |-> IF sentinel THEN "no" ELSE Binds, ini |-> ini, by |-> by]
  /\ log' = (IF sentinel THEN "unclean" ELSE "") /\ sentinel' = TRUE
Launch ==
  /\ boot.at = "cleared" /\ At("launched")
  /\ IF Running THEN UNCHANGED <<obs, log, sentinel>> ELSE Opens(IF raced THEN "user" ELSE "reno")
  /\ UNCHANGED <<password, config, ini, raced, handActs, boots>>
Await ==
  /\ boot.at = "launched" /\ (IF obs.bound = "ours" THEN Answer("connected") ELSE Answer("unreachable"))
  /\ UNCHANGED <<password, config, ini, sentinel, log, obs, raced, handActs, boots>>

(***************************************************************************)
(* The user, by hand.                                                      *)
(***************************************************************************)
ByHand == handActs < MaxHandActs /\ handActs' = handActs + 1 /\ raced' = TRUE /\ UNCHANGED <<password, boot, boots>>
Open == ByHand /\ ~Running /\ Opens("user") /\ UNCHANGED <<config, ini>>
\* The safe-mode question answered either way.
Decide ==
  /\ ByHand /\ obs.at = "asking" /\ log' = "answered" /\ UNCHANGED <<config, ini, sentinel>>
  /\ \/ obs' = [obs EXCEPT !.at = "up", !.bound = Binds]
     \/ obs' = [obs EXCEPT !.at = "up"]
\* A clean exit writes the ini back from memory, a setting changed perhaps.
Quit ==
  /\ ByHand /\ Running /\ obs' = Down /\ sentinel' = FALSE /\ UNCHANGED <<config, log>>
  /\ ini' \in {obs.ini} \cup {SetKey(obs.ini, [a EXCEPT !.value = "changed"]) : a \in Range(Asserted)}
Crash == ByHand /\ Running /\ obs' = Down /\ UNCHANGED <<config, ini, sentinel, log>>

Next == Dial \/ Seed \/ Probe \/ ClearSentinel \/ Launch \/ Await \/ Open \/ Decide \/ Quit \/ Crash
Spec == Init /\ [][Next]_vars

(***************************************************************************)
(* Properties.                                                             *)
(***************************************************************************)
\* The section a line stands in.
Above(f, i) == {j \in DOMAIN f : j <= i /\ f[j].kind = "section"}
Stands(f, i, s) == Above(f, i) # {} /\ Last1(Above(f, i)) \in Headers(f, s) /\ Last1(Above(f, i)) = First(Headers(f, s))
\* The value OBS reads of a key: its first line in the first section of the name.
Value(f, s, k) ==
  LET at == {i \in DOMAIN f : f[i].kind = "entry" /\ f[i].key = k /\ Stands(f, i, s)} IN IF at = {} THEN "" ELSE f[First(at)].value
\* Asserting the posture reads back as asserted, settles at once and changes what OBS reads
\* of no other key, whatever the file looked like (setIniKey, findIniKey).
IniKept ==
  LET g == Apply(ini) IN
    /\ Drift(g) = {} /\ Apply(g) = g
    /\ \A a \in Range(Asserted) : Value(g, a.section, a.key) = a.value
    /\ \A h, e \in Range(ini) :
         h.kind = "section" /\ e.kind = "entry" /\ (\A a \in Range(Asserted) : <<a.section, a.key>> # <<h.section, e.key>>)
           => Value(g, h.section, e.key) = Value(ini, h.section, e.key)
\* Undisturbed, the OBS a verb launches asks nothing, has the posture and answers the
\* password on file, whatever state its last run and its files were in (Ensure's order).
LaunchedAsSeeded ==
  ~raced /\ obs.by = "reno" /\ Running => obs.at = "up" /\ obs.bound = "ours" /\ password /\ Drift(obs.ini) = {}
\* The verb's excuse is true: it waits in vain only for an OBS somebody touched, and blames
\* the safe-mode question only while it is being asked.
ExcuseIsTrue ==
  /\ ~raced /\ boot.at = "idle" /\ boot.answer = "safe mode" => obs.at = "asking"
  /\ ~raced /\ boot.at = "idle" => boot.answer # "unreachable"
\* Bringing OBS up, as a whole (obsboot.go, obsini.go).
BootSafe == IniKept /\ LaunchedAsSeeded /\ ExcuseIsTrue
\* A verb never undoes what is not its own: it ends no OBS and launches no second one, and
\* rewrites neither the ini of a live OBS nor a configuration it cannot read (Seed, Ensure).
HandsOff ==
  [][boot' # boot =>
       /\ Running => obs' = obs /\ (ini # <<>> => ini' = ini)
       /\ config = "garbage" => config' = config
       /\ boot'.answer = boot.answer \/ boot'.answer # "connected" \/ obs.bound = "ours"]_vars
=============================================================================
