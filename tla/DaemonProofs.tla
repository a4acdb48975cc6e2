---------------------------- MODULE DaemonProofs ----------------------------
(***************************************************************************)
(* Proofs about the auto-responder, for any messages, slots for runs,      *)
(* settings, limits and lengths of an hour and a day, and about the file   *)
(* of messages, for any messages, lines and number of cuts.                *)
(*                                                                         *)
(* The auto-responder's invariant has five parts besides the types.  A     *)
(* thread is bounded because replies and promised places together never    *)
(* exceed the cap (Promises); the starts the hourly limit forgot are older *)
(* than an hour (Starts); the budget of the day, in memory or, of a dead   *)
(* process, on disk, is what was spent but for what was missed (Meters); a *)
(* run keeps the guard rails of the settings it began with (Guarded); the  *)
(* hint follows the runs.                                                  *)
(*                                                                         *)
(* The file's says that no list has a message twice (Once), that the file  *)
(* remembers what memory shows as read (Kept), that an unfinished line is  *)
(* one that does not parse (Torn), and that each message the hub has an    *)
(* ack for, or memory would not store again, is in the file or was lost by *)
(* an append that was cut short (Accounted).                               *)
(***************************************************************************)
EXTENDS MCDaemon, NumberProofs, FiniteSetTheorems, TLAPS

\* The runs that hold a place in the thread, and the replies it has.
Promised == {s \in Live : InThread(runs[s].what)}
Replies(s) == {i \in DOMAIN s : s[i]}

\* Replies and reserved places stay within the cap while the guard sees them all.
Promises ==
  /\ hops \in Nat /\ unlogged \in Nat /\ unguarded \in Nat
  /\ IsFiniteSet(Promised) /\ reserved = Cardinality(Promised)
  /\ Cardinality(Replies(talk)) = hops - unlogged
  /\ Len(talk) <= Recent => Cardinality(Replies(talk)) + reserved <= MaxHops

\* The limit remembers every start of the last hour, and none that was not.
Starts ==
  /\ IsFiniteSet(begun) /\ repliesThisHour \subseteq begun
  /\ HourTo(begun, time) \subseteq repliesThisHour
  /\ HourlyCap

\* What a record of the budget says of today.
Of(record) == IF record.day = Today THEN record.spent ELSE 0
IsRecord(record) == record = [day |-> record.day, spent |-> record.spent]
Saved == IF disk = Unreadable THEN 0 ELSE Of(disk)

\* The meters have their types, the file is not ahead of memory, and nothing is
\* spent in the future.
MeterTypes ==
  /\ real \in [Days -> Nat] /\ missed \in [Days -> Int]
  /\ IsRecord(tokens)
  /\ disk # Unreadable => IsRecord(disk) /\ disk.day <= tokens.day
  /\ \A d \in Days : d > Today => real[d] = 0 /\ missed[d] = 0

\* The budget of today is what was spent today and not missed.
Balance == real[Today] - missed[Today] = IF up THEN Of(tokens) ELSE Saved

Meters == MeterTypes /\ Balance

\* A run keeps the guard rails of its own settings.
Guarded ==
  \A s \in Live : runs[s].guard = Guardrails(runs[s].settings, Trusted(runs[s].what, runs[s].settings))

AutoInv ==
  /\ AutoTypeOK /\ Promises /\ Starts /\ Meters /\ Guarded
  /\ report.told = report.had /\ HintIsNotStuck

-----------------------------------------------------------------------------
(* Days, sequences, places *)

\* The constants one by one.
LEMMA Constants ==
  /\ MaxTime \in Nat /\ MaxTurns \in Nat /\ MaxTalk \in Nat /\ Costs \subseteq Nat
  /\ Day \in Nat \ {0} /\ Hour \in Nat \ {0} /\ Recent \in Nat \ {0} /\ MaxHops \in Nat \ {0}
BY AutoRespondAssumption DEF AutoRespondAssumption

\* The day of a time within the horizon is within the horizon, and days never run
\* backwards.
LEMMA DaysInOrder ==
  ASSUME NEW t \in Nat, NEW u \in Nat, NEW d \in Nat \ {0}, t <= u
  PROVE  t \div d \in Nat /\ u \div d \in Nat /\ t \div d <= u \div d
OBVIOUS

\* The guard sees every reply of a short thread.
LEMMA ShortThread ==
  ASSUME NEW s \in Seq(BOOLEAN), Len(s) <= Recent
  PROVE  RepliesIn(s) = Replies(s)
BY AutoRespondAssumption DEF RepliesIn, Replies

\* A message that is no reply adds none; a reply adds one.
LEMMA ThreadGrows ==
  ASSUME NEW s \in Seq(BOOLEAN), NEW reply \in BOOLEAN
  PROVE  /\ Append(s, reply) \in Seq(BOOLEAN) /\ Len(Append(s, reply)) = Len(s) + 1
         /\ Replies(Append(s, reply)) =
              IF reply THEN Replies(s) \cup {Len(s) + 1} ELSE Replies(s)
         /\ IsFiniteSet(Replies(s)) /\ Cardinality(Replies(s)) \in Nat
         /\ Cardinality(Replies(Append(s, reply))) =
              IF reply THEN Cardinality(Replies(s)) + 1 ELSE Cardinality(Replies(s))
<1>1. /\ Append(s, reply) \in Seq(BOOLEAN) /\ Len(Append(s, reply)) = Len(s) + 1
      /\ DOMAIN s = 1 .. Len(s) /\ DOMAIN Append(s, reply) = 1 .. (Len(s) + 1)
      /\ \A i \in 1 .. Len(s) : Append(s, reply)[i] = s[i]
      /\ Append(s, reply)[Len(s) + 1] = reply
      /\ Len(s) \in Nat
  OBVIOUS
<1>2. Replies(Append(s, reply)) = IF reply THEN Replies(s) \cup {Len(s) + 1} ELSE Replies(s)
  BY <1>1 DEF Replies
<1>3. Replies(s) \subseteq 1 .. Len(s) /\ Len(s) + 1 \notin Replies(s)
  BY <1>1 DEF Replies
<1>4. IsFiniteSet(Replies(s)) /\ Cardinality(Replies(s)) \in Nat
  <2>1. IsFiniteSet(1 .. Len(s))
    BY <1>1, FS_Interval
  <2>2. IsFiniteSet(Replies(s))
    BY <2>1, <1>3, FS_Subset
  <2> QED BY <2>2, FS_CardinalityType
<1>5. Cardinality(Replies(s) \cup {Len(s) + 1}) = Cardinality(Replies(s)) + 1
  BY <1>3, <1>4, FS_AddElement
<1> QED BY <1>1, <1>2, <1>4, <1>5

\* The two kinds of growth.
LEMMA ChatterGrows ==
  ASSUME NEW s \in Seq(BOOLEAN)
  PROVE  /\ Append(s, FALSE) \in Seq(BOOLEAN) /\ Len(Append(s, FALSE)) = Len(s) + 1
         /\ Cardinality(Replies(Append(s, FALSE))) = Cardinality(Replies(s))
<1>1. FALSE \in BOOLEAN
  OBVIOUS
<1>2. /\ Append(s, FALSE) \in Seq(BOOLEAN) /\ Len(Append(s, FALSE)) = Len(s) + 1
      /\ Cardinality(Replies(Append(s, FALSE))) =
           IF FALSE THEN Cardinality(Replies(s)) + 1 ELSE Cardinality(Replies(s))
  BY <1>1, ThreadGrows, Zenon
<1> QED BY <1>2

LEMMA ReplyGrows ==
  ASSUME NEW s \in Seq(BOOLEAN)
  PROVE  /\ Append(s, TRUE) \in Seq(BOOLEAN) /\ Len(Append(s, TRUE)) = Len(s) + 1
         /\ Cardinality(Replies(Append(s, TRUE))) = Cardinality(Replies(s)) + 1
<1>1. TRUE \in BOOLEAN
  OBVIOUS
<1>2. /\ Append(s, TRUE) \in Seq(BOOLEAN) /\ Len(Append(s, TRUE)) = Len(s) + 1
      /\ Cardinality(Replies(Append(s, TRUE))) =
           IF TRUE THEN Cardinality(Replies(s)) + 1 ELSE Cardinality(Replies(s))
  BY <1>1, ThreadGrows, Zenon
<1> QED BY <1>2

\* A run is none of the empty slots.
LEMMA RunIsNotNothing == \A r \in RunSpace : r # Nothing /\ r.what # Nothing.what
BY AutoRespondAssumption DEF RunSpace, Nothing, Task

\* What handle lets through has passed every gate.
LEMMA GatesPassed ==
  ASSUME Refusal = "none"
  PROVE  ~Exceeds(settings) /\ AllowedByRate(settings)
BY DEF Refusal

-----------------------------------------------------------------------------
(* Types *)

\* Guard rails have their type, whatever the settings.
LEMMA GuardrailsType ==
  ASSUME NEW s \in SettingsSpace, NEW t \in BOOLEAN
  PROVE  Guardrails(s, t) \in Guards
BY DEF Guardrails, Guards, SettingsSpace, Tools

\* The settings of a task are settings, whatever posture its frame gave.
LEMMA PostureType ==
  ASSUME NEW s \in SettingsSpace, NEW writable \in BOOLEAN
  PROVE  [s EXCEPT !.write = writable] \in SettingsSpace
BY DEF SettingsSpace

\* A started run has its type, and only its slot changes.
LEMMA StartedType ==
  ASSUME AutoTypeOK, NEW slot \in Slots, NEW m \in Asks \cup {Task}, NEW s \in SettingsSpace,
         Started(slot, m, s)
  PROVE  runs' \in [Slots -> RunSpace \cup {Nothing}]
<1>1. Trusted(m, s) \in BOOLEAN
  BY DEF Trusted, SettingsSpace
<1>2. [what |-> m, settings |-> s, guard |-> Guardrails(s, Trusted(m, s))] \in RunSpace
  BY <1>1, GuardrailsType DEF RunSpace
<1> QED BY <1>2 DEF Started, AutoTypeOK

\* An ended run had its type and leaves its slot empty.
LEMMA EndedType ==
  ASSUME AutoTypeOK, NEW slot \in Slots, NEW result, Ended(slot, result)
  PROVE  /\ runs[slot] \in RunSpace /\ runs[slot].what \in Asks
         /\ runs' \in [Slots -> RunSpace \cup {Nothing}]
         /\ shown' \in {"idle", "responding"} /\ left' \in BOOLEAN
<1>1. /\ runs' = [runs EXCEPT ![slot] = Nothing] /\ HintCleared(result)
      /\ runs[slot].what # "none" /\ runs[slot].what # Task
  BY DEF Ended
<1>2. runs[slot] \in RunSpace \cup {Nothing} /\ runs \in [Slots -> RunSpace \cup {Nothing}]
  BY DEF AutoTypeOK
<1>3. runs[slot] \in RunSpace
  BY <1>1, <1>2 DEF Nothing
<1>4. runs[slot].what \in Asks
  BY <1>1, <1>3 DEF RunSpace
<1>5. runs' \in [Slots -> RunSpace \cup {Nothing}]
  BY <1>1, <1>2
<1>6. shown \in {"idle", "responding"} /\ left \in BOOLEAN
  BY DEF AutoTypeOK
<1>7. (shown' = "idle" /\ left' = FALSE) \/ (shown' = shown /\ left' = left)
  BY <1>1 DEF HintCleared, HintSaysIdle, hintVars
<1> QED BY <1>3, <1>4, <1>5, <1>6, <1>7

\* What a report tells has its type.
LEMMA ReportType ==
  ASSUME AutoTypeOK, NEW m \in Asks, NEW s \in SettingsSpace, NEW guard \in Guards,
         Report(m, s, guard)
  PROVE  report' \in [told : Guards, had : Guards]
<1>1. Trusted(m, s) \in BOOLEAN
  BY DEF Trusted, SettingsSpace
<1> QED BY <1>1, GuardrailsType DEF Report, Told, AutoTypeOK

-----------------------------------------------------------------------------
(* The budget *)

\* The day of a time of the horizon.
LEMMA DayOfHorizon ==
  ASSUME NEW t \in 0 .. MaxTime
  PROVE  t \div Day \in Days /\ t \div Day \in Nat /\ Days \subseteq Nat
<1>1. t \in Nat /\ MaxTime \in Nat /\ Day \in Nat \ {0} /\ t <= MaxTime
  BY Constants
<1>2. t \div Day \in Nat /\ MaxTime \div Day \in Nat /\ t \div Day <= MaxTime \div Day
  BY <1>1, DaysInOrder, Zenon
<1> QED BY <1>2 DEF Days

\* Today is a day of the horizon.
LEMMA TodayType ==
  ASSUME AutoTypeOK
  PROVE  Today \in Days /\ Today \in Nat /\ Days \subseteq Nat
<1>1. time \in 0 .. MaxTime
  BY DEF AutoTypeOK
<1> QED BY <1>1, DayOfHorizon DEF Today

\* So is the day of the next state.
LEMMA TodayTypeNext ==
  ASSUME AutoTypeOK'
  PROVE  Today' \in Days /\ Today' \in Nat /\ Days \subseteq Nat
<1>1. time' \in 0 .. MaxTime
  BY DEF AutoTypeOK
<1>2. Today' = time' \div Day
  BY DEF Today
<1> QED BY <1>1, <1>2, DayOfHorizon

\* The rolled budget is that of today.
LEMMA RolledType ==
  ASSUME AutoTypeOK, MeterTypes
  PROVE  /\ Of(tokens) \in Nat
         /\ Rolled = [day |-> Today, spent |-> Of(tokens)]
<1>1. tokens.spent \in Nat /\ IsRecord(tokens)
  BY DEF AutoTypeOK, MeterTypes
<1> QED BY <1>1 DEF Rolled, Of, IsRecord

\* A record of today.
IsOfToday(record) == IsRecord(record) /\ record.day = Today /\ record.spent \in Nat

\* What a write that may fail leaves on disk.
LEMMA PersistedType ==
  ASSUME AutoTypeOK, MeterTypes, NEW written, \A r \in written : IsOfToday(r), Persisted(written)
  PROVE  disk' # Unreadable =>
           IsRecord(disk') /\ disk'.day \in 0 .. Today /\ disk'.spent \in Nat
<1>1. disk' \in written \/ disk' = disk \/ disk' = Unreadable
  BY DEF Persisted
<1>2. Today \in Nat
  BY TodayType
<1>3. CASE disk' \in written
  BY <1>2, <1>3 DEF IsOfToday
<1>4. CASE disk' = disk
  BY <1>4 DEF AutoTypeOK, MeterTypes
<1> QED BY <1>1, <1>3, <1>4

\* The budget after a roll.
LEMMA RollsOverMeters ==
  ASSUME AutoTypeOK, MeterTypes, RollsOver
  PROVE  /\ tokens' = [day |-> Today, spent |-> Of(tokens)] /\ UNCHANGED <<real, missed>>
         /\ disk' # Unreadable =>
              IsRecord(disk') /\ disk'.day \in 0 .. Today /\ disk'.spent \in Nat
<1>1. tokens' = [day |-> Today, spent |-> Of(tokens)] /\ UNCHANGED <<real, missed>>
  BY RolledType DEF RollsOver
<1>2. CASE tokens.day = Today
  <2>1. disk' = disk
    BY <1>2 DEF RollsOver
  <2>2. disk # Unreadable => IsRecord(disk) /\ disk.day \in 0 .. Today /\ disk.spent \in Nat
    BY DEF AutoTypeOK, MeterTypes
  <2> QED BY <1>1, <2>1, <2>2
<1>3. CASE tokens.day # Today
  <2>1. Persisted({Rolled})
    BY <1>3 DEF RollsOver
  <2>2. IsOfToday(Rolled)
    BY RolledType DEF IsOfToday, IsRecord
  <2> QED BY <1>1, <2>1, <2>2, PersistedType
<1> QED BY <1>1, <1>2, <1>3

\* The budget after a charge.
LEMMA SpendsMeters ==
  ASSUME AutoTypeOK, MeterTypes, NEW cost \in Costs, Spends(cost)
  PROVE  /\ cost \in Nat /\ tokens' = [day |-> Today, spent |-> Of(tokens) + cost]
         /\ real' = [real EXCEPT ![Today] = @ + cost]
         /\ disk' # Unreadable =>
              IsRecord(disk') /\ disk'.day \in 0 .. Today /\ disk'.spent \in Nat
<1>1. cost \in Nat
  BY Constants
<1>2. Charged(cost) = [day |-> Today, spent |-> Of(tokens) + cost] /\ Of(tokens) \in Nat
  BY RolledType DEF Charged
<1>3. IsOfToday(Charged(cost)) /\ IsOfToday(Rolled)
  BY <1>1, <1>2, RolledType DEF IsOfToday, IsRecord
<1>4. PICK written : /\ written = {Charged(cost)} \cup (IF tokens.day = Today THEN {} ELSE {Rolled})
                     /\ Persisted(written)
  BY DEF Spends
<1>5. \A r \in written : IsOfToday(r)
  BY <1>3, <1>4
<1>6. disk' # Unreadable => IsRecord(disk') /\ disk'.day \in 0 .. Today /\ disk'.spent \in Nat
  BY <1>4, <1>5, PersistedType
<1> QED BY <1>1, <1>2, <1>6 DEF Spends

\* What a run charges keeps the types of the meters.
MeterTypesNext ==
  /\ tokens'.day \in 0 .. Today /\ tokens'.spent \in Nat
  /\ disk' # Unreadable => disk'.day \in 0 .. Today /\ disk'.spent \in Nat

LEMMA RollsOverType ==
  ASSUME AutoTypeOK, MeterTypes, RollsOver
  PROVE  MeterTypesNext
BY RollsOverMeters, RolledType, TodayType DEF MeterTypesNext

LEMMA MeteredType ==
  ASSUME AutoTypeOK, MeterTypes, Metered
  PROVE  MeterTypesNext
<1>1. ASSUME NEW cost \in Costs, Spends(cost)
      PROVE  MeterTypesNext
  BY <1>1, SpendsMeters, RolledType, TodayType DEF MeterTypesNext
<1>2. ASSUME UNCHANGED <<tokens, disk, real>>
      PROVE  MeterTypesNext
  BY <1>2 DEF MeterTypesNext, AutoTypeOK
<1> QED BY <1>1, <1>2 DEF Metered

-----------------------------------------------------------------------------
(* Every step keeps the types *)

\* A message was stored or was there already: the thread keeps its type.
LEMMA OnMessageType ==
  ASSUME AutoTypeOK, NEW m \in Asks, OnMessageOf(m)
  PROVE  /\ talk' \in Seq(BOOLEAN)
         /\ talk' = talk \/ talk' = Append(talk, FALSE)
<1>1. talk' = talk \/ talk' = Append(talk, FALSE)
  BY DEF OnMessageOf
<1> QED BY <1>1, ThreadGrows DEF AutoTypeOK

\* The variables a step of a run or of the budget types by itself.
LEMMA TypeStep ==
  ASSUME AutoInv, [AutoNext]_autoVars, reserved' \in Nat
  PROVE  AutoTypeOK'
<1> USE DEF autoVars, clockVars, linkVars, meterVars, hintVars, hopVars, NoRun
<1>0. AutoTypeOK /\ MeterTypes
  BY DEF AutoInv, Meters
<1>d. UNCHANGED time => Today' = Today
  BY DEF Today
<1>c. turns < MaxTurns /\ turns' = turns + 1 => turns' \in 0 .. MaxTurns
  BY <1>0, Constants DEF AutoTypeOK
<1>s. settings \in SettingsSpace
  BY <1>0, AutoRespondAssumption DEF AutoTypeOK
<1>1. ASSUME NEW m \in Asks, Ignored(m)
      PROVE  AutoTypeOK'
  BY <1>0, <1>d, <1>1, OnMessageType DEF AutoTypeOK, Ignored
<1>2. ASSUME NEW m \in Asks, Refused(m)
      PROVE  AutoTypeOK'
  <2>1. /\ report' \in [told : Guards, had : Guards]
        /\ shown' \in {"idle", "responding"} /\ left' \in BOOLEAN
    <3>1. CASE settings.auto
      <4>1. Told(m, settings) \in Guards
        BY <1>s, GuardrailsType DEF Told, Trusted, SettingsSpace
      <4> QED BY <1>0, <1>s, <1>2, <3>1, <4>1, ReportType DEF Refused, HintSaysIdle
    <3>2. CASE ~settings.auto
      BY <1>0, <1>2, <3>2 DEF Refused, AutoTypeOK
    <3> QED BY <3>1, <3>2
  <2>2. MeterTypesNext
    <3>1. RollsOver \/ UNCHANGED meterVars
      BY <1>2 DEF Refused
    <3> QED BY <1>0, <3>1, RollsOverType DEF MeterTypesNext, AutoTypeOK
  <2>3. talk' \in Seq(BOOLEAN)
    BY <1>0, <1>2, OnMessageType DEF Refused
  <2>4. UNCHANGED <<time, turns, up, online, settings, enabled, runs, begun>>
    BY <1>2 DEF Refused
  <2> QED BY <1>0, <1>d, <2>1, <2>2, <2>3, <2>4 DEF AutoTypeOK, MeterTypesNext
<1>3. ASSUME NEW m \in Asks, NEW slot \in Slots, RunStarts(m, slot)
      PROVE  AutoTypeOK'
  <2>1. MeterTypesNext
    BY <1>0, <1>3, RollsOverType DEF RunStarts
  <2>2. talk' \in Seq(BOOLEAN) /\ runs' \in [Slots -> RunSpace \cup {Nothing}]
    BY <1>0, <1>s, <1>3, OnMessageType, StartedType DEF RunStarts
  <2>3. \A b \in begun' : b.at \in 0 .. time
    BY <1>0, <1>3 DEF RunStarts, AutoTypeOK
  <2>4. /\ UNCHANGED <<time, turns, up, online, settings, enabled, report>>
        /\ shown' = "responding" /\ left' = FALSE
    BY <1>3 DEF RunStarts
  <2> QED BY <1>0, <1>d, <2>1, <2>2, <2>3, <2>4 DEF AutoTypeOK, MeterTypesNext
<1>4. ASSUME NEW slot \in Slots,
             RunFails(slot) \/ RunIsWithheld(slot) \/ RunIsDrafted(slot) \/ RunIsReplied(slot)
      PROVE  AutoTypeOK'
  <2>0. PICK result : Ended(slot, result)
    BY <1>4 DEF RunFails, RunIsWithheld, RunIsDrafted, RunIsReplied
  <2>1. /\ runs' \in [Slots -> RunSpace \cup {Nothing}]
        /\ shown' \in {"idle", "responding"} /\ left' \in BOOLEAN
        /\ runs[slot] \in RunSpace /\ runs[slot].what \in Asks
    BY <1>0, <2>0, EndedType
  <2>2. MeterTypesNext
    BY <1>0, <2>0, MeteredType DEF Ended
  <2>3. report' \in [told : Guards, had : Guards]
    <3>1. runs[slot].settings \in SettingsSpace /\ runs[slot].guard \in Guards
      BY <2>1 DEF RunSpace
    <3>2. \/ Report(runs[slot].what, runs[slot].settings, runs[slot].guard)
          \/ UNCHANGED report
      BY <1>4 DEF RunFails, RunIsWithheld, RunIsDrafted, RunIsReplied, Reports
    <3> QED BY <1>0, <2>1, <3>1, <3>2, ReportType DEF AutoTypeOK
  <2>4. talk' \in Seq(BOOLEAN)
    <3>1. InThread(runs[slot].what) \in BOOLEAN
      BY DEF InThread
    <3>2. talk' = talk \/ talk' = Append(talk, InThread(runs[slot].what))
      BY <1>4 DEF RunFails, RunIsWithheld, RunIsDrafted, RunIsReplied
    <3> QED BY <1>0, <3>1, <3>2, ThreadGrows DEF AutoTypeOK
  <2>5. UNCHANGED <<time, turns, up, online, settings, enabled, begun>>
    BY <2>0 DEF Ended
  <2> QED BY <1>0, <1>d, <2>1, <2>2, <2>3, <2>4, <2>5 DEF AutoTypeOK, MeterTypesNext
<1>5. ASSUME NEW slot \in Slots, TaskStarts(slot) \/ TaskEnds(slot)
      PROVE  AutoTypeOK'
  <2>1. runs' \in [Slots -> RunSpace \cup {Nothing}]
    <3>1. CASE TaskStarts(slot)
      <4>1. PICK writable \in BOOLEAN : Started(slot, Task, [settings EXCEPT !.write = writable])
        BY <3>1 DEF TaskStarts
      <4>2. [settings EXCEPT !.write = writable] \in SettingsSpace
        BY <1>s, PostureType
      <4> QED BY <1>0, <4>1, <4>2, StartedType
    <3>2. CASE TaskEnds(slot)
      BY <1>0, <3>2 DEF TaskEnds, AutoTypeOK
    <3> QED BY <1>5, <3>1, <3>2
  <2>2. UNCHANGED <<time, turns, up, online, settings, enabled, talk, begun, tokens, disk,
                    shown, left, report>>
    BY <1>5 DEF TaskStarts, TaskEnds
  <2> QED BY <1>0, <1>d, <2>1, <2>2 DEF AutoTypeOK
<1>k. ASSUME Crashed, MeterTypesNext, UNCHANGED <<talk, report>>
      PROVE  AutoTypeOK'
  <2>1. /\ UNCHANGED <<time, settings, enabled>>
        /\ turns' \in 0 .. MaxTurns /\ up' = FALSE /\ online' = FALSE
        /\ runs' = [s \in Slots |-> Nothing] /\ begun' = {}
    BY <1>c, <1>k DEF Crashed
  <2>2. shown' \in {"idle", "responding"} /\ left' \in BOOLEAN
    BY <1>0, <1>k DEF Crashed, SessionEnds, AutoTypeOK
  <2> QED BY <1>0, <1>d, <1>k, <2>1, <2>2 DEF AutoTypeOK, MeterTypesNext
<1>6. ASSUME NEW slot \in Slots, DiesBeforeLog(slot)
      PROVE  AutoTypeOK'
  BY <1>0, <1>6, <1>k, MeteredType DEF DiesBeforeLog
<1>7. CASE Chatter
  BY <1>0, <1>d, <1>7, ThreadGrows DEF AutoTypeOK, Chatter
<1>8. CASE Reconfigured
  BY <1>0, <1>c, <1>d, <1>8 DEF AutoTypeOK, Reconfigured
<1>9. CASE Disconnected \/ HubNotices
  BY <1>0, <1>c, <1>d, <1>9 DEF AutoTypeOK, Disconnected, HubNotices, HintSaysIdle, SessionEnds
<1>10. CASE Reconnected
  BY <1>0, <1>d, <1>10 DEF AutoTypeOK, Reconnected
<1>11. CASE DaemonDies
  <2>1. MeterTypesNext
    BY <1>0, <1>11 DEF DaemonDies, MeterTypesNext, AutoTypeOK
  <2> QED BY <1>11, <1>k, <2>1 DEF DaemonDies
<1>12. CASE Restarted
  <2>1. MeterTypesNext
    BY <1>0, <1>12, TodayType DEF Restarted, LoadedTokens, MeterTypesNext, AutoTypeOK
  <2> QED BY <1>0, <1>d, <1>12, <2>1 DEF AutoTypeOK, MeterTypesNext, Restarted
<1>13. CASE Tick
  <2>1. /\ time \in Nat /\ time' \in Nat /\ Day \in Nat \ {0}
        /\ time' \in 0 .. MaxTime /\ time <= time'
    BY <1>0, <1>13, Constants DEF AutoTypeOK, Tick
  <2>2. Today \in Nat /\ Today' \in Nat /\ Today <= Today'
    <3>1. /\ time \div Day \in Nat /\ time' \div Day \in Nat
          /\ time \div Day <= time' \div Day
      BY <2>1, DaysInOrder, Zenon
    <3> QED BY <3>1 DEF Today
  <2>3. /\ tokens'.day \in 0 .. Today' /\ tokens'.spent \in Nat
        /\ disk' # Unreadable => disk'.day \in 0 .. Today' /\ disk'.spent \in Nat
    BY <1>0, <1>13, <2>2 DEF AutoTypeOK, Tick
  <2>4. \A b \in begun' : b.at \in 0 .. time'
    BY <1>0, <1>13, <2>1 DEF AutoTypeOK, Tick
  <2> QED BY <1>0, <1>13, <2>1, <2>3, <2>4 DEF AutoTypeOK, Tick
<1>14. CASE UNCHANGED autoVars
  BY <1>0, <1>d, <1>14 DEF AutoTypeOK
<1> QED
  BY <1>1, <1>2, <1>3, <1>4, <1>5, <1>6, <1>7, <1>8, <1>9, <1>10, <1>11, <1>12, <1>13, <1>14
     DEF AutoNext

-----------------------------------------------------------------------------
(* Replies and promised places stay within the cap *)

\* A run that starts promises a place if it is in the thread, and no place otherwise.
LEMMA StartPromises ==
  ASSUME AutoTypeOK, NEW slot \in Slots, NEW m \in Asks \cup {Task}, NEW s,
         runs[slot] = Nothing, Started(slot, m, s)
  PROVE  /\ slot \notin Promised
         /\ Promised' = IF InThread(m) THEN Promised \cup {slot} ELSE Promised
<1>1. /\ runs'[slot].what = m /\ runs'[slot] # Nothing
      /\ \A r \in Slots \ {slot} : runs'[r] = runs[r]
  <2>1. runs'[slot] = [what |-> m, settings |-> s, guard |-> Guardrails(s, Trusted(m, s))]
        /\ \A r \in Slots \ {slot} : runs'[r] = runs[r]
    BY DEF Started, AutoTypeOK
  <2>2. m # Nothing.what
    BY AutoRespondAssumption DEF Task, Nothing
  <2> QED BY <2>1, <2>2
<1> QED BY <1>1 DEF Promised, Live

\* A run that ends gives up its own place and no other.
LEMMA EndReleases ==
  ASSUME AutoTypeOK, NEW slot \in Slots, runs[slot] # Nothing,
         runs' = [runs EXCEPT ![slot] = Nothing]
  PROVE  /\ Promised' = Promised \ {slot}
         /\ slot \in Promised <=> InThread(runs[slot].what)
<1>1. runs'[slot] = Nothing /\ \A s \in Slots \ {slot} : runs'[s] = runs[s]
  BY DEF AutoTypeOK
<1> QED BY <1>1 DEF Promised, Live

\* A message that is no reply leaves the cap as it was.
LEMMA TalkKeepsCap ==
  ASSUME AutoTypeOK, Promises, talk' = talk \/ talk' = Append(talk, FALSE)
  PROVE  /\ Cardinality(Replies(talk')) = Cardinality(Replies(talk))
         /\ Len(talk') \in Nat /\ Len(talk) <= Len(talk')
<1>1. talk \in Seq(BOOLEAN) /\ Len(talk) \in Nat
  BY DEF AutoTypeOK
<1>2. CASE talk' = talk
  BY <1>1, <1>2
<1>3. CASE talk' = Append(talk, FALSE)
  <2>1. /\ Len(Append(talk, FALSE)) = Len(talk) + 1
        /\ Cardinality(Replies(Append(talk, FALSE))) = Cardinality(Replies(talk))
    BY <1>1, ChatterGrows
  <2>2. Cardinality(Replies(talk')) = Cardinality(Replies(talk)) /\ Len(talk') = Len(talk) + 1
    BY <1>3, <2>1, Zenon
  <2> QED BY <1>1, <2>2
<1> QED BY <1>2, <1>3

\* A process that died holds no place, and its thread is no longer.
LEMMA EmptyPromises ==
  ASSUME AutoTypeOK, Promises, Promised' = {}, reserved' = 0, talk' = talk,
         hops' - unlogged' = hops - unlogged,
         hops' \in Nat, unlogged' \in Nat, unguarded' \in Nat
  PROVE  Promises'
<1>1. IsFiniteSet(Promised') /\ Cardinality(Promised') = 0
  BY FS_EmptySet
<1>2. Replies(talk') = Replies(talk) /\ Len(talk') = Len(talk)
  OBVIOUS
<1>3. Cardinality(Replies(talk)) \in Nat /\ MaxHops \in Nat /\ reserved \in Nat
  BY ThreadGrows, Constants DEF AutoTypeOK
<1>4. /\ Cardinality(Replies(talk)) = hops - unlogged
      /\ Len(talk) <= Recent => Cardinality(Replies(talk)) + reserved <= MaxHops
  BY DEF Promises
<1>5. Len(talk') <= Recent => Cardinality(Replies(talk')) + reserved' <= MaxHops
  BY <1>2, <1>3, <1>4
<1>6. Cardinality(Replies(talk')) = hops' - unlogged'
  BY <1>2, <1>4
<1> QED BY <1>1, <1>5, <1>6 DEF Promises

LEMMA PromisesStep ==
  ASSUME AutoInv, [AutoNext]_autoVars
  PROVE  Promises'
<1> USE DEF autoVars, clockVars, linkVars, hopVars, NoRun
<1>0. /\ AutoTypeOK /\ Promises
      /\ Cardinality(Promised) \in Nat /\ Cardinality(Replies(talk)) \in Nat
      /\ Len(talk) \in Nat /\ MaxHops \in Nat /\ Recent \in Nat
  BY Constants, FS_CardinalityType, ThreadGrows DEF AutoInv, AutoTypeOK, Promises
<1>q. ASSUME UNCHANGED <<runs, reserved, hops, unlogged, unguarded>>,
             talk' = talk \/ talk' = Append(talk, FALSE)
      PROVE  Promises'
  <2>1. Promised' = Promised
    BY <1>q DEF Promised, Live
  <2>2. /\ Cardinality(Replies(talk')) = Cardinality(Replies(talk))
        /\ Len(talk') \in Nat /\ Len(talk) <= Len(talk')
    BY <1>0, <1>q, TalkKeepsCap
  <2> QED BY <1>0, <1>q, <2>1, <2>2 DEF Promises
<1>1. ASSUME NEW m \in Asks, Ignored(m) \/ Refused(m)
      PROVE  Promises'
  BY <1>0, <1>1, <1>q, OnMessageType DEF Ignored, Refused
<1>2. ASSUME NEW m \in Asks, NEW slot \in Slots, RunStarts(m, slot)
      PROVE  Promises'
  <2>1. /\ talk' \in Seq(BOOLEAN) /\ (talk' = talk \/ talk' = Append(talk, FALSE))
        /\ Cardinality(Replies(talk')) = Cardinality(Replies(talk))
        /\ Len(talk') \in Nat /\ Len(talk) <= Len(talk')
    BY <1>0, <1>2, OnMessageType, TalkKeepsCap DEF RunStarts
  <2>2. slot \notin Promised
        /\ Promised' = IF InThread(m) THEN Promised \cup {slot} ELSE Promised
    BY <1>0, <1>2, StartPromises DEF RunStarts
  <2>a. /\ reserved' = reserved + (IF InThread(m) THEN 1 ELSE 0)
        /\ UNCHANGED <<hops, unlogged, unguarded>>
    BY <1>2 DEF RunStarts
  <2>3. /\ IsFiniteSet(Promised')
        /\ reserved' = Cardinality(Promised')
    <3>1. IsFiniteSet(Promised) /\ reserved = Cardinality(Promised)
      BY <1>0 DEF Promises
    <3>2. CASE InThread(m)
      <4>1. Promised' = Promised \cup {slot} /\ reserved' = reserved + 1
        BY <2>a, <2>2, <3>2
      <4> QED BY <2>2, <3>1, <4>1, FS_AddElement
    <3>3. CASE ~InThread(m)
      <4>1. Promised' = Promised /\ reserved' = reserved + 0 /\ reserved \in Nat
        BY <1>0, <2>a, <2>2, <3>1, <3>3
      <4> QED BY <3>1, <4>1
    <3> QED BY <3>2, <3>3
  <2>4. ASSUME InThread(m), Len(talk') <= Recent
        PROVE  Cardinality(Replies(talk')) + reserved + 1 <= MaxHops
    <3>1. RepliesIn(talk') = Replies(talk')
      BY <2>1, <2>4, AutoRespondAssumption DEF RepliesIn, Replies
    <3>2. ~(Cardinality(Replies(talk')) + reserved >= MaxHops)
      BY <1>2, <2>4, <3>1 DEF RunStarts, Stopped, LoopGuard
    <3> QED BY <1>0, <2>1, <3>2 DEF Promises
  <2>5. Len(talk') <= Recent => Cardinality(Replies(talk')) + reserved' <= MaxHops
    BY <1>0, <2>a, <2>1, <2>4 DEF Promises
  <2> QED BY <1>0, <2>a, <2>1, <2>3, <2>5 DEF Promises
<1>3. ASSUME NEW slot \in Slots,
             RunFails(slot) \/ RunIsWithheld(slot) \/ RunIsDrafted(slot) \/ RunIsReplied(slot)
      PROVE  Promises'
  <2>0. \E result : Ended(slot, result)
    BY <1>3 DEF RunFails, RunIsWithheld, RunIsDrafted, RunIsReplied
  <2>1. /\ runs[slot] # Nothing /\ runs' = [runs EXCEPT ![slot] = Nothing]
        /\ reserved' = reserved - (IF InThread(runs[slot].what) THEN 1 ELSE 0)
    BY <2>0 DEF Ended, Released, Nothing
  <2>2. Promised' = Promised \ {slot} /\ (slot \in Promised <=> InThread(runs[slot].what))
    BY <1>0, <2>1, EndReleases
  <2>3. IsFiniteSet(Promised') /\ reserved' = Cardinality(Promised') /\ reserved' \in Nat
    <3>1. IsFiniteSet(Promised') /\ reserved' = Cardinality(Promised')
      BY <1>0, <2>1, <2>2, FS_RemoveElement DEF Promises
    <3> QED BY <3>1, FS_CardinalityType
  <2>4. ASSUME UNCHANGED <<hops, unlogged>>, talk' = talk \/ talk' = Append(talk, FALSE),
               unguarded' \in Nat
        PROVE  Promises'
    <3>1. /\ Cardinality(Replies(talk')) = Cardinality(Replies(talk))
          /\ Len(talk') \in Nat /\ Len(talk) <= Len(talk')
      BY <1>0, <2>4, TalkKeepsCap
    <3>2. reserved' <= reserved
      BY <1>0, <2>1, <2>3 DEF Promises
    <3>3. Len(talk') <= Recent => Cardinality(Replies(talk')) + reserved' <= MaxHops
      <4>1. Len(talk) <= Recent => Cardinality(Replies(talk)) + reserved <= MaxHops
        BY <1>0 DEF Promises
      <4>2. reserved \in Nat
        BY <1>0 DEF Promises
      <4> QED BY <1>0, <2>3, <3>1, <3>2, <4>1, <4>2
    <3>4. /\ hops' \in Nat /\ unlogged' \in Nat
          /\ Cardinality(Replies(talk')) = hops' - unlogged'
      BY <1>0, <2>4, <3>1 DEF Promises
    <3> QED BY <2>3, <2>4, <3>3, <3>4 DEF Promises
  <2>5. CASE /\ hops' = hops + 1 /\ unlogged' = unlogged /\ talk' = Append(talk, TRUE)
             /\ InThread(runs[slot].what) /\ unguarded' \in Nat
    <3>1. /\ Cardinality(Replies(talk')) = Cardinality(Replies(talk)) + 1
          /\ Len(talk') = Len(talk) + 1
      <4>1. /\ Cardinality(Replies(Append(talk, TRUE))) = Cardinality(Replies(talk)) + 1
            /\ Len(Append(talk, TRUE)) = Len(talk) + 1
        BY <1>0, ReplyGrows DEF AutoTypeOK
      <4> QED BY <2>5, <4>1, Zenon
    <3>2. reserved' = reserved - 1 /\ reserved \in Nat
      BY <1>0, <2>1, <2>5 DEF Promises
    <3>3. Cardinality(Replies(talk')) = hops' - unlogged' /\ hops' \in Nat /\ unlogged' \in Nat
      <4>1. hops \in Nat /\ unlogged \in Nat /\ Cardinality(Replies(talk)) = hops - unlogged
        BY <1>0 DEF Promises
      <4>2. hops' = hops + 1 /\ unlogged' = unlogged
        BY <2>5
      <4> QED BY <3>1, <4>1, <4>2
    <3>4. Len(talk') <= Recent => Cardinality(Replies(talk')) + reserved' <= MaxHops
      <4>1. Len(talk) <= Recent => Cardinality(Replies(talk)) + reserved <= MaxHops
        BY <1>0 DEF Promises
      <4> QED BY <1>0, <2>3, <3>1, <3>2, <4>1
    <3>5. unguarded' \in Nat
      BY <2>5
    <3> QED BY <2>3, <3>3, <3>4, <3>5 DEF Promises
  <2>7. CASE RunFails(slot) \/ RunIsWithheld(slot) \/ RunIsDrafted(slot)
    <3>1. UNCHANGED <<talk, hops, unlogged, unguarded>>
      BY <2>7 DEF RunFails, RunIsWithheld, RunIsDrafted
    <3> QED BY <1>0, <2>4, <3>1 DEF Promises
  <2>8. CASE RunIsReplied(slot)
    <3>1. CASE UNCHANGED <<talk, hops, unlogged, unguarded>>
      BY <1>0, <2>4, <3>1 DEF Promises
    <3>2. CASE /\ Sends(runs[slot].what) /\ unlogged' = unlogged
               /\ talk' = Append(talk, InThread(runs[slot].what))
      <4>1. unguarded' \in Nat
        BY <1>0, <3>2 DEF Sends, Promises
      <4>2. CASE InThread(runs[slot].what)
        <5>1. hops' = hops + 1 /\ talk' = Append(talk, TRUE)
          BY <3>2, <4>2 DEF Sends
        <5> QED BY <2>5, <3>2, <4>1, <4>2, <5>1
      <4>3. CASE ~InThread(runs[slot].what)
        <5>1. hops' = hops /\ talk' = Append(talk, FALSE)
          <6>1. hops' = hops + 0 /\ hops \in Nat
            BY <1>0, <3>2, <4>3 DEF Sends, Promises
          <6>2. InThread(runs[slot].what) = FALSE
            BY <4>3 DEF InThread
          <6>3. talk' = Append(talk, FALSE)
            BY <3>2, <6>2, Zenon
          <6> QED BY <6>1, <6>3
        <5> QED BY <2>4, <3>2, <4>1, <5>1
      <4> QED BY <4>2, <4>3
    <3>3. \/ UNCHANGED <<talk, hops, unlogged, unguarded>>
          \/ /\ Sends(runs[slot].what) /\ unlogged' = unlogged
             /\ talk' = Append(talk, InThread(runs[slot].what))
      BY <2>8 DEF RunIsReplied
    <3> QED BY <3>1, <3>2, <3>3
  <2> QED BY <1>3, <2>7, <2>8
<1>4. ASSUME NEW slot \in Slots, TaskStarts(slot)
      PROVE  Promises'
  <2>1. PICK s : Started(slot, Task, s)
    BY <1>4 DEF TaskStarts
  <2>2. runs[slot] = Nothing /\ UNCHANGED <<talk, reserved, hops, unlogged, unguarded>>
    BY <1>4 DEF TaskStarts
  <2>3. Promised' = Promised
    BY <1>0, <2>1, <2>2, StartPromises, AutoRespondAssumption DEF InThread
  <2> QED BY <1>0, <2>2, <2>3 DEF Promises
<1>5. ASSUME NEW slot \in Slots, TaskEnds(slot)
      PROVE  Promises'
  <2>1. runs[slot] # Nothing /\ ~InThread(runs[slot].what)
    BY <1>5, AutoRespondAssumption DEF TaskEnds, Nothing, Task, InThread
  <2>2. Promised' = Promised
    BY <1>0, <1>5, <2>1, EndReleases DEF TaskEnds
  <2> QED BY <1>0, <1>5, <2>2 DEF Promises, TaskEnds
<1>6. ASSUME NEW slot \in Slots, DiesBeforeLog(slot)
      PROVE  Promises'
  <2>1. /\ Promised' = {} /\ reserved' = 0 /\ talk' = talk
        /\ Sends(runs[slot].what)
        /\ unlogged' = unlogged + (IF InThread(runs[slot].what) THEN 1 ELSE 0)
    BY <1>6 DEF DiesBeforeLog, Crashed, Promised, Live
  <2>2. /\ hops' - unlogged' = hops - unlogged
        /\ hops' \in Nat /\ unlogged' \in Nat /\ unguarded' \in Nat
    BY <1>0, <2>1 DEF Promises, Sends
  <2> QED BY <1>0, <2>1, <2>2, EmptyPromises
<1>7. CASE DaemonDies
  <2>1. Promised' = {} /\ reserved' = 0 /\ UNCHANGED <<talk, hops, unlogged, unguarded>>
    BY <1>7 DEF DaemonDies, Crashed, Promised, Live
  <2>2. /\ hops' - unlogged' = hops - unlogged
        /\ hops' \in Nat /\ unlogged' \in Nat /\ unguarded' \in Nat
    BY <1>0, <2>1 DEF Promises
  <2> QED BY <1>0, <2>1, <2>2, EmptyPromises
<1>8. CASE \/ Chatter \/ Reconfigured \/ Disconnected \/ HubNotices \/ Reconnected \/ Restarted
           \/ Tick \/ UNCHANGED autoVars
  BY <1>8, <1>q DEF Chatter, Reconfigured, Disconnected, HubNotices, Reconnected, Restarted, Tick
<1> QED
  BY <1>1, <1>2, <1>3, <1>4, <1>5, <1>6, <1>7, <1>8 DEF AutoNext

-----------------------------------------------------------------------------
(* The starts of the last hour *)

\* A start the limit allowed keeps every hour within the settings of the moment.
LEMMA StartKeepsHours ==
  ASSUME AutoTypeOK, Starts, NEW m \in Asks, NEW slot \in Slots, RunStarts(m, slot)
  PROVE  Starts'
<1>1. PICK new : /\ new.at = time /\ begun' = begun \cup {new}
                 /\ repliesThisHour' = HourTo(repliesThisHour, time) \cup {new}
                 /\ UNCHANGED time
  BY DEF RunStarts, clockVars
<1>2. /\ time \in Nat /\ Hour \in Nat /\ MaxTime \in Nat
      /\ \A b \in begun : b.at \in Nat /\ b.at <= time
  BY Constants DEF AutoTypeOK
<1>3. IsFiniteSet(begun') /\ repliesThisHour' \subseteq begun'
  BY <1>1, FS_AddElement DEF Starts, HourTo
<1>4. HourTo(begun', time) \subseteq repliesThisHour'
  BY <1>1, <1>2 DEF Starts, HourTo
<1>5. ASSUME NEW t \in 0 .. MaxTime, HourTo(begun', t) # {}
      PROVE  \E p \in Profiles : Cardinality(HourTo(begun', t)) <= p.perHour
  <2>1. CASE new \notin HourTo(begun', t)
    <3>1. HourTo(begun', t) = HourTo(begun, t)
      BY <1>1, <2>1 DEF HourTo
    <3> QED BY <1>5, <3>1 DEF Starts, HourlyCap
  <2>2. CASE new \in HourTo(begun', t)
    <3>1. HourTo(begun', t) \subseteq repliesThisHour'
      BY <1>1, <1>2, <2>2 DEF Starts, HourTo
    <3>2. settings \in Profiles /\ settings.perHour \in Nat
      BY AutoRespondAssumption DEF AutoTypeOK, SettingsSpace
    <3>3. IsFiniteSet(HourTo(repliesThisHour, time))
      <4>1. HourTo(repliesThisHour, time) \subseteq begun
        BY DEF Starts, HourTo
      <4> QED BY <4>1, FS_Subset DEF Starts
    <3>4. Cardinality(HourTo(repliesThisHour, time)) < settings.perHour
      <4>1. Refusal = "none"
        BY DEF RunStarts
      <4> QED BY <4>1, GatesPassed DEF AllowedByRate
    <3>5. /\ IsFiniteSet(repliesThisHour')
          /\ Cardinality(repliesThisHour') <= settings.perHour
      <4>1. PICK known : known = HourTo(repliesThisHour, time)
        OBVIOUS
      <4>2. IsFiniteSet(known) /\ Cardinality(known) \in Nat /\ Cardinality(known) < settings.perHour
        BY <3>3, <3>4, <4>1, FS_CardinalityType
      <4>3. /\ IsFiniteSet(known \cup {new})
            /\ Cardinality(known \cup {new}) = Cardinality(known)
               \/ Cardinality(known \cup {new}) = Cardinality(known) + 1
        BY <4>2, FS_AddElement
      <4>4. repliesThisHour' = known \cup {new}
        BY <1>1, <4>1
      <4>5. Cardinality(known \cup {new}) <= settings.perHour
        BY <3>2, <4>2, <4>3
      <4> QED BY <4>3, <4>4, <4>5
    <3>6. /\ Cardinality(HourTo(begun', t)) <= Cardinality(repliesThisHour')
          /\ Cardinality(HourTo(begun', t)) \in Nat /\ Cardinality(repliesThisHour') \in Nat
      BY <3>1, <3>5, FS_Subset, FS_CardinalityType
    <3>7. Cardinality(HourTo(begun', t)) <= settings.perHour
      BY <3>2, <3>5, <3>6
    <3> QED BY <3>2, <3>7
  <2> QED BY <2>1, <2>2
<1>6. HourlyCap'
  BY <1>5 DEF HourlyCap, HourTo
<1> QED BY <1>1, <1>3, <1>4, <1>6 DEF Starts, HourTo

LEMMA StartsStep ==
  ASSUME AutoInv, [AutoNext]_autoVars
  PROVE  Starts'
<1> USE DEF autoVars, clockVars, linkVars, NoRun
<1>0. AutoTypeOK /\ Starts
  BY DEF AutoInv
<1>1. ASSUME UNCHANGED <<begun, repliesThisHour, time>>
      PROVE  Starts'
  BY <1>0, <1>1 DEF Starts, HourlyCap, HourTo
<1>2. ASSUME begun' = {}, repliesThisHour' = {}
      PROVE  Starts'
  <2>1. \A t : HourTo(begun', t) = {}
    BY <1>2 DEF HourTo
  <2>2. HourTo(begun', time') = {}
    BY <1>2 DEF HourTo
  <2> QED BY <1>2, <2>1, <2>2, FS_EmptySet DEF Starts, HourlyCap, HourTo
<1>3. ASSUME NEW m \in Asks, Ignored(m) \/ Refused(m)
      PROVE  Starts'
  <2>1. CASE repliesThisHour' = repliesThisHour
    BY <1>1, <1>3, <2>1 DEF Ignored, Refused
  <2>2. CASE repliesThisHour' = HourTo(repliesThisHour, time)
    <3>1. UNCHANGED <<begun, time>>
      BY <1>3 DEF Ignored, Refused
    <3>2. repliesThisHour' \subseteq begun' /\ HourTo(begun', time') \subseteq repliesThisHour'
      BY <1>0, <2>2, <3>1 DEF Starts, HourTo
    <3>3. HourlyCap' /\ IsFiniteSet(begun')
      BY <1>0, <3>1 DEF Starts, HourlyCap, HourTo
    <3> QED BY <3>2, <3>3 DEF Starts, HourTo
  <2> QED BY <1>3, <2>1, <2>2 DEF Ignored, Refused
<1>4. ASSUME NEW m \in Asks, NEW slot \in Slots, RunStarts(m, slot)
      PROVE  Starts'
  BY <1>0, <1>4, StartKeepsHours
<1>5. ASSUME NEW slot \in Slots,
             RunFails(slot) \/ RunIsWithheld(slot) \/ RunIsDrafted(slot) \/ RunIsReplied(slot)
      PROVE  Starts'
  <2>1. \E result : Ended(slot, result)
    BY <1>5 DEF RunFails, RunIsWithheld, RunIsDrafted, RunIsReplied
  <2> QED BY <1>1, <2>1 DEF Ended
<1>6. CASE DaemonDies \/ \E slot \in Slots : DiesBeforeLog(slot)
  BY <1>2, <1>6 DEF DaemonDies, DiesBeforeLog, Crashed
<1>7. CASE Tick
  <2>1. UNCHANGED <<begun, repliesThisHour>> /\ time' = time + 1
    BY <1>7 DEF Tick
  <2>2. time \in Nat /\ Hour \in Nat /\ \A b \in begun : b.at \in Nat /\ b.at <= time
    BY <1>0, Constants DEF AutoTypeOK
  <2>3. HourTo(begun', time') \subseteq HourTo(begun, time)
    BY <2>1, <2>2 DEF HourTo
  <2>4. HourlyCap' /\ IsFiniteSet(begun') /\ repliesThisHour' \subseteq begun'
    BY <1>0, <2>1 DEF Starts, HourlyCap, HourTo
  <2>5. HourTo(begun', time') \subseteq repliesThisHour'
    BY <1>0, <2>1, <2>3 DEF Starts
  <2> QED BY <2>4, <2>5 DEF Starts, HourTo
<1>8. CASE \/ Chatter \/ Reconfigured \/ Disconnected \/ HubNotices \/ Reconnected \/ Restarted
           \/ UNCHANGED autoVars \/ \E slot \in Slots : TaskStarts(slot) \/ TaskEnds(slot)
  BY <1>1, <1>8 DEF Chatter, Reconfigured, Disconnected, HubNotices, Reconnected, Restarted,
     TaskStarts, TaskEnds
<1> QED BY <1>3, <1>4, <1>5, <1>6, <1>7, <1>8 DEF AutoNext

-----------------------------------------------------------------------------
(* The budget of the day *)

\* A charge, or none, keeps the balance of a living process.
LEMMA MeteredKeeps ==
  ASSUME AutoTypeOK, Meters, up, Metered, UNCHANGED <<time, missed>>
  PROVE  MeterTypes' /\ real'[Today] - missed'[Today] = Of(tokens')
<1>0. /\ MeterTypes /\ real[Today] - missed[Today] = Of(tokens)
      /\ Today \in Days /\ Today \in Nat /\ Days \subseteq Nat /\ Today' = Today
      /\ real \in [Days -> Nat] /\ missed \in [Days -> Int]
  BY TodayType DEF Meters, Balance, MeterTypes, Today
<1>1. ASSUME UNCHANGED <<tokens, disk, real>>
      PROVE  MeterTypes' /\ real'[Today] - missed'[Today] = Of(tokens')
  BY <1>0, <1>1 DEF MeterTypes, IsRecord
<1>2. ASSUME NEW cost \in Costs, Spends(cost)
      PROVE  MeterTypes' /\ real'[Today] - missed'[Today] = Of(tokens')
  <2>1. /\ cost \in Nat /\ tokens' = [day |-> Today, spent |-> Of(tokens) + cost]
        /\ real' = [real EXCEPT ![Today] = @ + cost]
        /\ disk' # Unreadable =>
             IsRecord(disk') /\ disk'.day \in 0 .. Today /\ disk'.spent \in Nat
    BY <1>0, <1>2, SpendsMeters
  <2>2. /\ real' \in [Days -> Nat] /\ real'[Today] = real[Today] + cost
        /\ \A d \in Days : d > Today => real'[d] = real[d]
    BY <1>0, <2>1
  <2>3. tokens'.day = Today /\ Of(tokens') = Of(tokens) + cost /\ IsRecord(tokens')
    BY <2>1 DEF Of, IsRecord
  <2>4. disk' # Unreadable => IsRecord(disk') /\ disk'.day <= tokens'.day
    BY <1>0, <2>1, <2>3
  <2>5. MeterTypes'
    BY <1>0, <2>2, <2>3, <2>4 DEF MeterTypes, IsRecord
  <2>6. real[Today] \in Nat /\ missed[Today] \in Int /\ missed' = missed
    BY <1>0
  <2> QED BY <1>0, <2>1, <2>2, <2>3, <2>5, <2>6
<1> QED BY <1>1, <1>2 DEF Metered

\* What only memory knew is missed when the process dies.
LEMMA CrashKeeps ==
  ASSUME AutoTypeOK', UNCHANGED time, NEW m0, m0 \in [Days -> Int], UNCHANGED Days,
         real' \in [Days -> Nat], IsRecord(tokens'),
         disk' # Unreadable => IsRecord(disk') /\ disk'.day <= tokens'.day,
         \A d \in Days : d > Today => real'[d] = 0 /\ m0[d] = 0,
         real'[Today] - m0[Today] = Of(tokens'),
         missed' = [m0 EXCEPT ![tokens'.day] = @ + Unsaved'], ~up'
  PROVE  Meters'
<1>0. Today' = Today /\ Today \in Days /\ Today \in Nat /\ Days \subseteq Nat
  <2>1. Today' = Today
    BY DEF Today
  <2> QED BY <2>1, TodayTypeNext
<1>1. /\ tokens'.day \in Nat /\ tokens'.day <= Today /\ tokens'.spent \in Nat
      /\ tokens'.day \in Days
  BY <1>0, Constants DEF AutoTypeOK, Days
<1>a. disk' # Unreadable => disk'.day \in Nat /\ disk'.day <= tokens'.day /\ disk'.spent \in Nat
  BY <1>0 DEF AutoTypeOK
<1>b. PICK k : k = (IF disk' # Unreadable /\ disk'.day = tokens'.day THEN disk'.spent ELSE 0)
  OBVIOUS
<1>2. Unsaved' = tokens'.spent - k /\ k \in Nat
  BY <1>a, <1>b DEF Unsaved
<1>3. missed' \in [Days -> Int] /\ missed'[tokens'.day] = m0[tokens'.day] + (tokens'.spent - k)
      /\ \A d \in Days : d # tokens'.day => missed'[d] = m0[d]
  BY <1>1, <1>2
<1>4. MeterTypes'
  BY <1>0, <1>1, <1>3 DEF MeterTypes, IsRecord
<1>c. real'[Today] \in Nat /\ m0[Today] \in Int
  BY <1>0
<1>5. CASE tokens'.day = Today
  <2>1. real'[Today] - m0[Today] = tokens'.spent
    BY <1>5 DEF Of
  <2>2. real'[Today] - missed'[Today] = k
    BY <1>1, <1>2, <1>3, <1>5, <1>c, <2>1
  <2>3. Saved' = k
    BY <1>0, <1>5, <1>b DEF Saved, Of
  <2> QED BY <1>0, <1>4, <2>2, <2>3 DEF Meters, Balance
<1>6. CASE tokens'.day # Today
  <2>1. real'[Today] - m0[Today] = 0
    BY <1>6 DEF Of
  <2>2. missed'[Today] = m0[Today]
    BY <1>0, <1>3, <1>6
  <2>3. Saved' = 0
    BY <1>0, <1>1, <1>6, <1>a DEF Saved, Of
  <2> QED BY <1>0, <1>4, <2>1, <2>2, <2>3 DEF Meters, Balance
<1> QED BY <1>5, <1>6

LEMMA MetersStep ==
  ASSUME AutoInv, [AutoNext]_autoVars, AutoTypeOK'
  PROVE  Meters'
<1> USE DEF autoVars, clockVars, linkVars, meterVars, NoRun
<1>0. /\ AutoTypeOK /\ Meters /\ MeterTypes /\ Balance
      /\ Today \in Days /\ Today \in Nat /\ Days \subseteq Nat /\ Days' = Days
      /\ real \in [Days -> Nat] /\ missed \in [Days -> Int]
  BY TodayType DEF AutoInv, Meters, MeterTypes, Days
<1>1. ASSUME UNCHANGED <<meterVars, time, up>>
      PROVE  Meters'
  BY <1>0, <1>1 DEF Meters, MeterTypes, Balance, IsRecord, Saved, Of, Today
<1>2. ASSUME RollsOver, up, UNCHANGED <<time, up>>
      PROVE  Meters'
  <2>1. /\ tokens' = [day |-> Today, spent |-> Of(tokens)] /\ UNCHANGED <<real, missed>>
        /\ disk' # Unreadable =>
             IsRecord(disk') /\ disk'.day \in 0 .. Today /\ disk'.spent \in Nat
    BY <1>0, <1>2, RollsOverMeters
  <2>2. Today' = Today
    BY <1>2 DEF Today
  <2>3. tokens'.day = Today /\ Of(tokens') = Of(tokens) /\ IsRecord(tokens')
    BY <2>1 DEF Of, IsRecord
  <2>4. disk' # Unreadable => IsRecord(disk') /\ disk'.day <= tokens'.day
    BY <1>0, <2>1, <2>3
  <2>5. MeterTypes'
    BY <1>0, <2>1, <2>2, <2>3, <2>4 DEF MeterTypes, IsRecord
  <2>6. Of(tokens)' = Of(tokens)
    BY <2>2, <2>3 DEF Of
  <2>7. Balance'
    BY <1>0, <1>2, <2>1, <2>2, <2>6 DEF Balance
  <2> QED BY <2>5, <2>7 DEF Meters
<1>3. ASSUME NEW m \in Asks, Ignored(m) \/ Refused(m)
      PROVE  Meters'
  <2>1. up /\ UNCHANGED <<time, up>> /\ (UNCHANGED meterVars \/ RollsOver)
    BY <1>3 DEF Ignored, Refused, OnMessageOf
  <2> QED BY <1>1, <1>2, <2>1
<1>4. ASSUME NEW m \in Asks, NEW slot \in Slots, RunStarts(m, slot)
      PROVE  Meters'
  <2>1. up /\ UNCHANGED <<time, up>> /\ RollsOver
    BY <1>4 DEF RunStarts, OnMessageOf
  <2> QED BY <1>2, <2>1
<1>5. ASSUME NEW slot \in Slots,
             RunFails(slot) \/ RunIsWithheld(slot) \/ RunIsDrafted(slot) \/ RunIsReplied(slot)
      PROVE  Meters'
  <2>1. up /\ Metered /\ UNCHANGED <<time, up, missed>>
    <3>1. \E result : Ended(slot, result)
      BY <1>5 DEF RunFails, RunIsWithheld, RunIsDrafted, RunIsReplied
    <3> QED BY <3>1 DEF Ended
  <2>2. MeterTypes' /\ real'[Today] - missed'[Today] = Of(tokens')
    BY <1>0, <2>1, MeteredKeeps
  <2>3. Today' = Today /\ Of(tokens)' = Of(tokens')
    BY <2>1 DEF Today, Of
  <2> QED BY <2>1, <2>2, <2>3 DEF Meters, Balance
<1>6. ASSUME NEW slot \in Slots, DiesBeforeLog(slot)
      PROVE  Meters'
  <2>1. /\ up /\ Metered /\ UNCHANGED time /\ ~up'
        /\ missed' = [missed EXCEPT ![tokens'.day] = @ + Unsaved']
    BY <1>6 DEF DiesBeforeLog, Crashed
  <2>2. /\ real' \in [Days -> Nat] /\ IsRecord(tokens')
        /\ disk' # Unreadable => IsRecord(disk') /\ disk'.day <= tokens'.day
        /\ \A d \in Days : d > Today => real'[d] = 0 /\ missed[d] = 0
        /\ real'[Today] - missed[Today] = Of(tokens')
    <3>0. real[Today] - missed[Today] = Of(tokens)
      BY <1>0, <2>1 DEF Balance
    <3>1. ASSUME UNCHANGED <<tokens, disk, real>>
          PROVE  /\ real' \in [Days -> Nat] /\ IsRecord(tokens')
                 /\ disk' # Unreadable => IsRecord(disk') /\ disk'.day <= tokens'.day
                 /\ \A d \in Days : d > Today => real'[d] = 0 /\ missed[d] = 0
                 /\ real'[Today] - missed[Today] = Of(tokens')
      BY <1>0, <3>0, <3>1 DEF MeterTypes
    <3>2. ASSUME NEW cost \in Costs, Spends(cost)
          PROVE  /\ real' \in [Days -> Nat] /\ IsRecord(tokens')
                 /\ disk' # Unreadable => IsRecord(disk') /\ disk'.day <= tokens'.day
                 /\ \A d \in Days : d > Today => real'[d] = 0 /\ missed[d] = 0
                 /\ real'[Today] - missed[Today] = Of(tokens')
      <4>1. /\ cost \in Nat /\ tokens' = [day |-> Today, spent |-> Of(tokens) + cost]
            /\ real' = [real EXCEPT ![Today] = @ + cost]
            /\ disk' # Unreadable =>
                 IsRecord(disk') /\ disk'.day \in 0 .. Today /\ disk'.spent \in Nat
        BY <1>0, <3>2, SpendsMeters
      <4>2. /\ real' \in [Days -> Nat] /\ real'[Today] = real[Today] + cost
            /\ \A d \in Days : d > Today => real'[d] = real[d]
        BY <1>0, <4>1
      <4>3. tokens'.day = Today /\ Of(tokens') = Of(tokens) + cost /\ IsRecord(tokens')
        BY <4>1 DEF Of, IsRecord
      <4>4. disk' # Unreadable => IsRecord(disk') /\ disk'.day <= tokens'.day
        BY <1>0, <4>1, <4>3
      <4>5. real[Today] \in Nat /\ missed[Today] \in Int
        BY <1>0
      <4>6. real'[Today] - missed[Today] = Of(tokens')
        BY <3>0, <4>1, <4>2, <4>3, <4>5
      <4>7. \A d \in Days : d > Today => real'[d] = 0 /\ missed[d] = 0
        BY <1>0, <4>2 DEF MeterTypes
      <4> QED BY <4>2, <4>3, <4>4, <4>6, <4>7
    <3> QED BY <2>1, <3>1, <3>2 DEF Metered
  <2> QED BY <1>0, <2>1, <2>2, CrashKeeps
<1>7. CASE DaemonDies
  <2>1. /\ up /\ UNCHANGED <<time, tokens, disk, real>> /\ ~up'
        /\ missed' = [missed EXCEPT ![tokens'.day] = @ + Unsaved']
    BY <1>7 DEF DaemonDies, Crashed
  <2>2. /\ real' \in [Days -> Nat] /\ IsRecord(tokens')
        /\ disk' # Unreadable => IsRecord(disk') /\ disk'.day <= tokens'.day
        /\ \A d \in Days : d > Today => real'[d] = 0 /\ missed[d] = 0
        /\ real'[Today] - missed[Today] = Of(tokens')
    BY <1>0, <2>1 DEF MeterTypes, Balance
  <2> QED BY <1>0, <2>1, <2>2, CrashKeeps
<1>8. CASE Restarted
  <2>1. /\ ~up /\ up' /\ UNCHANGED <<time, disk, real, missed>>
        /\ tokens' = IF disk = Unreadable THEN [day |-> Today, spent |-> 0] ELSE disk
        /\ Today' = Today
    BY <1>8 DEF Restarted, LoadedTokens, Today
  <2>2. CASE disk = Unreadable
    <3>1. tokens' = [day |-> Today, spent |-> 0] /\ Of(tokens)' = 0 /\ IsRecord(tokens')
      BY <2>1, <2>2 DEF Of, IsRecord
    <3>2. Saved = 0
      BY <2>2 DEF Saved
    <3> QED BY <1>0, <2>1, <2>2, <3>1, <3>2 DEF Meters, MeterTypes, Balance, IsRecord
  <2>3. CASE disk # Unreadable
    <3>1. tokens' = disk /\ Of(tokens)' = Of(disk) /\ Saved = Of(disk)
      BY <2>1, <2>3 DEF Of, Saved
    <3>2. IsRecord(disk) /\ disk.day \in Nat
      BY <1>0, <2>3 DEF MeterTypes, AutoTypeOK
    <3> QED BY <1>0, <2>1, <3>1, <3>2 DEF Meters, MeterTypes, Balance, IsRecord
  <2> QED BY <2>2, <2>3
<1>9. CASE Tick
  <2>1. UNCHANGED <<up, meterVars>> /\ time' = time + 1
    BY <1>9 DEF Tick
  <2>2. Today' \in Days /\ Today' \in Nat
    BY TodayTypeNext
  <2>3. Today <= Today'
    <3>1. time \in Nat /\ time' \in Nat /\ Day \in Nat \ {0} /\ time <= time'
      BY <1>0, <2>1, Constants DEF AutoTypeOK
    <3>2. time \div Day <= time' \div Day
      BY <3>1, DaysInOrder, Zenon
    <3> QED BY <3>2 DEF Today
  <2>4. MeterTypes'
    BY <1>0, <2>1, <2>2, <2>3 DEF MeterTypes, IsRecord
  <2>5. CASE Today' = Today
    BY <1>0, <2>1, <2>4, <2>5 DEF Meters, Balance, Saved, Of
  <2>6. CASE Today' # Today
    <3>1. Today' > Today /\ real[Today'] = 0 /\ missed[Today'] = 0
      BY <1>0, <2>2, <2>3, <2>6 DEF MeterTypes
    <3>2. Of(tokens)' = 0
      BY <1>0, <2>1, <2>2, <3>1 DEF Of, AutoTypeOK
    <3>3. Saved' = 0
      <4>1. disk # Unreadable => disk.day # Today'
        BY <1>0, <2>2, <3>1 DEF AutoTypeOK
      <4> QED BY <2>1, <4>1 DEF Saved, Of
    <3> QED BY <2>1, <2>4, <3>1, <3>2, <3>3 DEF Meters, Balance
  <2> QED BY <2>5, <2>6
<1>10. CASE \/ Chatter \/ Reconfigured \/ Disconnected \/ HubNotices \/ Reconnected
            \/ UNCHANGED autoVars
            \/ \E slot \in Slots : TaskStarts(slot) \/ TaskEnds(slot)
  <2>1. UNCHANGED <<meterVars, time, up>>
    BY <1>10 DEF Chatter, Reconfigured, Disconnected, HubNotices, Reconnected, TaskStarts, TaskEnds
  <2> QED BY <1>1, <2>1
<1> QED BY <1>3, <1>4, <1>5, <1>6, <1>7, <1>8, <1>9, <1>10 DEF AutoNext

-----------------------------------------------------------------------------
(* Guard rails, reports and the hint *)

\* The guard rails of a run are those of the settings it was started with.
LEMMA GuardedStep ==
  ASSUME AutoInv, [AutoNext]_autoVars
  PROVE  Guarded'
<1> USE DEF autoVars, NoRun
<1>0. AutoTypeOK /\ Guarded
  BY DEF AutoInv
<1>1. ASSUME NEW slot \in Slots, NEW m, NEW wish, Started(slot, m, wish)
      PROVE  Guarded'
  <2>1. /\ runs'[slot].what = m /\ runs'[slot].settings = wish
        /\ runs'[slot].guard = Guardrails(wish, Trusted(m, wish))
        /\ \A s \in Slots \ {slot} : runs'[s] = runs[s]
    BY <1>0, <1>1 DEF Started, AutoTypeOK
  <2> QED BY <1>0, <2>1 DEF Guarded, Live
<1>2. ASSUME NEW slot \in Slots, runs' = [runs EXCEPT ![slot] = Nothing]
      PROVE  Guarded'
  BY <1>0, <1>2 DEF Guarded, Live, AutoTypeOK
<1>3. ASSUME runs' = [s \in Slots |-> Nothing]
      PROVE  Guarded'
  BY <1>3 DEF Guarded, Live
<1>4. ASSUME UNCHANGED runs
      PROVE  Guarded'
  BY <1>0, <1>4 DEF Guarded, Live
<1>5. ASSUME NEW m \in Asks, NEW slot \in Slots, RunStarts(m, slot)
      PROVE  Guarded'
  BY <1>1, <1>5 DEF RunStarts
<1>6. ASSUME NEW slot \in Slots, TaskStarts(slot) \/ TaskEnds(slot)
      PROVE  Guarded'
  BY <1>1, <1>2, <1>6 DEF TaskStarts, TaskEnds
<1>7. ASSUME NEW slot \in Slots,
             RunFails(slot) \/ RunIsWithheld(slot) \/ RunIsDrafted(slot) \/ RunIsReplied(slot)
      PROVE  Guarded'
  <2>1. \E result : Ended(slot, result)
    BY <1>7 DEF RunFails, RunIsWithheld, RunIsDrafted, RunIsReplied
  <2> QED BY <1>2, <2>1 DEF Ended
<1>8. CASE DaemonDies \/ \E slot \in Slots : DiesBeforeLog(slot)
  BY <1>3, <1>8 DEF DaemonDies, DiesBeforeLog, Crashed
<1>9. CASE \/ Chatter \/ Reconfigured \/ Disconnected \/ HubNotices \/ Reconnected \/ Restarted
           \/ Tick \/ UNCHANGED autoVars
           \/ \E m \in Asks : Ignored(m) \/ Refused(m)
  BY <1>4, <1>9 DEF Chatter, Reconfigured, Disconnected, HubNotices, Reconnected, Restarted, Tick,
     Ignored, Refused
<1> QED BY <1>5, <1>6, <1>7, <1>8, <1>9 DEF AutoNext

\* A report tells the guard rails that its run had.
LEMMA ReportStep ==
  ASSUME AutoInv, [AutoNext]_autoVars
  PROVE  report'.told = report'.had
<1> USE DEF autoVars
<1>0. AutoTypeOK /\ Guarded /\ report.told = report.had
  BY DEF AutoInv
<1>1. ASSUME NEW m \in Asks, Refused(m)
      PROVE  report'.told = report'.had
  BY <1>0, <1>1 DEF Refused, Report
<1>2. ASSUME NEW slot \in Slots,
             RunFails(slot) \/ RunIsWithheld(slot) \/ RunIsDrafted(slot) \/ RunIsReplied(slot)
      PROVE  report'.told = report'.had
  <2>1. \E result : Ended(slot, result)
    BY <1>2 DEF RunFails, RunIsWithheld, RunIsDrafted, RunIsReplied
  <2>2. slot \in Live
    BY <2>1 DEF Ended, Live, Nothing
  <2>3. Told(runs[slot].what, runs[slot].settings) = runs[slot].guard
    BY <1>0, <2>2 DEF Guarded, Told
  <2>4. \/ Report(runs[slot].what, runs[slot].settings, runs[slot].guard)
        \/ UNCHANGED report
    BY <1>2 DEF RunFails, RunIsWithheld, RunIsDrafted, RunIsReplied, Reports
  <2> QED BY <1>0, <2>3, <2>4 DEF Report
<1>3. CASE \/ Chatter \/ Reconfigured \/ Disconnected \/ HubNotices \/ Reconnected \/ Restarted
           \/ Tick \/ DaemonDies \/ UNCHANGED autoVars
           \/ \E m \in Asks, s \in Slots : RunStarts(m, s)
           \/ \E m \in Asks : Ignored(m)
           \/ \E slot \in Slots : TaskStarts(slot) \/ TaskEnds(slot) \/ DiesBeforeLog(slot)
  <2>1. UNCHANGED report
    BY <1>3 DEF Chatter, Reconfigured, Disconnected, HubNotices, Reconnected, Restarted, Tick,
       DaemonDies, Crashed, Ignored, RunStarts, TaskStarts, TaskEnds, DiesBeforeLog
  <2> QED BY <1>0, <2>1
<1> QED BY <1>1, <1>2, <1>3 DEF AutoNext

\* Whatever clears or ends the last run clears the hint, and so does the socket.
LEMMA HintStep ==
  ASSUME AutoInv, [AutoNext]_autoVars
  PROVE  HintIsNotStuck'
<1> USE DEF autoVars, linkVars, hintVars, NoRun, HintSaysIdle
<1>0. AutoTypeOK /\ HintIsNotStuck
  BY DEF AutoInv
<1>1. ASSUME shown' = "idle" \/ left' = TRUE
      PROVE  HintIsNotStuck'
  BY <1>1 DEF HintIsNotStuck
<1>2. ASSUME NEW m \in Asks, NEW slot \in Slots, RunStarts(m, slot)
      PROVE  HintIsNotStuck'
  <2>1. runs'[slot].what = m /\ m # Task /\ m # Nothing.what /\ slot \in Live'
    <3>1. m # Task /\ m # Nothing.what
      BY AutoRespondAssumption
    <3>2. runs'[slot].what = m
      BY <1>0, <1>2 DEF RunStarts, Started, AutoTypeOK
    <3> QED BY <3>1, <3>2 DEF Live
  <2>2. online /\ online' = online
    BY <1>2 DEF RunStarts, OnMessageOf
  <2>3. ~ (\A s \in Live' : runs'[s].what = Task)
    BY <2>1
  <2> QED BY <2>2, <2>3 DEF HintIsNotStuck
<1>3. ASSUME NEW slot \in Slots,
             RunFails(slot) \/ RunIsWithheld(slot) \/ RunIsDrafted(slot) \/ RunIsReplied(slot)
      PROVE  HintIsNotStuck'
  <2>1. \E result : Ended(slot, result)
    BY <1>3 DEF RunFails, RunIsWithheld, RunIsDrafted, RunIsReplied
  <2>2. shown' = "idle" \/ (~online /\ UNCHANGED <<shown, left, online>>)
    BY <2>1 DEF Ended, HintCleared
  <2> QED BY <1>0, <1>1, <2>2 DEF HintIsNotStuck
<1>4. ASSUME NEW slot \in Slots, TaskStarts(slot) \/ TaskEnds(slot)
      PROVE  HintIsNotStuck'
  <2>1. /\ UNCHANGED <<shown, left, online>>
        /\ \A s \in Slots \ {slot} : runs'[s] = runs[s]
        /\ runs[slot] = Nothing \/ runs[slot].what = Task
    BY <1>0, <1>4 DEF TaskStarts, TaskEnds, Started, AutoTypeOK
  <2>2. (\A s \in Live' : runs'[s].what = Task) => (\A s \in Live : runs[s].what = Task)
    BY <2>1 DEF Live
  <2> QED BY <1>0, <2>1, <2>2 DEF HintIsNotStuck
<1>5. ASSUME NEW m \in Asks, Refused(m)
      PROVE  HintIsNotStuck'
  <2>1. shown' = "idle" \/ UNCHANGED <<shown, left>>
    BY <1>5 DEF Refused
  <2>2. UNCHANGED <<runs, online>>
    BY <1>5 DEF Refused
  <2> QED BY <1>0, <1>1, <2>1, <2>2 DEF HintIsNotStuck, Live
<1>6. CASE Disconnected \/ HubNotices
  BY <1>1, <1>6 DEF Disconnected, HubNotices, SessionEnds
<1>7. CASE DaemonDies \/ \E slot \in Slots : DiesBeforeLog(slot)
  <2>1. Crashed
    BY <1>7 DEF DaemonDies, DiesBeforeLog
  <2>2. CASE online
    BY <1>1, <2>1, <2>2 DEF Crashed, SessionEnds
  <2>3. CASE ~online
    BY <1>0, <2>1, <2>3 DEF Crashed, HintIsNotStuck
  <2> QED BY <2>2, <2>3
<1>8. CASE Reconnected
  BY <1>0, <1>8 DEF Reconnected, HintIsNotStuck, Live
<1>9. CASE \/ Chatter \/ Reconfigured \/ Restarted \/ Tick \/ UNCHANGED autoVars
           \/ \E m \in Asks : Ignored(m)
  <2>1. UNCHANGED <<shown, left, online, runs>>
    BY <1>9 DEF Chatter, Reconfigured, Restarted, Tick, Ignored
  <2> QED BY <1>0, <2>1 DEF HintIsNotStuck, Live
<1> QED BY <1>2, <1>3, <1>4, <1>5, <1>6, <1>7, <1>8, <1>9 DEF AutoNext

-----------------------------------------------------------------------------
(* The theorems *)

LEMMA InitAuto == AutoInit => AutoInv
<1> SUFFICES ASSUME AutoInit PROVE AutoInv
  OBVIOUS
<1>1. /\ Today = 0 /\ MaxTime \div Day \in Nat /\ Live = {} /\ Promised = {} /\ Replies(talk) = {}
  <2>1. 0 \div Day = 0 /\ MaxTime \div Day \in Nat
    BY Constants, DaysInOrder
  <2> QED BY <2>1 DEF AutoInit, Today, Live, Promised, Replies
<1>2. AutoTypeOK
  <2>1. None \in Guards
    BY DEF None, Guards
  <2>2. report \in [told : Guards, had : Guards]
    BY <2>1 DEF AutoInit
  <2>3. /\ time \in 0 .. MaxTime /\ turns \in 0 .. MaxTurns /\ reserved \in Nat
        /\ tokens.day \in 0 .. Today /\ tokens.spent \in Nat
    BY <1>1, Constants DEF AutoInit
  <2>4. talk \in Seq(BOOLEAN) /\ runs \in [Slots -> RunSpace \cup {Nothing}]
    BY DEF AutoInit
  <2> QED BY <2>2, <2>3, <2>4 DEF AutoInit, AutoTypeOK
<1>3. Promises
  <2>1. hops = 0 /\ unlogged = 0 /\ unguarded = 0 /\ reserved = 0 /\ MaxHops \in Nat
    BY Constants DEF AutoInit
  <2>2. /\ IsFiniteSet(Promised) /\ Cardinality(Promised) = 0
        /\ Cardinality(Replies(talk)) = 0
    BY <1>1, FS_EmptySet
  <2> QED BY <2>1, <2>2 DEF Promises
<1>4. Starts
  <2>1. begun = {} /\ repliesThisHour = {}
    BY DEF AutoInit
  <2>2. \A t : HourTo(begun, t) = {}
    BY <2>1 DEF HourTo
  <2> QED BY <2>1, <2>2, FS_EmptySet DEF Starts, HourlyCap
<1>5. Meters
  <2>1. /\ tokens = [day |-> 0, spent |-> 0] /\ disk = Unreadable /\ up
        /\ real = [d \in Days |-> 0] /\ missed = [d \in Days |-> 0]
    BY DEF AutoInit
  <2>2. Today \in Days
    BY <1>1 DEF Days
  <2>3. MeterTypes
    BY <2>1 DEF MeterTypes, IsRecord
  <2>4. Balance
    BY <1>1, <2>1, <2>2 DEF Balance, Of
  <2> QED BY <2>3, <2>4 DEF Meters
<1> QED BY <1>1, <1>2, <1>3, <1>4, <1>5 DEF AutoInit, AutoInv, Guarded, HintIsNotStuck

LEMMA NextAuto == AutoInv /\ [AutoNext]_autoVars => AutoInv'
<1> SUFFICES ASSUME AutoInv, [AutoNext]_autoVars PROVE AutoInv'
  OBVIOUS
<1>1. Promises'
  BY PromisesStep
<1>2. reserved' \in Nat
  BY <1>1, FS_CardinalityType DEF Promises
<1>3. AutoTypeOK'
  BY <1>2, TypeStep
<1>4. Meters'
  BY <1>3, MetersStep
<1> QED BY <1>1, <1>3, <1>4, StartsStep, GuardedStep, ReportStep, HintStep DEF AutoInv

\* The invariant of the auto-responder.
LEMMA AutoInvariant == AutoSpec => []AutoInv
BY InitAuto, NextAuto, PTL DEF AutoSpec

\* Every variable of the auto-responder has its type.
THEOREM AutoTypesHold == AutoSpec => []AutoTypeOK
BY AutoInvariant, PTL DEF AutoInv

\* However many runs overlap and however often messages are redelivered: a
\* thread the daemon sees whole has at most MaxHops automatic replies to its
\* messages, plus those a crash kept from the log, and what is reserved is what
\* runs.  Replies to roots have no thread and are not among them.
THEOREM ThreadIsBoundedAlways == AutoSpec => []ThreadIsBounded
<1>1. AutoInv => ThreadIsBounded
  <2> SUFFICES ASSUME AutoInv PROVE ThreadIsBounded
    OBVIOUS
  <2>1. Cardinality(Promised) \in Nat /\ MaxHops \in Nat
    BY FS_CardinalityType, Constants DEF AutoInv, Promises
  <2>2. HopCap
    BY <2>1 DEF AutoInv, Promises, HopCap
  <2>3. ReservedIsRunning
    BY DEF AutoInv, Promises, Promised, ReservedIsRunning
  <2> QED BY <2>2, <2>3 DEF ThreadIsBounded
<1> QED BY <1>1, AutoInvariant, PTL

\* Only a message starts a run that the meters count.
LEMMA BeginningsAreStarts ==
  ASSUME AutoInv, [AutoNext]_autoVars, NEW s \in Slots, Begins(s)
  PROVE  \E m \in Asks, slot \in Slots : RunStarts(m, slot)
<1> USE DEF autoVars, Begins, NoRun
<1>0. AutoTypeOK
  BY DEF AutoInv
<1>1. ASSUME NEW slot \in Slots,
             RunFails(slot) \/ RunIsWithheld(slot) \/ RunIsDrafted(slot) \/ RunIsReplied(slot)
      PROVE  FALSE
  <2>1. \E result : Ended(slot, result)
    BY <1>1 DEF RunFails, RunIsWithheld, RunIsDrafted, RunIsReplied
  <2> QED BY <1>0, <2>1 DEF Ended, AutoTypeOK
<1>2. ASSUME NEW slot \in Slots, TaskStarts(slot) \/ TaskEnds(slot)
      PROVE  FALSE
  <2>1. runs[s] = Nothing /\ runs'[s] # Nothing /\ runs'[s].what # Task
    BY DEF Begins
  <2>2. CASE TaskEnds(slot)
    BY <1>0, <2>1, <2>2 DEF TaskEnds, AutoTypeOK
  <2>3. CASE TaskStarts(slot)
    <3>1. PICK set : Started(slot, Task, set)
      BY <2>3 DEF TaskStarts
    <3>2. PICK r : runs' = [runs EXCEPT ![slot] = r] /\ r.what = Task
      BY <3>1 DEF Started
    <3> QED BY <1>0, <2>1, <3>2 DEF AutoTypeOK
  <2> QED BY <1>2, <2>2, <2>3
<1>3. CASE \/ Chatter \/ Reconfigured \/ Restarted \/ Tick \/ UNCHANGED autoVars
           \/ Disconnected \/ HubNotices \/ Reconnected
           \/ \E m \in Asks : Ignored(m) \/ Refused(m)
  BY <1>3 DEF Chatter, Reconfigured, Restarted, Tick, Ignored, Disconnected, HubNotices,
     Reconnected, Refused
<1>4. CASE DaemonDies \/ \E slot \in Slots : DiesBeforeLog(slot)
  BY <1>4 DEF DaemonDies, DiesBeforeLog, Crashed
<1> QED BY <1>1, <1>2, <1>3, <1>4 DEF AutoNext

\* No hour of a life has more starts than some settings allow, and no run starts
\* past the budget of the day, but for what a dead process had not saved.
THEOREM RunsAreMeteredAlways == AutoSpec => RunsAreMetered
<1>1. ASSUME AutoInv, [AutoNext]_autoVars
      PROVE  DailyBudget
  <2> SUFFICES ASSUME NEW s \in Slots, Begins(s)
               PROVE  real[Today] - missed[Today] < settings.cap
    BY DEF DailyBudget
  <2>1. AutoTypeOK /\ MeterTypes /\ Balance
    BY <1>1 DEF AutoInv, Meters
  <2>2. Refusal = "none" /\ up
    BY <1>1, BeginningsAreStarts DEF RunStarts, OnMessageOf
  <2>3. ~(Rolled.spent >= settings.cap)
    BY <2>2, GatesPassed DEF Exceeds
  <2>4. settings.cap \in Nat
    BY <2>1, AutoRespondAssumption DEF AutoTypeOK, SettingsSpace
  <2>5. Rolled.spent = Of(tokens) /\ Of(tokens) \in Nat
    BY <2>1, RolledType
  <2>6. real[Today] - missed[Today] = Of(tokens)
    BY <2>1, <2>2 DEF Balance
  <2>7. Of(tokens) < settings.cap
    BY <2>3, <2>4, <2>5
  <2> QED BY <2>6, <2>7
<1>2. AutoInv /\ AutoInv' /\ [AutoNext]_autoVars => [HourlyCap' /\ DailyBudget]_autoVars
  BY <1>1 DEF AutoInv, Starts
<1> QED BY <1>2, AutoInvariant, PTL DEF AutoSpec, RunsAreMetered

\* A reply leaves without the owner only from a run begun without require_approval.
LEMMA OwnerStep ==
  ASSUME AutoInv, [AutoNext]_autoVars
  PROVE  OwnerIsAsked
<1> SUFFICES ASSUME hops' > hops \/ unguarded' > unguarded
             PROVE  \E s \in Slots :
                      runs[s] # Nothing /\ runs'[s] = Nothing /\ ~runs[s].settings.approval
  BY DEF OwnerIsAsked
<1> USE DEF autoVars, hopVars, NoRun
<1>0. AutoTypeOK /\ hops \in Nat /\ unguarded \in Nat
  BY DEF AutoInv, Promises
<1>1. ASSUME NEW slot \in Slots, RunIsReplied(slot)
      PROVE  /\ runs[slot] # Nothing /\ runs'[slot] = Nothing /\ ~runs[slot].settings.approval
  BY <1>0, <1>1 DEF RunIsReplied, Ended, Nothing, NeedsOwner, AutoTypeOK
<1>2. ASSUME NEW slot \in Slots, DiesBeforeLog(slot)
      PROVE  /\ runs[slot] # Nothing /\ runs'[slot] = Nothing /\ ~runs[slot].settings.approval
  <2>1. runs[slot].what \in Asks
    BY <1>2 DEF DiesBeforeLog
  <2>2. runs[slot] # Nothing
    BY <2>1, AutoRespondAssumption
  <2> QED BY <1>0, <1>2, <2>2 DEF DiesBeforeLog, NeedsOwner, Crashed
<1>3. ASSUME UNCHANGED <<hops, unguarded>>
      PROVE  FALSE
  BY <1>0, <1>3
<1>4. CASE \E slot \in Slots : RunFails(slot) \/ RunIsWithheld(slot) \/ RunIsDrafted(slot)
                               \/ TaskStarts(slot) \/ TaskEnds(slot)
  BY <1>3, <1>4 DEF RunFails, RunIsWithheld, RunIsDrafted, TaskStarts, TaskEnds
<1>5. CASE \/ Chatter \/ Reconfigured \/ Restarted \/ Tick \/ UNCHANGED autoVars
           \/ Disconnected \/ HubNotices \/ Reconnected \/ DaemonDies
           \/ \E m \in Asks : Ignored(m) \/ Refused(m)
           \/ \E m \in Asks, slot \in Slots : RunStarts(m, slot)
  BY <1>3, <1>5 DEF Chatter, Reconfigured, Restarted, Tick, Ignored, Disconnected, HubNotices,
     Reconnected, DaemonDies, Refused, RunStarts
<1> QED BY <1>1, <1>2, <1>4, <1>5 DEF AutoNext

\* Whatever is switched while runs are going: each keeps the deny rules of its
\* own settings, the report tells them, the hint is left over only by a kicked or
\* replaced session, and a run begun under require_approval never replies by
\* itself.
THEOREM OwnerRulesAlways == AutoSpec => OwnerRules
<1>1. AutoInv => GuardrailsHold /\ HintIsNotStuck
  <2> SUFFICES ASSUME AutoInv PROVE GuardrailsHold
    BY DEF AutoInv
  <2>1. ASSUME NEW s \in Live, runs[s].what = Task \/ ~runs[s].settings.trusted
        PROVE  (IF runs[s].guard.write THEN Tools ELSE {"Read"}) \X runs[s].settings.deny
                 \subseteq runs[s].guard.deny
    <3>1. ~Trusted(runs[s].what, runs[s].settings)
      BY <2>1 DEF Trusted
    <3>2. runs[s].guard = [write |-> runs[s].settings.write,
             deny |-> (IF runs[s].settings.write THEN Tools ELSE {"Read"}) \X runs[s].settings.deny]
      BY <3>1 DEF AutoInv, Guarded, Guardrails
    <3> QED BY <3>2
  <2> QED BY <2>1 DEF GuardrailsHold, AutoInv
<1>2. AutoInv /\ [AutoNext]_autoVars => OwnerIsAsked
  BY OwnerStep
<1> QED BY <1>1, <1>2, AutoInvariant, PTL DEF AutoSpec, OwnerRules

-----------------------------------------------------------------------------
(* The lines of the message file *)

\* No message is in s twice.
Once(s) == \A i, j \in DOMAIN s : s[i].id = s[j].id /\ s[i].id # NoId => i = j

\* A line that does not parse has no id.
LEMMA GarbledIsStored == Garbled \in Stored /\ Garbled.id = NoId /\ ~Garbled.read
BY DEF Garbled, Stored

\* Nothing is in an empty file.
LEMMA EmptyFile == Ids(<<>>) = {} /\ Once(<<>>) /\ \A m : ~ReadIn(<<>>, m)
BY DEF Ids, Once, ReadIn

\* One more line has its own id, and doubles nothing that is not there yet.
LEMMA AppendLine ==
  ASSUME NEW s \in Seq(Stored), NEW line \in Stored
  PROVE  /\ Append(s, line) \in Seq(Stored)
         /\ Ids(Append(s, line)) = Ids(s) \cup ({line.id} \ {NoId})
         /\ Once(s) /\ (line.id = NoId \/ line.id \notin Ids(s)) => Once(Append(s, line))
         /\ \A m : ReadIn(Append(s, line), m) <=> ReadIn(s, m) \/ (line.id = m /\ line.read)
<1> DEFINE t == Append(s, line)
           n == Len(s)
<1>1. /\ t \in Seq(Stored) /\ n \in Nat /\ DOMAIN s = 1..n /\ DOMAIN t = 1..(n + 1)
      /\ t[n + 1] = line /\ \A i \in 1..n : t[i] = s[i]
  OBVIOUS
<1>2. n + 1 \in 1..(n + 1) /\ \A i \in 1..(n + 1) : i \in 1..n \/ i = n + 1 BY <1>1
<1>x. \A i \in 1..n : i \in 1..(n + 1) BY <1>1
<1> HIDE DEF t, n
<1>3. Ids(t) = Ids(s) \cup ({line.id} \ {NoId}) BY <1>1, <1>2, <1>x DEF Ids
<1>4. ASSUME Once(s), line.id = NoId \/ line.id \notin Ids(s) PROVE Once(t)
  <2> SUFFICES ASSUME NEW i \in 1..(n + 1), NEW j \in 1..(n + 1), t[i].id = t[j].id, t[i].id # NoId
               PROVE  i = j
    BY <1>1 DEF Once
  <2>1. CASE i \in 1..n /\ j \in 1..n BY <1>1, <1>4, <2>1 DEF Once
  <2>2. CASE i = n + 1 /\ j \in 1..n BY <1>1, <1>4, <2>2 DEF Ids
  <2>3. CASE i \in 1..n /\ j = n + 1 BY <1>1, <1>4, <2>3 DEF Ids
  <2> QED BY <1>2, <2>1, <2>2, <2>3
<1>5. \A m : ReadIn(t, m) <=> ReadIn(s, m) \/ (line.id = m /\ line.read)
  BY <1>1, <1>2, <1>x DEF ReadIn
<1> QED BY <1>1, <1>3, <1>4, <1>5 DEF t

\* The beginning of a list.
LEMMA PrefixOfLines ==
  ASSUME NEW s \in Seq(Stored), NEW n \in 0..Len(s)
  PROVE  /\ SubSeq(s, 1, n) \in Seq(Stored) /\ Len(SubSeq(s, 1, n)) = n
         /\ \A i \in 1..n : i \in DOMAIN s /\ SubSeq(s, 1, n)[i] = s[i]
         /\ Once(s) => Once(SubSeq(s, 1, n))
<1> DEFINE t == SubSeq(s, 1, n)
<1>1. /\ t \in Seq(Stored) /\ Len(t) = n /\ DOMAIN t = 1..n
      /\ \A i \in 1..n : i \in DOMAIN s /\ t[i] = s[i]
  OBVIOUS
<1> HIDE DEF t
<1>2. Once(s) => Once(t) BY <1>1 DEF Once
<1> QED BY <1>1, <1>2 DEF t

\* Without a last line that does not parse nothing is lost.
LEMMA WithoutTornLine ==
  ASSUME NEW s \in Seq(Stored), s # <<>>, s[Len(s)] = Garbled
  PROVE  /\ Front(s) \in Seq(Stored) /\ Ids(Front(s)) = Ids(s)
         /\ Once(s) => Once(Front(s))
         /\ \A m \in Mail : ReadIn(Front(s), m) <=> ReadIn(s, m)
         /\ Len(Front(s)) = Len(s) - 1
<1> DEFINE n == Len(s) - 1
           t == Front(s)
<1>1. n \in 0..Len(s) /\ DOMAIN s = 1..(n + 1) /\ s[n + 1] = Garbled OBVIOUS
<1>2. t = SubSeq(s, 1, n) BY DEF Front
<1> HIDE DEF n, t
<1>3. /\ t \in Seq(Stored) /\ Len(t) = n /\ \A i \in 1..n : i \in DOMAIN s /\ t[i] = s[i]
      /\ Once(s) => Once(t)
  BY <1>1, <1>2, PrefixOfLines
<1>4. DOMAIN t = 1..n BY <1>3
<1>5. \A i \in DOMAIN s : i \in 1..n \/ s[i] = Garbled BY <1>1
<1>6. Ids(t) = Ids(s) BY <1>3, <1>4, <1>5, GarbledIsStored DEF Ids
<1>7. \A m \in Mail : ReadIn(t, m) <=> ReadIn(s, m)
  BY <1>3, <1>4, <1>5, GarbledIsStored, InboxAssumption DEF ReadIn
<1> QED BY <1>3, <1>6, <1>7 DEF n, t

-----------------------------------------------------------------------------
(* load *)

\* What load has after n lines.
Reading(s, n) ==
  /\ s \in Seq(Stored)
  /\ \A i \in 1..Len(s) : \E j \in 1..n : s[i] = file[j]
  /\ \A j \in 1..n : file[j] # Garbled => \E i \in 1..Len(s) : s[i] = file[j]
  /\ Once(file) => Once(s)

\* One more line read.
LEMMA ReadingGoesOn ==
  ASSUME file \in Seq(Stored), NEW n \in Nat, n + 1 \in 1..Len(file), NEW s, Reading(s, n)
  PROVE  Reading(IF file[n + 1] = Garbled THEN s ELSE Append(s, file[n + 1]), n + 1)
<1>1. PICK line \in Stored : line = file[n + 1] OBVIOUS
<1>2. \A j \in 1..(n + 1) : j \in 1..n \/ j = n + 1 OBVIOUS
<1>3. \A j \in 1..n : j \in 1..(n + 1) OBVIOUS
<1>4. s \in Seq(Stored) BY DEF Reading
<1>5. CASE line = Garbled BY <1>1, <1>2, <1>3, <1>5 DEF Reading
<1>6. CASE line # Garbled
  <2> DEFINE t == Append(s, line)
  <2>1. /\ t \in Seq(Stored) /\ Len(t) = Len(s) + 1 /\ t[Len(s) + 1] = line
        /\ \A i \in 1..Len(s) : t[i] = s[i]
    BY <1>4
  <2>2. \A i \in 1..Len(t) : i \in 1..Len(s) \/ i = Len(s) + 1 BY <1>4, <2>1
  <2>3. (\A i \in 1..Len(s) : i \in 1..Len(t)) /\ Len(s) + 1 \in 1..Len(t) BY <1>4, <2>1
  <2>4. ASSUME Once(file) PROVE Once(t)
    <3>1. line.id \in Ids(s) => line.id = NoId
      <4> SUFFICES ASSUME line.id \in Ids(s), line.id # NoId PROVE FALSE OBVIOUS
      <4>1. PICK i \in 1..Len(s) : s[i].id = line.id BY <1>4 DEF Ids
      <4>2. PICK j \in 1..n : s[i] = file[j] BY DEF Reading
      <4>3. j \in DOMAIN file /\ n + 1 \in DOMAIN file /\ j # n + 1 OBVIOUS
      <4> QED BY <1>1, <2>4, <4>1, <4>2, <4>3 DEF Once
    <3> QED BY <1>4, <2>4, <3>1, AppendLine DEF Reading
  <2> HIDE DEF t
  <2>5. \A i \in 1..Len(t) : \E j \in 1..(n + 1) : t[i] = file[j]
    BY <1>1, <1>3, <2>1, <2>2 DEF Reading
  <2>6. \A j \in 1..(n + 1) : file[j] # Garbled => \E i \in 1..Len(t) : t[i] = file[j]
    <3> SUFFICES ASSUME NEW j \in 1..(n + 1), file[j] # Garbled
                 PROVE  \E i \in 1..Len(t) : t[i] = file[j]
      OBVIOUS
    <3>1. CASE j = n + 1 BY <1>1, <2>1, <2>3, <3>1
    <3>2. CASE j \in 1..n
      <4>1. PICK i \in 1..Len(s) : s[i] = file[j] BY <3>2 DEF Reading
      <4> QED BY <4>1, <2>1, <2>3
    <3> QED BY <1>2, <3>1, <3>2
  <2>7. Reading(t, n + 1) BY <2>1, <2>4, <2>5, <2>6 DEF Reading
  <2> QED BY <1>1, <1>6, <2>7 DEF t
<1> QED BY <1>5, <1>6

\* f is the loop of load.
IsReading(f) ==
  f = [n \in 0..Len(file) |->
         IF n = 0 THEN <<>> ELSE IF file[n] = Garbled THEN f[n - 1] ELSE Append(f[n - 1], file[n])]

\* The loop ends: there is such a function, by induction on the lines.
LEMMA ReadingExists == ASSUME file \in Seq(Stored) PROVE \E f : IsReading(f)
<1> DEFINE next == [i \in Nat |-> [s \in Seq(Stored) |->
                       IF file[i] = Garbled THEN s ELSE Append(s, file[i])]]
           n == Len(file)
<1>1. n \in Nat OBVIOUS
<1>2. PICK f : IsRun(f, <<>>, next, n) BY <1>1, RunExists
<1>3. DOMAIN f = 0..n /\ f[0] = <<>> /\ \A i \in 1..n : f[i] = next[i][f[i - 1]]
  BY <1>2 DEF IsRun
<1> DEFINE T == {i \in Nat : i <= n => f[i] \in Seq(Stored)}
<1>4. 0 \in T
  <2>1. <<>> \in Seq(Stored) OBVIOUS
  <2> HIDE DEF n, next
  <2> QED BY <1>3, <2>1
<1>5. ASSUME NEW i \in Nat, i \in T PROVE i + 1 \in T
  <2> SUFFICES ASSUME i + 1 <= n PROVE f[i + 1] \in Seq(Stored) OBVIOUS
  <2>1. i + 1 \in 1..n /\ (i + 1) - 1 = i /\ f[i] \in Seq(Stored) BY <1>1, <1>5
  <2>2. f[i + 1] = next[i + 1][f[i]] BY <1>3, <2>1
  <2>3. file[i + 1] \in Stored BY <2>1
  <2>4. next[i + 1][f[i]] = IF file[i + 1] = Garbled THEN f[i] ELSE Append(f[i], file[i + 1])
    BY <2>1
  <2> QED BY <2>1, <2>2, <2>3, <2>4
<1> HIDE DEF T
<1>6. \A i \in Nat : i \in T BY <1>4, <1>5, SetInduction
<1>7. ASSUME NEW i \in 1..n
      PROVE  f[i] = IF file[i] = Garbled THEN f[i - 1] ELSE Append(f[i - 1], file[i])
  <2>1. i - 1 \in Nat /\ i - 1 <= n BY <1>1
  <2>2. f[i - 1] \in Seq(Stored) BY <1>6, <2>1 DEF T
  <2> HIDE DEF n
  <2>3. f[i] = next[i][f[i - 1]] BY <1>3
  <2>4. i \in Nat BY <1>1
  <2> QED BY <2>2, <2>3, <2>4
<1> HIDE DEF next, n
<1> DEFINE h == [i \in 0..n |-> f[i]]
           g == [i \in 0..n |-> IF i = 0 THEN <<>> ELSE IF file[i] = Garbled THEN h[i - 1]
                                ELSE Append(h[i - 1], file[i])]
<1>8. ASSUME NEW i \in 0..n PROVE h[i] = g[i]
  <2>1. CASE i = 0 BY <1>3, <2>1
  <2>2. CASE i # 0
    <3>1. i \in 1..n /\ i - 1 \in 0..n BY <1>1, <2>2
    <3>2. h[i] = f[i] /\ h[i - 1] = f[i - 1] BY <3>1
    <3>3. g[i] = IF file[i] = Garbled THEN h[i - 1] ELSE Append(h[i - 1], file[i])
      BY <2>2
    <3> QED BY <1>7, <3>1, <3>2, <3>3
  <2> QED BY <2>1, <2>2
<1>9. h = g
  <2>1. DOMAIN h = 0..n /\ DOMAIN g = 0..n OBVIOUS
  <2>2. h = [i \in 0..n |-> h[i]] /\ g = [i \in 0..n |-> g[i]] OBVIOUS
  <2> HIDE DEF h, g
  <2> QED BY <1>8, <2>2
<1> HIDE DEF h
<1> QED BY <1>9 DEF IsReading, n

\* load keeps every line that parses, once, and nothing else.
LEMMA LoadedIs ==
  ASSUME file \in Seq(Stored)
  PROVE  /\ Loaded \in Seq(Stored) /\ Ids(Loaded) = Ids(file)
         /\ Once(file) => Once(Loaded)
         /\ \A m : ReadIn(Loaded, m) => ReadIn(file, m)
<1> DEFINE n == Len(file)
           f == CHOOSE g : IsReading(g)
<1>1. IsReading(f) BY ReadingExists, Zenon
<1>2. Loaded = f[n] BY Zenon DEF Loaded, IsReading
<1>3. n \in Nat OBVIOUS
<1> HIDE DEF f
<1> DEFINE T == {i \in Nat : i <= n => Reading(f[i], i)}
<1>4. 0 \in T
  <2>1. f[0] = <<>> BY <1>1, <1>3 DEF IsReading
  <2>2. Reading(<<>>, 0) BY DEF Reading, Once
  <2> QED BY <2>1, <2>2
<1>5. ASSUME NEW i \in Nat, i \in T PROVE i + 1 \in T
  <2> SUFFICES ASSUME i + 1 <= n PROVE Reading(f[i + 1], i + 1) OBVIOUS
  <2>1. i + 1 \in 0..n /\ i + 1 \in 1..n /\ i + 1 # 0 /\ (i + 1) - 1 = i BY <1>3
  <2>2. f[i + 1] = IF file[i + 1] = Garbled THEN f[i] ELSE Append(f[i], file[i + 1])
    BY <1>1, <2>1 DEF IsReading
  <2>3. Reading(f[i], i) BY <1>3, <1>5
  <2> QED BY <2>1, <2>2, <2>3, ReadingGoesOn
<1> HIDE DEF T
<1>6. \A i \in Nat : i \in T BY <1>4, <1>5, SetInduction
<1>7. Reading(Loaded, n) BY <1>2, <1>3, <1>6 DEF T
<1>8. Loaded \in Seq(Stored) /\ (Once(file) => Once(Loaded)) BY <1>7 DEF Reading
<1>9. DOMAIN Loaded = 1..Len(Loaded) /\ DOMAIN file = 1..n BY <1>8
<1>10. \A i \in DOMAIN Loaded : \E j \in DOMAIN file : Loaded[i] = file[j] BY <1>7, <1>9 DEF Reading
<1>11. \A j \in DOMAIN file : file[j] # Garbled => \E i \in DOMAIN Loaded : Loaded[i] = file[j]
  BY <1>7, <1>9 DEF Reading
<1>12. Ids(Loaded) = Ids(file)
  <2>1. ASSUME NEW x PROVE x \in Ids(Loaded) => x \in Ids(file) BY <1>10 DEF Ids
  <2>2. ASSUME NEW x \in Ids(file) PROVE x \in Ids(Loaded)
    <3>1. PICK j \in DOMAIN file : file[j].id = x /\ x # NoId BY DEF Ids
    <3>2. file[j] # Garbled BY <3>1, GarbledIsStored
    <3>3. PICK i \in DOMAIN Loaded : Loaded[i] = file[j] BY <1>11, <3>2
    <3> QED BY <3>1, <3>3 DEF Ids
  <2> QED BY <2>1, <2>2
<1>13. \A m : ReadIn(Loaded, m) => ReadIn(file, m) BY <1>10 DEF ReadIn
<1> QED BY <1>8, <1>12, <1>13

-----------------------------------------------------------------------------
(* The file, whatever dies *)

\* What memory shows as read is read in the file, if the file has it.
Kept == \A m \in Mail : ReadIn(messages, m) /\ m \in Ids(file) => ReadIn(file, m)

\* An unfinished line is one that does not parse: what is glued to it costs nothing else.
Torn == unfinished => file # <<>> /\ file[Len(file)] = Garbled

\* What the hub need not send again, or memory would not store again, and no line has.
Lost == (confirmed \cup Ids(messages)) \ Ids(file)

\* Each append that was cut short accounts for one, or will when the next line is glued.
Accounted == ~lostRewrite => Cardinality(Lost) + (IF unfinished THEN 1 ELSE 0) <= tornAppends

InboxInv ==
  /\ InboxTypeOK /\ IsFiniteSet(confirmed)
  /\ Once(messages) /\ Once(file) /\ Kept /\ Torn /\ Accounted

\* The ids in a list are finitely many messages of the hub.
LEMMA IdsAreMail ==
  ASSUME NEW s \in Seq(Stored)
  PROVE  Ids(s) \subseteq Mail /\ IsFiniteSet(Ids(s)) /\ \A m \in Mail : ReadIn(s, m) => m \in Ids(s)
<1>1. PICK n \in Nat : n = Len(s) OBVIOUS
<1>2. DOMAIN s = 1..n /\ \A i \in 1..n : s[i] \in Stored BY <1>1
<1>3. \A i \in 1..n : s[i].id \in Mail \cup {NoId} BY <1>2 DEF Stored
<1>4. Ids(s) \subseteq Mail BY <1>2, <1>3 DEF Ids
<1> DEFINE f == [i \in 1..n |-> s[i].id]
           R == {f[i] : i \in 1..n}
<1>5. IsFiniteSet(1..n) BY FS_Interval
<1>6. \A i \in 1..n : f[i] = s[i].id OBVIOUS
<1> HIDE DEF f
<1>7. IsFiniteSet(R)
  <2>1. f \in Surjection(1..n, R)
    <3>1. f \in [1..n -> R] BY DEF f
    <3>2. \A r \in R : \E i \in 1..n : f[i] = r OBVIOUS
    <3> HIDE DEF R
    <3> QED BY <3>1, <3>2 DEF Surjection
  <2> HIDE DEF R
  <2> QED BY <1>5, <2>1, FS_Surjection
<1>8. Ids(s) \subseteq R BY <1>2, <1>6 DEF Ids
<1> HIDE DEF R
<1>9. IsFiniteSet(Ids(s)) BY <1>7, <1>8, FS_Subset
<1>10. \A m \in Mail : ReadIn(s, m) => m \in Ids(s) BY InboxAssumption DEF ReadIn, Ids
<1> QED BY <1>4, <1>9, <1>10

\* What is lost can be counted.
LEMMA LostIsFinite ==
  ASSUME InboxInv PROVE IsFiniteSet(Lost) /\ Cardinality(Lost) \in Nat /\ tornAppends \in Nat
<1>1. IsFiniteSet(confirmed) /\ IsFiniteSet(Ids(messages)) /\ tornAppends \in Nat
  BY IdsAreMail DEF InboxInv, InboxTypeOK
<1>2. IsFiniteSet(confirmed \cup Ids(messages)) BY <1>1, FS_Union
<1> QED BY <1>1, <1>2, FS_Subset, FS_CardinalityType DEF Lost

\* What is lost does not grow, but by a line that is glued.
LEMMA LessIsLost ==
  ASSUME InboxInv, Lost' \subseteq Lost, unfinished' => unfinished,
         UNCHANGED <<tornAppends, lostRewrite>>
  PROVE  Accounted'
<1>1. IsFiniteSet(Lost) /\ Cardinality(Lost) \in Nat BY LostIsFinite
<1>2. Cardinality(Lost') \in Nat /\ Cardinality(Lost') <= Cardinality(Lost)
  BY <1>1, FS_Subset, FS_CardinalityType
<1>3. Cardinality(Lost)' = Cardinality(Lost') OBVIOUS
<1>4. tornAppends \in Nat BY LostIsFinite
<1> QED BY <1>1, <1>2, <1>3, <1>4 DEF Accounted, InboxInv, InboxTypeOK

\* The line that is glued to a torn one costs one more, and was counted already.
LEMMA OneIsLost ==
  ASSUME InboxInv, NEW x, Lost' \subseteq Lost \cup {x}, unfinished, ~unfinished',
         UNCHANGED <<tornAppends, lostRewrite>>
  PROVE  Accounted'
<1>1. IsFiniteSet(Lost) /\ Cardinality(Lost) \in Nat /\ tornAppends \in Nat BY LostIsFinite
<1>2. /\ IsFiniteSet(Lost \cup {x}) /\ Cardinality(Lost \cup {x}) \in Nat
      /\ Cardinality(Lost \cup {x}) <= Cardinality(Lost) + 1
  BY <1>1, FS_AddElement, FS_CardinalityType
<1>3. Cardinality(Lost') \in Nat /\ Cardinality(Lost') <= Cardinality(Lost \cup {x})
  BY <1>2, FS_Subset, FS_CardinalityType
<1>4. Cardinality(Lost') <= Cardinality(Lost) + 1 BY <1>1, <1>2, <1>3
<1>5. Cardinality(Lost)' = Cardinality(Lost') OBVIOUS
<1> QED BY <1>1, <1>3, <1>4, <1>5 DEF Accounted, InboxInv

\* A message or a local record is stored, or was already.
LEMMA StoreIsDurable ==
  ASSUME InboxInv, alive, NEW line \in Stored, Store(line),
         confirmed' \in {confirmed, confirmed \cup ({line.id} \ {NoId})},
         UNCHANGED <<alive, tornAppends, lostRewrite>>
  PROVE  InboxInv' /\ ReadStaysRead
<1>1. /\ messages \in Seq(Stored) /\ file \in Seq(Stored) /\ Ids(file) \subseteq Ids(messages)
      /\ confirmed \subseteq Mail /\ IsFiniteSet(confirmed)
  BY DEF InboxInv, InboxTypeOK
<1>2. line.id \in Mail \cup {NoId} BY DEF Stored
<1>3. confirmed' \subseteq Mail /\ IsFiniteSet(confirmed')
  <2>1. confirmed' \subseteq confirmed \cup {line.id} OBVIOUS
  <2>2. IsFiniteSet(confirmed \cup {line.id}) BY <1>1, FS_AddElement
  <2> QED BY <1>1, <1>2, <2>1, <2>2, FS_Subset
<1>4. CASE AlreadyStored(line.id)
  <2>1. UNCHANGED <<messages, file, unfinished>> BY <1>4 DEF Store
  <2>2. Lost' \subseteq Lost BY <1>4, <2>1 DEF Lost, AlreadyStored
  <2>3. Accounted' BY <2>1, <2>2, LessIsLost
  <2>4. InboxTypeOK' BY <1>3, <2>1 DEF InboxInv, InboxTypeOK
  <2>5. Once(messages)' /\ Once(file)' /\ Kept' /\ Torn'
    BY <2>1 DEF InboxInv, Once, Kept, ReadIn, Torn
  <2>6. ReadStaysRead BY <2>1 DEF InboxInv, Kept, ReadStaysRead
  <2> QED BY <1>3, <2>3, <2>4, <2>5, <2>6 DEF InboxInv
<1>5. CASE ~AlreadyStored(line.id)
  <2>1. messages' = Append(messages, line) /\ file' = Written(line) /\ ~unfinished'
    BY <1>5 DEF Store
  <2>2. line.id = NoId \/ line.id \notin Ids(messages) BY <1>5 DEF AlreadyStored
  <2>3. /\ messages' \in Seq(Stored) /\ Ids(messages') = Ids(messages) \cup ({line.id} \ {NoId})
        /\ Once(messages')
        /\ \A m : ReadIn(messages', m) <=> ReadIn(messages, m) \/ (line.id = m /\ line.read)
    BY <1>1, <2>1, <2>2, AppendLine DEF InboxInv
  <2>4. /\ file' \in Seq(Stored) /\ Once(file') /\ Ids(file) \subseteq Ids(file')
        /\ Ids(file') \subseteq Ids(messages')
        /\ \A m \in Mail : ReadIn(file, m) => ReadIn(file', m)
        /\ \A m \in Mail : m \in Ids(file') => \/ m \in Ids(file)
                                               \/ m = line.id /\ (line.read => ReadIn(file', m))
        /\ ~unfinished => Ids(messages') \subseteq Ids(messages) \cup Ids(file')
    <3>1. CASE ~unfinished
      <4>1. file' = Append(file, line) BY <2>1, <3>1 DEF Written
      <4>2. line.id = NoId \/ line.id \notin Ids(file) BY <1>1, <2>2
      <4>3. /\ Append(file, line) \in Seq(Stored)
            /\ Ids(Append(file, line)) = Ids(file) \cup ({line.id} \ {NoId})
            /\ Once(Append(file, line))
            /\ \A m : ReadIn(Append(file, line), m) <=> ReadIn(file, m) \/ (line.id = m /\ line.read)
        BY <1>1, <4>2, AppendLine DEF InboxInv
      <4> QED BY <1>1, <2>3, <4>1, <4>3
    <3>2. CASE unfinished
      <4>1. PICK f : f = Front(file) OBVIOUS
      <4>2. /\ f \in Seq(Stored) /\ Ids(f) = Ids(file) /\ Once(f)
            /\ \A m \in Mail : ReadIn(f, m) <=> ReadIn(file, m)
        BY <1>1, <3>2, <4>1, WithoutTornLine DEF InboxInv, Torn
      <4>3. file' = Append(f, Garbled) BY <2>1, <3>2, <4>1 DEF Written
      <4>4. PICK g \in Stored : g = Garbled BY GarbledIsStored
      <4>5. g.id = NoId /\ ~g.read BY <4>4, GarbledIsStored
      <4>6. /\ Append(f, g) \in Seq(Stored) /\ Ids(Append(f, g)) = Ids(f)
            /\ Once(Append(f, g))
            /\ \A m : ReadIn(Append(f, g), m) <=> ReadIn(f, m)
        <5>1. f \in Seq(Stored) /\ Once(f) BY <4>2
        <5>2. /\ Append(f, g) \in Seq(Stored)
              /\ Ids(Append(f, g)) = Ids(f) \cup ({g.id} \ {NoId})
              /\ Once(Append(f, g))
              /\ \A m : ReadIn(Append(f, g), m) <=> ReadIn(f, m) \/ (g.id = m /\ g.read)
          BY <4>4, <4>5, <5>1, AppendLine
        <5>3. \A m : ReadIn(Append(f, g), m) <=> ReadIn(f, m) BY <4>5, <5>2
        <5> QED BY <4>5, <5>2, <5>3
      <4> QED BY <1>1, <2>3, <3>2, <4>2, <4>3, <4>4, <4>6
    <3> QED BY <3>1, <3>2
  <2>5. Kept' /\ ReadStaysRead
    <3>1. \A m \in Mail : ReadIn(messages, m) => m \in Ids(messages) /\ m # line.id
      BY <1>1, <2>2, IdsAreMail, InboxAssumption
    <3>2. \A m \in Mail : ReadIn(messages, m) /\ m \in Ids(file') => ReadIn(file', m)
      BY <2>4, <3>1 DEF InboxInv, Kept
    <3>3. \A m \in Mail : ReadIn(messages', m) /\ m \in Ids(file') => ReadIn(file', m)
      <4> SUFFICES ASSUME NEW m \in Mail, ReadIn(messages', m), m \in Ids(file')
                   PROVE  ReadIn(file', m)
        OBVIOUS
      <4>1. CASE ReadIn(messages, m) BY <3>2, <4>1
      <4>2. CASE line.id = m /\ line.read
        <5>1. m \notin Ids(messages) BY <4>2, <2>2, InboxAssumption
        <5>2. m \notin Ids(file) BY <1>1, <5>1
        <5> QED BY <2>4, <4>2, <5>2
      <4> QED BY <2>3, <4>1, <4>2
    <3> QED BY <3>2, <3>3 DEF Kept, ReadStaysRead
  <2>6. Accounted'
    <3>1. confirmed' \subseteq confirmed \cup Ids(messages') BY <2>3
    <3>2. CASE ~unfinished
      <4>1. Lost' \subseteq Lost BY <2>3, <2>4, <3>1, <3>2 DEF Lost
      <4> QED BY <2>1, <4>1, LessIsLost
    <3>3. CASE unfinished
      <4>1. Lost' \subseteq Lost \cup {line.id} BY <2>3, <2>4, <3>1 DEF Lost
      <4> QED BY <2>1, <3>3, <4>1, OneIsLost
    <3> QED BY <3>2, <3>3
  <2>7. InboxTypeOK'
    <3>1. (alive => Ids(file) \subseteq Ids(messages))' BY <2>4
    <3>2. messages' \in Seq(Stored) /\ file' \in Seq(Stored) BY <2>3, <2>4
    <3>3. /\ alive' \in BOOLEAN /\ unfinished' \in BOOLEAN /\ lostRewrite' \in BOOLEAN
          /\ tornAppends' \in 0 .. MaxCuts
      BY <1>5 DEF Store, InboxInv, InboxTypeOK
    <3> QED BY <1>3, <3>1, <3>2, <3>3 DEF InboxTypeOK
  <2>8. Torn' BY <2>1 DEF Torn
  <2> QED BY <1>3, <2>3, <2>4, <2>5, <2>6, <2>7, <2>8 DEF InboxInv, Once
<1> QED BY <1>4, <1>5

\* Where nothing is written, what was kept stays kept.
LEMMA FileStands ==
  ASSUME InboxInv, UNCHANGED file PROVE ReadStaysRead
BY DEF InboxInv, Kept, ReadStaysRead

\* Marked is the same list, with every message of the hub read.
LEMMA MarkedIs ==
  ASSUME messages \in Seq(Stored)
  PROVE  /\ Marked \in Seq(Stored) /\ Len(Marked) = Len(messages)
         /\ Ids(Marked) = Ids(messages)
         /\ Once(messages) => Once(Marked)
         /\ \A i \in DOMAIN Marked : Marked[i].id \in Mail => Marked[i].read
<1>1. PICK n \in Nat : n = Len(messages) OBVIOUS
<1>2. DOMAIN messages = 1..n /\ \A i \in 1..n : messages[i] \in Stored BY <1>1
<1>3. PICK t : t = Marked OBVIOUS
<1>4. /\ DOMAIN t = 1..n
      /\ \A i \in 1..n :
           t[i] = IF messages[i].id = NoId THEN messages[i] ELSE [messages[i] EXCEPT !.read = TRUE]
  BY <1>2, <1>3 DEF Marked
<1>5. ASSUME NEW i \in 1..n
      PROVE  t[i] \in Stored /\ t[i].id = messages[i].id /\ (t[i].id \in Mail => t[i].read)
  <2>1. PICK l \in Stored : l = messages[i] BY <1>2
  <2>2. t[i] = IF l.id = NoId THEN l ELSE [l EXCEPT !.read = TRUE] BY <1>4, <2>1
  <2>3. [l EXCEPT !.read = TRUE] \in Stored /\ [l EXCEPT !.read = TRUE].id = l.id
        /\ [l EXCEPT !.read = TRUE].read
    BY <2>1 DEF Stored
  <2>4. CASE l.id = NoId BY <2>1, <2>2, <2>4, InboxAssumption
  <2>5. CASE l.id # NoId BY <2>1, <2>2, <2>3, <2>5
  <2> QED BY <2>4, <2>5
<1>6. t \in Seq(Stored) /\ Len(t) = n
  <2>1. t = [i \in 1..n |-> t[i]] BY <1>3, <1>2 DEF Marked
  <2>2. t \in [1..n -> Stored] BY <1>5, <2>1
  <2> QED BY <1>4, <2>2
<1>7. Ids(t) = Ids(messages) BY <1>2, <1>4, <1>5 DEF Ids
<1>8. Once(messages) => Once(t) BY <1>2, <1>4, <1>5 DEF Once
<1> QED BY <1>1, <1>3, <1>4, <1>5, <1>6, <1>7, <1>8

\* What is in the marked list, or in a part of it, is read there.
LEMMA AllRead ==
  ASSUME NEW s, \A i \in DOMAIN s : s[i].id \in Mail => s[i].read
  PROVE  \A m \in Mail : m \in Ids(s) => ReadIn(s, m)
BY DEF Ids, ReadIn

\* Reading the inbox rewrites the file with all that memory has.
LEMMA GetInboxIsDurable ==
  ASSUME InboxInv, GetInbox PROVE InboxInv' /\ ReadStaysRead
<1>1. /\ messages \in Seq(Stored) /\ file \in Seq(Stored) /\ Ids(file) \subseteq Ids(messages)
  BY DEF InboxInv, InboxTypeOK, GetInbox
<1>2. CASE messages = Marked
  <2>1. UNCHANGED <<alive, messages, file, unfinished, confirmed, tornAppends, lostRewrite>>
    BY <1>2 DEF GetInbox, Rewritten, InboxInv, InboxTypeOK
  <2>2. Lost' = Lost BY <2>1 DEF Lost
  <2>3. Accounted' BY <2>1, <2>2, LessIsLost
  <2>4. InboxTypeOK' /\ Once(messages)' /\ Once(file)' /\ Kept' /\ Torn'
    BY <2>1 DEF InboxInv, InboxTypeOK, Once, Kept, ReadIn, Torn
  <2> QED BY <2>1, <2>3, <2>4, FileStands DEF InboxInv
<1>3. CASE messages # Marked
  <2>1. /\ messages' = Marked /\ file' = Marked /\ unfinished' = FALSE
        /\ UNCHANGED <<alive, confirmed, tornAppends, lostRewrite>>
    BY <1>3 DEF GetInbox, Rewritten
  <2>2. /\ messages' \in Seq(Stored) /\ file' = messages' /\ Ids(messages') = Ids(messages)
        /\ Once(messages')
        /\ \A m \in Mail : m \in Ids(file') => ReadIn(file', m)
    <3>1. PICK s : s = Marked OBVIOUS
    <3>2. /\ s \in Seq(Stored) /\ Ids(s) = Ids(messages) /\ Once(s)
          /\ \A i \in DOMAIN s : s[i].id \in Mail => s[i].read
      BY <1>1, <3>1, MarkedIs DEF InboxInv
    <3>3. \A m \in Mail : m \in Ids(s) => ReadIn(s, m) BY <3>2, AllRead
    <3> QED BY <2>1, <3>1, <3>2, <3>3
  <2>3. Lost' \subseteq Lost BY <1>1, <2>1, <2>2 DEF Lost
  <2>4. Accounted' BY <2>1, <2>3, LessIsLost
  <2>5. InboxTypeOK'
    <3>1. (alive => Ids(file) \subseteq Ids(messages))' BY <2>2
    <3>2. messages' \in Seq(Stored) /\ file' \in Seq(Stored) BY <2>2
    <3> QED BY <2>1, <3>1, <3>2 DEF InboxInv, InboxTypeOK
  <2>6. Once(messages)' /\ Once(file)' /\ Kept' /\ Torn' BY <2>1, <2>2 DEF Once, Kept, Torn
  <2>7. ReadStaysRead BY <2>2 DEF ReadStaysRead
  <2> QED BY <2>1, <2>4, <2>5, <2>6, <2>7 DEF InboxInv
<1> QED BY <1>2, <1>3

\* What dies leaves no memory.
LEMMA DownLeavesFile ==
  ASSUME Down PROVE Ids(messages') = {} /\ Once(messages)' /\ Kept' /\ messages' \in Seq(Stored) /\ ~alive'
<1>1. messages' = <<>> /\ ~alive' BY DEF Down
<1>2. \A m : ~ReadIn(messages', m) BY <1>1, EmptyFile
<1>3. Ids(messages') = {} BY <1>1, EmptyFile
<1>4. Once(messages)' BY <1>1 DEF Once
<1> QED BY <1>1, <1>2, <1>3, <1>4 DEF Kept

\* A death between two operations costs nothing of the file.
LEMMA DiesIsDurable ==
  ASSUME InboxInv, Dies PROVE InboxInv' /\ ReadStaysRead
<1>1. UNCHANGED <<file, unfinished, confirmed, tornAppends, lostRewrite>> /\ Down BY DEF Dies
<1>2. Lost' \subseteq Lost BY <1>1, DownLeavesFile DEF Lost
<1>3. Accounted' BY <1>1, <1>2, LessIsLost
<1>4. InboxTypeOK'
  <2>1. alive' = FALSE BY <1>1 DEF Down
  <2> QED BY <1>1, <2>1, DownLeavesFile DEF InboxInv, InboxTypeOK
<1>5. Once(file)' /\ Torn' BY <1>1 DEF InboxInv, Once, Torn
<1> QED BY <1>1, <1>3, <1>4, <1>5, DownLeavesFile, FileStands DEF InboxInv

\* A death inside an append leaves a torn line, and counts it.
LEMMA DiesInAppendIsDurable ==
  ASSUME InboxInv, NEW m \in Mail, DiesInAppend(m) PROVE InboxInv' /\ ReadStaysRead
<1>1. /\ file \in Seq(Stored) /\ tornAppends \in 0..MaxCuts /\ tornAppends < MaxCuts /\ MaxCuts \in Nat
      /\ alive' = FALSE /\ Down /\ unfinished' = TRUE /\ tornAppends' = tornAppends + 1
      /\ UNCHANGED <<confirmed, lostRewrite>>
      /\ file' = IF unfinished THEN Append(Front(file), Garbled) ELSE Append(file, Garbled)
  BY InboxAssumption DEF InboxInv, InboxTypeOK, DiesInAppend, Down
<1>2. PICK f : f = IF unfinished THEN Front(file) ELSE file OBVIOUS
<1>3. /\ f \in Seq(Stored) /\ Ids(f) = Ids(file) /\ Once(f)
      /\ \A i \in Mail : ReadIn(f, i) <=> ReadIn(file, i)
  <2>1. CASE unfinished BY <1>1, <1>2, <2>1, WithoutTornLine DEF InboxInv, Torn
  <2>2. CASE ~unfinished BY <1>1, <1>2, <2>2 DEF InboxInv
  <2> QED BY <2>1, <2>2
<1>4. PICK g \in Stored : g = Garbled BY GarbledIsStored
<1>5. g.id = NoId /\ ~g.read BY <1>4, GarbledIsStored
<1>6. PICK h : h = Append(f, g) OBVIOUS
<1>7. /\ h \in Seq(Stored) /\ Ids(h) = Ids(f) \cup ({g.id} \ {NoId}) /\ Once(h)
      /\ \A i : ReadIn(h, i) <=> ReadIn(f, i) \/ (g.id = i /\ g.read)
  BY <1>3, <1>4, <1>5, <1>6, AppendLine
<1>8. h # <<>> /\ h[Len(h)] = g BY <1>3, <1>4, <1>6
<1>9. file' = h BY <1>1, <1>2, <1>4, <1>6
<1>10. Ids(h) = Ids(file) BY <1>3, <1>5, <1>7
<1>11. \A i \in Mail : ReadIn(h, i) <=> ReadIn(file, i) BY <1>3, <1>5, <1>7
<1>12. Lost' \subseteq Lost BY <1>1, <1>9, <1>10, DownLeavesFile DEF Lost
<1>13. Accounted'
  <2>1. IsFiniteSet(Lost) /\ Cardinality(Lost) \in Nat BY LostIsFinite
  <2>2. Cardinality(Lost') \in Nat /\ Cardinality(Lost') <= Cardinality(Lost)
    BY <1>12, <2>1, FS_Subset, FS_CardinalityType
  <2>3. Cardinality(Lost)' = Cardinality(Lost') OBVIOUS
  <2>4. ~lostRewrite => Cardinality(Lost) <= tornAppends
    BY <1>1, <2>1 DEF InboxInv, Accounted
  <2> QED BY <1>1, <2>1, <2>2, <2>3, <2>4 DEF Accounted
<1>14. InboxTypeOK'
  <2>1. tornAppends' \in 0..MaxCuts BY <1>1
  <2>2. file' \in Seq(Stored) BY <1>7, <1>9
  <2> QED BY <1>1, <2>1, <2>2, DownLeavesFile DEF InboxInv, InboxTypeOK
<1>15. Once(file)' BY <1>7, <1>9 DEF Once
<1>16. Torn' BY <1>4, <1>8, <1>9 DEF Torn
<1>17. ReadStaysRead BY <1>9, <1>10, <1>11 DEF ReadStaysRead, InboxInv, Kept
<1>18. IsFiniteSet(confirmed)' BY <1>1 DEF InboxInv
<1> QED BY <1>1, <1>13, <1>14, <1>15, <1>16, <1>17, <1>18, DownLeavesFile DEF InboxInv

\* A death inside a rewrite leaves a beginning of it, where everything is read.
LEMMA DiesInRewriteIsDurable ==
  ASSUME InboxInv, DiesInRewrite PROVE InboxInv' /\ ReadStaysRead
<1>1. /\ messages \in Seq(Stored) /\ alive' = FALSE /\ Down /\ lostRewrite' = TRUE
      /\ UNCHANGED <<confirmed, tornAppends>>
  BY DEF InboxInv, InboxTypeOK, DiesInRewrite, Down
<1>2. PICK s : s = Marked OBVIOUS
<1>3. /\ s \in Seq(Stored) /\ Len(s) = Len(messages) /\ Once(s)
      /\ \A i \in DOMAIN s : s[i].id \in Mail => s[i].read
  BY <1>1, <1>2, MarkedIs DEF InboxInv
<1>4. PICK kept \in 0 .. Len(messages) - 1, torn \in BOOLEAN :
        /\ file' = SubSeq(s, 1, kept) \o (IF torn THEN <<Garbled>> ELSE <<>>)
        /\ unfinished' = torn
  BY <1>2 DEF DiesInRewrite
<1>5. kept \in 0..Len(s) /\ kept \in Nat BY <1>1, <1>3
<1>6. PICK p : p = SubSeq(s, 1, kept) OBVIOUS
<1>7. /\ p \in Seq(Stored) /\ Len(p) = kept /\ Once(p)
      /\ \A i \in 1..kept : i \in DOMAIN s /\ p[i] = s[i]
  BY <1>3, <1>5, <1>6, PrefixOfLines
<1>8. \A m \in Mail : m \in Ids(p) => ReadIn(p, m)
  <2>1. DOMAIN p = 1..kept BY <1>7
  <2>2. \A i \in DOMAIN p : p[i].id \in Mail => p[i].read BY <1>3, <1>7, <2>1
  <2> QED BY <2>2, AllRead
<1>9. /\ file' \in Seq(Stored) /\ Once(file') /\ (\A m \in Mail : m \in Ids(file') => ReadIn(file', m))
      /\ (torn => file' # <<>> /\ file'[Len(file')] = Garbled)
  <2>1. CASE ~torn
    <3>1. p \o <<>> = p BY <1>7
    <3>2. file' = p BY <1>4, <1>6, <2>1, <3>1
    <3> QED BY <1>7, <1>8, <2>1, <3>2
  <2>2. CASE torn
    <3>1. PICK g \in Stored : g = Garbled BY GarbledIsStored
    <3>2. g.id = NoId /\ ~g.read BY <3>1, GarbledIsStored
    <3>3. p \o <<g>> = Append(p, g) BY <1>7, <3>1
    <3>4. PICK h : h = Append(p, g) OBVIOUS
    <3>5. file' = h BY <1>4, <1>6, <2>2, <3>1, <3>3, <3>4
    <3>6. /\ h \in Seq(Stored) /\ Ids(h) = Ids(p) \cup ({g.id} \ {NoId}) /\ Once(h)
          /\ \A m : ReadIn(h, m) <=> ReadIn(p, m) \/ (g.id = m /\ g.read)
      BY <1>7, <3>1, <3>2, <3>4, AppendLine
    <3>7. h # <<>> /\ h[Len(h)] = g BY <1>7, <3>1, <3>4
    <3>8. Ids(h) = Ids(p) BY <3>2, <3>6
    <3>9. \A m \in Mail : m \in Ids(h) => ReadIn(h, m) BY <1>8, <3>6, <3>8
    <3> QED BY <3>1, <3>5, <3>6, <3>7, <3>9
  <2> QED BY <2>1, <2>2
<1>10. InboxTypeOK' BY <1>1, <1>4, <1>9, DownLeavesFile DEF InboxInv, InboxTypeOK
<1>11. Accounted' BY <1>1 DEF Accounted
<1>12. Torn' BY <1>4, <1>9 DEF Torn
<1>13. Once(file)' BY <1>9 DEF Once
<1>14. ReadStaysRead BY <1>9 DEF ReadStaysRead
<1>15. IsFiniteSet(confirmed)' BY <1>1 DEF InboxInv
<1> QED BY <1>1, <1>10, <1>11, <1>12, <1>13, <1>14, <1>15, DownLeavesFile DEF InboxInv

\* A restart has in memory what is in the file.
LEMMA RestartsIsDurable ==
  ASSUME InboxInv, Restarts PROVE InboxInv' /\ ReadStaysRead
<1>1. /\ UNCHANGED <<file, unfinished, confirmed, tornAppends, lostRewrite>>
      /\ alive' = TRUE /\ messages' = Loaded /\ file \in Seq(Stored)
  BY DEF Restarts, InboxInv, InboxTypeOK
<1>2. PICK s : s = Loaded OBVIOUS
<1>3. s \in Seq(Stored) /\ Ids(s) = Ids(file) /\ Once(s) /\ \A m : ReadIn(s, m) => ReadIn(file, m)
  BY <1>1, <1>2, LoadedIs DEF InboxInv
<1>4. messages' = s BY <1>1, <1>2
<1>5. Lost' \subseteq Lost BY <1>1, <1>3, <1>4 DEF Lost
<1>6. Accounted' BY <1>1, <1>5, LessIsLost
<1>7. InboxTypeOK'
  <2>1. (alive => Ids(file) \subseteq Ids(messages))' BY <1>1, <1>3, <1>4
  <2>2. messages' \in Seq(Stored) /\ file' \in Seq(Stored) BY <1>1, <1>3, <1>4
  <2> QED BY <1>1, <2>1, <2>2 DEF InboxInv, InboxTypeOK
<1>8. Kept' BY <1>1, <1>3, <1>4 DEF Kept
<1>9. Once(messages)' /\ Once(file)' BY <1>1, <1>3, <1>4 DEF Once, InboxInv
<1>10. Torn' BY <1>1 DEF Torn, InboxInv
<1>11. ReadStaysRead BY <1>1, FileStands
<1> QED BY <1>1, <1>6, <1>7, <1>8, <1>9, <1>10, <1>11 DEF InboxInv

\* Every step keeps the invariant, and what was shown as read.
LEMMA InboxStep == InboxInv /\ [InboxNext]_inboxVars => InboxInv' /\ (ReadStaysRead \/ UNCHANGED inboxVars)
<1> SUFFICES ASSUME InboxInv, [InboxNext]_inboxVars
             PROVE  InboxInv' /\ (ReadStaysRead \/ UNCHANGED inboxVars)
  OBVIOUS
<1>1. ASSUME NEW m \in Mail, OnMessage(m) PROVE InboxInv' /\ ReadStaysRead
  <2>1. PICK line \in Stored : line = [id |-> m, read |-> FALSE] BY DEF Stored
  <2>2. line.id = m /\ {m} \ {NoId} = {m} BY <2>1, InboxAssumption
  <2>3. /\ alive /\ Store(line) /\ confirmed' \in {confirmed, confirmed \cup {m}}
        /\ UNCHANGED <<alive, tornAppends, lostRewrite>>
    BY <1>1, <2>1 DEF OnMessage
  <2> QED BY <2>2, <2>3, StoreIsDurable
<1>2. ASSUME OnLocalSend PROVE InboxInv' /\ ReadStaysRead
  <2>1. PICK line \in Stored : line = [id |-> NoId, read |-> TRUE] BY DEF Stored
  <2>2. alive /\ Store(line) /\ confirmed' = confirmed /\ UNCHANGED <<alive, tornAppends, lostRewrite>>
    BY <1>2, <2>1 DEF OnLocalSend
  <2> QED BY <2>2, StoreIsDurable
<1>3. CASE UNCHANGED inboxVars
  <2>1. Lost' \subseteq Lost BY <1>3 DEF Lost, inboxVars
  <2>2. Accounted' BY <1>3, <2>1, LessIsLost DEF inboxVars
  <2>3. InboxTypeOK' /\ Once(messages)' /\ Once(file)' /\ Kept' /\ Torn' /\ IsFiniteSet(confirmed)'
    BY <1>3 DEF inboxVars, InboxInv, InboxTypeOK, Once, Kept, ReadIn, Torn
  <2> QED BY <1>3, <2>2, <2>3 DEF InboxInv
<1> QED BY <1>1, <1>2, <1>3, DiesInAppendIsDurable, GetInboxIsDurable, DiesIsDurable,
           DiesInRewriteIsDurable, RestartsIsDurable DEF InboxNext

\* The invariant holds in an empty inbox.
LEMMA InitInbox == InboxInit => InboxInv
<1> SUFFICES ASSUME InboxInit PROVE InboxInv OBVIOUS
<1>1. messages = <<>> /\ file = <<>> /\ confirmed = {} /\ unfinished = FALSE /\ tornAppends = 0
      /\ alive = TRUE /\ lostRewrite = FALSE
  BY DEF InboxInit
<1>2. Ids(messages) = {} /\ Ids(file) = {} BY <1>1, EmptyFile
<1>3. Once(messages) /\ Once(file) BY <1>1, EmptyFile
<1>4. Kept BY <1>2 DEF Kept
<1>5. Accounted
  <2>1. Lost = {} BY <1>1, <1>2 DEF Lost
  <2> QED BY <1>1, <2>1, FS_EmptySet DEF Accounted
<1>6. InboxTypeOK
  <2>1. <<>> \in Seq(Stored) OBVIOUS
  <2>2. 0 \in 0 .. MaxCuts BY InboxAssumption
  <2> QED BY <1>1, <1>2, <2>1, <2>2 DEF InboxTypeOK
<1>7. IsFiniteSet(confirmed) BY <1>1, FS_EmptySet
<1> QED BY <1>1, <1>3, <1>4, <1>5, <1>6, <1>7 DEF InboxInv, Torn

\* The invariant of the message store.
LEMMA InboxInvariant == InboxSpec => []InboxInv
BY InitInbox, InboxStep, PTL DEF InboxSpec

\* What the invariant says of the two promises of the store.
LEMMA Readable == InboxInv => ConfirmedIsReadable /\ StoredAtMostOnce
<1> SUFFICES ASSUME InboxInv PROVE ConfirmedIsReadable /\ StoredAtMostOnce OBVIOUS
<1>1. IsFiniteSet(Lost) /\ Cardinality(Lost) \in Nat /\ tornAppends \in Nat BY LostIsFinite
<1>2. confirmed \ Ids(file) \subseteq Lost BY DEF Lost
<1>3. Cardinality(confirmed \ Ids(file)) \in Nat /\ Cardinality(confirmed \ Ids(file)) <= Cardinality(Lost)
  BY <1>1, <1>2, FS_Subset, FS_CardinalityType
<1>4. ConfirmedIsReadable BY <1>1, <1>3 DEF ConfirmedIsReadable, InboxInv, Accounted
<1>5. StoredAtMostOnce BY DEF StoredAtMostOnce, InboxInv, Once
<1> QED BY <1>4, <1>5

\* Every variable of the message store has its type, and a living daemon knows
\* every message that is in its file, whatever died before.
THEOREM InboxTypesHold == InboxSpec => []InboxTypeOK
BY InboxInvariant, PTL DEF InboxInv

\* Whatever dies and wherever, and however often the hub redelivers: no message
\* is in the inbox twice, what the hub has an ack for can be read after a restart
\* (but for one per torn append and for a rewrite cut short), and what was shown
\* as read never comes back as unread.
THEOREM InboxIsDurableAlways == InboxSpec => InboxIsDurable
<1>1. InboxInv' => (ConfirmedIsReadable /\ StoredAtMostOnce)'
  BY Readable, PTL
<1>2. InboxInv /\ [InboxNext]_inboxVars
        => [(ConfirmedIsReadable /\ StoredAtMostOnce)' /\ ReadStaysRead]_inboxVars
  BY <1>1, InboxStep
<1> QED BY <1>2, InboxInvariant, PTL DEF InboxSpec, InboxIsDurable

-----------------------------------------------------------------------------
(* Both parts of the daemon *)

\* Each part takes its own steps or none, so that what is proved of it alone holds
\* of the daemon.
LEMMA DaemonIsItsParts == DaemonSpec => AutoSpec /\ InboxSpec
<1>1. DaemonInit => AutoInit /\ InboxInit
  BY DEF DaemonInit
<1>2. [DaemonNext]_daemonVars => [AutoNext]_autoVars /\ [InboxNext]_inboxVars
  BY Zenon DEF DaemonNext, daemonVars
<1> QED BY <1>1, <1>2, PTL DEF DaemonSpec, AutoSpec, InboxSpec

\* Every variable of the daemon has its type.
THEOREM DaemonTypesHold == DaemonSpec => []DaemonTypeOK
BY DaemonIsItsParts, AutoTypesHold, InboxTypesHold, PTL DEF DaemonTypeOK

\* The whole daemon keeps to its caps, its budgets, its owner's rules and its
\* file, for every value of the constants.
THEOREM DaemonIsSafe ==
  DaemonSpec => []ThreadIsBounded /\ RunsAreMetered /\ OwnerRules /\ InboxIsDurable
BY DaemonIsItsParts, ThreadIsBoundedAlways, RunsAreMeteredAlways, OwnerRulesAlways,
   InboxIsDurableAlways, PTL
=============================================================================
