---------------------------- MODULE AutoRespond ----------------------------
(* The auto-responder of one daemon: what a message of the hub triggers      *)
(* (daemon/index.ts), the limits and the headless runs of                    *)
(* daemon/auto-responder.ts, the daily budget of daemon/usage-tracker.ts,    *)
(* and scheduled tasks.  A trigger runs up to the spawn of the model without *)
(* yielding, and so does all that follows the end of the run: each is one    *)
(* action; runs overlap.                                                     *)
EXTENDS Integers, Sequences, FiniteSetsExt

CONSTANTS
  Asks,      \* request or task messages of the hub, by id
  Roots,     \* those of them that have no thread: they open a conversation
  Elsewhere, \* those of them that belong to other conversations
  Slots,     \* runs that may overlap
  Profiles,  \* settings records the owner may save
  Rules,     \* what a deny rule may protect
  MaxHops, Recent,     \* MAX_AUTO_REPLIES_PER_THREAD; conversation(from, 50)
  Costs,               \* tokens a run may take
  Hour, Day,           \* lengths in clock ticks
  MaxTime, MaxTalk, MaxTurns  \* bounds of the exploration

Task == "task"         \* what a scheduled run answers, instead of a message
Nothing == [what |-> "none"]
Tools == {"Read", "Edit", "Write"}
SettingsSpace ==
  [auto : BOOLEAN, paused : BOOLEAN, approval : BOOLEAN, write : BOOLEAN,
   trusted : BOOLEAN, deny : SUBSET Rules, perHour : Nat, cap : Nat,
   hours : SUBSET (0 .. Day - 1)]

ASSUME AutoRespondAssumption ==
  /\ Roots \cup Elsewhere \subseteq Asks /\ {Task, Nothing.what} \cap Asks = {}
  /\ Profiles \subseteq SettingsSpace
  /\ {MaxHops, Recent, Hour, Day} \subseteq Nat \ {0}
  /\ {MaxTime, MaxTalk, MaxTurns} \cup Costs \subseteq Nat

VARIABLES
  time,
  turns,             \* how often settings, socket or process changed
  up, online,        \* the process lives; its socket is open
  settings, enabled, \* hub.settings and hub.autoResponderEnabled
  talk,              \* the conversation: TRUE is our reply in the thread
  reserved,          \* inFlightByThread of the thread
  runs,              \* the runs in progress
  repliesThisHour,   \* the starts the hourly limit remembers
  tokens, disk,      \* DailyUsageTracker.state, and its file
  shown,             \* the "responding" hint the panel shows
  report,            \* the guard rails the last report told, and those of its run
  begun,             \* history: the starts of this life
  real, missed,      \* history: tokens by day; those a dead process never saved
  hops, unlogged,    \* history: replies sent in the thread; those not stored
  unguarded,         \* history: replies sent to roots
  left               \* history: the hub did not clear the hint of the last session
meterVars == <<tokens, disk, real, missed>>
hopVars == <<hops, unlogged, unguarded>>
hintVars == <<shown, left>>
clockVars == <<time, turns>>
linkVars == <<up, online, settings, enabled>>
autoVars == <<clockVars, linkVars, talk, reserved, runs, repliesThisHour, begun,
              meterVars, hintVars, report, hopVars>>

None == [write |-> FALSE, deny |-> {}]
Unreadable == [text |-> "cut"]  \* no file, or one that does not parse
Today == time \div Day
Days == 0 .. MaxTime \div Day
Live == {s \in Slots : runs[s] # Nothing}
InThread(m) == m \in Asks \ (Roots \cup Elsewhere)

AutoInit ==
  /\ time = 0 /\ turns = 0 /\ up = TRUE /\ online = TRUE
  /\ settings \in Profiles /\ enabled \in BOOLEAN
  /\ talk = <<>> /\ reserved = 0 /\ runs = [s \in Slots |-> Nothing]
  /\ repliesThisHour = {} /\ begun = {}
  /\ tokens = [day |-> 0, spent |-> 0] /\ disk = Unreadable
  /\ real = [d \in Days |-> 0] /\ missed = [d \in Days |-> 0]
  /\ shown = "idle" /\ left = FALSE /\ report = [told |-> None, had |-> None]
  /\ hops = 0 /\ unlogged = 0 /\ unguarded = 0

-----------------------------------------------------------------------------
(* Settings to tool flags and deny rules.                                    *)

\* buildGuardrails
Guardrails(s, trusted) ==
  [write |-> s.write,
   deny |-> IF trusted THEN {}
            ELSE (IF s.write THEN Tools ELSE {"Read"}) \X s.deny]

-----------------------------------------------------------------------------
(* The limits.                                                               *)

\* The starts of the hour that ends with tick t.
HourTo(starts, t) == {b \in starts : t - Hour < b.at /\ b.at <= t}

WithinSchedule(s) == (time % Day) \in s.hours

\* roll: a new day starts from zero.
Rolled == IF tokens.day = Today THEN tokens ELSE [day |-> Today, spent |-> 0]

Exceeds(s) == Rolled.spent >= s.cap

\* persist, best effort: the old file may stay, or the new one be cut short.
Persisted(written) == disk' \in written \cup {disk, Unreadable}

\* The roll of exceeds.
RollsOver ==
  /\ tokens' = Rolled /\ UNCHANGED <<real, missed>>
  /\ IF tokens.day = Today THEN disk' = disk ELSE Persisted({Rolled})

\* Bug variant: the starts of the last hour are not kept.
AllowedByRateOfTick(s) == Cardinality({b \in repliesThisHour : b.at = time}) < s.perHour

\* allowByRate: the starts younger than one hour.
AllowedByRate(s) == Cardinality(HourTo(repliesThisHour, time)) < s.perHour

\* Bug variant: the runs in progress are not counted.
ReservationsIgnored(window) == Cardinality(window) >= MaxHops

\* The loop guard, on the replies among the latest messages.
LoopGuard(window) == Cardinality(window) + reserved >= MaxHops

\* Indexes of our replies among the last messages of the conversation.
RepliesIn(s) == {i \in DOMAIN s : s[i] /\ i > Len(s) - Recent}

-----------------------------------------------------------------------------
(* A message arrives.                                                        *)

NoRun == UNCHANGED <<reserved, runs, begun, hopVars>>

\* A message that triggers nothing: one of another type, an automatic reply, or
\* one this side sent by hand.
Chatter ==
  /\ up /\ Len(talk) < MaxTalk /\ talk' = Append(talk, FALSE)
  /\ NoRun /\ UNCHANGED <<clockVars, linkVars, repliesThisHour, meterVars, hintVars, report>>

Trusted(what, s) == what # Task /\ s.trusted

Started(slot, what, s) ==
  runs' = [runs EXCEPT ![slot] =
            [what |-> what, settings |-> s, guard |-> Guardrails(s, Trusted(what, s))]]

\* Bug variant: the report is built from the settings of the moment.
ToldOfNow(m, s) == Guardrails(settings, Trusted(m, settings))

\* reportRun computes the guard rails again.
Told(m, s) == Guardrails(s, Trusted(m, s))

Report(m, s, guard) == report' = IF online THEN [told |-> Told(m, s), had |-> guard] ELSE report

\* The gates of maybeAutoRespond before the loop guard.
Considered == enabled /\ ~settings.paused

\* handle refuses before the model is spawned: the first reason that holds.
Refusal ==
  CASE ~settings.auto -> "mode_inbox"
    [] settings.auto /\ ~WithinSchedule(settings) -> "outside_hours"
    [] settings.auto /\ WithinSchedule(settings) /\ Exceeds(settings) -> "budget_exceeded"
    [] settings.auto /\ WithinSchedule(settings) /\ ~Exceeds(settings)
         /\ ~AllowedByRate(settings) -> "rate_limited"
    [] OTHER -> "none"

\* The store takes the message (a redelivered one is there already), and the
\* gates are passed in their order.
OnMessageOf(m) ==
  /\ up /\ online
  /\ \E again \in BOOLEAN :
       talk' = IF again \/ m \in Elsewhere THEN talk ELSE Append(talk, FALSE)
  /\ Len(talk') <= MaxTalk

\* The guard of its thread stops the message; a root has no thread and no guard.
Stopped(m) == InThread(m) /\ LoopGuard(RepliesIn(talk'))

\* Threads elsewhere have guards of their own.
Ignored(m) ==
  /\ OnMessageOf(m)
  /\ Considered => Stopped(m) \/ m \in Elsewhere
  /\ NoRun /\ UNCHANGED <<clockVars, linkVars, repliesThisHour, meterVars, hintVars, report>>

\* The activity frame that ends a hint.
HintSaysIdle == shown' = "idle" /\ left' = FALSE

\* handle returns without a run; the reservation is released at once.
Refused(m) ==
  /\ OnMessageOf(m) /\ Considered /\ ~Stopped(m)
  /\ Refusal # "none"
  /\ IF settings.auto THEN Report(m, settings, Told(m, settings)) /\ HintSaysIdle
     ELSE UNCHANGED <<report, hintVars>>
  /\ IF Refusal \in {"budget_exceeded", "rate_limited"} THEN RollsOver ELSE UNCHANGED meterVars
  /\ repliesThisHour' = IF Refusal = "rate_limited" THEN HourTo(repliesThisHour, time)
                                                    ELSE repliesThisHour
  /\ NoRun /\ UNCHANGED <<clockVars, linkVars>>

RunStarts(m, slot) ==
  LET start == [at |-> time, no |-> Cardinality(begun) + 1]
  IN  /\ runs[slot] = Nothing
      /\ OnMessageOf(m) /\ Considered /\ ~Stopped(m)
      /\ Refusal = "none"
      /\ Started(slot, m, settings)
      /\ reserved' = reserved + (IF InThread(m) THEN 1 ELSE 0)
      /\ repliesThisHour' = HourTo(repliesThisHour, time) \cup {start}
      /\ begun' = begun \cup {start}
      /\ RollsOver /\ shown' = "responding" /\ left' = FALSE
      /\ UNCHANGED <<clockVars, linkVars, report, hopVars>>

-----------------------------------------------------------------------------
(* A run ends: its output is parsed, charged, scanned and acted upon.        *)

\* Bug variant: a failed run keeps its reservation.
ReleasedOnSuccess(m, result) ==
  reserved - (IF InThread(m) /\ result # "failed" THEN 1 ELSE 0)

\* Bug variant: a failed run gives its place back twice.
ReleasedTwice(m, result) ==
  reserved - (IF ~InThread(m) THEN 0 ELSE IF result = "failed" THEN 2 ELSE 1)

\* The finally of maybeAutoRespond.
Released(m, result) == reserved - (IF InThread(m) THEN 1 ELSE 0)

Charged(cost) == [Rolled EXCEPT !.spent = @ + cost]

\* DailyUsageTracker.add: a roll, when one is due, and the charge.
Spends(cost) ==
  /\ tokens' = Charged(cost) /\ real' = [real EXCEPT ![Today] = @ + cost]
  /\ Persisted({Charged(cost)} \cup (IF tokens.day = Today THEN {} ELSE {Rolled}))

\* An output may come without its usage: nothing is added.
Metered == (\E cost \in Costs : Spends(cost)) \/ UNCHANGED <<tokens, disk, real>>

\* Bug variant: the hint is cleared only by a run that had an output.
HintClearedOnSuccess(result) ==
  IF online /\ result # "failed" THEN HintSaysIdle ELSE UNCHANGED hintVars

\* sendActivity("idle") is dropped when the socket is closed.
HintCleared(result) == IF online THEN HintSaysIdle ELSE UNCHANGED hintVars

\* Bug variant: the owner's wish is read when the run ends.
NeedsOwnerNow(run) == settings.approval

NeedsOwner(run) == run.settings.approval

Ended(slot, result) ==
  LET m == runs[slot].what
  IN  /\ up /\ m # "none" /\ m # Task
      /\ runs' = [runs EXCEPT ![slot] = Nothing]
      /\ reserved' = Released(m, result) /\ HintCleared(result)
      /\ Metered /\ UNCHANGED <<clockVars, linkVars, repliesThisHour, begun, missed>>

Reports(slot) == Report(runs[slot].what, runs[slot].settings, runs[slot].guard)

\* A timeout, a failed spawn or exit, an output too long or not understood, or
\* an empty one, which is charged.
RunFails(slot) ==
  Ended(slot, "failed") /\ Reports(slot) /\ UNCHANGED <<talk, hopVars>>

\* A text with a secret is withheld, the escalation sentinel answers nothing:
\* the sender gets a notice, which the store does not keep.
RunIsWithheld(slot) == \E result \in {"blocked", "escalate"} :
  Ended(slot, result) /\ Reports(slot) /\ UNCHANGED <<talk, hopVars>>

\* The draft goes to the hub, which asks the owner.
RunIsDrafted(slot) ==
  /\ Ended(slot, "needs_approval") /\ NeedsOwner(runs[slot])
  /\ UNCHANGED <<talk, report, hopVars>>

\* The history of a reply sent to m.
Sends(m) ==
  /\ hops' = hops + (IF InThread(m) THEN 1 ELSE 0)
  /\ unguarded' = unguarded + (IF m \in Roots THEN 1 ELSE 0)

\* The reply is sent if the socket is open, and then stored, under the thread of
\* its message: one to a root under none.
RunIsReplied(slot) ==
  LET m == runs[slot].what
      sent == online /\ m \notin Elsewhere
  IN  /\ Ended(slot, "replied") /\ ~NeedsOwner(runs[slot]) /\ Reports(slot)
      /\ IF sent THEN Sends(m) /\ unlogged' = unlogged ELSE UNCHANGED hopVars
      /\ talk' = IF sent THEN Append(talk, InThread(m)) ELSE talk
      /\ Len(talk') <= MaxTalk

-----------------------------------------------------------------------------
(* Scheduled tasks, settings, the connection and the process.                *)

\* runScheduledTask: no gate, no limit, no charge; the frame says whether the
\* task may write.
TaskStarts(slot) ==
  /\ up /\ online /\ runs[slot] = Nothing /\ \A s \in Slots : runs[s].what # Task
  /\ \E writable \in BOOLEAN : Started(slot, Task, [settings EXCEPT !.write = writable])
  /\ UNCHANGED <<clockVars, linkVars, talk, reserved, repliesThisHour, begun, meterVars, hintVars, report, hopVars>>

TaskEnds(slot) ==
  /\ runs[slot].what = Task /\ runs' = [runs EXCEPT ![slot] = Nothing]
  /\ UNCHANGED <<clockVars, linkVars, talk, reserved, repliesThisHour, begun, meterVars, hintVars, report, hopVars>>

\* settings_update and kill_switch frames.
Reconfigured ==
  /\ up /\ online /\ turns < MaxTurns /\ turns' = turns + 1
  /\ settings' \in Profiles /\ enabled' \in BOOLEAN
  /\ UNCHANGED <<time, up, online, talk, repliesThisHour, meterVars, hintVars, report>> /\ NoRun

\* The hub clears the hint when it removes a session.  It has nothing to remove
\* when a kick was first, or when the next session replaces this one.
SessionEnds ==
  \/ shown' = "idle" /\ left' = FALSE
  \/ shown' = shown /\ left' = TRUE

\* The socket closes: what was sent may be lost.
Disconnected ==
  /\ online /\ turns < MaxTurns /\ turns' = turns + 1
  /\ online' = FALSE /\ SessionEnds
  /\ UNCHANGED <<time, up, settings, enabled, talk, repliesThisHour, meterVars, report>> /\ NoRun

\* The hub finds a dead session before the next one comes.
HubNotices ==
  /\ ~online /\ left /\ HintSaysIdle
  /\ UNCHANGED <<clockVars, linkVars, talk, repliesThisHour, meterVars, report>> /\ NoRun

\* hello_ack brings the settings of the moment.
Reconnected ==
  /\ up /\ ~online /\ online' = TRUE /\ settings' \in Profiles /\ enabled' \in BOOLEAN
  /\ UNCHANGED <<clockVars, up, talk, repliesThisHour, meterVars, hintVars, report>> /\ NoRun

\* The tokens that only memory knows.
Unsaved == tokens.spent - (IF disk # Unreadable /\ disk.day = tokens.day THEN disk.spent ELSE 0)

Crashed ==
  /\ up /\ turns < MaxTurns /\ turns' = turns + 1
  /\ up' = FALSE /\ online' = FALSE
  /\ IF online THEN SessionEnds ELSE UNCHANGED hintVars
  /\ runs' = [s \in Slots |-> Nothing] /\ reserved' = 0
  /\ repliesThisHour' = {} /\ begun' = {}
  /\ missed' = [missed EXCEPT ![tokens'.day] = @ + Unsaved']
  /\ UNCHANGED <<time, settings, enabled>>

\* The process dies: the promises of its runs are gone.
DaemonDies == UNCHANGED <<talk, tokens, disk, real, report, hopVars>> /\ Crashed

\* It dies after a reply left and before the store has it.
DiesBeforeLog(slot) ==
  LET m == runs[slot].what
  IN  /\ online /\ m \in Asks \ Elsewhere /\ ~NeedsOwner(runs[slot])
      /\ Metered /\ Crashed /\ Sends(m)
      /\ unlogged' = unlogged + (IF InThread(m) THEN 1 ELSE 0)
      /\ UNCHANGED <<talk, report>>

\* Bug variant: the budget starts again with the process.
LoadedAfresh == [day |-> Today, spent |-> 0]

\* DailyUsageTracker.load
LoadedTokens == IF disk = Unreadable THEN [day |-> Today, spent |-> 0] ELSE disk

Restarted ==
  /\ ~up /\ up' = TRUE /\ tokens' = LoadedTokens
  /\ UNCHANGED <<clockVars, online, settings, enabled, talk, repliesThisHour, disk, real, missed, hintVars, report>>
  /\ NoRun

Tick ==
  /\ time < MaxTime /\ time' = time + 1
  /\ UNCHANGED <<turns, linkVars, talk, repliesThisHour, meterVars, hintVars, report>> /\ NoRun

AutoNext ==
  \/ \E m \in Asks : Ignored(m) \/ Refused(m)
  \/ \E m \in Asks, s \in Slots : RunStarts(m, s)
  \/ \E s \in Slots : \/ RunFails(s) \/ RunIsWithheld(s) \/ RunIsDrafted(s) \/ RunIsReplied(s)
                       \/ TaskStarts(s) \/ TaskEnds(s) \/ DiesBeforeLog(s)
  \/ Chatter \/ Reconfigured \/ Disconnected \/ HubNotices \/ Reconnected
  \/ DaemonDies \/ Restarted \/ Tick

AutoSpec == AutoInit /\ [][AutoNext]_autoVars

-----------------------------------------------------------------------------
Guards == [write : BOOLEAN, deny : SUBSET (Tools \X Rules)]
RunSpace == [what : Asks \cup {Task}, settings : SettingsSpace, guard : Guards]

\* Every variable has its type, and no day is in the future.
AutoTypeOK ==
  /\ time \in 0 .. MaxTime /\ turns \in 0 .. MaxTurns
  /\ {up, online, enabled, left} \subseteq BOOLEAN /\ settings \in Profiles
  /\ talk \in Seq(BOOLEAN) /\ reserved \in Nat
  /\ runs \in [Slots -> RunSpace \cup {Nothing}]
  /\ \A b \in begun : b.at \in 0 .. time
  /\ tokens.day \in 0 .. Today /\ tokens.spent \in Nat
  /\ disk # Unreadable => disk.day \in 0 .. Today /\ disk.spent \in Nat
  /\ shown \in {"idle", "responding"}
  /\ report \in [told : Guards, had : Guards]

\* One conversation gets at most MaxHops automatic answers in a thread, however
\* its triggers overlap, are redelivered or meet a reconnection, as long as the
\* thread is among the last messages the daemon looks at; each crash between
\* the sending and the storing of an answer allows one more.  Answers to roots
\* come on top: the guard neither stops nor counts them, a redelivered root is
\* answered again, and only the hourly limit bounds them.
HopCap == Len(talk) <= Recent => hops - unlogged <= MaxHops

\* What is reserved is what runs: a run that fails, is withheld or is drafted
\* gives its place back, and none gives it back twice.
ReservedIsRunning == reserved = Cardinality({s \in Live : InThread(runs[s].what)})

\* In one life of the daemon, no hour has more starts than the most generous
\* settings allow, wherever the hour begins and however the settings changed in
\* it; the answers to roots, which no thread bounds, are among them.
HourlyCap ==
  \A t \in 0 .. MaxTime : HourTo(begun, t) # {} =>
    \E p \in Profiles : Cardinality(HourTo(begun, t)) <= p.perHour

Begins(s) == runs[s] = Nothing /\ runs'[s] # Nothing /\ runs'[s].what # Task

\* No run starts when the spending of the local day reached the cap, whatever
\* was rolled, saved in vain or restarted: only runs that were already going can
\* exceed it, and only what a dead process had not on disk is forgotten.
DailyBudget ==
  \A s \in Slots : Begins(s) => real[Today] - missed[Today] < settings.cap

\* A reply leaves without the owner only from a run that was begun without
\* require_approval, whatever was switched while it ran.
OwnerIsAsked ==
  hops' > hops \/ unguarded' > unguarded => \E s \in Slots :
    runs[s] # Nothing /\ runs'[s] = Nothing /\ ~runs[s].settings.approval

\* Every run but that of a trusted sender is denied every protected rule for
\* every tool it may use, a scheduled one too, whatever posture its frame gave,
\* and a report tells the guard rails its run really had.
GuardrailsHold ==
  /\ \A s \in Live : LET r == runs[s] IN
       (r.what = Task \/ ~r.settings.trusted) =>
         (IF r.guard.write THEN Tools ELSE {"Read"}) \X r.settings.deny \subseteq r.guard.deny
  /\ report.told = report.had

\* The hint "responding" is left over only by a session that was kicked or
\* replaced, and only until the next signal: otherwise, when no reply is in the
\* making or the agent is away, the panel shows it idle.
HintIsNotStuck ==
  ~left /\ ((\A s \in Live : runs[s].what = Task) \/ ~online) => shown = "idle"

\* A thread of automatic answers is bounded, and its places are given back.
ThreadIsBounded == HopCap /\ ReservedIsRunning

\* The hour and the day are metered.
RunsAreMetered == [][HourlyCap' /\ DailyBudget]_autoVars

\* The owner's guardrails reach the run, and the panel tells what goes on.
OwnerRules == [][(GuardrailsHold /\ HintIsNotStuck)' /\ OwnerIsAsked]_autoVars
=============================================================================
