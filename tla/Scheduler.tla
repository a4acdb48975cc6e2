----------------------------- MODULE Scheduler -----------------------------
(* Scheduled tasks of one agent: the tick of the engine                      *)
(* (services/scheduler_engine.py) against the owner's changes                *)
(* (services/schedule_service.py), the daemon's reports, the two switches    *)
(* and a halt.  The tick reads its due rows at once and then works on these  *)
(* copies, and so does each of the owner's requests with its row; only the   *)
(* columns a session changed are written, at its commit.  The                *)
(* first flush of a tick takes SQLite's write lock until that commit; the    *)
(* agent is not read again for the later rows, which are not flushed early.  *)
EXTENDS Naturals

CONSTANTS Schedules,
          Editors,   \* the owner's requests the hub serves at a time
          MaxEvents, \* bound of the exploration: due times, changes and halts
          MaxEdits   \* bound of the exploration: the owner asks among the first MaxEdits
ASSUME SchedulerAssumption == MaxEvents \in Nat /\ MaxEdits \in Nat

VARIABLES row,      \* the rows of agent_schedules
          past,     \* schedules whose `once` instant has passed
          engine,   \* the tick in progress
          autoOn, agentPaused, agentUp, \* kill switch, pause, open socket
          running,  \* runs whose result the daemon has not reported
          reporting,\* the report the hub is storing
          editing,  \* the change each of the owner's requests has in hand
          owed, answer,     \* history: due and not yet sent; the report in force
          crossed, refired, \* history: schedules changed or reported around their
                            \* claim; sent, then lost by a halt
          entwined, \* history: schedules two of the owner's requests held at once
          events
scheduleVars == <<row, past, engine, autoOn, agentPaused, agentUp, running, reporting,
                  editing, owed, answer, crossed, refired, entwined, events>>
ownerState == <<editing, entwined>>
linkState == <<autoOn, agentPaused, agentUp>>

Specs == {"every", "once"}      \* interval or cron; a single instant
Rest == [at |-> "rest"]
NewRow(spec) == [enabled |-> TRUE, spec |-> spec, next |-> "later", by |-> spec, last |-> "never"]
Rows == [enabled : BOOLEAN, spec : Specs, next : {"none", "later", "due"},
         by : Specs \cup {"now"}, last : {"never", "running", "skipped", "ok", "gone"}]
Exists(s) == row[s].last # "gone"

\* Bug variant: a past instant is returned all the same.
NextRunAtInstant(s, spec) == IF spec = "once" /\ s \in past THEN "due" ELSE "later"

\* next_run, of this row or its copy.
NextRun(s, spec) == IF spec = "once" /\ s \in past THEN "none" ELSE "later"

SchedulerInit ==
  /\ \E spec \in [Schedules -> Specs] : row = [s \in Schedules |-> NewRow(spec[s])]
  /\ past = {} /\ engine = Rest
  /\ autoOn = TRUE /\ agentPaused = FALSE /\ agentUp = TRUE
  /\ running = {} /\ reporting = Rest /\ editing = [e \in Editors |-> Rest]
  /\ owed = {} /\ answer = [s \in Schedules |-> "none"]
  /\ crossed = {} /\ refired = {} /\ entwined = {} /\ events = 0

Ticking == engine # Rest
Locked == Ticking /\ engine.locked       \* every other writer waits
AtWork == IF Ticking THEN engine.left \cup engine.now ELSE {}
Event == events < MaxEvents /\ events' = events + 1
Due(s) == row[s].enabled /\ row[s].next = "due"

-----------------------------------------------------------------------------
(* The owner, through ScheduleService: a request reads the row, computes the *)
(* new one, and its commit writes the columns that differ from what it read. *)

InHand(s) == \E e \in Editors : editing[e] # Rest /\ editing[e].of = s

\* A row the tick has read changes: the tick goes on with its copy.
Crossing(s) ==
  /\ crossed' = crossed \cup (AtWork \cap {s})
  /\ engine' = IF s \in AtWork THEN [engine EXCEPT !.touched = TRUE] ELSE engine

\* A request, the first that is free, takes the row in hand.
TakesInHand(e, s, change) ==
  /\ Event /\ events < MaxEdits
  /\ Exists(s) /\ editing[e] = Rest /\ e = CHOOSE f \in Editors : editing[f] = Rest
  /\ editing' = [editing EXCEPT ![e] = change]
  /\ entwined' = entwined \cup {t \in {s} : InHand(t)}
  /\ crossed' = crossed \cup (AtWork \cap {s})
  /\ UNCHANGED <<row, past, engine, linkState, running, reporting, owed, answer, refired>>

\* Bug variant: disabling leaves the row armed.
ArmedAlways(enabled, lapsed) == IF lapsed THEN "none" ELSE "later"

\* update: the next run follows from the timing and the switch.
Armed(enabled, lapsed) == IF enabled /\ ~lapsed THEN "later" ELSE "none"

\* Whether the instant of the timing to be stored has passed: for a single
\* instant this is known if the row is armed by it or was, and open otherwise.
Lapsed(s, spec) ==
  IF spec = "same" /\ row[s].spec = "once"
  THEN IF s \in past THEN {TRUE} ELSE IF row[s].next = "later" THEN {FALSE} ELSE BOOLEAN
  ELSE IF spec = "once" THEN BOOLEAN ELSE {FALSE}

\* Bug variant: another timing does not arm the row again.
MovesByTheSwitch(s, spec, next) == {next # row[s].next}

\* Whether the next run differs from the one read: another timing gives another
\* instant, the same instant stays, a cron expression may give the same.
Moves(s, spec, next) ==
  IF next # row[s].next THEN {TRUE}
  ELSE IF next = "none" \/ (spec = "same" /\ row[s].by = "once") THEN {FALSE}
  ELSE IF spec = "same" THEN BOOLEAN ELSE {TRUE}

\* update: another timing or the same one, switched on or off.
UpdateLoads(e, s) ==
  \E spec \in Specs \cup {"same"}, enabled \in BOOLEAN : \E lapsed \in Lapsed(s, spec) :
    LET to   == IF spec = "same" THEN row[s].spec ELSE spec
        next == Armed(enabled, lapsed)
    IN \E moves \in Moves(s, spec, next) :
         TakesInHand(e, s, [of |-> s, enabled |-> enabled, spec |-> to, next |-> next, by |-> to,
           switches |-> enabled # row[s].enabled, retimes |-> spec # "same", moves |-> moves,
           lapsed |-> lapsed])

RunNowLoads(e, s) ==
  TakesInHand(e, s, [of |-> s, enabled |-> TRUE, spec |-> row[s].spec, next |-> "due", by |-> "now",
    switches |-> ~row[s].enabled, retimes |-> FALSE, moves |-> TRUE, lapsed |-> FALSE])

\* The row with the columns that differ from what was read.
Edited(old, change) ==
  [old EXCEPT !.enabled = IF change.switches THEN change.enabled ELSE @,
              !.spec = IF change.retimes THEN change.spec ELSE @,
              !.next = IF change.moves THEN change.next ELSE @,
              !.by = IF change.moves THEN change.by ELSE @]

\* A row deleted meanwhile fails the request.
EditSaves(e) ==
  /\ editing[e] # Rest /\ ~Locked /\ editing' = [editing EXCEPT ![e] = Rest]
  /\ LET s == editing[e].of IN
     IF Exists(s)
     THEN /\ row' = [row EXCEPT ![s] = Edited(@, editing[e])]
          /\ past' = IF editing[e].lapsed THEN past \cup {s}
                     ELSE IF editing[e].retimes THEN past \ {s} ELSE past
          /\ owed' = IF editing[e].by = "now" THEN owed \cup {s} ELSE owed
          /\ Crossing(s)
     ELSE UNCHANGED <<row, past, owed, crossed, engine>>
  /\ UNCHANGED <<linkState, running, reporting, answer, refired, entwined, events>>

\* A save that waits too long for the lock raises.
EditFails(e) ==
  /\ editing[e] # Rest /\ Locked /\ editing' = [editing EXCEPT ![e] = Rest]
  /\ UNCHANGED <<row, past, engine, linkState, running, reporting, owed, answer, crossed,
                 refired, entwined, events>>

\* delete writes nothing of what it read.
DeleteSchedule(s) ==
  /\ ~Locked /\ Event /\ Exists(s)
  /\ row' = [row EXCEPT ![s] = [@ EXCEPT !.enabled = FALSE, !.next = "none", !.last = "gone"]]
  /\ Crossing(s)
  /\ UNCHANGED <<past, linkState, running, reporting, ownerState, owed, answer, refired>>

\* The kill switch, the pause of the agent, its socket.
Flip ==
  /\ Event
  /\ \/ ~Locked /\ autoOn' = ~autoOn /\ UNCHANGED <<agentPaused, agentUp>>
     \/ ~Locked /\ agentPaused' = ~agentPaused /\ UNCHANGED <<autoOn, agentUp>>
     \/ agentUp' = ~agentUp /\ UNCHANGED <<autoOn, agentPaused>>
  /\ engine' = IF Ticking THEN [engine EXCEPT !.touched = TRUE] ELSE engine
  /\ UNCHANGED <<row, past, running, reporting, ownerState, owed, answer, crossed, refired>>

TimeComes(s) ==
  /\ row[s].next = "later" /\ Event /\ ~Locked
  /\ row' = [row EXCEPT ![s].next = "due"] /\ owed' = owed \cup {s}
  /\ past' = past \cup {s}
  /\ UNCHANGED <<engine, linkState, running, reporting, ownerState, answer, crossed, refired>>

-----------------------------------------------------------------------------
(* The tick.                                                                 *)

\* due, then the kill switch, both once per tick; what the owner has in hand of
\* these rows crosses the tick.
TickLoads ==
  /\ engine = Rest /\ \E s \in Schedules : Due(s)
  /\ engine' = [at |-> "next", left |-> {s \in Schedules : Due(s)}, now |-> {}, copy |-> row,
                enabled |-> autoOn, agent |-> "unread", locked |-> FALSE, touched |-> FALSE]
  /\ crossed' = crossed \cup {s \in Schedules : Due(s) /\ InHand(s)}
  /\ UNCHANGED <<row, past, linkState, running, reporting, ownerState, owed, answer, refired, events>>

\* Bug variant: the pause is not looked at.
BlockedBySwitch(paused) == ~engine.enabled

\* _fire: what keeps a run back.
Blocked(paused) == ~engine.enabled \/ paused

\* The claim: its copy is re-armed from now, and flushed by the read of the
\* agent, which is read once.  A row deleted meanwhile fails the tick.
Claim(s) ==
  /\ Ticking /\ engine.at = "next" /\ s \in engine.left
  /\ LET first  == engine.agent = "unread"
         paused == IF first THEN agentPaused ELSE engine.agent = "paused"
     IN engine' = IF first /\ ~Exists(s) THEN Rest
                  ELSE [engine EXCEPT !.left = @ \ {s}, !.now = {s}, !.locked = first,
                          !.agent = IF paused THEN "paused" ELSE "free",
                          !.at = IF ~Blocked(paused) /\ agentUp THEN "send" ELSE "skip"]
  /\ crossed' = crossed \cup (IF reporting # Rest /\ reporting.of = s THEN {s} ELSE {})
  /\ UNCHANGED <<row, past, linkState, running, reporting, ownerState, owed, answer, refired, events>>

\* send_to_agent; a dead socket makes it a skipped run, and so does an error.
Fire(s) ==
  /\ Ticking /\ engine.at = "send" /\ engine.now = {s}
  /\ \/ /\ engine' = [engine EXCEPT !.at = "sent"] /\ owed' = owed \ {s}
        /\ running' = running \cup {s}
     \/ engine' = [engine EXCEPT !.at = "skip"] /\ UNCHANGED <<owed, running>>
  /\ UNCHANGED <<row, past, linkState, reporting, ownerState, answer, crossed, refired, events>>

\* Bug variant: the claim is not written.
ReArmedNever(s, last) ==
  [row[s] EXCEPT !.last = IF last = engine.copy[s].last THEN @ ELSE last]

\* The columns that differ from the copy: the next run, and the status.
ReArmed(s, last) ==
  [row[s] EXCEPT !.next = NextRun(s, engine.copy[s].spec), !.by = engine.copy[s].spec,
                 !.last = IF last = engine.copy[s].last THEN @ ELSE last]

SaveClaim(s) ==
  /\ Ticking /\ engine.at \in {"sent", "skip"} /\ engine.now = {s}
  /\ IF Exists(s)
     THEN /\ row' = [row EXCEPT ![s] = ReArmed(s, IF engine.at = "sent" THEN "running" ELSE "skipped")]
          /\ answer' = IF s \in crossed THEN answer ELSE [answer EXCEPT ![s] = "none"]
          /\ owed' = owed \ {s}
          /\ engine' = IF engine.left = {} THEN Rest
                       ELSE [engine EXCEPT !.at = "next", !.now = {}, !.locked = FALSE]
     ELSE engine' = Rest /\ UNCHANGED <<row, answer, owed>>
  /\ UNCHANGED <<past, linkState, running, reporting, ownerState, crossed, refired, events>>

-----------------------------------------------------------------------------
(* A run ends: record_report reads the row, then writes what differs.        *)

ReportLoads(s) ==
  /\ reporting = Rest /\ s \in running /\ running' = running \ {s}
  /\ reporting' = IF Exists(s) THEN [of |-> s, last |-> row[s].last] ELSE Rest
  /\ crossed' = crossed \cup (AtWork \cap {s})
  /\ UNCHANGED <<row, past, engine, linkState, ownerState, owed, answer, refired, events>>

\* Bug variant: a report fills an empty status only.
ReportWrittenOnce(s) == [row[s] EXCEPT !.last = IF @ = "never" THEN "ok" ELSE @]

ReportWritten(s) == [row[s] EXCEPT !.last = IF reporting.last = "ok" THEN @ ELSE "ok"]

ReportSaves ==
  /\ reporting # Rest /\ ~Locked /\ reporting' = Rest
  /\ LET s == reporting.of IN
     IF Exists(s) THEN /\ row' = [row EXCEPT ![s] = ReportWritten(s)]
                       /\ answer' = [answer EXCEPT ![s] = "ok"]
                       /\ crossed' = crossed \cup (AtWork \cap {s})
                  ELSE UNCHANGED <<row, answer, crossed>>
  /\ UNCHANGED <<past, engine, linkState, running, ownerState, owed, refired, events>>

\* The hub falls: a run sent and not yet claimed on disk goes out again.
HubFalls ==
  /\ Event /\ engine' = Rest /\ reporting' = Rest /\ editing' = [e \in Editors |-> Rest]
  /\ refired' = IF Ticking /\ engine.at = "sent" THEN refired \cup engine.now ELSE refired
  /\ UNCHANGED <<row, past, linkState, running, owed, answer, crossed, entwined>>

SchedulerNext ==
  \/ \E s \in Schedules :
       \/ \E e \in Editors : UpdateLoads(e, s) \/ RunNowLoads(e, s)
       \/ DeleteSchedule(s) \/ TimeComes(s)
       \/ Claim(s) \/ Fire(s) \/ SaveClaim(s) \/ ReportLoads(s)
  \/ \E e \in Editors : EditSaves(e) \/ EditFails(e)
  \/ Flip \/ TickLoads \/ ReportSaves \/ HubFalls

\* The engine's loop; a socket takes the frame or fails.
EngineStep == TickLoads \/ \E s \in Schedules : Claim(s) \/ Fire(s) \/ SaveClaim(s)
SchedulerFairness == WF_scheduleVars(EngineStep)

SchedulerSpec == SchedulerInit /\ [][SchedulerNext]_scheduleVars /\ SchedulerFairness

-----------------------------------------------------------------------------
\* The rows whose timing and switch only one hand wrote at a time.
Settled == Schedules \ (crossed \cup entwined)

\* Every variable has its type, and a disabled row is not armed, unless the tick
\* or another request held it while the owner changed it.
SchedulerTypeOK ==
  /\ row \in [Schedules -> Rows] /\ past \cup running \cup crossed \cup refired \subseteq Schedules
  /\ engine = Rest \/ (engine.at \in {"next", "send", "sent", "skip"} /\ engine.left \subseteq Schedules)
  /\ owed \cup entwined \subseteq Schedules
  /\ \A s \in Settled : ~row[s].enabled => row[s].next = "none"

Sends(s) == engine.at = "send" /\ engine'.at = "sent" /\ engine.now = {s}

\* A schedule runs at most once each time it comes due, however ticks, owner and
\* reports interleave, unless the hub fell between the frame and the commit.
OncePerSlot == \A s \in Schedules : Sends(s) => s \in owed \cup refired

\* What the daemon reported stands until the next run or skip, unless the report
\* and the claim of that row overlapped.
ReportStands ==
  \A s \in Schedules \ crossed : answer[s] # "none" /\ Exists(s) => row[s].last = answer[s]

\* The row is armed by the timing it shows, unless the owner changed it while
\* the tick, or another of the owner's requests, held a copy.
ArmedByItsSpec ==
  \A s \in Settled : row[s].next # "none" => row[s].by \in {row[s].spec, "now"}

\* No task goes out with the switch off, the agent paused or the row disabled,
\* unless one of them changed during the tick.
SwitchStopsRuns ==
  \A s \in Schedules : Sends(s) =>
    (autoOn /\ ~agentPaused /\ row[s].enabled) \/ engine.touched

\* A due row is always handled in the end: run, skipped, disabled or deleted.
DueIsHandled == \A s \in Schedules : Due(s) ~> ~Due(s)

\* Runs come when they are due and allowed, once, and the row tells of them.
SchedulesHold ==
  [][(ReportStands /\ ArmedByItsSpec)' /\ OncePerSlot /\ SwitchStopsRuns]_scheduleVars
=============================================================================
