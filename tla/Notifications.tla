--------------------------- MODULE Notifications ---------------------------
(* The triage inbox of one user (services/notification_service.py).  Events  *)
(* about a subject collapse onto one thread: notify looks for the thread and *)
(* then adds or saves a row, in awaits of their own, while other events and  *)
(* the user's triage run.  No constraint keeps a subject to one row.         *)
EXTENDS Naturals, FiniteSets, FiniteSetsExt

CONSTANTS Subjects, Reasons,   \* what events are about, and why they are sent
          Notifiers,           \* calls of notify in progress at a time
          MaxNewPerHour,       \* max_new_per_hour; 0 is no cap
          MaxEpisodes          \* bound of the exploration: calls and gestures
Priority == [system |-> 0, subscribed |-> 1, participating |-> 1, state_change |-> 1,
  autorespond_completed |-> 1, autorespond_blocked |-> 2, direct_message |-> 2, task_assigned |-> 3,
  broadcast |-> 3, team_mention |-> 4, mention |-> 5, escalation |-> 5, approval_requested |-> 6,
  security_alert |-> 7]
ASSUME NotificationsAssumption ==
  {MaxNewPerHour, MaxEpisodes} \subseteq Nat /\ Reasons \subseteq DOMAIN Priority

VARIABLES level,    \* the user's notify_level
          following,\* subscription of each subject, or "none"
          inbox,    \* rows of the user, by id
          notifying,\* what each call of notify is doing
          triaging, \* the triage request in progress
          pinged,   \* history: subjects with an always-deliver event since the
                    \* user last acted on them, whose call met nobody
          doubled, flooded, \* history: subjects with two calls at once, or whose row has
                            \* the id of one pruned under a request; two adds at once
          episodes
notificationVars == <<level, following, inbox, notifying, triaging, pinged, doubled, flooded, episodes>>

AlwaysDeliver == {"mention", "approval_requested", "security_alert"}
DeliverAtDefault == AlwaysDeliver \cup {"team_mention", "direct_message", "task_assigned", "escalation"}
HighSignal == AlwaysDeliver \cup {"team_mention", "broadcast", "escalation"}
Levels == {"all", "mentions_and_direct", "mute"}
NoCall == [at |-> "free"]
NewEpisode == episodes < MaxEpisodes /\ episodes' = episodes + 1

NotificationsInit ==
  /\ level = "mentions_and_direct" /\ following = [s \in Subjects |-> "none"]
  /\ inbox = <<>> /\ notifying = [c \in Notifiers |-> NoCall] /\ triaging = NoCall
  /\ pinged = {} /\ doubled = {} /\ flooded = FALSE /\ episodes = 0

\* Bug variant: a muted inbox is closed to everything.
DeliversUnlessMuted(reason) ==
  level = "all" \/ (level # "mute" /\ reason \in DeliverAtDefault)

\* should_deliver
Delivers(reason) ==
  level = "all" \/ reason \in (IF level = "mute" THEN AlwaysDeliver ELSE DeliverAtDefault)

\* Bug variant: done threads are not looked at.
ThreadsOpen(s) == {i \in DOMAIN inbox : inbox[i].of = s /\ inbox[i].status # "done"}

\* get_by_subject
Threads(s) == {i \in DOMAIN inbox : inbox[i].of = s}

Others(c, s) == {d \in Notifiers \ {c} : notifying[d] # NoCall /\ notifying[d].of = s}
Triaged(s) == triaging # NoCall /\ triaging.of = s

\* What the user does to the subjects S while calls are about them.
Disturbed(S) == [c \in Notifiers |->
  IF notifying[c] # NoCall /\ notifying[c].of \in S THEN [notifying[c] EXCEPT !.alone = FALSE]
  ELSE notifying[c]]

Pings(s, reason, alone) == IF reason \in AlwaysDeliver /\ alone THEN pinged \cup {s} ELSE pinged

-----------------------------------------------------------------------------
(* notify.                                                                   *)

\* Both gates: the level, and a muted thread, which an always-deliver reason
\* subscribes again.
Notify(c, s, reason) ==
  /\ notifying[c] = NoCall /\ NewEpisode
  /\ LET alone == Others(c, s) = {} /\ ~Triaged(s) IN
     IF Delivers(reason) /\ (following[s] = "ignored" => reason \in AlwaysDeliver)
     THEN /\ notifying' = [Disturbed({s}) EXCEPT ![c] =
               [at |-> IF following[s] = "ignored" THEN "follow" ELSE "look",
                of |-> s, why |-> reason, id |-> 0, copy |-> {}, alone |-> alone]]
          /\ doubled' = IF Others(c, s) = {} THEN doubled ELSE doubled \cup {s}
          /\ UNCHANGED pinged
     ELSE pinged' = Pings(s, reason, alone) /\ UNCHANGED <<notifying, doubled>>
  /\ UNCHANGED <<level, following, inbox, triaging, flooded>>

Ends(c) ==
  /\ notifying' = [notifying EXCEPT ![c] = NoCall]
  /\ pinged' = Pings(notifying[c].of, notifying[c].why, notifying[c].alone)

Goes(c, stage) == notifying' = [notifying EXCEPT ![c] = [@ EXCEPT !.at = stage]] /\ UNCHANGED pinged

Resubscribes(c) ==
  /\ notifying[c].at = "follow" /\ Goes(c, "look")
  /\ following' = [following EXCEPT ![notifying[c].of] = "subscribed"]
  /\ UNCHANGED <<level, inbox, triaging, doubled, flooded, episodes>>

\* Bug variant: anything resurfaces a done thread.
ResurfacesAlways(i, reason) == TRUE

\* Low-signal activity does not resurface a done thread.
Resurfaces(i, reason) == inbox[i].status # "done" \/ reason \in HighSignal

\* Two rows raise, and the caller goes on without a notification.
LooksForThread(c) ==
  /\ notifying[c].at = "look"
  /\ LET found == Threads(notifying[c].of)  why == notifying[c].why IN
     \/ /\ found = {} /\ Goes(c, IF why \in AlwaysDeliver THEN "add" ELSE "count")
     \/ \E i \in found : /\ found = {i} /\ Resurfaces(i, why) /\ UNCHANGED pinged
                         /\ notifying' = [notifying EXCEPT
                              ![c] = [@ EXCEPT !.at = "save", !.id = i, !.copy = {inbox[i]}]]
     \/ /\ \/ Cardinality(found) > 1
           \/ \E i \in found : found = {i} /\ ~Resurfaces(i, why)
        /\ Ends(c)
  /\ UNCHANGED <<level, following, inbox, triaging, doubled, flooded, episodes>>

\* Bug variant: the cap is off by one.
RateCappedLate == Cardinality({i \in DOMAIN inbox : inbox[i].fresh}) > MaxNewPerHour

\* _rate_capped
RateCapped ==
  MaxNewPerHour > 0 /\ Cardinality({i \in DOMAIN inbox : inbox[i].fresh}) >= MaxNewPerHour

CountsThreads(c) ==
  /\ notifying[c].at = "count" /\ IF RateCapped THEN Ends(c) ELSE Goes(c, "add")
  /\ flooded' = (flooded \/ (~RateCapped /\ \E d \in Notifiers : notifying[d].at = "add"))
  /\ UNCHANGED <<level, following, inbox, triaging, doubled, episodes>>

\* A request in progress is about to write the row of that id.
Awaited(i) ==
  \/ triaging # NoCall /\ triaging.id = i
  \/ \E d \in Notifiers : notifying[d].at = "save" /\ notifying[d].id = i

NewThread(c) ==
  [of |-> notifying[c].of, why |-> notifying[c].why, unread |-> TRUE, status |-> "inbox",
   fresh |-> TRUE, old |-> FALSE, forced |-> notifying[c].why \in AlwaysDeliver]

\* SQLite gives the id after the last one there is, be it that of a pruned row.
NextId == 1 + Max({0} \cup DOMAIN inbox)

AddsThread(c) ==
  /\ notifying[c].at = "add" /\ Ends(c)
  /\ inbox' = [i \in DOMAIN inbox \cup {NextId} |-> IF i = NextId THEN NewThread(c) ELSE inbox[i]]
  /\ doubled' = IF Awaited(NextId) THEN doubled \cup {notifying[c].of} ELSE doubled
  /\ UNCHANGED <<level, following, triaging, flooded, episodes>>

\* Bug variant: the latest reason wins.
SharperAlways(reason, shown) == TRUE

Sharper(reason, shown) == Priority[reason] >= Priority[shown]

\* Only the columns that differ from the copy are written.  A row pruned
\* meanwhile fails the save.
CollapsesThread(c) ==
  /\ notifying[c].at = "save" /\ Ends(c)
  /\ LET i == notifying[c].id  reason == notifying[c].why
         copy == CHOOSE r \in notifying[c].copy : TRUE IN
     inbox' = IF i \notin DOMAIN inbox THEN inbox
              ELSE [inbox EXCEPT ![i] = [@ EXCEPT
                     !.why = IF Sharper(reason, copy.why) /\ reason # copy.why THEN reason
                             ELSE inbox[i].why,
                     !.unread = inbox[i].unread \/ ~copy.unread,
                     !.status = IF copy.status = "done" THEN "inbox" ELSE inbox[i].status,
                     !.old = FALSE]]
  /\ UNCHANGED <<level, following, triaging, doubled, flooded, episodes>>

-----------------------------------------------------------------------------
(* The user, and the retention sweep.                                        *)

SetPrefs(l) ==
  /\ NewEpisode /\ l # level /\ level' = l
  /\ UNCHANGED <<following, inbox, notifying, triaging, pinged, doubled, flooded>>

SetSubscription(s, state) ==
  /\ NewEpisode /\ following' = [following EXCEPT ![s] = state]
  /\ pinged' = IF state = "ignored" THEN pinged \ {s} ELSE pinged
  /\ notifying' = Disturbed({s})
  /\ UNCHANGED <<level, inbox, triaging, doubled, flooded>>

MarkAllRead ==
  /\ NewEpisode /\ inbox' = [i \in DOMAIN inbox |-> [inbox[i] EXCEPT !.unread = FALSE]]
  /\ pinged' = {} /\ notifying' = Disturbed(Subjects)
  /\ UNCHANGED <<level, following, triaging, doubled, flooded>>

\* The gestures on one notification; triage does not touch updated_at.
TriageLoads(i, gesture) ==
  /\ triaging = NoCall /\ NewEpisode /\ i \in DOMAIN inbox
  /\ triaging' = [at |-> "save", id |-> i, of |-> inbox[i].of, gesture |-> gesture,
                  unread |-> inbox[i].unread, status |-> inbox[i].status]
  /\ pinged' = pinged \ {inbox[i].of} /\ notifying' = Disturbed({inbox[i].of})
  /\ UNCHANGED <<level, following, inbox, doubled, flooded>>

TriageSaves ==
  /\ triaging # NoCall /\ triaging' = NoCall
  /\ pinged' = pinged \ {triaging.of} /\ notifying' = Disturbed({triaging.of})
  /\ LET i == triaging.id  g == triaging.gesture IN
     inbox' = IF i \notin DOMAIN inbox THEN inbox
              ELSE [inbox EXCEPT ![i] = [@ EXCEPT
                     !.unread = inbox[i].unread /\ ~(g = "read" /\ triaging.unread),
                     !.status = IF g # "read" /\ triaging.status # g THEN g ELSE inbox[i].status]]
  /\ UNCHANGED <<level, following, doubled, flooded, episodes>>

\* An hour, or the days of notification_done_ttl_days.
ClockAdvances(days) ==
  /\ NewEpisode
  /\ inbox' = [i \in DOMAIN inbox |-> [inbox[i] EXCEPT !.fresh = FALSE, !.old = @ \/ days]]
  /\ UNCHANGED <<level, following, notifying, triaging, pinged, doubled, flooded>>

PruneDone ==
  LET gone == {i \in DOMAIN inbox : inbox[i].status = "done" /\ inbox[i].old} IN
  /\ gone # {} /\ inbox' = [i \in DOMAIN inbox \ gone |-> inbox[i]]
  /\ notifying' = Disturbed({inbox[i].of : i \in gone})
  /\ UNCHANGED <<level, following, triaging, pinged, doubled, flooded, episodes>>

NotificationsNext ==
  \/ \E c \in Notifiers :
       \/ \E s \in Subjects, reason \in Reasons : Notify(c, s, reason)
       \/ Resubscribes(c) \/ LooksForThread(c) \/ CountsThreads(c) \/ AddsThread(c) \/ CollapsesThread(c)
  \/ \E l \in Levels : SetPrefs(l)
  \/ \E s \in Subjects, state \in {"subscribed", "ignored"} : SetSubscription(s, state)
  \/ MarkAllRead \/ TriageSaves \/ PruneDone
  \/ \E i \in DOMAIN inbox, gesture \in {"read", "inbox", "done"} : TriageLoads(i, gesture)
  \/ \E days \in BOOLEAN : ClockAdvances(days)

NotificationsSpec == NotificationsInit /\ [][NotificationsNext]_notificationVars

-----------------------------------------------------------------------------
\* Every variable has its type, and only a high-signal event works on a copy of
\* a done thread.
NotificationsTypeOK ==
  /\ level \in Levels /\ following \in [Subjects -> {"none", "subscribed", "ignored"}]
  /\ \A i \in DOMAIN inbox : inbox[i].of \in Subjects /\ inbox[i].why \in Reasons
                             /\ inbox[i].status \in {"inbox", "saved", "done"}
  /\ \A c \in Notifiers : notifying[c].at = "save" =>
       \A r \in notifying[c].copy : r.status = "done" => notifying[c].why \in HighSignal
  /\ pinged \cup doubled \subseteq Subjects /\ flooded \in BOOLEAN

\* Events about a subject share one thread, unless two calls about it overlapped.
OneThread == \A s \in Subjects \ doubled : Cardinality(Threads(s)) <= 1

Surfaced(s) == \E i \in Threads(s) : inbox[i].unread /\ inbox[i].status # "done"

\* A mention, a request for approval or an alert ends in an unread thread that
\* is not muted and still says why, whatever the level, the subscription and the
\* cap, and whatever came after it; unless calls about the subject overlapped.
AlwaysDelivered ==
  \A s \in pinged \ doubled :
    /\ Surfaced(s) /\ following[s] # "ignored"
    /\ \E i \in Threads(s) : Priority[inbox[i].why] >= Priority["mention"]

\* The most relevant reason of a thread is never lost, unless calls overlapped.
ReasonSticks ==
  \A i \in DOMAIN inbox \cap DOMAIN inbox' :
    inbox[i].of \in doubled \/ Priority[inbox'[i].why] >= Priority[inbox[i].why]

\* A flood of subjects adds no more threads an hour than the cap, always-deliver
\* reasons aside, unless two calls were adding at once.
NewThreadCap ==
  flooded \/ MaxNewPerHour = 0
    \/ Cardinality({i \in DOMAIN inbox : inbox[i].fresh /\ ~inbox[i].forced}) <= MaxNewPerHour

\* The inbox keeps one thread per subject, with its sharpest reason, within the
\* cap, and always shows what must be shown.
InboxHolds ==
  [][(OneThread /\ AlwaysDelivered /\ NewThreadCap)' /\ ReasonSticks]_notificationVars
=============================================================================
