------------------------------- MODULE MCWork -------------------------------
(* The hub's services, one part at a time: approvals, delegations, the       *)
(* scheduler and its cron arithmetic, the directory of names, the presets,   *)
(* the inbox of one user, and of one board the ranks of a column, the        *)
(* columns, and who reaches it.                                              *)
EXTENDS Approvals, Delegations, Scheduler, Cron, Directory,
        Notifications, RankColumn, KanbanColumns, KanbanAccess, TLC

CONSTANTS c1, c2, own, u1, u2, b1, Parts

VARIABLE part
boardVars == <<vars, columnVars, accessVars>>
officeVars == <<approvalVars, delegationVars, scheduleVars, cronVars, directoryVars, notificationVars>>
workVars == <<part, officeVars, boardVars>>

On(hour, dom, mon, dow) == [hour |-> hour, dom |-> dom, mon |-> mon, dow |-> dow]
LeapDay == On(OneOf({0}), OneOf({29}), OneOf({2}), Star)
WorkSpecs == {
  LeapDay,
  On(OneOf({0}), OneOf({1}), OneOf({3}), Star),         \* 1 March
  On(OneOf({0, 1}), OneOf({31}), Star, Star),           \* the months of 31 days
  On(OneOf({0}), OneOf({31}), OneOf({2}), Star),        \* never
  On(OneOf({1}), OneOf({13}), OneOf({2}), OneOf({5})),  \* the 13th, or a Friday
  On(Star, {Part(10, 30, 10)}, {Part(2, 4, 2)}, Star),  \* 10-30/10 in 2-4/2
  On(OneOf({2}), OneOf({1}), Star, Star),               \* refused
  On(OneOf({0}), {Part(5, 1, 1)}, Star, Star),          \* refused
  On(OneOf({0}), {Part(1, 31, 0)}, Star, Star)}         \* refused
\* Around the ends of February 2023, 2024 and 2025, and of the years.
WorkDays == {0, 30, 31} \cup 57 .. 60 \cup {180, 364, 365} \cup 422 .. 426 \cup {730} \cup 788 .. 790
WorkSeeds == <<"strict", "trusted">>
SecondLands == <<FALSE, TRUE>>
WorkKeeper == b1 :> u1
FirstSchedule == CHOOSE s \in Schedules : TRUE

WorkInit ==
  /\ part \in Parts
  /\ ApprovalsInit /\ DelegationsInit /\ SchedulerInit /\ DirectoryInit
  /\ NotificationsInit /\ Init /\ ColumnsInit /\ AccessInit
  /\ CronInit /\ (part # "cron" => cron = LeapDay /\ at = 0)
  /\ row = [s \in Schedules |-> NewRow(IF part = "schedule" /\ s = FirstSchedule THEN "once" ELSE "every")]

Approving ==
  /\ part = "approval" /\ ApprovalsNext
  /\ UNCHANGED <<boardVars, delegationVars, scheduleVars, cronVars, directoryVars, notificationVars>>
Delegating ==
  /\ part = "delegation" /\ DelegationsNext
  /\ UNCHANGED <<boardVars, approvalVars, scheduleVars, cronVars, directoryVars, notificationVars>>
Scheduling ==
  /\ part = "schedule" /\ SchedulerNext
  /\ UNCHANGED <<boardVars, approvalVars, delegationVars, cronVars, directoryVars, notificationVars>>
CronRunning ==
  /\ part = "cron" /\ CronRuns
  /\ UNCHANGED <<boardVars, approvalVars, delegationVars, scheduleVars, directoryVars, notificationVars>>
Naming ==
  /\ part = "slug" /\ (SlugNext \/ CastNext)
  /\ UNCHANGED <<boardVars, approvalVars, delegationVars, scheduleVars, cronVars, notificationVars>>
Presetting ==
  /\ part = "preset" /\ PresetNext
  /\ UNCHANGED <<boardVars, approvalVars, delegationVars, scheduleVars, cronVars, notificationVars>>
Notifying ==
  /\ part = "inbox" /\ NotificationsNext
  /\ UNCHANGED <<boardVars, approvalVars, delegationVars, scheduleVars, cronVars, directoryVars>>
Ranking ==
  /\ part = "rank" /\ Next
  /\ UNCHANGED <<officeVars, columnVars, accessVars>>
Arranging ==
  /\ part = "columns" /\ ColumnsNext
  /\ UNCHANGED <<officeVars, vars, accessVars>>
Granting ==
  /\ part = "access" /\ AccessNext
  /\ UNCHANGED <<officeVars, vars, columnVars>>

WorkNext ==
  \/ Approving \/ Delegating \/ Scheduling \/ CronRunning \/ Naming \/ Presetting
  \/ Notifying \/ Ranking \/ Arranging \/ Granting

WorkSpec == WorkInit /\ [][part' = part /\ WorkNext]_workVars /\ ApprovalsFairness /\ SchedulerFairness

\* Every variable of every part has its type.
WorkTypeOK ==
  /\ ApprovalsTypeOK /\ DelegationsTypeOK /\ SchedulerTypeOK /\ DirectoryTypeOK
  /\ NotificationsTypeOK /\ TypeOK /\ ColumnsTypeOK /\ AccessTypeOK

\* What a sweep of approvals or a tick of schedules left undone, a later one does.
SweepsCatchUp == OverdueIsDecided /\ DueIsHandled
=============================================================================
