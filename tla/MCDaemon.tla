------------------------------ MODULE MCDaemon ------------------------------
(* Two parts of the daemon, explored one at a time: the auto-responder, once *)
(* with one thread and no clock and once with the clock and other threads    *)
(* only, and the file of messages.                                           *)
EXTENDS AutoRespond, InboxFile

CONSTANTS a1, r1, e1, s1, s2, hidden

VARIABLE part
daemonVars == <<part, autoVars, inboxVars>>

Cautious == [auto |-> TRUE, paused |-> FALSE, approval |-> TRUE, write |-> TRUE,
             trusted |-> FALSE, deny |-> {hidden}, perHour |-> 1, cap |-> 2, hours |-> {0}]
Open == [Cautious EXCEPT !.approval = FALSE, !.write = FALSE, !.trusted = TRUE,
                         !.perHour = 2, !.cap = 3, !.hours = {0, 1}]
DaemonProfiles == {Cautious, Open, [Open EXCEPT !.auto = FALSE]}

DaemonInit ==
  /\ part \in {"thread", "meter", "inbox"} /\ AutoInit /\ InboxInit
  /\ part = "inbox" => settings = Open
  /\ part # "thread" => enabled

\* The thread is followed without clock and tokens, the meters without a thread.
DaemonNext ==
  /\ part' = part
  /\ \/ part = "thread" /\ AutoNext /\ time' = time /\ tokens' = tokens /\ disk' = disk
        /\ UNCHANGED inboxVars
     \/ part = "meter" /\ AutoNext /\ talk' = talk /\ enabled'
        /\ (\A s \in Live' : runs'[s].what = e1) /\ UNCHANGED inboxVars
     \/ part = "inbox" /\ InboxNext /\ UNCHANGED autoVars

DaemonSpec == DaemonInit /\ [][DaemonNext]_daemonVars

DaemonSymm == Permutations({s1, s2})

\* Every variable of both parts has its type.
DaemonTypeOK == AutoTypeOK /\ InboxTypeOK
=============================================================================
