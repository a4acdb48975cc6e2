----------------------------- MODULE Approvals -----------------------------
(* The owner's approval of drafted replies (services/approval_service.py):   *)
(* a decision reads the row, sends the reply in awaits of its own and only   *)
(* then writes the outcome; the expiry sweep reads its rows and writes them  *)
(* one by one.  They overlap, a request may fail after the reply went out,   *)
(* and the hub may stop between any two steps.                               *)
EXTENDS Naturals, FiniteSets

CONSTANTS Drafts,    \* requests for approval
          Deciders,  \* decision requests the hub serves at a time
          MaxTries, MaxStops  \* bounds of the exploration: decisions; halts and failed sweeps
ASSUME ApprovalsAssumption == MaxTries \in Nat /\ MaxStops \in Nat

VARIABLES approval,  \* status of the row of each draft, or "absent"
          overdue,   \* drafts older than approval_ttl_hours
          deciding,  \* what each decision request is doing
          stale,     \* rows the running sweep still has to reject
          replies,   \* messages sent for each draft
          contested, \* history: drafts two of them held at once
          cut,       \* history: times a draft was sent and its decision then lost
          tries, stops
approvalVars == <<approval, overdue, deciding, stale, replies, contested, cut, tries, stops>>

Statuses == {"absent", "pending", "approved", "rejected"}
NotDeciding == [at |-> "rest"]

ApprovalsInit ==
  /\ approval = [d \in Drafts |-> "absent"] /\ overdue = {} /\ stale = {}
  /\ deciding = [h \in Deciders |-> NotDeciding]
  /\ replies = [d \in Drafts |-> 0]
  /\ contested = {} /\ cut = [d \in Drafts |-> 0] /\ tries = 0 /\ stops = 0

\* The decision of h has sent its reply and not yet written the row.
HasSent(h) == deciding[h].at = "save" /\ deciding[h].as = "approved"

Held == stale \cup {deciding[h].draft : h \in {g \in Deciders : deciding[g] # NotDeciding}}

\* create_request: the owner's notice may fail, the row stays.
CreateRequest(d) ==
  /\ approval[d] = "absent" /\ approval' = [approval EXCEPT ![d] = "pending"]
  /\ UNCHANGED <<overdue, deciding, stale, replies, contested, cut, tries, stops>>

TimePasses(d) ==
  /\ approval[d] # "absent" /\ overdue' = overdue \cup {d}
  /\ UNCHANGED <<approval, deciding, stale, replies, contested, cut, tries, stops>>

\* Bug variant: a decided request may be decided again.
DecidableAlways(d) == approval[d] # "absent"

Decidable(d) == approval[d] = "pending"

\* decide, up to the status check; a decided request is refused.
DecideLoads(h, d, decision) ==
  /\ deciding[h] = NotDeciding /\ tries < MaxTries /\ tries' = tries + 1
  /\ Decidable(d)
  /\ deciding' = [deciding EXCEPT ![h] =
       [at |-> IF decision = "approved" THEN "send" ELSE "save", draft |-> d, as |-> decision]]
  /\ contested' = contested \cup (Held \cap {d})
  /\ UNCHANGED <<approval, overdue, stale, replies, cut, stops>>

\* Bug variant: a refused send is decided as well.
RefusedAndDecided(h) == deciding' = [deciding EXCEPT ![h].at = "save"]

\* The allowlist or the thread refuses the reply: the request fails and the row
\* stays pending.
Refused(h) == deciding' = [deciding EXCEPT ![h] = NotDeciding]

\* The injected sender commits the reply; its audit record, the notices and the
\* push are awaited before the row is written.
DecideSends(h) ==
  /\ deciding[h].at = "send"
  /\ \/ /\ replies' = [replies EXCEPT ![deciding[h].draft] = @ + 1]
        /\ deciding' = [deciding EXCEPT ![h].at = "save"]
     \/ Refused(h) /\ UNCHANGED replies
  /\ UNCHANGED <<approval, overdue, stale, contested, cut, tries, stops>>

DecideSaves(h) ==
  /\ deciding[h].at = "save"
  /\ approval' = [approval EXCEPT ![deciding[h].draft] = deciding[h].as]
  /\ deciding' = [deciding EXCEPT ![h] = NotDeciding]
  /\ UNCHANGED <<overdue, stale, replies, contested, cut, tries, stops>>

\* What is awaited after that commit raises, or the save itself does, as after a
\* swallowed database error: a reply may be out, and the row stays pending.
DecideFails(h) ==
  /\ deciding[h].at = "save"
  /\ cut' = IF HasSent(h) THEN [cut EXCEPT ![deciding[h].draft] = @ + 1] ELSE cut
  /\ deciding' = [deciding EXCEPT ![h] = NotDeciding]
  /\ UNCHANGED <<approval, overdue, stale, replies, contested, tries, stops>>

\* Bug variant: the sweep takes every pending row.
StaleAtOnce(d) == approval[d] = "pending"

\* Bug variant: the comparison with the cut-off is the wrong way round.
StaleIfYoung(d) == approval[d] = "pending" /\ d \notin overdue

Stale(d) == approval[d] = "pending" /\ d \in overdue

\* expire_pending: its rows are read at once.
SweepLoads ==
  /\ stale = {} /\ stale' = {d \in Drafts : Stale(d)} /\ stale' # {}
  /\ contested' = contested \cup (Held \cap stale')
  /\ UNCHANGED <<approval, overdue, deciding, replies, cut, tries, stops>>

SweepSaves == \E d \in stale :
  /\ stale' = stale \ {d} /\ approval' = [approval EXCEPT ![d] = "rejected"]
  /\ UNCHANGED <<overdue, deciding, replies, contested, cut, tries, stops>>

\* A save of the sweep raises: the other rows wait for the next sweep.
SweepFails ==
  /\ stale # {} /\ stale' = {} /\ stops < MaxStops /\ stops' = stops + 1
  /\ UNCHANGED <<approval, overdue, deciding, replies, contested, cut, tries>>

\* The hub stops: the requests and the sweep are gone.
HubStops ==
  /\ stops < MaxStops /\ stops' = stops + 1
  /\ cut' = [d \in Drafts |->
       IF \E h \in Deciders : HasSent(h) /\ deciding[h].draft = d THEN cut[d] + 1 ELSE cut[d]]
  /\ deciding' = [h \in Deciders |-> NotDeciding] /\ stale' = {}
  /\ UNCHANGED <<approval, overdue, replies, contested, tries>>

ApprovalsNext ==
  \/ \E d \in Drafts : \/ CreateRequest(d) \/ TimePasses(d)
                       \/ \E h \in Deciders, decision \in {"approved", "rejected"} :
                            DecideLoads(h, d, decision)
  \/ \E h \in Deciders : DecideSends(h) \/ DecideSaves(h) \/ DecideFails(h)
  \/ SweepLoads \/ SweepSaves \/ SweepFails \/ HubStops

\* The loop of the scheduler engine sweeps again and again.
ApprovalsFairness == WF_approvalVars(SweepLoads) /\ WF_approvalVars(SweepSaves)

ApprovalsSpec == ApprovalsInit /\ [][ApprovalsNext]_approvalVars /\ ApprovalsFairness

-----------------------------------------------------------------------------
\* Every variable has its type, and a running sweep holds overdue rows only.
ApprovalsTypeOK ==
  /\ approval \in [Drafts -> Statuses] /\ replies \in [Drafts -> Nat]
  /\ deciding \in [Deciders -> {NotDeciding}
       \cup [at : {"send", "save"}, draft : Drafts, as : {"approved", "rejected"}]]
  /\ stale \subseteq overdue /\ overdue \subseteq Drafts /\ contested \subseteq Drafts
  /\ cut \in [Drafts -> Nat]

\* A row never says approved unless the reply was sent, whoever else decided.
ApprovedWasSent == \A d \in Drafts : approval[d] = "approved" => replies[d] > 0

\* One outcome: unless two decisions or a decision and the sweep overlapped, an
\* approved draft went out once and a rejected one never, but for the times the
\* request failed or the hub stopped after the sending: each costs one reply.
OneOutcome ==
  \A d \in Drafts \ contested :
    /\ approval[d] = "approved" => replies[d] = cut[d] + 1
    /\ approval[d] = "rejected" => replies[d] = cut[d]

\* Unless they overlapped, what was decided stays decided.
DecisionStands ==
  \A d \in Drafts \ contested :
    approval[d] \in {"approved", "rejected"} => approval'[d] = approval[d]

\* Nothing hangs forever: an overdue request is decided in the end.
OverdueIsDecided ==
  \A d \in Drafts : d \in overdue /\ approval[d] = "pending" ~> approval[d] # "pending"

\* A draft has one outcome, it stands, and the row tells it.
ApprovalsHold ==
  [][(ApprovedWasSent /\ OneOutcome)' /\ DecisionStands]_approvalVars
=============================================================================
