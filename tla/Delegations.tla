---------------------------- MODULE Delegations ----------------------------
(* Tasks one agent hands to another (services/delegation_service.py): the    *)
(* task is a message, the row that tracks it is written after it was sent,   *)
(* and a reply in its thread closes it (services/message_service.py), while  *)
(* a card on the delegate's board follows on either side.  Any of these      *)
(* steps may raise: a hand-off then ends where it is, and the handling of an *)
(* answer, which is best effort, is given up in silence.                     *)
EXTENDS Naturals, FiniteSets

CONSTANTS Tasks,      \* what one agent delegates
          MaxOpen,    \* DEFAULT_MAX_OPEN
          Sockets,    \* delegations of this agent the hub handles at a time
          MaxAnswers, MaxHalts \* bounds of the exploration
ASSUME DelegationsAssumption ==
  {MaxOpen, Sockets} \subseteq Nat \ {0} /\ {MaxAnswers, MaxHalts} \subseteq Nat

VARIABLES handing,    \* how far delegate() is with each task
          delegation, \* status of its row, or "absent"
          answers,    \* replies of the delegate stored in its thread
          closing,    \* how far the hub is with the latest reply
          eventCard,  \* the card on the delegate's board
          crowded,        \* history: two hand-offs overlapped
          early, dropped, \* history: tasks whose latest answer found no row; or whose
                          \* handling an error or a halt cut short
          late, kept,     \* history: cards that came after the answer; cards left
                          \* where they were by the board, an error or a halt
          halts
delegationVars == <<handing, delegation, answers, closing, eventCard, crowded,
                    early, dropped, late, kept, halts>>
delegationLog == <<early, dropped, late, kept, halts>>

Underway == {t \in Tasks : handing[t] \in {"send", "add", "decline"}}
OpenRows == {t \in Tasks : delegation[t] = "open"}

DelegationsInit ==
  /\ handing = [t \in Tasks |-> "new"] /\ delegation = [t \in Tasks |-> "absent"]
  /\ answers = [t \in Tasks |-> 0] /\ closing = [t \in Tasks |-> "rest"]
  /\ eventCard = [t \in Tasks |-> "none"]
  /\ crowded = FALSE /\ early = {} /\ dropped = {} /\ late = {} /\ kept = {} /\ halts = 0

To(t, stage) == handing' = [handing EXCEPT ![t] = stage]

\* Bug variant: the cap is off by one.
BelowCapPlusOne == Cardinality(OpenRows) <= MaxOpen

BelowCap == Cardinality(OpenRows) < MaxOpen

\* delegate, up to the send; above the cap it is refused.
Delegate(t) ==
  /\ handing[t] = "new" /\ Cardinality(Underway) < Sockets
  /\ To(t, IF BelowCap THEN "send" ELSE "over")
  /\ crowded' = (crowded \/ Underway # {})
  /\ UNCHANGED <<delegation, answers, closing, eventCard, delegationLog>>

\* The task is stored and pushed, or the delegate's allowlist refuses it, or
\* something else does: the delegate is gone, the text too long.
SendTask(t) ==
  /\ handing[t] = "send" /\ \E stage \in {"add", "decline", "over"} : To(t, stage)
  /\ UNCHANGED <<delegation, answers, closing, eventCard, crowded, delegationLog>>

\* Bug variant: the row is lost.
RecordedNever(t, status) == UNCHANGED delegation

Recorded(t, status) == delegation' = [delegation EXCEPT ![t] = status]

AddDelegation(t) ==
  /\ \/ handing[t] = "add" /\ Recorded(t, "open") /\ To(t, "card")
     \/ handing[t] = "decline" /\ Recorded(t, "declined") /\ To(t, "over")
  /\ UNCHANGED <<answers, closing, eventCard, crowded, delegationLog>>

\* _maybe_event_card: no board opted in, or it failed, and there is no card.
EventCard(t) ==
  /\ handing[t] = "card" /\ To(t, "over")
  /\ \/ UNCHANGED eventCard
     \/ eventCard' = [eventCard EXCEPT ![t] = "landing"]
  /\ UNCHANGED <<delegation, answers, closing, crowded, delegationLog>>

\* What follows the commit of the task raises (its audit record, the push, the
\* row), or what follows the row: a task without its row is "lost".
HandOffFails(t) ==
  /\ handing[t] \in {"add", "decline", "card"} /\ To(t, IF handing[t] = "add" THEN "lost" ELSE "over")
  /\ UNCHANGED <<delegation, answers, closing, eventCard, crowded, delegationLog>>

-----------------------------------------------------------------------------
(* The delegate answers in the thread of the task.                           *)

Sent(t) == handing[t] \in {"add", "card", "lost"} \/ delegation[t] \in {"open", "completed"}

Reply(t) ==
  /\ Sent(t) /\ closing[t] = "rest" /\ answers[t] < MaxAnswers
  /\ answers' = [answers EXCEPT ![t] = @ + 1] /\ closing' = [closing EXCEPT ![t] = "find"]
  /\ early' = early \ {t} /\ dropped' = dropped \ {t}
  /\ UNCHANGED <<handing, delegation, eventCard, crowded, late, kept, halts>>

\* Bug variant: the reply is looked up by its own id.
MatchesNone(t) == FALSE

Matches(t) == delegation[t] = "open"

\* find_open_for_reply
FindDelegation(t) ==
  /\ closing[t] = "find"
  /\ closing' = [closing EXCEPT ![t] = IF Matches(t) THEN "save" ELSE "rest"]
  /\ early' = IF delegation[t] = "absent" THEN early \cup {t} ELSE early
  /\ UNCHANGED <<handing, delegation, answers, eventCard, crowded, dropped, late, kept, halts>>

CompleteDelegation(t) ==
  /\ closing[t] = "save" /\ closing' = [closing EXCEPT ![t] = "card"]
  /\ delegation' = [delegation EXCEPT ![t] = "completed"]
  /\ UNCHANGED <<handing, answers, eventCard, crowded, delegationLog>>

\* Bug variant: the card is left where it is.
CardStays(t) == UNCHANGED eventCard

CardDone(t) ==
  eventCard' = IF eventCard[t] = "landing" THEN [eventCard EXCEPT ![t] = "done"] ELSE eventCard

\* complete_card_for_event: no card, nothing to do.  The board leaves a blocked
\* card, or any if it has no Done column, and refuses when Done is full; a card
\* moved by a person is left to the board's own module.
CompleteCard(t) ==
  /\ closing[t] = "card" /\ closing' = [closing EXCEPT ![t] = "rest"]
  /\ \/ CardDone(t) /\ UNCHANGED kept
     \/ eventCard[t] = "landing" /\ kept' = kept \cup {t} /\ UNCHANGED eventCard
  /\ late' = IF handing[t] = "card" THEN late \cup {t} ELSE late
  /\ UNCHANGED <<handing, delegation, answers, crowded, early, dropped, halts>>

\* The handling of the answers of some tasks ends where it is.
CutShort(tasks) ==
  /\ dropped' = dropped \cup {t \in tasks : closing[t] \in {"find", "save"}}
  /\ kept' = kept \cup {t \in tasks : closing[t] = "card"}
  /\ closing' = [t \in Tasks |-> IF t \in tasks THEN "rest" ELSE closing[t]]

\* The reply is committed, and what send does next raises, or what
\* _maybe_complete_delegation does, which catches it: neither is retried.
CompletionFails(t) ==
  /\ closing[t] # "rest" /\ CutShort({t})
  /\ UNCHANGED <<handing, delegation, answers, eventCard, crowded, early, late, halts>>

HubHalts ==
  /\ halts < MaxHalts /\ halts' = halts + 1 /\ CutShort(Tasks)
  /\ handing' = [t \in Tasks |-> IF handing[t] = "new" THEN "new"
                                 ELSE IF handing[t] \in {"add", "lost"} THEN "lost" ELSE "over"]
  /\ UNCHANGED <<delegation, answers, eventCard, crowded, early, late>>

DelegationsNext ==
  \/ \E t \in Tasks : \/ Delegate(t) \/ SendTask(t) \/ AddDelegation(t) \/ EventCard(t)
                      \/ HandOffFails(t) \/ Reply(t) \/ FindDelegation(t) \/ CompleteDelegation(t)
                      \/ CompleteCard(t) \/ CompletionFails(t)
  \/ HubHalts

DelegationsSpec == DelegationsInit /\ [][DelegationsNext]_delegationVars

-----------------------------------------------------------------------------
\* Every variable has its type, and a card stands for a row.
DelegationsTypeOK ==
  /\ handing \in [Tasks -> {"new", "send", "add", "decline", "card", "lost", "over"}]
  /\ delegation \in [Tasks -> {"absent", "open", "completed", "declined"}]
  /\ answers \in [Tasks -> Nat] /\ closing \in [Tasks -> {"rest", "find", "save", "card"}]
  /\ eventCard \in [Tasks -> {"none", "landing", "done"}]
  /\ \A t \in Tasks : eventCard[t] # "none" => delegation[t] \in {"open", "completed"}
  /\ crowded \in BOOLEAN /\ early \cup dropped \cup late \cup kept \subseteq Tasks

\* The blast radius is bounded: an agent has at most max_open tasks open, unless
\* two of its sockets delegated at once (a replaced one and its successor).
OpenCap == crowded \/ Cardinality(OpenRows) <= MaxOpen

\* An answered task is closed once the hub is through with its latest answer,
\* unless that answer found no row (it overtook it, or the hand-off failed before
\* writing it) or an error or a halt cut its handling short.
AnsweredIsCompleted ==
  \A t \in Tasks \ (early \cup dropped) :
    answers[t] > 0 /\ closing[t] = "rest" => delegation[t] = "completed"

\* The card of a closed task ends in Done, unless it was still to come when the
\* answer was handled, or the board, an error or a halt left it where it was.
CompletedCardIsDone ==
  \A t \in Tasks \ (late \cup kept) :
    delegation[t] = "completed" /\ closing[t] = "rest" => eventCard[t] # "landing"

\* Whatever fails or overlaps, the hub closes a task for an answer only, and
\* moves the card of a closed task only.
DoneIsEarned ==
  \A t \in Tasks :
    /\ delegation[t] = "completed" => answers[t] > 0
    /\ eventCard[t] = "done" => delegation[t] = "completed"

\* Delegated tasks are bounded and closed, with their cards.
DelegationsHold == OpenCap /\ AnsweredIsCompleted /\ CompletedCardIsDone /\ DoneIsEarned
=============================================================================
