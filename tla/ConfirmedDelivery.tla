-------------------------- MODULE ConfirmedDelivery --------------------------
(***************************************************************************)
(* What message delivery promises, without sockets, sessions or retries.   *)
(* A message is persisted once, reaches the local inbox of its recipient   *)
(* at most once, is marked delivered only after that, and its sender is    *)
(* told so only after it was marked (docs/ARCHITECTURE.md, "At-least-once  *)
(* delivery").  Module Delivery refines it.                                *)
(***************************************************************************)
EXTENDS Naturals, Sequences

CONSTANT Agents          \* the registered agents (slugs)

VARIABLES
  sent,        \* the messages table: sent[id] = [from, to]
  inbox,       \* inbox[a]: ids in the local inbox of agent a
  confirmed,   \* ids with delivered_at set
  told         \* told[a]: ids whose delivery was announced to sender a

vars == <<sent, inbox, confirmed, told>>

Row == [from : Agents, to : Agents]

TypeOK ==
  /\ sent \in Seq(Row)
  /\ inbox \in [Agents -> SUBSET DOMAIN sent]
  /\ confirmed \in SUBSET DOMAIN sent
  /\ told \in [Agents -> SUBSET DOMAIN sent]

Init ==
  /\ sent = <<>>
  /\ inbox = [a \in Agents |-> {}]
  /\ confirmed = {}
  /\ told = [a \in Agents |-> {}]

Send(row) ==
  /\ row.from # row.to
  /\ sent' = Append(sent, row)
  /\ UNCHANGED <<inbox, confirmed, told>>

Deliver(i) ==
  /\ i \notin inbox[sent[i].to]
  /\ inbox' = [inbox EXCEPT ![sent[i].to] = @ \cup {i}]
  /\ UNCHANGED <<sent, confirmed, told>>

Confirm(i) ==
  /\ i \in inbox[sent[i].to]
  /\ confirmed' = confirmed \cup {i}
  /\ UNCHANGED <<sent, inbox, told>>

Tell(i) ==
  /\ i \in confirmed
  /\ told' = [told EXCEPT ![sent[i].from] = @ \cup {i}]
  /\ UNCHANGED <<sent, inbox, confirmed>>

Next ==
  \/ \E row \in Row : Send(row)
  \/ \E i \in DOMAIN sent : Deliver(i) \/ Confirm(i) \/ Tell(i)

Spec == Init /\ [][Next]_vars

=============================================================================
