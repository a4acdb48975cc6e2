------------------------------ MODULE Delivery ------------------------------
(***************************************************************************)
(* End-to-end delivery of direct messages between agents: the hub's        *)
(* messages table, its per-connection sessions (ws.py) and its             *)
(* ConnectionManager, and each agent's daemon (HubClient, MessageStore and *)
(* the "message" handler of daemon/index.ts).                              *)
(*                                                                         *)
(* Every await of the hub at which another session may run separates two   *)
(* actions; what runs between two awaits, or in one callback of the        *)
(* daemon, is one action.  Connections are FIFO and may be lost at any     *)
(* moment, daemon and hub may crash, and either side may learn of the loss *)
(* arbitrarily late, so an old session can outlive its replacement.        *)
(*                                                                         *)
(* Left to other modules: the panel observers (mirrors of every message),  *)
(* key checks, groups, the auto-responder and the bodies of messages.      *)
(***************************************************************************)
EXTENDS Naturals, Sequences, FiniteSets

CONSTANTS
  Agents,        \* the registered agents (slugs)
  Conns,         \* connection slots; a slot is reused once both ends forgot it
  Owner,         \* Owner[c]: the agent whose daemon opens slot c
  NoConn,        \* "no connection"
  MaxSends,      \* bound on the sends that agents and the panel issue
  MaxFaults      \* bound on losses, crashes, timeouts, failures and expiries

ASSUME DeliveryAssumption ==
  /\ Owner \in [Conns -> Agents]
  /\ NoConn \notin Conns
  /\ MaxSends \in Nat
  /\ MaxFaults \in Nat

VARIABLES
  rows,       \* hub, durable: the messages table; a message's id is its index
  delivered,  \* hub, durable: ids with delivered_at set
  expired,    \* hub: ids whose expires_at has passed
  current,    \* hub: ConnectionManager._agents (NoConn: slug not in the dict)
  phase,      \* hub: how far the session of each connection is
  snapshot,   \* hub: local `pending` of _run_agent_connection
  job,        \* hub: what the session's handler has left to do after its commit
  posted,     \* hub: ids committed by an HTTP send and not yet dispatched
  up,         \* frames in flight from the daemon to the hub
  down,       \* frames in flight from the hub to the daemon
  ws,         \* daemon: HubClient.ws (NoConn: null)
  todo,       \* daemon: ids emitted as "message" and not yet handled
  store,      \* daemon, durable: hub ids of the MessageStore, in file order
  told,       \* daemon: ids for which a "delivered" was emitted
  sends,      \* number of sends issued so far (bounded by MaxSends)
  faults      \* number of faults so far (bounded by MaxFaults)

table   == <<rows, delivered, expired>>
session == <<current, phase, snapshot, job, posted>>
daemon  == <<ws, todo, store, told>>
bounds  == <<sends, faults>>
vars    == <<table, session, up, down, daemon, bounds>>

-----------------------------------------------------------------------------
Row       == [from : Agents, to : Agents]
Phase     == {"closed", "hello", "authed", "registered", "serving", "closing"}
Job       == [kind : {"none", "dispatch", "notify"}, id : Nat]
UpFrame   == [type : {"message"}, to : Agents] \cup [type : {"ack"}, id : Nat]
DownFrame == [type : {"hello_ack", "message", "delivered"}, ids : SUBSET Nat]

NoJob     == [kind |-> "none", id |-> 0]
Ids       == DOMAIN rows

\* Types of all variables: the ids the hub holds, sends and acknowledges are
\* ids of persisted messages, and a connection's sender is one of the agents.
TypeOK ==
  /\ rows \in Seq(Row)
  /\ delivered \in SUBSET Ids
  /\ expired \in SUBSET Ids
  /\ current \in [Agents -> Conns \cup {NoConn}]
  /\ phase \in [Conns -> Phase]
  /\ snapshot \in [Conns -> SUBSET Ids]
  /\ job \in [Conns -> Job]
  /\ \A c \in Conns : job[c].kind # "none" => job[c].id \in Ids
  /\ posted \in SUBSET Ids
  /\ up \in [Conns -> Seq(UpFrame)]
  /\ down \in [Conns -> Seq(DownFrame)]
  /\ ws \in [Agents -> Conns \cup {NoConn}]
  /\ todo \in [Agents -> SUBSET Ids]
  /\ store \in [Agents -> Seq(Nat)]
  /\ told \in [Agents -> SUBSET Nat]
  /\ sends \in 0..MaxSends
  /\ faults \in 0..MaxFaults

Init ==
  /\ rows = <<>>
  /\ delivered = {}
  /\ expired = {}
  /\ current = [a \in Agents |-> NoConn]
  /\ phase = [c \in Conns |-> "closed"]
  /\ snapshot = [c \in Conns |-> {}]
  /\ job = [c \in Conns |-> NoJob]
  /\ posted = {}
  /\ up = [c \in Conns |-> <<>>]
  /\ down = [c \in Conns |-> <<>>]
  /\ ws = [a \in Agents |-> NoConn]
  /\ todo = [a \in Agents |-> {}]
  /\ store = [a \in Agents |-> <<>>]
  /\ told = [a \in Agents |-> {}]
  /\ sends = 0
  /\ faults = 0

-----------------------------------------------------------------------------
(* Helpers *)

FaultHappens == faults < MaxFaults /\ faults' = faults + 1 /\ UNCHANGED sends

Stored(a) == {store[a][k] : k \in DOMAIN store[a]}

\* MessageRepository.pending_for: addressed to a, not acked and not expired.
PendingFor(a) == {i \in Ids : rows[i].to = a} \ (delivered \cup expired)

\* The daemon of c's agent still has this socket open.
Attached(c) == ws[Owner[c]] = c

\* The hub's end of c is open, so a send_json on it does not raise.
Writable(c) == phase[c] \in {"registered", "serving"}

\* ConnectionManager.send_to_agent: down the registered socket of a, if any;
\* False and no frame when there is none or the write raises.  What is written
\* to a socket the daemon has left is lost.
Push(a, frame) ==
  LET c == current[a]
  IN  IF c \in Conns /\ Writable(c) /\ Attached(c)
      THEN down' = [down EXCEPT ![c] = Append(@, frame)]
      ELSE UNCHANGED down

-----------------------------------------------------------------------------
(* The daemon: HubClient *)

\* connect(): at start and when the reconnect timer fires; "open" sends hello.
Connect(c) ==
  /\ ws[Owner[c]] = NoConn
  /\ phase[c] = "closed" /\ current[Owner[c]] # c
  /\ ws' = [ws EXCEPT ![Owner[c]] = c]
  /\ phase' = [phase EXCEPT ![c] = "hello"]
  /\ up' = [up EXCEPT ![c] = <<>>]
  /\ down' = [down EXCEPT ![c] = <<>>]
  /\ UNCHANGED <<table, current, snapshot, job, posted, todo, store, told, bounds>>

\* "close": the socket is gone, frames on their way to it are lost, and the
\* reconnect timer is armed.  A callback: it waits for the messages being handled.
OnClose(a) ==
  /\ ws[a] # NoConn /\ todo[a] = {}
  /\ ws' = [ws EXCEPT ![a] = NoConn]
  /\ down' = [down EXCEPT ![ws[a]] = <<>>]
  /\ UNCHANGED <<table, session, up, todo, store, told>>

\* The daemon learns that the hub closed its socket.
SocketClosed(a) ==
  /\ ws[a] # NoConn /\ phase[ws[a]] \in {"closing", "closed"}
  /\ OnClose(a)
  /\ UNCHANGED bounds

\* The network fails; the hub may notice much later.
ConnectionLost(a) ==
  /\ OnClose(a)
  /\ FaultHappens

\* The daemon process dies; a restart reloads the store from its file.
DaemonCrash(a) ==
  /\ ws[a] # NoConn
  /\ ws' = [ws EXCEPT ![a] = NoConn]
  /\ down' = [down EXCEPT ![ws[a]] = <<>>]
  /\ todo' = [todo EXCEPT ![a] = {}]
  /\ UNCHANGED <<table, session, up, store, told>>
  /\ FaultHappens

\* POST /send of the local API: hub.send() writes the frame if the socket is
\* open, hello_ack received or not.
SubmitSend(a, b) ==
  /\ ws[a] # NoConn /\ todo[a] = {}
  /\ sends < MaxSends
  /\ up' = [up EXCEPT ![ws[a]] = Append(@, [type |-> "message", to |-> b])]
  /\ sends' = sends + 1
  /\ UNCHANGED faults
  /\ UNCHANGED <<table, session, down, daemon>>

\* ws.on("message"): hello_ack emits one "message" per pending row, message
\* emits one, delivered only announces.
ReceiveFrame(a) ==
  LET c == ws[a]
      f == Head(down[c])
  IN  /\ c # NoConn /\ todo[a] = {} /\ down[c] # <<>>
      /\ down' = [down EXCEPT ![c] = Tail(@)]
      /\ IF f.type = "delivered"
         THEN /\ told' = [told EXCEPT ![a] = @ \cup f.ids]
              /\ UNCHANGED todo
         ELSE /\ todo' = [todo EXCEPT ![a] = f.ids]
              /\ UNCHANGED told
      /\ UNCHANGED <<table, session, up, ws, store, bounds>>

\* Bug variant: acks only what it newly stored.
AckNewOnly(a, i) ==
  /\ i \in todo[a] /\ \A j \in todo[a] : i <= j
  /\ todo' = [todo EXCEPT ![a] = @ \ {i}]
  /\ store' = [store EXCEPT ![a] = IF i \in Stored(a) THEN @ ELSE Append(@, i)]
  /\ up' = IF i \in Stored(a) THEN up
           ELSE [up EXCEPT ![ws[a]] = Append(@, [type |-> "ack", id |-> i])]
  /\ UNCHANGED <<table, session, down, ws, told, bounds>>

\* Bug variant: acks what it has not stored.
AckBeforeStore(a, i) ==
  /\ i \in todo[a] /\ todo' = [todo EXCEPT ![a] = @ \ {i}]
  /\ UNCHANGED store
  /\ up' = [up EXCEPT ![ws[a]] = Append(@, [type |-> "ack", id |-> i])]
  /\ UNCHANGED <<table, session, down, ws, told, bounds>>

\* Bug variant: no deduplication.
AppendAlways(a, i) ==
  /\ i \in todo[a] /\ todo' = [todo EXCEPT ![a] = @ \ {i}]
  /\ store' = [store EXCEPT ![a] = Append(@, i)]
  /\ up' = [up EXCEPT ![ws[a]] = Append(@, [type |-> "ack", id |-> i])]
  /\ UNCHANGED <<table, session, down, ws, told, bounds>>

\* hub.on("message") of daemon/index.ts, oldest id first: append to the store
\* unless its id is already there, then ack in both cases.
HandleMessage(a, i) ==
  /\ i \in todo[a] /\ \A j \in todo[a] : i <= j
  /\ todo' = [todo EXCEPT ![a] = @ \ {i}]
  /\ store' = [store EXCEPT ![a] = IF i \in Stored(a) THEN @ ELSE Append(@, i)]
  /\ up' = [up EXCEPT ![ws[a]] = Append(@, [type |-> "ack", id |-> i])]
  /\ UNCHANGED <<table, session, down, ws, told, bounds>>

-----------------------------------------------------------------------------
(* The hub: life of a session *)

\* authenticate_key and pending_for, in one short database session.
Authenticate(c) ==
  /\ phase[c] = "hello"
  /\ phase' = [phase EXCEPT ![c] = "authed"]
  /\ snapshot' = [snapshot EXCEPT ![c] = PendingFor(Owner[c])]
  /\ UNCHANGED <<table, current, job, posted, up, down, daemon, bounds>>

\* The client left before its hello, or the hello timed out.
HelloAbandoned(c) ==
  /\ phase[c] = "hello"
  /\ phase' = [phase EXCEPT ![c] = "closed"]
  /\ UNCHANGED <<table, current, snapshot, job, posted, up, down, daemon>>
  /\ FaultHappens

\* Bug variant: takes the slug over without closing the old socket.
RegisterKeepsOld(c) ==
  /\ phase[c] = "authed"
  /\ current' = [current EXCEPT ![Owner[c]] = c]
  /\ phase' = [phase EXCEPT ![c] = "registered"]
  /\ UNCHANGED <<table, snapshot, job, posted, up, down, daemon, bounds>>

\* connect_agent: take the slug over and close the socket it had (code 4000).
\* A replaced session that has not sent its hello_ack yet dies when it tries.
Register(c) ==
  LET old == current[Owner[c]]
  IN  /\ phase[c] = "authed"
      /\ current' = [current EXCEPT ![Owner[c]] = c]
      /\ phase' = [d \in Conns |->
                     CASE d = c                                     -> "registered"
                       [] d # c /\ d = old /\ phase[d] = "serving"    -> "closing"
                       [] d # c /\ d = old /\ phase[d] = "registered" -> "closed"
                       [] OTHER                                     -> phase[d]]
      /\ UNCHANGED <<table, snapshot, job, posted, up, down, daemon, bounds>>

\* hello_ack with the rows read by Authenticate; the receive loop starts.
SendHelloAck(c) ==
  /\ phase[c] = "registered"
  /\ phase' = [phase EXCEPT ![c] = "serving"]
  /\ snapshot' = [snapshot EXCEPT ![c] = {}]
  /\ down' = IF Attached(c)
             THEN [down EXCEPT ![c] =
                     Append(@, [type |-> "hello_ack", ids |-> snapshot[c]])]
             ELSE down
  /\ UNCHANGED <<table, current, job, posted, up, daemon, bounds>>

\* send_json(hello_ack) raises on a socket the client has left.  The try whose
\* finally calls disconnect_agent starts after it: the slug stays registered.
HelloAckFails(c) ==
  /\ phase[c] = "registered" /\ ~Attached(c)
  /\ phase' = [phase EXCEPT ![c] = "closed"]
  /\ UNCHANGED <<table, current, snapshot, job, posted, up, down, daemon, bounds>>

\* _heartbeat closes a socket that gave no frame for two intervals (4408).
HeartbeatTimeout(c) ==
  /\ phase[c] = "serving"
  /\ phase' = [phase EXCEPT ![c] = "closing"]
  /\ UNCHANGED <<table, current, snapshot, job, posted, up, down, daemon>>
  /\ FaultHappens

\* Bug variant: removes the slug whoever holds it.
EndEvictsAnyone(c) ==
  /\ phase' = [phase EXCEPT ![c] = "closed"]
  /\ current' = [current EXCEPT ![Owner[c]] = NoConn]
  /\ up' = [up EXCEPT ![c] = <<>>]
  /\ job' = [job EXCEPT ![c] = NoJob]
  /\ UNCHANGED <<table, snapshot, posted, down, daemon>>

\* disconnect_agent removes the slug only if it is still this connection's.
\* It then runs to the end of the finally block; unread frames are dropped.
EndSession(c) ==
  /\ phase' = [phase EXCEPT ![c] = "closed"]
  /\ current' = IF current[Owner[c]] = c
                THEN [current EXCEPT ![Owner[c]] = NoConn] ELSE current
  /\ up' = [up EXCEPT ![c] = <<>>]
  /\ job' = [job EXCEPT ![c] = NoJob]
  /\ UNCHANGED <<table, snapshot, posted, down, daemon>>

\* receive_text raises: the hub closed the socket, or sees that the client did.
SessionDisconnects(c) ==
  /\ phase[c] = "closing" \/ (phase[c] = "serving" /\ ~Attached(c))
  /\ job[c] = NoJob
  /\ EndSession(c)
  /\ UNCHANGED bounds

\* MessageService.send raises after the row is committed (audit or
\* notifications fail): the message is never dispatched, the session ends.
HandlerFails(c) ==
  /\ job[c].kind = "dispatch"
  /\ EndSession(c)
  /\ FaultHappens

\* The hub process dies and restarts: only the database survives.
HubRestart ==
  /\ \E c \in Conns : phase[c] # "closed"
  /\ current' = [a \in Agents |-> NoConn]
  /\ phase' = [c \in Conns |-> "closed"]
  /\ snapshot' = [c \in Conns |-> {}]
  /\ job' = [c \in Conns |-> NoJob]
  /\ posted' = {}
  /\ up' = [c \in Conns |-> <<>>]
  /\ UNCHANGED <<table, down, daemon>>
  /\ FaultHappens

-----------------------------------------------------------------------------
(* The hub: handlers of the receive loop *)

\* The loop reads its next frame; a socket the hub is closing may still yield.
NextFrame(c) ==
  /\ phase[c] \in {"serving", "closing"}
  /\ job[c] = NoJob /\ up[c] # <<>>
  /\ up' = [up EXCEPT ![c] = Tail(@)]

\* _handle_send: MessageService.send checks and commits the row ...
HandleSend(c) ==
  /\ NextFrame(c) /\ Head(up[c]).type = "message" /\ Head(up[c]).to # Owner[c]
  /\ rows' = Append(rows, [from |-> Owner[c], to |-> Head(up[c]).to])
  /\ job' = [job EXCEPT ![c] = [kind |-> "dispatch", id |-> Len(rows) + 1]]
  /\ UNCHANGED <<delivered, expired, current, phase, snapshot, posted,
                 down, daemon, bounds>>

\* ... or refuses it (rate limit, allowlist, a send to oneself, validation) with
\* an error frame.
RefuseSend(c) ==
  /\ NextFrame(c) /\ Head(up[c]).type = "message"
  /\ UNCHANGED <<table, session, down, daemon, bounds>>

\* Bug variant: a push that the socket accepted counts as delivered.
DispatchMarks(c) ==
  LET i == job[c].id
  IN  /\ job[c].kind = "dispatch"
      /\ Push(rows[i].to, [type |-> "message", ids |-> {i}])
      /\ delivered' = IF down' # down THEN delivered \cup {i} ELSE delivered
      /\ job' = [job EXCEPT ![c] = NoJob]
      /\ UNCHANGED <<rows, expired, current, phase, snapshot, posted, up,
                     daemon, bounds>>

\* Bug variant: announces to the sender as soon as it pushed.
DispatchAnnounces(c) ==
  LET i == job[c].id
  IN  /\ job[c].kind = "dispatch"
      /\ Push(rows[i].from, [type |-> "delivered", ids |-> {i}])
      /\ job' = [job EXCEPT ![c] = NoJob]
      /\ UNCHANGED <<table, current, phase, snapshot, posted, up, daemon, bounds>>

\* _dispatch: push to the recipient's registered socket; delivered_at stays null.
Dispatch(c) ==
  LET i == job[c].id
  IN  /\ job[c].kind = "dispatch"
      /\ Push(rows[i].to, [type |-> "message", ids |-> {i}])
      /\ job' = [job EXCEPT ![c] = NoJob]
      /\ UNCHANGED <<table, current, phase, snapshot, posted, up, daemon, bounds>>

\* _handle_ack / ack_delivery: only the recipient may ack; a repeated ack leaves
\* delivered_at alone but returns the message all the same.
HandleAck(c) ==
  LET i == Head(up[c]).id
  IN  /\ NextFrame(c) /\ Head(up[c]).type = "ack"
      /\ IF i \in Ids /\ rows[i].to = Owner[c]
         THEN /\ delivered' = delivered \cup {i}
              /\ job' = [job EXCEPT ![c] = [kind |-> "notify", id |-> i]]
         ELSE UNCHANGED <<delivered, job>>
      /\ UNCHANGED <<rows, expired, current, phase, snapshot, posted,
                     down, daemon, bounds>>

\* The rest of _handle_ack: `delivered` to the sender's registered socket.
Notify(c) ==
  LET i == job[c].id
  IN  /\ job[c].kind = "notify"
      /\ Push(rows[i].from, [type |-> "delivered", ids |-> {i}])
      /\ job' = [job EXCEPT ![c] = NoJob]
      /\ UNCHANGED <<table, current, phase, snapshot, posted, up, daemon, bounds>>

\* Bug variant: answers with an id that was never committed.
PanelSendUncommitted(a, b) ==
  /\ a # b /\ sends < MaxSends
  /\ posted' = posted \cup {Len(rows) + 1}
  /\ sends' = sends + 1
  /\ UNCHANGED faults
  /\ UNCHANGED <<table, current, phase, snapshot, job, up, down, daemon>>

\* POST /api/messages: a human sends as their agent a; commit ...
PanelSend(a, b) ==
  /\ a # b /\ sends < MaxSends
  /\ rows' = Append(rows, [from |-> a, to |-> b])
  /\ posted' = posted \cup {Len(rows) + 1}
  /\ sends' = sends + 1
  /\ UNCHANGED faults
  /\ UNCHANGED <<delivered, expired, current, phase, snapshot, job,
                 up, down, daemon>>

\* ... then the same push as _dispatch.
PanelDispatch(i) ==
  /\ i \in posted
  /\ Push(rows[i].to, [type |-> "message", ids |-> {i}])
  /\ posted' = posted \ {i}
  /\ UNCHANGED <<table, current, phase, snapshot, job, up, daemon, bounds>>

\* MessageService.send raises after the commit here too (the audit, a dead
\* database session): the request fails and nothing is pushed.
PanelSendFails(i) ==
  /\ i \in posted /\ posted' = posted \ {i}
  /\ UNCHANGED <<table, current, phase, snapshot, job, up, down, daemon>>
  /\ FaultHappens

\* expires_at passes (AMP_PENDING_TTL_DAYS after the send).
Expire(i) ==
  /\ i \in Ids \ (expired \cup delivered)
  /\ expired' = expired \cup {i}
  /\ UNCHANGED <<rows, delivered, session, up, down, daemon>>
  /\ FaultHappens

-----------------------------------------------------------------------------
DaemonStep(a) ==
  \/ ReceiveFrame(a) \/ SocketClosed(a)
  \/ \E i \in todo[a] : HandleMessage(a, i)

HubStep(c) ==
  \/ Authenticate(c) \/ Register(c) \/ SendHelloAck(c)
  \/ HandleSend(c) \/ RefuseSend(c) \/ Dispatch(c) \/ HandleAck(c) \/ Notify(c)
  \/ SessionDisconnects(c)

Fault ==
  \/ \E a \in Agents : ConnectionLost(a) \/ DaemonCrash(a)
  \/ \E c \in Conns : \/ HelloAbandoned(c) \/ HeartbeatTimeout(c)
                      \/ HandlerFails(c)
  \/ HubRestart
  \/ \E i \in posted : PanelSendFails(i)
  \/ \E i \in Ids : Expire(i)

Next ==
  \/ \E c \in Conns : Connect(c) \/ HubStep(c) \/ HelloAckFails(c)
  \/ \E a \in Agents : DaemonStep(a)
  \/ \E a, b \in Agents : SubmitSend(a, b) \/ PanelSend(a, b)
  \/ \E i \in posted : PanelDispatch(i)
  \/ Fault

Spec == Init /\ [][Next]_vars

\* asyncio and the event loop of Node run every ready task and callback, and
\* the reconnect timer fires; nothing obliges a user, a fault or the clock.
Fairness ==
  /\ \A c \in Conns : WF_vars(HubStep(c)) /\ WF_vars(Connect(c))
  /\ \A a \in Agents : WF_vars(DaemonStep(a))
  /\ \A i \in 1..MaxSends : WF_vars(PanelDispatch(i))

FairSpec == Spec /\ Fairness

-----------------------------------------------------------------------------
(* Properties *)

\* delivered_at means "the recipient confirmed receipt": a message marked
\* delivered is in its recipient's durable store, whatever was lost, repeated,
\* crashed or replaced on the way (daemon/index.ts acks after append; ws.py
\* marks on ack only).
DeliveredIsStored == \A i \in delivered : i \in Stored(rows[i].to)

\* How the hub and the daemons get there: whatever is in a socket's charge is its
\* agent's, a message is acked only once stored, and a `delivered` is only ever
\* on its way to the sender of a message that is marked.  Inductive, with TypeOK.
ForAgent(a) == {i \in Ids : rows[i].to = a}

SocketsAreOwn ==
  \A a \in Agents : /\ ws[a] # NoConn => Owner[ws[a]] = a
                    /\ current[a] # NoConn => Owner[current[a]] = a
                    /\ todo[a] # {} => ws[a] # NoConn

HandedOnlyToRecipient ==
  /\ \A c \in Conns : snapshot[c] \subseteq ForAgent(Owner[c])
  /\ \A c \in Conns : \A k \in DOMAIN down[c] :
       down[c][k].type # "delivered" => down[c][k].ids \subseteq ForAgent(Owner[c])
  /\ \A a \in Agents : todo[a] \subseteq ForAgent(a)
  /\ \A a \in Agents : Stored(a) \subseteq ForAgent(a)

AckedIsStored ==
  \A c \in Conns : \A k \in DOMAIN up[c] :
    up[c][k].type = "ack" => up[c][k].id \in Stored(Owner[c])

Announces(ids, a) == \E i \in delivered : ids = {i} /\ rows[i].from = a

AnnouncedIsDelivered ==
  /\ \A c \in Conns : job[c].kind = "notify" => job[c].id \in delivered
  /\ \A c \in Conns : \A k \in DOMAIN down[c] :
       down[c][k].type = "delivered" => Announces(down[c][k].ids, Owner[c])
  /\ \A a \in Agents : \A i \in told[a] : i \in delivered /\ rows[i].from = a

Custody ==
  /\ SocketsAreOwn
  /\ HandedOnlyToRecipient
  /\ AckedIsStored
  /\ AnnouncedIsDelivered
  /\ DeliveredIsStored

\* Redelivery never yields a second line in the recipient's history: the store
\* deduplicates by hub id (MessageStore.append).
StoredOnce ==
  \A a \in Agents : Cardinality(Stored(a)) = Len(store[a])

\* A daemon whose socket the hub still serves can be reached: its slug is
\* registered to that very socket, even when sessions of the same agent register
\* or end out of order (connect_agent, disconnect_agent).
AttachedIsRegistered ==
  \A c \in Conns : Writable(c) /\ Attached(c) => current[Owner[c]] = c

\* The end of a replaced session never takes its successor off the registry
\* (the identity check of disconnect_agent).
OnlyOwnSessionDeregisters ==
  [][\A a \in Agents :
       current[a] # NoConn /\ current'[a] = NoConn => phase'[current[a]] = "closed"]_vars

\* Every message the hub has written to a live session, in its hello_ack or by a
\* dispatch, and every one its hello_ack will name, is confirmed unless that very
\* connection is lost: the daemon acks also what it had already stored.  A commit
\* is not yet a handover: the handler may fail before it dispatches, and then the
\* message waits for the next hello.
HandedOver(i, c) ==
  /\ Attached(c)
  /\ \/ phase[c] = "registered" /\ i \in snapshot[c]
     \/ /\ phase[c] = "serving"
        /\ \E k \in DOMAIN down[c] : down[c][k].type # "delivered" /\ i \in down[c][k].ids

HandoverIsConfirmed ==
  \A i \in 1..MaxSends, c \in Conns :
    HandedOver(i, c) ~> (i \in delivered \/ ~Attached(c) \/ ~Writable(c))

\* Once faults stop, every daemon ends up with a socket the hub serves and has
\* registered, and keeps it: no lingering session, late registration or
\* replacement leaves an agent without a way to be reached.  The agent has a
\* connection to spare: nothing obliges the hub to notice that an old one is dead.
EventuallyOnline ==
  \A a \in {Owner[c] : c \in Conns} :
    (\E c, d \in Conns : c # d /\ Owner[c] = a /\ Owner[d] = a) =>
      <>[](\E c \in Conns : ws[a] = c /\ current[a] = c /\ phase[c] = "serving")

\* The hub and the daemons implement the abstract contract.
Contract == INSTANCE ConfirmedDelivery
  WITH sent <- rows, inbox <- [a \in Agents |-> Stored(a)],
       confirmed <- delivered, told <- told

ImplementsContract == Contract!Spec

-----------------------------------------------------------------------------
(* Statements of the source that the code does not keep *)

\* connection_manager.py, _send_quietly: "a dead connection is removed by its
\* own loop", so no slug stays registered to a session that is over.
DeadConnectionIsRemoved ==
  \A a \in Agents : current[a] # NoConn => phase[current[a]] # "closed"

=============================================================================
