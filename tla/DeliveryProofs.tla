--------------------------- MODULE DeliveryProofs ---------------------------
(***************************************************************************)
(* Proofs about Delivery: types, and custody of every message in flight,   *)
(* for any agents, connections, ownership of connections and bounds.       *)
(*                                                                         *)
(* IInv is inductive.  DeliveredIsStored alone is not: to mark a message   *)
(* the hub reads an ack, so acks in flight must name stored messages; the  *)
(* daemon acks what it was handed, so what it is handed must be its own    *)
(* agent's; and that in turn rests on sockets belonging to one agent.      *)
(* One lemma per action, one step per part of the invariant.               *)
(*                                                                         *)
(* The last section maps every step to one of ConfirmedDelivery, or to a   *)
(* stutter: Delivery implements it.                                        *)
(***************************************************************************)
EXTENDS Delivery, FiniteSetTheorems, TLAPS

\* The inductive invariant.
IInv == TypeOK /\ Custody

-----------------------------------------------------------------------------
(* Sequences of frames *)

\* What a sequence holds after an append (a frame sent, a line stored, a row).
LEMMA AppendedFrame ==
  ASSUME NEW S, NEW s \in Seq(S), NEW e \in S
  PROVE  /\ Append(s, e) \in Seq(S)
         /\ \A k \in DOMAIN s : k \in DOMAIN Append(s, e) /\ Append(s, e)[k] = s[k]
         /\ \A k \in DOMAIN Append(s, e) :
              \/ k \in DOMAIN s /\ Append(s, e)[k] = s[k]
              \/ k = Len(s) + 1 /\ Append(s, e)[k] = e
         /\ Len(s) + 1 \in DOMAIN Append(s, e)
         /\ Append(s, e)[Len(s) + 1] = e
OBVIOUS

\* What a non-empty sequence holds, and keeps once its head was read.
LEMMA RemovedFrame ==
  ASSUME NEW S, NEW s \in Seq(S), s # <<>>
  PROVE  /\ 1 \in DOMAIN s /\ Head(s) = s[1] /\ Head(s) \in S
         /\ Tail(s) \in Seq(S)
         /\ \A k \in DOMAIN Tail(s) : k + 1 \in DOMAIN s /\ Tail(s)[k] = s[k + 1]
OBVIOUS

\* MessageStore.append adds one id to the store of one agent, once.
LEMMA StoredGrows ==
  ASSUME NEW a \in Agents, NEW i \in Nat, store \in [Agents -> Seq(Nat)],
         store' = [store EXCEPT ![a] = IF i \in Stored(a) THEN @ ELSE Append(@, i)]
  PROVE  /\ store' \in [Agents -> Seq(Nat)]
         /\ \A b \in Agents : Stored(b)' = IF b = a THEN Stored(a) \cup {i} ELSE Stored(b)
<1>1. store' \in [Agents -> Seq(Nat)]
  BY AppendedFrame
<1>2. CASE i \in Stored(a)
  <2>1. store' = store
    BY <1>2
  <2> QED BY <2>1, <1>1, <1>2 DEF Stored
<1>3. CASE i \notin Stored(a)
  <2>1. store'[a] = Append(store[a], i) /\ \A b \in Agents \ {a} : store'[b] = store[b]
    BY <1>3
  <2>2. \A b \in Agents \ {a} : Stored(b)' = Stored(b)
    BY <2>1 DEF Stored
  <2>3. store[a] \in Seq(Nat)
    OBVIOUS
  <2>4. Stored(a)' = Stored(a) \cup {i}
    BY <2>1, <2>3, AppendedFrame DEF Stored
  <2> QED BY <1>1, <2>2, <2>4
<1> QED BY <1>2, <1>3

-----------------------------------------------------------------------------
(* The table only grows; a push reaches the recipient's socket or nobody *)

\* The messages table only grows: a row added disturbs no other.
LEMMA TableGrows ==
  ASSUME TypeOK, NEW r \in Row, rows' = Append(rows, r)
  PROVE  /\ rows' \in Seq(Row)
         /\ Ids \subseteq Ids' /\ Ids \subseteq Nat /\ Len(rows) + 1 \in Ids'
         /\ Len(rows) + 1 \in Nat
         /\ \A i \in Ids : rows'[i] = rows[i]
         /\ \A a \in Agents : ForAgent(a) \subseteq ForAgent(a)'
<1>1. rows \in Seq(Row)
  BY DEF TypeOK
<1>2. /\ rows' \in Seq(Row)
      /\ Ids \subseteq Ids' /\ Ids \subseteq Nat /\ Len(rows) + 1 \in Ids'
      /\ Len(rows) + 1 \in Nat
      /\ \A i \in Ids : rows'[i] = rows[i]
  BY <1>1, AppendedFrame DEF Ids
<1> QED
  BY <1>2 DEF ForAgent

\* The row of a known id has a sender and a recipient among the agents.
LEMMA RowOf ==
  ASSUME TypeOK, NEW i \in Ids
  PROVE  i \in Nat /\ rows[i].from \in Agents /\ rows[i].to \in Agents
<1>1. rows \in Seq(Row)
  BY DEF TypeOK
<1>2. i \in Nat /\ rows[i] \in Row
  BY <1>1 DEF Ids
<1> QED BY <1>2 DEF Row

\* ConnectionManager.send_to_agent puts its frame on a socket of that agent, or
\* nowhere; every other frame stays where it was.
LEMMA PushedFrame ==
  ASSUME TypeOK, SocketsAreOwn, NEW a \in Agents, NEW f \in DownFrame, Push(a, f)
  PROVE  /\ down' \in [Conns -> Seq(DownFrame)]
         /\ \A c \in Conns : \A k \in DOMAIN down'[c] :
              \/ k \in DOMAIN down[c] /\ down'[c][k] = down[c][k]
              \/ down'[c][k] = f /\ Owner[c] = a
<1> USE DeliveryAssumption
<1>1. down \in [Conns -> Seq(DownFrame)] /\ current \in [Agents -> Conns \cup {NoConn}]
  BY DEF TypeOK
<1>2. CASE down' = down
  BY <1>1, <1>2
<1>3. CASE /\ current[a] \in Conns
           /\ down' = [down EXCEPT ![current[a]] = Append(@, f)]
  <2> DEFINE c == current[a]
  <2>1. Owner[c] = a /\ c \in Conns /\ down[c] \in Seq(DownFrame)
    BY <1>1, <1>3 DEF SocketsAreOwn
  <2>2. down'[c] = Append(down[c], f) /\ \A d \in Conns \ {c} : down'[d] = down[d]
    BY <1>1, <1>3, <2>1
  <2>3. Append(down[c], f) \in Seq(DownFrame)
    BY <2>1, AppendedFrame
  <2>4. down' \in [Conns -> Seq(DownFrame)]
    BY <1>1, <1>3, <2>1, <2>3
  <2>5. ASSUME NEW d \in Conns, NEW k \in DOMAIN down'[d]
        PROVE  \/ k \in DOMAIN down[d] /\ down'[d][k] = down[d][k]
               \/ down'[d][k] = f /\ Owner[d] = a
    <3>1. CASE d = c
      BY <3>1, <2>1, <2>2, AppendedFrame
    <3>2. CASE d # c
      BY <3>2, <2>2
    <3> QED BY <3>1, <3>2
  <2> QED BY <2>4, <2>5
<1> QED
  BY <1>2, <1>3 DEF Push

-----------------------------------------------------------------------------
(* One lemma per action: it preserves the inductive invariant *)

\* connect() opens a socket without frames, in the name of its own agent.
LEMMA ConnectStep ==
  ASSUME IInv, NEW c \in Conns, Connect(c)
  PROVE  IInv'
<1> USE DeliveryAssumption
<1>1. TypeOK /\ Custody
  BY DEF IInv
<1>2. UNCHANGED <<rows, delivered, expired, current, snapshot, job, posted, todo,
                  store, told, sends, faults>>
  BY DEF Connect, table, session, daemon, bounds
<1>tws. (ws \in [Agents -> Conns \cup {NoConn}])'
  BY <1>1, <1>2 DEF TypeOK, Connect
<1>tphase. (phase \in [Conns -> Phase])'
  BY <1>1, <1>2 DEF TypeOK, Connect, Phase
<1>tup. (up \in [Conns -> Seq(UpFrame)])'
  BY <1>1, <1>2 DEF TypeOK, Connect, UpFrame
<1>tdown. (down \in [Conns -> Seq(DownFrame)])'
  BY <1>1, <1>2 DEF TypeOK, Connect, DownFrame
<1>3. TypeOK'
  BY <1>1, <1>2, <1>tws, <1>tphase, <1>tup, <1>tdown DEF TypeOK, Ids
<1>4. SocketsAreOwn'
  BY <1>1, <1>2, <1>3 DEF Custody, TypeOK, SocketsAreOwn, Connect
<1>5. HandedOnlyToRecipient'
  BY <1>1, <1>2, <1>3
     DEF Custody, TypeOK, HandedOnlyToRecipient, ForAgent, Ids, Stored, Connect
<1>6. AckedIsStored'
  BY <1>1, <1>2, <1>3 DEF Custody, TypeOK, AckedIsStored, Stored, Connect
<1>7. AnnouncedIsDelivered'
  <2>1. \A d \in Conns : \A k \in DOMAIN down'[d] :
          k \in DOMAIN down[d] /\ down'[d][k] = down[d][k]
    BY <1>1 DEF TypeOK, Connect
  <2>2. \A s, b : Announces(s, b)' = Announces(s, b)
    BY <1>2 DEF Announces
  <2> QED BY <1>1, <1>2, <2>1, <2>2 DEF Custody, AnnouncedIsDelivered
<1>8. DeliveredIsStored'
  BY <1>1, <1>2 DEF Custody, DeliveredIsStored, Stored
<1> QED BY <1>3, <1>4, <1>5, <1>6, <1>7, <1>8 DEF IInv, Custody

\* The pending snapshot holds rows addressed to the connection's agent.
LEMMA AuthenticateStep ==
  ASSUME IInv, NEW c \in Conns, Authenticate(c)
  PROVE  IInv'
<1> USE DeliveryAssumption
<1>1. TypeOK /\ Custody
  BY DEF IInv
<1>2. UNCHANGED <<rows, delivered, expired, current, job, posted, up, down, ws, todo,
                  store, told, sends, faults>>
  BY DEF Authenticate, table, session, daemon, bounds
<1>p. /\ snapshot' = [snapshot EXCEPT ![c] = PendingFor(Owner[c])]
      /\ PendingFor(Owner[c]) \subseteq Ids
      /\ PendingFor(Owner[c]) \subseteq ForAgent(Owner[c])
  BY DEF Authenticate, PendingFor, ForAgent
<1>tphase. (phase \in [Conns -> Phase])'
  BY <1>1, <1>2 DEF TypeOK, Authenticate, Phase
<1>tsnapshot. (snapshot \in [Conns -> SUBSET Ids])'
  BY <1>1, <1>2, <1>p DEF TypeOK, Authenticate, Ids
<1>3. TypeOK'
  BY <1>1, <1>2, <1>tphase, <1>tsnapshot DEF TypeOK, Ids
<1>4. SocketsAreOwn'
  BY <1>1, <1>2 DEF Custody, SocketsAreOwn
<1>5. HandedOnlyToRecipient'
  <2>1. \A d \in Conns : snapshot'[d] \subseteq ForAgent(Owner[d])
    BY <1>1, <1>p DEF TypeOK, Custody, HandedOnlyToRecipient
  <2> QED BY <1>1, <1>2, <2>1 DEF Custody, HandedOnlyToRecipient, ForAgent, Ids, Stored
<1>6. AckedIsStored'
  BY <1>1, <1>2 DEF Custody, AckedIsStored, Stored
<1>7. AnnouncedIsDelivered'
  BY <1>1, <1>2 DEF Custody, AnnouncedIsDelivered, Announces
<1>8. DeliveredIsStored'
  BY <1>1, <1>2 DEF Custody, DeliveredIsStored, Stored
<1> QED BY <1>3, <1>4, <1>5, <1>6, <1>7, <1>8 DEF IInv, Custody

\* A hello that never comes moves no message.
LEMMA HelloAbandonedStep ==
  ASSUME IInv, NEW c \in Conns, HelloAbandoned(c)
  PROVE  IInv'
<1> USE DeliveryAssumption
<1>1. TypeOK /\ Custody
  BY DEF IInv
<1>2. UNCHANGED <<rows, delivered, expired, current, snapshot, job, posted, up, down,
                  ws, todo, store, told, sends>>
  BY DEF HelloAbandoned, FaultHappens, table, session, daemon, bounds
<1>tphase. (phase \in [Conns -> Phase])'
  BY <1>1, <1>2 DEF TypeOK, HelloAbandoned, FaultHappens, Phase
<1>tfaults. (faults \in 0..MaxFaults)'
  BY <1>1, <1>2 DEF TypeOK, HelloAbandoned, FaultHappens
<1>3. TypeOK'
  BY <1>1, <1>2, <1>tphase, <1>tfaults DEF TypeOK, Ids
<1>4. SocketsAreOwn'
  BY <1>1, <1>2 DEF Custody, SocketsAreOwn
<1>5. HandedOnlyToRecipient'
  BY <1>1, <1>2 DEF Custody, HandedOnlyToRecipient, ForAgent, Ids, Stored
<1>6. AckedIsStored'
  BY <1>1, <1>2 DEF Custody, AckedIsStored, Stored
<1>7. AnnouncedIsDelivered'
  BY <1>1, <1>2 DEF Custody, AnnouncedIsDelivered, Announces
<1>8. DeliveredIsStored'
  BY <1>1, <1>2 DEF Custody, DeliveredIsStored, Stored
<1> QED BY <1>3, <1>4, <1>5, <1>6, <1>7, <1>8 DEF IInv, Custody

\* connect_agent registers a connection under its own agent.
LEMMA RegisterStep ==
  ASSUME IInv, NEW c \in Conns, Register(c)
  PROVE  IInv'
<1> USE DeliveryAssumption
<1>1. TypeOK /\ Custody
  BY DEF IInv
<1>2. UNCHANGED <<rows, delivered, expired, snapshot, job, posted, up, down, ws, todo,
                  store, told, sends, faults>>
  BY DEF Register, table, session, daemon, bounds
<1>tcurrent. (current \in [Agents -> Conns \cup {NoConn}])'
  BY <1>1, <1>2 DEF TypeOK, Register
<1>tphase. (phase \in [Conns -> Phase])'
  BY <1>1, <1>2 DEF TypeOK, Register, Phase
<1>3. TypeOK'
  BY <1>1, <1>2, <1>tcurrent, <1>tphase DEF TypeOK, Ids
<1>4. SocketsAreOwn'
  BY <1>1, <1>2, <1>3 DEF Custody, TypeOK, SocketsAreOwn, Register
<1>5. HandedOnlyToRecipient'
  BY <1>1, <1>2 DEF Custody, HandedOnlyToRecipient, ForAgent, Ids, Stored
<1>6. AckedIsStored'
  BY <1>1, <1>2 DEF Custody, AckedIsStored, Stored
<1>7. AnnouncedIsDelivered'
  BY <1>1, <1>2 DEF Custody, AnnouncedIsDelivered, Announces
<1>8. DeliveredIsStored'
  BY <1>1, <1>2 DEF Custody, DeliveredIsStored, Stored
<1> QED BY <1>3, <1>4, <1>5, <1>6, <1>7, <1>8 DEF IInv, Custody

\* hello_ack carries the snapshot, hence rows of the connection's agent.
LEMMA SendHelloAckStep ==
  ASSUME IInv, NEW c \in Conns, SendHelloAck(c)
  PROVE  IInv'
<1> USE DeliveryAssumption
<1>1. TypeOK /\ Custody
  BY DEF IInv
<1>2. UNCHANGED <<rows, delivered, expired, current, job, posted, up, ws, todo, store,
                  told, sends, faults>>
  BY DEF SendHelloAck, table, session, daemon, bounds
<1>p. /\ snapshot[c] \subseteq ForAgent(Owner[c]) /\ snapshot[c] \subseteq Nat
      /\ down \in [Conns -> Seq(DownFrame)] /\ down[c] \in Seq(DownFrame)
  BY <1>1 DEF TypeOK, Custody, HandedOnlyToRecipient, Ids
<1>q. [type |-> "hello_ack", ids |-> snapshot[c]] \in DownFrame
  BY <1>p DEF DownFrame
<1>r. /\ down' \in [Conns -> Seq(DownFrame)]
      /\ \A d \in Conns : \A k \in DOMAIN down'[d] :
           \/ k \in DOMAIN down[d] /\ down'[d][k] = down[d][k]
           \/ d = c /\ down'[d][k] = [type |-> "hello_ack", ids |-> snapshot[c]]
  <2> DEFINE f == [type |-> "hello_ack", ids |-> snapshot[c]]
  <2>1. CASE down' = down
    BY <2>1, <1>p
  <2>2. CASE down' = [down EXCEPT ![c] = Append(@, f)]
    <3>1. down'[c] = Append(down[c], f) /\ \A d \in Conns \ {c} : down'[d] = down[d]
      BY <2>2, <1>p
    <3>2. Append(down[c], f) \in Seq(DownFrame)
      BY <1>p, <1>q, AppendedFrame
    <3>3. \A k \in DOMAIN Append(down[c], f) :
            \/ k \in DOMAIN down[c] /\ Append(down[c], f)[k] = down[c][k]
            \/ Append(down[c], f)[k] = f
      BY <1>p, <1>q, AppendedFrame
    <3> QED BY <2>2, <1>p, <3>1, <3>2, <3>3
  <2> QED BY <2>1, <2>2 DEF SendHelloAck
<1>s. snapshot' = [snapshot EXCEPT ![c] = {}]
  BY DEF SendHelloAck
<1>tphase. (phase \in [Conns -> Phase])'
  BY <1>1, <1>2 DEF TypeOK, SendHelloAck, Phase
<1>tsnapshot. (snapshot \in [Conns -> SUBSET Ids])'
  BY <1>1, <1>2, <1>s DEF TypeOK, SendHelloAck, Ids, Ids
<1>tdown. (down \in [Conns -> Seq(DownFrame)])'
  BY <1>1, <1>2, <1>r DEF TypeOK, SendHelloAck, DownFrame
<1>3. TypeOK'
  BY <1>1, <1>2, <1>tphase, <1>tsnapshot, <1>tdown DEF TypeOK, Ids
<1>4. SocketsAreOwn'
  BY <1>1, <1>2 DEF Custody, SocketsAreOwn
<1>5. HandedOnlyToRecipient'
  <2>1. \A a \in Agents : ForAgent(a)' = ForAgent(a) /\ Stored(a)' = Stored(a)
    BY <1>2 DEF ForAgent, Ids, Stored
  <2>2. \A d \in Conns : snapshot'[d] \subseteq ForAgent(Owner[d])
    BY <1>1, <1>s DEF TypeOK, Custody, HandedOnlyToRecipient
  <2>3. \A d \in Conns : \A k \in DOMAIN down'[d] :
          down'[d][k].type # "delivered" => down'[d][k].ids \subseteq ForAgent(Owner[d])
    BY <1>1, <1>p, <1>r DEF Custody, HandedOnlyToRecipient
  <2> QED BY <1>1, <1>2, <2>1, <2>2, <2>3 DEF Custody, HandedOnlyToRecipient
<1>6. AckedIsStored'
  BY <1>1, <1>2 DEF Custody, AckedIsStored, Stored
<1>7. AnnouncedIsDelivered'
  <2>1. \A s, b : Announces(s, b)' = Announces(s, b)
    BY <1>2 DEF Announces
  <2> QED BY <1>1, <1>2, <1>r, <2>1 DEF Custody, AnnouncedIsDelivered
<1>8. DeliveredIsStored'
  BY <1>1, <1>2 DEF Custody, DeliveredIsStored, Stored
<1> QED BY <1>3, <1>4, <1>5, <1>6, <1>7, <1>8 DEF IInv, Custody

\* A hello_ack that cannot be written moves no message.
LEMMA HelloAckFailsStep ==
  ASSUME IInv, NEW c \in Conns, HelloAckFails(c)
  PROVE  IInv'
<1> USE DeliveryAssumption
<1>1. TypeOK /\ Custody
  BY DEF IInv
<1>2. UNCHANGED <<rows, delivered, expired, current, snapshot, job, posted, up, down,
                  ws, todo, store, told, sends, faults>>
  BY DEF HelloAckFails, table, session, daemon, bounds
<1>tphase. (phase \in [Conns -> Phase])'
  BY <1>1, <1>2 DEF TypeOK, HelloAckFails, Phase
<1>3. TypeOK'
  BY <1>1, <1>2, <1>tphase DEF TypeOK, Ids
<1>4. SocketsAreOwn'
  BY <1>1, <1>2 DEF Custody, SocketsAreOwn
<1>5. HandedOnlyToRecipient'
  BY <1>1, <1>2 DEF Custody, HandedOnlyToRecipient, ForAgent, Ids, Stored
<1>6. AckedIsStored'
  BY <1>1, <1>2 DEF Custody, AckedIsStored, Stored
<1>7. AnnouncedIsDelivered'
  BY <1>1, <1>2 DEF Custody, AnnouncedIsDelivered, Announces
<1>8. DeliveredIsStored'
  BY <1>1, <1>2 DEF Custody, DeliveredIsStored, Stored
<1> QED BY <1>3, <1>4, <1>5, <1>6, <1>7, <1>8 DEF IInv, Custody

\* The heartbeat's close moves no message.
LEMMA HeartbeatTimeoutStep ==
  ASSUME IInv, NEW c \in Conns, HeartbeatTimeout(c)
  PROVE  IInv'
<1> USE DeliveryAssumption
<1>1. TypeOK /\ Custody
  BY DEF IInv
<1>2. UNCHANGED <<rows, delivered, expired, current, snapshot, job, posted, up, down,
                  ws, todo, store, told, sends>>
  BY DEF HeartbeatTimeout, FaultHappens, table, session, daemon, bounds
<1>tphase. (phase \in [Conns -> Phase])'
  BY <1>1, <1>2 DEF TypeOK, HeartbeatTimeout, FaultHappens, Phase
<1>tfaults. (faults \in 0..MaxFaults)'
  BY <1>1, <1>2 DEF TypeOK, HeartbeatTimeout, FaultHappens
<1>3. TypeOK'
  BY <1>1, <1>2, <1>tphase, <1>tfaults DEF TypeOK, Ids
<1>4. SocketsAreOwn'
  BY <1>1, <1>2 DEF Custody, SocketsAreOwn
<1>5. HandedOnlyToRecipient'
  BY <1>1, <1>2 DEF Custody, HandedOnlyToRecipient, ForAgent, Ids, Stored
<1>6. AckedIsStored'
  BY <1>1, <1>2 DEF Custody, AckedIsStored, Stored
<1>7. AnnouncedIsDelivered'
  BY <1>1, <1>2 DEF Custody, AnnouncedIsDelivered, Announces
<1>8. DeliveredIsStored'
  BY <1>1, <1>2 DEF Custody, DeliveredIsStored, Stored
<1> QED BY <1>3, <1>4, <1>5, <1>6, <1>7, <1>8 DEF IInv, Custody

\* The end of a session drops its unread frames and its job.
LEMMA SessionDisconnectsStep ==
  ASSUME IInv, NEW c \in Conns, SessionDisconnects(c)
  PROVE  IInv'
<1> USE DeliveryAssumption
<1>1. TypeOK /\ Custody
  BY DEF IInv
<1>2. UNCHANGED <<rows, delivered, expired, snapshot, posted, down, ws, todo, store,
                  told, sends, faults>>
  BY DEF SessionDisconnects, EndSession, table, session, daemon, bounds
<1>p. job' = [job EXCEPT ![c] = NoJob] /\ job'[c].kind = "none"
  BY <1>1 DEF TypeOK, NoJob, SessionDisconnects, EndSession
<1>q. \A d \in Conns : job'[d] = job[d] \/ job'[d].kind = "none"
  BY <1>1, <1>p DEF TypeOK
<1>tphase. (phase \in [Conns -> Phase])'
  BY <1>1, <1>2 DEF TypeOK, SessionDisconnects, EndSession, Phase
<1>tcurrent. (current \in [Agents -> Conns \cup {NoConn}])'
  BY <1>1, <1>2 DEF TypeOK, SessionDisconnects, EndSession
<1>tup. (up \in [Conns -> Seq(UpFrame)])'
  BY <1>1, <1>2 DEF TypeOK, SessionDisconnects, EndSession, UpFrame
<1>tjob. (job \in [Conns -> Job])'
  BY <1>1, <1>2 DEF TypeOK, SessionDisconnects, EndSession, Job, NoJob, Ids
<1>3. TypeOK'
  BY <1>1, <1>2, <1>q, <1>tphase, <1>tcurrent, <1>tup, <1>tjob DEF TypeOK, Ids
<1>4. SocketsAreOwn'
  BY <1>1, <1>2, <1>3 DEF Custody, TypeOK, SocketsAreOwn, SessionDisconnects, EndSession
<1>5. HandedOnlyToRecipient'
  BY <1>1, <1>2 DEF Custody, HandedOnlyToRecipient, ForAgent, Ids, Stored
<1>6. AckedIsStored'
  BY <1>1, <1>2, <1>3 DEF Custody, TypeOK, AckedIsStored, Stored, SessionDisconnects,
     EndSession
<1>7. AnnouncedIsDelivered'
  BY <1>1, <1>2, <1>q DEF Custody, AnnouncedIsDelivered, Announces
<1>8. DeliveredIsStored'
  BY <1>1, <1>2 DEF Custody, DeliveredIsStored, Stored
<1> QED BY <1>3, <1>4, <1>5, <1>6, <1>7, <1>8 DEF IInv, Custody

\* So does a handler that raises.
LEMMA HandlerFailsStep ==
  ASSUME IInv, NEW c \in Conns, HandlerFails(c)
  PROVE  IInv'
<1> USE DeliveryAssumption
<1>1. TypeOK /\ Custody
  BY DEF IInv
<1>2. UNCHANGED <<rows, delivered, expired, snapshot, posted, down, ws, todo, store,
                  told, sends>>
  BY DEF HandlerFails, EndSession, FaultHappens, table, session, daemon, bounds
<1>p. job' = [job EXCEPT ![c] = NoJob] /\ job'[c].kind = "none"
  BY <1>1 DEF TypeOK, NoJob, HandlerFails, EndSession
<1>q. \A d \in Conns : job'[d] = job[d] \/ job'[d].kind = "none"
  BY <1>1, <1>p DEF TypeOK
<1>tphase. (phase \in [Conns -> Phase])'
  BY <1>1, <1>2 DEF TypeOK, HandlerFails, EndSession, FaultHappens, Phase
<1>tcurrent. (current \in [Agents -> Conns \cup {NoConn}])'
  BY <1>1, <1>2 DEF TypeOK, HandlerFails, EndSession, FaultHappens
<1>tup. (up \in [Conns -> Seq(UpFrame)])'
  BY <1>1, <1>2 DEF TypeOK, HandlerFails, EndSession, FaultHappens, UpFrame
<1>tjob. (job \in [Conns -> Job])'
  BY <1>1, <1>2 DEF TypeOK, HandlerFails, EndSession, FaultHappens, Job, NoJob, Ids
<1>tfaults. (faults \in 0..MaxFaults)'
  BY <1>1, <1>2 DEF TypeOK, HandlerFails, EndSession, FaultHappens
<1>3. TypeOK'
  BY <1>1, <1>2, <1>q, <1>tphase, <1>tcurrent, <1>tup, <1>tjob, <1>tfaults DEF TypeOK,
     Ids
<1>4. SocketsAreOwn'
  BY <1>1, <1>2, <1>3 DEF Custody, TypeOK, SocketsAreOwn, HandlerFails, EndSession,
     FaultHappens
<1>5. HandedOnlyToRecipient'
  BY <1>1, <1>2 DEF Custody, HandedOnlyToRecipient, ForAgent, Ids, Stored
<1>6. AckedIsStored'
  BY <1>1, <1>2, <1>3 DEF Custody, TypeOK, AckedIsStored, Stored, HandlerFails,
     EndSession, FaultHappens
<1>7. AnnouncedIsDelivered'
  BY <1>1, <1>2, <1>q DEF Custody, AnnouncedIsDelivered, Announces
<1>8. DeliveredIsStored'
  BY <1>1, <1>2 DEF Custody, DeliveredIsStored, Stored
<1> QED BY <1>3, <1>4, <1>5, <1>6, <1>7, <1>8 DEF IInv, Custody

\* A row is committed with the connection's agent as its sender.
LEMMA HandleSendStep ==
  ASSUME IInv, NEW c \in Conns, HandleSend(c)
  PROVE  IInv'
<1> USE DeliveryAssumption
<1>1. TypeOK /\ Custody
  BY DEF IInv
<1>2. UNCHANGED <<delivered, expired, current, phase, snapshot, posted, down, ws, todo,
                  store, told, sends, faults>>
  BY DEF HandleSend, NextFrame, table, session, daemon, bounds
<1>o. Head(up[c]).to \in Agents /\ Owner[c] \in Agents
  <2>1. up[c] \in Seq(UpFrame) /\ up[c] # <<>> /\ Head(up[c]).type = "message"
    BY <1>1 DEF TypeOK, HandleSend, NextFrame
  <2>2. Head(up[c]) \in UpFrame
    BY <2>1, RemovedFrame
  <2> QED BY <2>1, <2>2 DEF UpFrame
<1>p. PICK r \in Row : rows' = Append(rows, r)
  BY <1>o DEF Row, HandleSend
<1>q. /\ rows' \in Seq(Row)
      /\ Ids \subseteq Ids' /\ Ids \subseteq Nat /\ Len(rows) + 1 \in Ids'
      /\ Len(rows) + 1 \in Nat
      /\ \A i \in Ids : rows'[i] = rows[i]
      /\ \A a \in Agents : ForAgent(a) \subseteq ForAgent(a)'
  BY <1>1, <1>p, TableGrows
<1>r. job' = [job EXCEPT ![c] = [kind |-> "dispatch", id |-> Len(rows) + 1]]
  BY DEF HandleSend
<1>s. \A d \in Conns : job'[d] = job[d] \/ (job'[d].kind = "dispatch" /\ job'[d].id \in Ids')
  BY <1>1, <1>q, <1>r DEF TypeOK
<1>trows. (rows \in Seq(Row))'
  BY <1>1, <1>2, <1>q DEF TypeOK, HandleSend, NextFrame
<1>tjob. (job \in [Conns -> Job])'
  BY <1>1, <1>2, <1>q, <1>r DEF TypeOK, HandleSend, NextFrame, Job, NoJob, Ids
<1>tup. (up \in [Conns -> Seq(UpFrame)])'
  BY <1>1, <1>2 DEF TypeOK, HandleSend, NextFrame, UpFrame
<1>3. TypeOK'
  BY <1>1, <1>2, <1>q, <1>s, <1>trows, <1>tjob, <1>tup DEF TypeOK
<1>4. SocketsAreOwn'
  BY <1>1, <1>2 DEF Custody, SocketsAreOwn
<1>5. HandedOnlyToRecipient'
  BY <1>1, <1>2, <1>q DEF Custody, TypeOK, HandedOnlyToRecipient, Stored
<1>6. AckedIsStored'
  BY <1>1, <1>2, <1>3 DEF Custody, TypeOK, AckedIsStored, Stored, HandleSend, NextFrame
<1>7. AnnouncedIsDelivered'
  <2>1. \A i \in delivered : rows'[i] = rows[i]
    BY <1>1, <1>q DEF TypeOK
  <2>2. ASSUME NEW d \in Conns, job[d]'.kind = "notify"
        PROVE  job[d]'.id \in delivered
    BY <1>1, <1>s, <2>2 DEF Custody, AnnouncedIsDelivered
  <2>9. \A s, b : Announces(s, b) => Announces(s, b)'
    BY <1>2, <2>1 DEF Announces
  <2> QED BY <1>1, <1>2, <2>1, <2>2, <2>9 DEF Custody, AnnouncedIsDelivered
<1>8. DeliveredIsStored'
  <2>1. ASSUME NEW j \in delivered
        PROVE  j \in Stored(rows[j].to)'
    <3>1. j \in Stored(rows[j].to) /\ rows'[j] = rows[j]
      BY <1>1, <1>q DEF Custody, DeliveredIsStored, TypeOK
    <3> QED BY <3>1, <1>2 DEF Stored
  <2> QED BY <1>2, <2>1 DEF DeliveredIsStored
<1> QED BY <1>3, <1>4, <1>5, <1>6, <1>7, <1>8 DEF IInv, Custody

\* A refused send only consumes its frame.
LEMMA RefuseSendStep ==
  ASSUME IInv, NEW c \in Conns, RefuseSend(c)
  PROVE  IInv'
<1> USE DeliveryAssumption
<1>1. TypeOK /\ Custody
  BY DEF IInv
<1>2. UNCHANGED <<rows, delivered, expired, current, phase, snapshot, job, posted,
                  down, ws, todo, store, told, sends, faults>>
  BY DEF RefuseSend, NextFrame, table, session, daemon, bounds
<1>tup. (up \in [Conns -> Seq(UpFrame)])'
  BY <1>1, <1>2 DEF TypeOK, RefuseSend, NextFrame, UpFrame
<1>3. TypeOK'
  BY <1>1, <1>2, <1>tup DEF TypeOK, Ids
<1>4. SocketsAreOwn'
  BY <1>1, <1>2 DEF Custody, SocketsAreOwn
<1>5. HandedOnlyToRecipient'
  BY <1>1, <1>2 DEF Custody, HandedOnlyToRecipient, ForAgent, Ids, Stored
<1>6. AckedIsStored'
  BY <1>1, <1>2, <1>3 DEF Custody, TypeOK, AckedIsStored, Stored, RefuseSend, NextFrame
<1>7. AnnouncedIsDelivered'
  BY <1>1, <1>2 DEF Custody, AnnouncedIsDelivered, Announces
<1>8. DeliveredIsStored'
  BY <1>1, <1>2 DEF Custody, DeliveredIsStored, Stored
<1> QED BY <1>3, <1>4, <1>5, <1>6, <1>7, <1>8 DEF IInv, Custody

\* _dispatch hands a row to its recipient's socket or to nobody.
LEMMA DispatchStep ==
  ASSUME IInv, NEW c \in Conns, Dispatch(c)
  PROVE  IInv'
<1> USE DeliveryAssumption
<1>1. TypeOK /\ Custody
  BY DEF IInv
<1>2. UNCHANGED <<rows, delivered, expired, current, phase, snapshot, posted, up, ws,
                  todo, store, told, sends, faults>>
  BY DEF Dispatch, table, session, daemon, bounds
<1>p. PICK i \in Ids : /\ Push(rows[i].to, [type |-> "message", ids |-> {i}])
                      /\ job[c].kind = "dispatch" /\ i = job[c].id
  BY <1>1 DEF TypeOK, Dispatch
<1>q. rows[i].to \in Agents /\ [type |-> "message", ids |-> {i}] \in DownFrame
  BY <1>1, <1>p, RowOf DEF DownFrame
<1>r. /\ down' \in [Conns -> Seq(DownFrame)]
      /\ \A d \in Conns : \A k \in DOMAIN down'[d] :
           \/ k \in DOMAIN down[d] /\ down'[d][k] = down[d][k]
           \/ /\ down'[d][k] = [type |-> "message", ids |-> {i}]
              /\ Owner[d] = rows[i].to
  BY <1>1, <1>p, <1>q, PushedFrame DEF Custody
<1>u. job' = [job EXCEPT ![c] = NoJob] /\ job'[c].kind = "none"
  BY <1>1 DEF TypeOK, NoJob, Dispatch
<1>v. \A d \in Conns : job'[d] = job[d] \/ job'[d].kind = "none"
  BY <1>1, <1>u DEF TypeOK
<1>tdown. (down \in [Conns -> Seq(DownFrame)])'
  BY <1>1, <1>2, <1>r DEF TypeOK, Dispatch, DownFrame
<1>tjob. (job \in [Conns -> Job])'
  BY <1>1, <1>2 DEF TypeOK, Dispatch, Job, NoJob, Ids
<1>3. TypeOK'
  BY <1>1, <1>2, <1>v, <1>tdown, <1>tjob DEF TypeOK, Ids
<1>4. SocketsAreOwn'
  BY <1>1, <1>2 DEF Custody, SocketsAreOwn
<1>5. HandedOnlyToRecipient'
  <2>1. /\ UNCHANGED <<rows, snapshot, todo, store>>
        /\ \A a \in Agents : ForAgent(a)' = ForAgent(a) /\ Stored(a)' = Stored(a)
    BY <1>2 DEF ForAgent, Ids, Stored
  <2>2. ASSUME NEW d \in Conns, NEW k \in DOMAIN down'[d], down'[d][k].type # "delivered"
        PROVE  down'[d][k].ids \subseteq ForAgent(Owner[d])
    BY <1>1, <1>r, <2>2, i \in ForAgent(rows[i].to) DEF Custody, HandedOnlyToRecipient,
       ForAgent
  <2> QED BY <1>1, <2>1, <2>2 DEF Custody, HandedOnlyToRecipient
<1>6. AckedIsStored'
  BY <1>1, <1>2 DEF Custody, AckedIsStored, Stored
<1>7. AnnouncedIsDelivered'
  <2>1. ASSUME NEW d \in Conns, NEW k \in DOMAIN down'[d], down'[d][k].type = "delivered"
        PROVE  Announces(down'[d][k].ids, Owner[d])
    BY <1>1, <1>r, <2>1 DEF Custody, AnnouncedIsDelivered
  <2>9. \A s, b : Announces(s, b)' = Announces(s, b)
    BY <1>2 DEF Announces
  <2> QED BY <1>1, <1>2, <1>v, <2>1, <2>9 DEF Custody, AnnouncedIsDelivered
<1>8. DeliveredIsStored'
  BY <1>1, <1>2 DEF Custody, DeliveredIsStored, Stored
<1> QED BY <1>3, <1>4, <1>5, <1>6, <1>7, <1>8 DEF IInv, Custody

\* An accepted ack marks a message that its recipient stored: the ack in flight
\* said so (AckedIsStored) and nothing leaves the store.
LEMMA HandleAckStep ==
  ASSUME IInv, NEW c \in Conns, HandleAck(c)
  PROVE  IInv'
<1> USE DeliveryAssumption
<1>1. TypeOK /\ Custody
  BY DEF IInv
<1>2. UNCHANGED <<rows, expired, current, phase, snapshot, posted, down, ws, todo,
                  store, told, sends, faults>>
  BY DEF HandleAck, NextFrame, table, session, daemon, bounds
<1> DEFINE i == Head(up[c]).id
<1>p. /\ up[c] \in Seq(UpFrame) /\ up[c] # <<>> /\ up \in [Conns -> Seq(UpFrame)]
      /\ up' = [up EXCEPT ![c] = Tail(@)] /\ Head(up[c]).type = "ack"
  BY <1>1 DEF TypeOK, HandleAck, NextFrame
<1>q. /\ 1 \in DOMAIN up[c] /\ Head(up[c]) = up[c][1] /\ Tail(up[c]) \in Seq(UpFrame)
      /\ \A k \in DOMAIN Tail(up[c]) :
           k + 1 \in DOMAIN up[c] /\ Tail(up[c])[k] = up[c][k + 1]
  BY <1>p, RemovedFrame
<1>r. i \in Stored(Owner[c])
  BY <1>1, <1>p, <1>q DEF Custody, AckedIsStored
<1>s. \/ UNCHANGED <<delivered, job>>
      \/ /\ i \in Ids /\ rows[i].to = Owner[c]
         /\ delivered' = delivered \cup {i}
         /\ job' = [job EXCEPT ![c] = [kind |-> "notify", id |-> i]]
  BY DEF HandleAck
<1>u. Ids \subseteq Nat
  BY <1>1 DEF TypeOK, Ids
<1> HIDE DEF i
<1>v. \A d \in Conns : \/ job'[d] = job[d]
                       \/ job'[d].kind = "notify" /\ job'[d].id \in delivered' \cap Ids
  BY <1>1, <1>s DEF TypeOK
<1>3. TypeOK'
  <2>1. (up \in [Conns -> Seq(UpFrame)])'
    BY <1>p, <1>q
  <2>2. (delivered \in SUBSET Ids)'
    BY <1>1, <1>2, <1>s DEF TypeOK, Ids
  <2>3. (job \in [Conns -> Job])'
    <3>1. i \in Ids => [kind |-> "notify", id |-> i] \in Job
      BY <1>u DEF Job
    <3> QED BY <1>1, <1>s, <3>1 DEF TypeOK
  <2> QED BY <1>1, <1>2, <1>v, <2>1, <2>2, <2>3 DEF TypeOK, Ids
<1>4. SocketsAreOwn'
  BY <1>1, <1>2 DEF Custody, SocketsAreOwn
<1>5. HandedOnlyToRecipient'
  BY <1>1, <1>2 DEF Custody, HandedOnlyToRecipient, ForAgent, Ids, Stored
<1>6. AckedIsStored'
  <2>1. \A a \in Agents : Stored(a)' = Stored(a)
    BY <1>2 DEF Stored
  <2>2. \A d \in Conns \ {c} : up'[d] = up[d]
    BY <1>p
  <2>3. up'[c] = Tail(up[c])
    BY <1>p
  <2>4. ASSUME NEW d \in Conns, NEW k \in DOMAIN up'[d], up'[d][k].type = "ack"
        PROVE  up'[d][k].id \in Stored(Owner[d])
    <3>1. PICK j \in DOMAIN up[d] : up'[d][k] = up[d][j]
      <4>1. CASE d = c
        BY <1>q, <2>3, <4>1
      <4>2. CASE d # c
        BY <2>2, <4>2
      <4> QED BY <4>1, <4>2
    <3> QED BY <1>1, <2>4, <3>1 DEF Custody, AckedIsStored
  <2> QED BY <2>1, <2>4 DEF AckedIsStored
<1>7. AnnouncedIsDelivered'
  <2>1. delivered \subseteq delivered'
    BY <1>s
  <2>9. \A s, b : Announces(s, b) => Announces(s, b)'
    BY <1>2, <2>1 DEF Announces
  <2> QED BY <1>1, <1>2, <1>v, <2>1, <2>9 DEF Custody, AnnouncedIsDelivered
<1>8. DeliveredIsStored'
  <2>1. \A a \in Agents : Stored(a)' = Stored(a)
    BY <1>2 DEF Stored
  <2>2. \A j \in delivered' : j \in delivered \/ j \in Stored(rows[j].to)
    BY <1>r, <1>s
  <2>3. ASSUME NEW j \in delivered'
        PROVE  j \in Stored(rows[j].to)'
    <3>1. j \in Stored(rows[j].to)
      BY <1>1, <2>2 DEF Custody, DeliveredIsStored
    <3> QED BY <3>1, <1>2 DEF Stored
  <2> QED BY <2>3 DEF DeliveredIsStored
<1> QED BY <1>3, <1>4, <1>5, <1>6, <1>7, <1>8 DEF IInv, Custody

\* `delivered` goes to the sender of a marked message or to nobody.
LEMMA NotifyStep ==
  ASSUME IInv, NEW c \in Conns, Notify(c)
  PROVE  IInv'
<1> USE DeliveryAssumption
<1>1. TypeOK /\ Custody
  BY DEF IInv
<1>2. UNCHANGED <<rows, delivered, expired, current, phase, snapshot, posted, up, ws,
                  todo, store, told, sends, faults>>
  BY DEF Notify, table, session, daemon, bounds
<1>p. PICK i \in Ids : /\ Push(rows[i].from, [type |-> "delivered", ids |-> {i}])
                      /\ job[c].kind = "notify" /\ i = job[c].id
  BY <1>1 DEF TypeOK, Notify
<1>q. rows[i].from \in Agents /\ [type |-> "delivered", ids |-> {i}] \in DownFrame
  BY <1>1, <1>p, RowOf DEF DownFrame
<1>r. /\ down' \in [Conns -> Seq(DownFrame)]
      /\ \A d \in Conns : \A k \in DOMAIN down'[d] :
           \/ k \in DOMAIN down[d] /\ down'[d][k] = down[d][k]
           \/ /\ down'[d][k] = [type |-> "delivered", ids |-> {i}]
              /\ Owner[d] = rows[i].from
  BY <1>1, <1>p, <1>q, PushedFrame DEF Custody
<1>u. job' = [job EXCEPT ![c] = NoJob] /\ job'[c].kind = "none"
  BY <1>1 DEF TypeOK, NoJob, Notify
<1>v. \A d \in Conns : job'[d] = job[d] \/ job'[d].kind = "none"
  BY <1>1, <1>u DEF TypeOK
<1>tdown. (down \in [Conns -> Seq(DownFrame)])'
  BY <1>1, <1>2, <1>r DEF TypeOK, Notify, DownFrame
<1>tjob. (job \in [Conns -> Job])'
  BY <1>1, <1>2 DEF TypeOK, Notify, Job, NoJob, Ids
<1>3. TypeOK'
  BY <1>1, <1>2, <1>v, <1>tdown, <1>tjob DEF TypeOK, Ids
<1>4. SocketsAreOwn'
  BY <1>1, <1>2 DEF Custody, SocketsAreOwn
<1>5. HandedOnlyToRecipient'
  <2>1. /\ UNCHANGED <<rows, snapshot, todo, store>>
        /\ \A a \in Agents : ForAgent(a)' = ForAgent(a) /\ Stored(a)' = Stored(a)
    BY <1>2 DEF ForAgent, Ids, Stored
  <2>2. ASSUME NEW d \in Conns, NEW k \in DOMAIN down'[d], down'[d][k].type # "delivered"
        PROVE  down'[d][k].ids \subseteq ForAgent(Owner[d])
    BY <1>1, <1>r, <2>2 DEF Custody, HandedOnlyToRecipient
  <2> QED BY <1>1, <2>1, <2>2 DEF Custody, HandedOnlyToRecipient
<1>6. AckedIsStored'
  BY <1>1, <1>2 DEF Custody, AckedIsStored, Stored
<1>7. AnnouncedIsDelivered'
  <2>0. i \in delivered
    BY <1>1, <1>p DEF Custody, AnnouncedIsDelivered
  <2>1. ASSUME NEW d \in Conns, NEW k \in DOMAIN down'[d], down'[d][k].type = "delivered"
        PROVE  Announces(down'[d][k].ids, Owner[d])
    <3>1. CASE k \in DOMAIN down[d] /\ down'[d][k] = down[d][k]
      BY <1>1, <2>1, <3>1 DEF Custody, AnnouncedIsDelivered
    <3>2. CASE down'[d][k].ids = {i} /\ Owner[d] = rows[i].from
      BY <2>0, <3>2 DEF Announces
    <3> QED BY <1>r, <3>1, <3>2
  <2>9. \A s, b : Announces(s, b)' = Announces(s, b)
    BY <1>2 DEF Announces
  <2> QED BY <1>1, <1>2, <1>v, <2>1, <2>9 DEF Custody, AnnouncedIsDelivered
<1>8. DeliveredIsStored'
  BY <1>1, <1>2 DEF Custody, DeliveredIsStored, Stored
<1> QED BY <1>3, <1>4, <1>5, <1>6, <1>7, <1>8 DEF IInv, Custody

\* The socket and the frames on it are forgotten; nothing else moves.
LEMMA SocketClosedStep ==
  ASSUME IInv, NEW a \in Agents, SocketClosed(a)
  PROVE  IInv'
<1> USE DeliveryAssumption
<1>1. TypeOK /\ Custody
  BY DEF IInv
<1>2. UNCHANGED <<rows, delivered, expired, current, phase, snapshot, job, posted, up,
                  todo, store, told, sends, faults>>
  BY DEF SocketClosed, OnClose, table, session, daemon, bounds
<1>tws. (ws \in [Agents -> Conns \cup {NoConn}])'
  BY <1>1, <1>2 DEF TypeOK, SocketClosed, OnClose
<1>tdown. (down \in [Conns -> Seq(DownFrame)])'
  BY <1>1, <1>2 DEF TypeOK, SocketClosed, OnClose, DownFrame
<1>3. TypeOK'
  BY <1>1, <1>2, <1>tws, <1>tdown DEF TypeOK, Ids
<1>4. SocketsAreOwn'
  BY <1>1, <1>2, <1>3 DEF Custody, TypeOK, SocketsAreOwn, SocketClosed, OnClose
<1>5. HandedOnlyToRecipient'
  BY <1>1, <1>2, <1>3
     DEF Custody, TypeOK, HandedOnlyToRecipient, ForAgent, Ids, Stored, SocketClosed, OnClose
<1>6. AckedIsStored'
  BY <1>1, <1>2 DEF Custody, AckedIsStored, Stored
<1>7. AnnouncedIsDelivered'
  <2>1. \A d \in Conns : \A k \in DOMAIN down'[d] :
          k \in DOMAIN down[d] /\ down'[d][k] = down[d][k]
    BY <1>1 DEF TypeOK, SocketClosed, OnClose
  <2>2. \A s, b : Announces(s, b)' = Announces(s, b)
    BY <1>2 DEF Announces
  <2> QED BY <1>1, <1>2, <2>1, <2>2 DEF Custody, AnnouncedIsDelivered
<1>8. DeliveredIsStored'
  BY <1>1, <1>2 DEF Custody, DeliveredIsStored, Stored
<1> QED BY <1>3, <1>4, <1>5, <1>6, <1>7, <1>8 DEF IInv, Custody

\* A lost connection likewise.
LEMMA ConnectionLostStep ==
  ASSUME IInv, NEW a \in Agents, ConnectionLost(a)
  PROVE  IInv'
<1> USE DeliveryAssumption
<1>1. TypeOK /\ Custody
  BY DEF IInv
<1>2. UNCHANGED <<rows, delivered, expired, current, phase, snapshot, job, posted, up,
                  todo, store, told, sends>>
  BY DEF ConnectionLost, OnClose, FaultHappens, table, session, daemon, bounds
<1>tws. (ws \in [Agents -> Conns \cup {NoConn}])'
  BY <1>1, <1>2 DEF TypeOK, ConnectionLost, OnClose, FaultHappens
<1>tdown. (down \in [Conns -> Seq(DownFrame)])'
  BY <1>1, <1>2 DEF TypeOK, ConnectionLost, OnClose, FaultHappens, DownFrame
<1>tfaults. (faults \in 0..MaxFaults)'
  BY <1>1, <1>2 DEF TypeOK, ConnectionLost, OnClose, FaultHappens
<1>3. TypeOK'
  BY <1>1, <1>2, <1>tws, <1>tdown, <1>tfaults DEF TypeOK, Ids
<1>4. SocketsAreOwn'
  BY <1>1, <1>2, <1>3 DEF Custody, TypeOK, SocketsAreOwn, ConnectionLost, OnClose,
     FaultHappens
<1>5. HandedOnlyToRecipient'
  BY <1>1, <1>2, <1>3
     DEF Custody, TypeOK, HandedOnlyToRecipient, ForAgent, Ids, Stored, ConnectionLost, OnClose, FaultHappens
<1>6. AckedIsStored'
  BY <1>1, <1>2 DEF Custody, AckedIsStored, Stored
<1>7. AnnouncedIsDelivered'
  <2>1. \A d \in Conns : \A k \in DOMAIN down'[d] :
          k \in DOMAIN down[d] /\ down'[d][k] = down[d][k]
    BY <1>1 DEF TypeOK, ConnectionLost, OnClose
  <2>2. \A s, b : Announces(s, b)' = Announces(s, b)
    BY <1>2 DEF Announces
  <2> QED BY <1>1, <1>2, <2>1, <2>2 DEF Custody, AnnouncedIsDelivered
<1>8. DeliveredIsStored'
  BY <1>1, <1>2 DEF Custody, DeliveredIsStored, Stored
<1> QED BY <1>3, <1>4, <1>5, <1>6, <1>7, <1>8 DEF IInv, Custody

\* A crash also forgets the messages not handled; the store is on disk.
LEMMA DaemonCrashStep ==
  ASSUME IInv, NEW a \in Agents, DaemonCrash(a)
  PROVE  IInv'
<1> USE DeliveryAssumption
<1>1. TypeOK /\ Custody
  BY DEF IInv
<1>2. UNCHANGED <<rows, delivered, expired, current, phase, snapshot, job, posted, up,
                  store, told, sends>>
  BY DEF DaemonCrash, FaultHappens, table, session, daemon, bounds
<1>tws. (ws \in [Agents -> Conns \cup {NoConn}])'
  BY <1>1, <1>2 DEF TypeOK, DaemonCrash, FaultHappens
<1>tdown. (down \in [Conns -> Seq(DownFrame)])'
  BY <1>1, <1>2 DEF TypeOK, DaemonCrash, FaultHappens, DownFrame
<1>ttodo. (todo \in [Agents -> SUBSET Ids])'
  BY <1>1, <1>2 DEF TypeOK, DaemonCrash, FaultHappens, Ids
<1>tfaults. (faults \in 0..MaxFaults)'
  BY <1>1, <1>2 DEF TypeOK, DaemonCrash, FaultHappens
<1>3. TypeOK'
  BY <1>1, <1>2, <1>tws, <1>tdown, <1>ttodo, <1>tfaults DEF TypeOK, Ids
<1>4. SocketsAreOwn'
  BY <1>1, <1>2, <1>3 DEF Custody, TypeOK, SocketsAreOwn, DaemonCrash, FaultHappens
<1>5. HandedOnlyToRecipient'
  BY <1>1, <1>2, <1>3
     DEF Custody, TypeOK, HandedOnlyToRecipient, ForAgent, Ids, Stored, DaemonCrash, FaultHappens
<1>6. AckedIsStored'
  BY <1>1, <1>2 DEF Custody, AckedIsStored, Stored
<1>7. AnnouncedIsDelivered'
  <2>1. \A d \in Conns : \A k \in DOMAIN down'[d] :
          k \in DOMAIN down[d] /\ down'[d][k] = down[d][k]
    BY <1>1 DEF TypeOK, DaemonCrash
  <2>2. \A s, b : Announces(s, b)' = Announces(s, b)
    BY <1>2 DEF Announces
  <2> QED BY <1>1, <1>2, <2>1, <2>2 DEF Custody, AnnouncedIsDelivered
<1>8. DeliveredIsStored'
  BY <1>1, <1>2 DEF Custody, DeliveredIsStored, Stored
<1> QED BY <1>3, <1>4, <1>5, <1>6, <1>7, <1>8 DEF IInv, Custody

\* What a frame brings is its recipient's: rows to handle, or an announcement.
LEMMA ReceiveFrameStep ==
  ASSUME IInv, NEW a \in Agents, ReceiveFrame(a)
  PROVE  IInv'
<1> USE DeliveryAssumption
<1>1. TypeOK /\ Custody
  BY DEF IInv
<1>2. UNCHANGED <<rows, delivered, expired, current, phase, snapshot, job, posted, up,
                  ws, store, sends, faults>>
  BY DEF ReceiveFrame, table, session, daemon, bounds
<1> DEFINE c == ws[a]
<1> DEFINE f == Head(down[c])
<1>p. /\ c \in Conns /\ Owner[c] = a /\ down[c] # <<>>
      /\ down \in [Conns -> Seq(DownFrame)] /\ down[c] \in Seq(DownFrame)
      /\ down' = [down EXCEPT ![c] = Tail(@)]
  BY <1>1 DEF TypeOK, Custody, SocketsAreOwn, ReceiveFrame
<1>q. /\ 1 \in DOMAIN down[c] /\ f = down[c][1] /\ f \in DownFrame
      /\ Tail(down[c]) \in Seq(DownFrame)
      /\ \A k \in DOMAIN Tail(down[c]) :
           k + 1 \in DOMAIN down[c] /\ Tail(down[c])[k] = down[c][k + 1]
  BY <1>p, RemovedFrame
<1>r. \/ /\ f.type = "delivered"
         /\ \A j \in f.ids : j \in delivered /\ rows[j].from = a
         /\ told' = [told EXCEPT ![a] = @ \cup f.ids] /\ todo' = todo
      \/ /\ f.type # "delivered" /\ f.ids \subseteq ForAgent(a)
         /\ todo' = [todo EXCEPT ![a] = f.ids] /\ told' = told
  BY <1>1, <1>p, <1>q DEF ReceiveFrame, Custody, HandedOnlyToRecipient,
     AnnouncedIsDelivered, Announces
<1>s. down'[c] = Tail(down[c]) /\ \A d \in Conns \ {c} : down'[d] = down[d]
  BY <1>p
<1>u. f.ids \subseteq Nat
  BY <1>q DEF DownFrame
<1>w. ws[a] = c
  OBVIOUS
<1> HIDE DEF c, f
<1>v. \A d \in Conns : \A k \in DOMAIN down'[d] :
        \E j \in DOMAIN down[d] : down'[d][k] = down[d][j]
  BY <1>q, <1>s
<1>3. TypeOK'
  <2>1. (down \in [Conns -> Seq(DownFrame)])'
    BY <1>p, <1>q
  <2>2. (told \in [Agents -> SUBSET Nat])'
    <3>1. told \in [Agents -> SUBSET Nat]
      BY <1>1 DEF TypeOK
    <3>2. CASE told' = told
      BY <3>1, <3>2
    <3>3. CASE told' = [told EXCEPT ![a] = @ \cup f.ids]
      <4>1. told[a] \cup f.ids \in SUBSET Nat
        BY <3>1, <1>u
      <4> QED BY <3>1, <3>3, <4>1
    <3> QED BY <1>r, <3>2, <3>3
  <2>3. ForAgent(a) \subseteq Ids
    BY DEF ForAgent
  <2>4. (todo \in [Agents -> SUBSET Ids])'
    BY <1>1, <1>2, <1>r, <2>3 DEF TypeOK, Ids
  <2> QED BY <1>1, <1>2, <2>1, <2>2, <2>4 DEF TypeOK, Ids
<1>4. SocketsAreOwn'
  <2>1. ws[a] # NoConn
    BY <1>p, <1>w
  <2>2. \A b \in Agents \ {a} : todo'[b] = todo[b]
    BY <1>1, <1>r DEF TypeOK
  <2> QED BY <1>1, <1>2, <2>1, <2>2 DEF Custody, SocketsAreOwn
<1>5. HandedOnlyToRecipient'
  <2>1. \A b \in Agents : ForAgent(b)' = ForAgent(b) /\ Stored(b)' = Stored(b)
    BY <1>2 DEF ForAgent, Ids, Stored
  <2>2. \A b \in Agents : todo'[b] \subseteq ForAgent(b)
    BY <1>1, <1>r DEF TypeOK, Custody, HandedOnlyToRecipient
  <2>3. \A d \in Conns : \A k \in DOMAIN down'[d] :
          down'[d][k].type # "delivered" => down'[d][k].ids \subseteq ForAgent(Owner[d])
    BY <1>1, <1>v DEF Custody, HandedOnlyToRecipient
  <2> QED BY <1>1, <1>2, <2>1, <2>2, <2>3 DEF Custody, HandedOnlyToRecipient
<1>6. AckedIsStored'
  BY <1>1, <1>2 DEF Custody, AckedIsStored, Stored
<1>7. AnnouncedIsDelivered'
  <2>1. ASSUME NEW b \in Agents, NEW j \in told'[b]
        PROVE  j \in delivered /\ rows[j].from = b
    <3>1. told \in [Agents -> SUBSET Nat]
      BY <1>1 DEF TypeOK
    <3>2. \A i \in told[b] : i \in delivered /\ rows[i].from = b
      BY <1>1 DEF Custody, AnnouncedIsDelivered
    <3>3. j \in told[b] \/ (a = b /\ j \in f.ids /\ f.type = "delivered")
      BY <1>r, <3>1
    <3> QED BY <1>r, <3>2, <3>3
  <2>2. \A d \in Conns : \A k \in DOMAIN down'[d] :
          down'[d][k].type = "delivered" => Announces(down'[d][k].ids, Owner[d])
    BY <1>1, <1>v DEF Custody, AnnouncedIsDelivered
  <2>3. \A s, b : Announces(s, b)' = Announces(s, b)
    BY <1>2 DEF Announces
  <2> QED BY <1>1, <1>2, <2>1, <2>2, <2>3 DEF Custody, AnnouncedIsDelivered
<1>8. DeliveredIsStored'
  BY <1>1, <1>2 DEF Custody, DeliveredIsStored, Stored
<1> QED BY <1>3, <1>4, <1>5, <1>6, <1>7, <1>8 DEF IInv, Custody

\* The daemon acks a message when it is in the store, and never removes one.
LEMMA HandleMessageStep ==
  ASSUME IInv, NEW a \in Agents, NEW i \in todo[a], HandleMessage(a, i)
  PROVE  IInv'
<1> USE DeliveryAssumption
<1>1. TypeOK /\ Custody
  BY DEF IInv
<1>2. UNCHANGED <<rows, delivered, expired, current, phase, snapshot, job, posted,
                  down, ws, told, sends, faults>>
  BY DEF HandleMessage, table, session, daemon, bounds
<1> DEFINE c == ws[a]
<1> DEFINE f == [type |-> "ack", id |-> i]
<1>p. /\ c \in Conns /\ Owner[c] = a /\ i \in ForAgent(a) /\ i \in Ids /\ i \in Nat
  BY <1>1 DEF TypeOK, Ids, Custody, SocketsAreOwn, HandedOnlyToRecipient, HandleMessage
<1>q. /\ store' \in [Agents -> Seq(Nat)]
      /\ \A b \in Agents : Stored(b)' = IF b = a THEN Stored(a) \cup {i} ELSE Stored(b)
  BY <1>1, <1>p, StoredGrows DEF HandleMessage, TypeOK
<1>r. /\ up \in [Conns -> Seq(UpFrame)] /\ up[c] \in Seq(UpFrame) /\ f \in UpFrame
      /\ up' = [up EXCEPT ![c] = Append(@, f)]
  BY <1>1, <1>p DEF TypeOK, HandleMessage, UpFrame
<1>s. /\ Append(up[c], f) \in Seq(UpFrame)
      /\ \A k \in DOMAIN Append(up[c], f) :
           \/ k \in DOMAIN up[c] /\ Append(up[c], f)[k] = up[c][k]
           \/ Append(up[c], f)[k] = f
  BY <1>r, AppendedFrame
<1>u. todo' = [todo EXCEPT ![a] = @ \ {i}]
  BY DEF HandleMessage
<1>v. up'[c] = Append(up[c], f) /\ \A d \in Conns \ {c} : up'[d] = up[d]
  BY <1>p, <1>r
<1>w. f.id = i
  OBVIOUS
<1> HIDE DEF c, f
<1>3. TypeOK'
  <2>1. (up \in [Conns -> Seq(UpFrame)])'
    BY <1>p, <1>r, <1>s
  <2>2. (todo \in [Agents -> SUBSET Ids])'
    BY <1>1, <1>2, <1>u DEF TypeOK, Ids
  <2> QED BY <1>1, <1>2, <1>q, <2>1, <2>2 DEF TypeOK, Ids
<1>4. SocketsAreOwn'
  BY <1>1, <1>2, <1>3 DEF Custody, TypeOK, SocketsAreOwn, HandleMessage
<1>5. HandedOnlyToRecipient'
  <2>1. \A b \in Agents : ForAgent(b)' = ForAgent(b)
    BY <1>2 DEF ForAgent, Ids
  <2>2. \A b \in Agents : Stored(b)' \subseteq ForAgent(b)
    BY <1>1, <1>p, <1>q DEF Custody, HandedOnlyToRecipient
  <2>3. \A b \in Agents : todo'[b] \subseteq ForAgent(b)
    BY <1>1, <1>u DEF TypeOK, Custody, HandedOnlyToRecipient
  <2> QED BY <1>1, <1>2, <2>1, <2>2, <2>3 DEF Custody, HandedOnlyToRecipient
<1>6. AckedIsStored'
  <2>1. \A b \in Agents : Stored(b) \subseteq Stored(b)'
    BY <1>q
  <2>2. i \in Stored(a)' /\ Owner[c] = a
    BY <1>p, <1>q
  <2>3. ASSUME NEW d \in Conns, NEW k \in DOMAIN up'[d], up'[d][k].type = "ack"
        PROVE  up'[d][k].id \in Stored(Owner[d])'
    <3>1. CASE d = c /\ up'[d][k] = f
      BY <1>w, <2>2, <3>1
    <3>2. CASE k \in DOMAIN up[d] /\ up'[d][k] = up[d][k]
      BY <1>1, <2>1, <2>3, <3>2 DEF Custody, AckedIsStored
    <3> QED BY <1>s, <1>v, <3>1, <3>2
  <2> QED BY <2>3 DEF AckedIsStored
<1>7. AnnouncedIsDelivered'
  BY <1>1, <1>2 DEF Custody, AnnouncedIsDelivered, Announces
<1>8. DeliveredIsStored'
  <2>1. ASSUME NEW j \in delivered
        PROVE  j \in Stored(rows[j].to)'
    <3>1. rows[j].to \in Agents
      BY <1>1, RowOf DEF TypeOK
    <3>2. j \in Stored(rows[j].to)
      BY <1>1 DEF Custody, DeliveredIsStored
    <3>3. \A b \in Agents : Stored(b) \subseteq Stored(b)'
      BY <1>q
    <3>4. rows' = rows
      BY <1>2
    <3> QED BY <3>1, <3>2, <3>3, <3>4
  <2> QED BY <1>2, <2>1 DEF DeliveredIsStored
<1> QED BY <1>3, <1>4, <1>5, <1>6, <1>7, <1>8 DEF IInv, Custody

\* A send frame acks nothing.
LEMMA SubmitSendStep ==
  ASSUME IInv, NEW a \in Agents, NEW b \in Agents, SubmitSend(a, b)
  PROVE  IInv'
<1> USE DeliveryAssumption
<1>1. TypeOK /\ Custody
  BY DEF IInv
<1>2. UNCHANGED <<rows, delivered, expired, current, phase, snapshot, job, posted,
                  down, ws, todo, store, told, faults>>
  BY DEF SubmitSend, table, session, daemon, bounds
<1>r. PICK f \in UpFrame : /\ f.type = "message"
                         /\ up' = [up EXCEPT ![ws[a]] = Append(@, f)]
  BY DEF SubmitSend, UpFrame
<1>s. \A d \in Conns : /\ up'[d] \in Seq(UpFrame)
                      /\ \A k \in DOMAIN up'[d] :
                           \/ k \in DOMAIN up[d] /\ up'[d][k] = up[d][k]
                           \/ up'[d][k].type = "message"
  <2>1. ASSUME NEW d \in Conns
        PROVE  up[d] \in Seq(UpFrame) /\ (up'[d] = up[d] \/ up'[d] = Append(up[d], f))
    BY <1>1, <1>r DEF TypeOK
  <2> QED BY <1>r, <2>1, AppendedFrame
<1>tup. (up \in [Conns -> Seq(UpFrame)])'
  BY <1>1, <1>2 DEF TypeOK, SubmitSend, UpFrame
<1>tsends. (sends \in 0..MaxSends)'
  BY <1>1, <1>2 DEF TypeOK, SubmitSend
<1>3. TypeOK'
  BY <1>1, <1>2, <1>tup, <1>tsends DEF TypeOK, Ids
<1>4. SocketsAreOwn'
  BY <1>1, <1>2 DEF Custody, SocketsAreOwn
<1>5. HandedOnlyToRecipient'
  BY <1>1, <1>2 DEF Custody, HandedOnlyToRecipient, ForAgent, Ids, Stored
<1>6. AckedIsStored'
  <2>1. \A d \in Agents : Stored(d)' = Stored(d)
    BY <1>2 DEF Stored
  <2> QED BY <1>1, <1>s, <2>1 DEF Custody, AckedIsStored
<1>7. AnnouncedIsDelivered'
  BY <1>1, <1>2 DEF Custody, AnnouncedIsDelivered, Announces
<1>8. DeliveredIsStored'
  BY <1>1, <1>2 DEF Custody, DeliveredIsStored, Stored
<1> QED BY <1>3, <1>4, <1>5, <1>6, <1>7, <1>8 DEF IInv, Custody

\* A row committed over HTTP disturbs nothing in flight.
LEMMA PanelSendStep ==
  ASSUME IInv, NEW a \in Agents, NEW b \in Agents, PanelSend(a, b)
  PROVE  IInv'
<1> USE DeliveryAssumption
<1>1. TypeOK /\ Custody
  BY DEF IInv
<1>2. UNCHANGED <<delivered, expired, current, phase, snapshot, job, up, down, ws,
                  todo, store, told, faults>>
  BY DEF PanelSend, table, session, daemon, bounds
<1>p. PICK r \in Row : rows' = Append(rows, r)
  BY <1>1 DEF TypeOK, Row, UpFrame, PanelSend
<1>q. /\ rows' \in Seq(Row)
      /\ Ids \subseteq Ids' /\ Ids \subseteq Nat /\ Len(rows) + 1 \in Ids'
      /\ Len(rows) + 1 \in Nat
      /\ \A i \in Ids : rows'[i] = rows[i]
      /\ \A d \in Agents : ForAgent(d) \subseteq ForAgent(d)'
  BY <1>1, <1>p, TableGrows
<1>trows. (rows \in Seq(Row))'
  BY <1>1, <1>2, <1>q DEF TypeOK, PanelSend
<1>tposted. (posted \in SUBSET Ids)'
  BY <1>1, <1>2, <1>q DEF TypeOK, PanelSend, Ids
<1>tsends. (sends \in 0..MaxSends)'
  BY <1>1, <1>2 DEF TypeOK, PanelSend
<1>3. TypeOK'
  BY <1>1, <1>2, <1>q, <1>trows, <1>tposted, <1>tsends DEF TypeOK
<1>4. SocketsAreOwn'
  BY <1>1, <1>2 DEF Custody, SocketsAreOwn
<1>5. HandedOnlyToRecipient'
  BY <1>1, <1>2, <1>q DEF Custody, TypeOK, HandedOnlyToRecipient, Stored
<1>6. AckedIsStored'
  BY <1>1, <1>2 DEF Custody, AckedIsStored, Stored
<1>7. AnnouncedIsDelivered'
  <2>1. \A i \in delivered : rows'[i] = rows[i]
    BY <1>1, <1>q DEF TypeOK
  <2>2. ASSUME NEW d \in Conns, job[d]'.kind = "notify"
        PROVE  job[d]'.id \in delivered
    BY <1>1, <1>2, <2>2 DEF Custody, AnnouncedIsDelivered
  <2>9. \A s, d : Announces(s, d) => Announces(s, d)'
    BY <1>2, <2>1 DEF Announces
  <2> QED BY <1>1, <1>2, <2>1, <2>2, <2>9 DEF Custody, AnnouncedIsDelivered
<1>8. DeliveredIsStored'
  <2>1. ASSUME NEW j \in delivered
        PROVE  j \in Stored(rows[j].to)'
    <3>1. j \in Stored(rows[j].to) /\ rows'[j] = rows[j]
      BY <1>1, <1>q DEF Custody, DeliveredIsStored, TypeOK
    <3> QED BY <3>1, <1>2 DEF Stored
  <2> QED BY <1>2, <2>1 DEF DeliveredIsStored
<1> QED BY <1>3, <1>4, <1>5, <1>6, <1>7, <1>8 DEF IInv, Custody

\* The push of messages.py goes to the recipient's socket or to nobody.
LEMMA PanelDispatchStep ==
  ASSUME IInv, NEW i \in posted, PanelDispatch(i)
  PROVE  IInv'
<1> USE DeliveryAssumption
<1>1. TypeOK /\ Custody
  BY DEF IInv
<1>2. UNCHANGED <<rows, delivered, expired, current, phase, snapshot, job, up, ws,
                  todo, store, told, sends, faults>>
  BY DEF PanelDispatch, table, session, daemon, bounds
<1>p. /\ i \in Ids /\ Push(rows[i].to, [type |-> "message", ids |-> {i}])
  BY <1>1 DEF TypeOK, PanelDispatch
<1>q. rows[i].to \in Agents /\ [type |-> "message", ids |-> {i}] \in DownFrame
  BY <1>1, <1>p, RowOf DEF DownFrame
<1>r. /\ down' \in [Conns -> Seq(DownFrame)]
      /\ \A d \in Conns : \A k \in DOMAIN down'[d] :
           \/ k \in DOMAIN down[d] /\ down'[d][k] = down[d][k]
           \/ /\ down'[d][k] = [type |-> "message", ids |-> {i}]
              /\ Owner[d] = rows[i].to
  BY <1>1, <1>p, <1>q, PushedFrame DEF Custody
<1>tdown. (down \in [Conns -> Seq(DownFrame)])'
  BY <1>1, <1>2, <1>r DEF TypeOK, PanelDispatch, DownFrame
<1>tposted. (posted \in SUBSET Ids)'
  BY <1>1, <1>2 DEF TypeOK, PanelDispatch, Ids
<1>3. TypeOK'
  BY <1>1, <1>2, <1>tdown, <1>tposted DEF TypeOK, Ids
<1>4. SocketsAreOwn'
  BY <1>1, <1>2 DEF Custody, SocketsAreOwn
<1>5. HandedOnlyToRecipient'
  <2>1. /\ UNCHANGED <<rows, snapshot, todo, store>>
        /\ \A a \in Agents : ForAgent(a)' = ForAgent(a) /\ Stored(a)' = Stored(a)
    BY <1>2 DEF ForAgent, Ids, Stored
  <2>2. ASSUME NEW d \in Conns, NEW k \in DOMAIN down'[d], down'[d][k].type # "delivered"
        PROVE  down'[d][k].ids \subseteq ForAgent(Owner[d])
    BY <1>1, <1>p, <1>r, <2>2, i \in ForAgent(rows[i].to) DEF Custody,
       HandedOnlyToRecipient, ForAgent
  <2> QED BY <1>1, <2>1, <2>2 DEF Custody, HandedOnlyToRecipient
<1>6. AckedIsStored'
  BY <1>1, <1>2 DEF Custody, AckedIsStored, Stored
<1>7. AnnouncedIsDelivered'
  <2>1. ASSUME NEW d \in Conns, NEW k \in DOMAIN down'[d], down'[d][k].type = "delivered"
        PROVE  Announces(down'[d][k].ids, Owner[d])
    BY <1>1, <1>r, <2>1 DEF Custody, AnnouncedIsDelivered
  <2>9. \A s, b : Announces(s, b)' = Announces(s, b)
    BY <1>2 DEF Announces
  <2> QED BY <1>1, <1>2, <2>1, <2>9 DEF Custody, AnnouncedIsDelivered
<1>8. DeliveredIsStored'
  BY <1>1, <1>2 DEF Custody, DeliveredIsStored, Stored
<1> QED BY <1>3, <1>4, <1>5, <1>6, <1>7, <1>8 DEF IInv, Custody

\* A send that fails after its commit leaves its row to the next snapshot.
LEMMA PanelSendFailsStep ==
  ASSUME IInv, NEW i \in posted, PanelSendFails(i)
  PROVE  IInv'
<1>1. TypeOK /\ Custody
  BY DEF IInv
<1>2. /\ UNCHANGED <<rows, delivered, expired, current, phase, snapshot, job, up, down, ws,
                     todo, store, told, sends>>
      /\ posted' = posted \ {i} /\ faults < MaxFaults /\ faults' = faults + 1
  BY DEF PanelSendFails, FaultHappens, table, daemon
<1>3. faults' \in 0 .. MaxFaults
  BY <1>1, <1>2, DeliveryAssumption DEF DeliveryAssumption, TypeOK
<1>4. posted' \in SUBSET Ids
  BY <1>1, <1>2 DEF TypeOK
<1>5. TypeOK'
  BY <1>1, <1>2, <1>3, <1>4 DEF TypeOK, Ids
<1>6. Custody'
  BY <1>1, <1>2 DEF Custody, SocketsAreOwn, HandedOnlyToRecipient, AckedIsStored,
                    AnnouncedIsDelivered, Announces, DeliveredIsStored, ForAgent, Stored, Ids
<1> QED BY <1>5, <1>6 DEF IInv

\* Expiry hides a row from later snapshots only.
LEMMA ExpireStep ==
  ASSUME IInv, NEW i \in Ids, Expire(i)
  PROVE  IInv'
<1> USE DeliveryAssumption
<1>1. TypeOK /\ Custody
  BY DEF IInv
<1>2. UNCHANGED <<rows, delivered, current, phase, snapshot, job, posted, up, down, ws,
                  todo, store, told, sends>>
  BY DEF Expire, FaultHappens, table, session, daemon, bounds
<1>texpired. (expired \in SUBSET Ids)'
  BY <1>1, <1>2 DEF TypeOK, Expire, FaultHappens, Ids
<1>tfaults. (faults \in 0..MaxFaults)'
  BY <1>1, <1>2 DEF TypeOK, Expire, FaultHappens
<1>3. TypeOK'
  BY <1>1, <1>2, <1>texpired, <1>tfaults DEF TypeOK, Ids
<1>4. SocketsAreOwn'
  BY <1>1, <1>2 DEF Custody, SocketsAreOwn
<1>5. HandedOnlyToRecipient'
  BY <1>1, <1>2 DEF Custody, HandedOnlyToRecipient, ForAgent, Ids, Stored
<1>6. AckedIsStored'
  BY <1>1, <1>2 DEF Custody, AckedIsStored, Stored
<1>7. AnnouncedIsDelivered'
  BY <1>1, <1>2 DEF Custody, AnnouncedIsDelivered, Announces
<1>8. DeliveredIsStored'
  BY <1>1, <1>2 DEF Custody, DeliveredIsStored, Stored
<1> QED BY <1>3, <1>4, <1>5, <1>6, <1>7, <1>8 DEF IInv, Custody

\* A restart of the hub forgets sessions, never rows or delivered_at.
LEMMA HubRestartStep ==
  ASSUME IInv, HubRestart
  PROVE  IInv'
<1> USE DeliveryAssumption
<1>1. TypeOK /\ Custody
  BY DEF IInv
<1>2. UNCHANGED <<rows, delivered, expired, down, ws, todo, store, told, sends>>
  BY DEF HubRestart, FaultHappens, table, session, daemon, bounds
<1>q. \A d \in Conns : job'[d].kind = "none"
  BY DEF HubRestart, NoJob
<1>tcurrent. (current \in [Agents -> Conns \cup {NoConn}])'
  BY <1>1, <1>2 DEF TypeOK, HubRestart, FaultHappens
<1>tphase. (phase \in [Conns -> Phase])'
  BY <1>1, <1>2 DEF TypeOK, HubRestart, FaultHappens, Phase
<1>tsnapshot. (snapshot \in [Conns -> SUBSET Ids])'
  BY <1>1, <1>2 DEF TypeOK, HubRestart, FaultHappens, Ids
<1>tjob. (job \in [Conns -> Job])'
  BY <1>1, <1>2 DEF TypeOK, HubRestart, FaultHappens, Job, NoJob, Ids
<1>tposted. (posted \in SUBSET Ids)'
  BY <1>1, <1>2 DEF TypeOK, HubRestart, FaultHappens, Ids
<1>tup. (up \in [Conns -> Seq(UpFrame)])'
  BY <1>1, <1>2 DEF TypeOK, HubRestart, FaultHappens, UpFrame
<1>tfaults. (faults \in 0..MaxFaults)'
  BY <1>1, <1>2 DEF TypeOK, HubRestart, FaultHappens
<1>3. TypeOK'
  BY <1>1, <1>2, <1>q, <1>tcurrent, <1>tphase, <1>tsnapshot, <1>tjob, <1>tposted,
     <1>tup, <1>tfaults DEF TypeOK, Ids
<1>4. SocketsAreOwn'
  BY <1>1, <1>2, <1>3 DEF Custody, TypeOK, SocketsAreOwn, HubRestart, FaultHappens
<1>5. HandedOnlyToRecipient'
  BY <1>1, <1>2, <1>3
     DEF Custody, TypeOK, HandedOnlyToRecipient, ForAgent, Ids, Stored, HubRestart, FaultHappens
<1>6. AckedIsStored'
  BY <1>1, <1>2, <1>3 DEF Custody, TypeOK, AckedIsStored, Stored, HubRestart,
     FaultHappens
<1>7. AnnouncedIsDelivered'
  BY <1>1, <1>2, <1>q DEF Custody, AnnouncedIsDelivered, Announces
<1>8. DeliveredIsStored'
  BY <1>1, <1>2 DEF Custody, DeliveredIsStored, Stored
<1> QED BY <1>3, <1>4, <1>5, <1>6, <1>7, <1>8 DEF IInv, Custody

-----------------------------------------------------------------------------
(* The theorems *)

\* The invariant holds before anything was sent.
LEMMA InitCustody == Init => IInv
<1> SUFFICES ASSUME Init PROVE IInv
  OBVIOUS
<1> USE DeliveryAssumption DEF Init
<1>1. TypeOK
  BY DEF TypeOK, Phase, Job, NoJob, Ids
<1>2. \A a \in Agents : Stored(a) = {}
  BY DEF Stored
<1>3. Custody
  BY <1>2 DEF Custody, SocketsAreOwn, HandedOnlyToRecipient, AckedIsStored,
              AnnouncedIsDelivered, DeliveredIsStored, NoJob
<1> QED BY <1>1, <1>3 DEF IInv

\* Steps outside the system keep the invariant.
LEMMA StutterCustody ==
  ASSUME IInv, UNCHANGED vars
  PROVE  IInv'
<1>1. UNCHANGED <<rows, delivered, expired, current, phase, snapshot, job, posted,
                  up, down, ws, todo, store, told, sends, faults>>
  BY DEF vars, table, session, daemon, bounds
<1>2. TypeOK'
  BY <1>1 DEF IInv, TypeOK, Ids
<1>3. Custody'
  BY <1>1 DEF IInv, Custody, SocketsAreOwn, HandedOnlyToRecipient, AckedIsStored,
              AnnouncedIsDelivered, Announces, DeliveredIsStored, ForAgent, Stored, Ids
<1> QED BY <1>2, <1>3 DEF IInv

\* Every step keeps the invariant: the action lemmas put together.
LEMMA NextCustody ==
  ASSUME IInv, [Next]_vars
  PROVE  IInv'
<1>1. ASSUME NEW c \in Conns, Connect(c) \/ HubStep(c) \/ HelloAckFails(c)
      PROVE  IInv'
  BY <1>1, ConnectStep, AuthenticateStep, RegisterStep, SendHelloAckStep,
     HelloAckFailsStep, HandleSendStep, RefuseSendStep, DispatchStep,
     HandleAckStep, NotifyStep, SessionDisconnectsStep DEF HubStep
<1>2. ASSUME NEW a \in Agents, DaemonStep(a)
      PROVE  IInv'
  BY <1>2, SocketClosedStep, ReceiveFrameStep, HandleMessageStep DEF DaemonStep
<1>3. ASSUME NEW a \in Agents, NEW b \in Agents, SubmitSend(a, b) \/ PanelSend(a, b)
      PROVE  IInv'
  BY <1>3, SubmitSendStep, PanelSendStep
<1>4. ASSUME NEW i \in posted, PanelDispatch(i)
      PROVE  IInv'
  BY <1>4, PanelDispatchStep
<1>5. CASE Fault
  <2>1. ASSUME NEW a \in Agents, ConnectionLost(a) \/ DaemonCrash(a)
        PROVE  IInv'
    BY <2>1, ConnectionLostStep, DaemonCrashStep
  <2>2. ASSUME NEW c \in Conns,
               HelloAbandoned(c) \/ HeartbeatTimeout(c) \/ HandlerFails(c)
        PROVE  IInv'
    BY <2>2, HelloAbandonedStep, HeartbeatTimeoutStep, HandlerFailsStep
  <2>3. CASE HubRestart
    BY <2>3, HubRestartStep
  <2>4. ASSUME NEW i \in Ids, Expire(i)
        PROVE  IInv'
    BY <2>4, ExpireStep
  <2>5. ASSUME NEW i \in posted, PanelSendFails(i)
        PROVE  IInv'
    BY <2>5, PanelSendFailsStep
  <2> QED BY <1>5, <2>1, <2>2, <2>3, <2>4, <2>5 DEF Fault
<1>6. CASE UNCHANGED vars
  BY <1>6, StutterCustody
<1> QED BY <1>1, <1>2, <1>3, <1>4, <1>5, <1>6 DEF Next

\* Every reachable state of the hub and the daemons is well typed and every
\* message in flight is in the right hands: sessions hold only rows addressed to
\* their agent, acks name stored messages, notices name delivered ones.
THEOREM CustodyHolds == Spec => [](TypeOK /\ Custody)
<1>1. Init => IInv
  BY InitCustody
<1>2. IInv /\ [Next]_vars => IInv'
  BY NextCustody
<1>3. IInv => TypeOK /\ Custody
  BY DEF IInv
<1> QED BY <1>1, <1>2, <1>3, PTL DEF Spec

\* delivered_at is never set for a message its recipient does not hold durably,
\* however many agents, connections, messages and faults there are.
THEOREM DeliveredIsStoredAlways == Spec => []DeliveredIsStored
<1>1. TypeOK /\ Custody => DeliveredIsStored
  BY DEF Custody
<1> QED BY <1>1, CustodyHolds, PTL

-----------------------------------------------------------------------------
(* The store of a recipient has no line twice *)

\* StoredOnce with what the induction needs: the ids of a store are a finite set.
LinesAreIds ==
  \A a \in Agents : IsFiniteSet(Stored(a)) /\ Cardinality(Stored(a)) = Len(store[a])

\* MessageStore.append: a new id lengthens the file by one line, an old one by none.
LEMMA AppendOnce ==
  ASSUME TypeOK, TypeOK', LinesAreIds, NEW a \in Agents, NEW i \in Nat,
         store' = [store EXCEPT ![a] = IF i \in Stored(a) THEN @ ELSE Append(@, i)]
  PROVE  LinesAreIds'
<1>1. store \in [Agents -> Seq(Nat)]
  BY DEF TypeOK
<1>2. \A b \in Agents : Stored(b)' = IF b = a THEN Stored(a) \cup {i} ELSE Stored(b)
  BY <1>1, StoredGrows
<1>3. Len(store'[a]) = IF i \in Stored(a) THEN Len(store[a]) ELSE Len(store[a]) + 1
  <2>1. store[a] \in Seq(Nat)
    BY <1>1
  <2>2. CASE i \in Stored(a)
    BY <1>1, <2>2
  <2>3. CASE i \notin Stored(a)
    <3>1. store'[a] = Append(store[a], i)
      BY <1>1, <2>3
    <3>2. Len(Append(store[a], i)) = Len(store[a]) + 1
      BY <2>1
    <3> QED BY <2>3, <3>1, <3>2
  <2> QED BY <2>2, <2>3
<1>4. /\ IsFiniteSet(Stored(a) \cup {i})
      /\ Cardinality(Stored(a) \cup {i}) =
           IF i \in Stored(a) THEN Cardinality(Stored(a)) ELSE Cardinality(Stored(a)) + 1
  BY FS_AddElement DEF LinesAreIds
<1>5. \A b \in Agents \ {a} : store'[b] = store[b]
  BY <1>1
<1> QED BY <1>2, <1>3, <1>4, <1>5 DEF LinesAreIds

\* Only the daemon's handler of a message writes the store.
LEMMA OnlyHandlerStores ==
  ASSUME TypeOK, [Next]_vars
  PROVE  \/ UNCHANGED store
         \/ \E a \in Agents : \E i \in todo[a] : HandleMessage(a, i)
<1> USE DEF session, table, daemon, bounds
<1>1. ASSUME NEW c \in Conns, Connect(c) \/ HubStep(c) \/ HelloAckFails(c)
      PROVE  UNCHANGED store
  BY <1>1 DEF Connect, HubStep, HelloAckFails, RefuseSend, Authenticate, Register, SendHelloAck,
     HandleSend, Dispatch, HandleAck, Notify, SessionDisconnects, EndSession
<1>2. ASSUME NEW a \in Agents, DaemonStep(a)
      PROVE  UNCHANGED store \/ \E i \in todo[a] : HandleMessage(a, i)
  BY <1>2 DEF DaemonStep, ReceiveFrame, SocketClosed, OnClose
<1>3. ASSUME NEW a \in Agents, NEW b \in Agents, SubmitSend(a, b) \/ PanelSend(a, b)
      PROVE  UNCHANGED store
  BY <1>3 DEF SubmitSend, PanelSend
<1>4. ASSUME NEW i \in posted, PanelDispatch(i)
      PROVE  UNCHANGED store
  BY <1>4 DEF PanelDispatch
<1>5. CASE Fault
  BY <1>5 DEF Fault, ConnectionLost, DaemonCrash, OnClose, HelloAbandoned, HeartbeatTimeout,
     HandlerFails, EndSession, HubRestart, Expire, PanelSendFails
<1>6. CASE UNCHANGED vars
  BY <1>6 DEF vars
<1> QED BY <1>1, <1>2, <1>3, <1>4, <1>5, <1>6 DEF Next

\* However often a message is sent again, dispatched and redelivered, to however
\* many sessions of its recipient, the recipient's file has its id on one line.
THEOREM StoredOnceAlways == Spec => []StoredOnce
<1>1. Init => LinesAreIds
  <2> SUFFICES ASSUME Init, NEW a \in Agents
               PROVE  IsFiniteSet(Stored(a)) /\ Cardinality(Stored(a)) = Len(store[a])
    BY DEF LinesAreIds
  <2>1. store[a] = <<>>
    BY DEF Init
  <2>2. Stored(a) = {}
    BY <2>1 DEF Stored
  <2> QED BY <2>1, <2>2, FS_EmptySet
<1>2. TypeOK /\ TypeOK' /\ LinesAreIds /\ [Next]_vars => LinesAreIds'
  <2> SUFFICES ASSUME TypeOK, TypeOK', LinesAreIds, [Next]_vars PROVE LinesAreIds'
    OBVIOUS
  <2>1. CASE UNCHANGED store
    BY <2>1 DEF LinesAreIds, Stored
  <2>2. ASSUME NEW a \in Agents, NEW i \in todo[a], HandleMessage(a, i)
        PROVE  LinesAreIds'
    <3>1. i \in Nat
      BY DEF TypeOK, Ids
    <3> QED BY <2>2, <3>1, AppendOnce DEF HandleMessage
  <2> QED BY <2>1, <2>2, OnlyHandlerStores
<1>3. LinesAreIds => StoredOnce
  BY DEF LinesAreIds, StoredOnce
<1>4. Spec => []TypeOK
  BY CustodyHolds, PTL
<1> QED BY <1>1, <1>2, <1>3, <1>4, PTL DEF Spec

\* The types alone, of every reachable state.
THEOREM TypesHold == Spec => []TypeOK
BY CustodyHolds, PTL

-----------------------------------------------------------------------------
(* The registry *)

\* The registry property speaks of three variables only: steps that leave them
\* alone keep it.
LEMMA RegistryFrame ==
  ASSUME AttachedIsRegistered, UNCHANGED <<current, phase, ws>>
  PROVE  AttachedIsRegistered'
BY DEF AttachedIsRegistered, Writable, Attached

\* The end of a session frees the slug only when it is its own: any other
\* session that is writable and attached is registered, hence another socket.
LEMMA EndSessionRegistry ==
  ASSUME IInv, AttachedIsRegistered, NEW c \in Conns, EndSession(c)
  PROVE  AttachedIsRegistered'
<1> USE DeliveryAssumption
<1>1. /\ phase \in [Conns -> Phase] /\ current \in [Agents -> Conns \cup {NoConn}]
      /\ phase' = [phase EXCEPT ![c] = "closed"]
      /\ current' = IF current[Owner[c]] = c
                    THEN [current EXCEPT ![Owner[c]] = NoConn] ELSE current
      /\ ws' = ws
  BY DEF IInv, TypeOK, EndSession, daemon
<1>2. ASSUME NEW d \in Conns, Writable(d)', Attached(d)'
      PROVE  current'[Owner[d]] = d
  <2>1. d # c /\ Writable(d) /\ Attached(d)
    BY <1>1, <1>2 DEF Writable, Attached
  <2>2. current[Owner[d]] = d
    BY <2>1 DEF AttachedIsRegistered
  <2> QED BY <1>1, <2>1, <2>2
<1> QED BY <1>2 DEF AttachedIsRegistered

\* Taking the slug over shuts the socket that held it, so the agent's only
\* writable and attached socket after it is the new one.
LEMMA RegisterRegistry ==
  ASSUME IInv, AttachedIsRegistered, NEW c \in Conns, Register(c)
  PROVE  AttachedIsRegistered'
<1> USE DeliveryAssumption
<1>1. /\ phase \in [Conns -> Phase] /\ current \in [Agents -> Conns \cup {NoConn}]
      /\ current' = [current EXCEPT ![Owner[c]] = c] /\ ws' = ws
  BY DEF IInv, TypeOK, Register, daemon
<1>2. ASSUME NEW d \in Conns, d # c
      PROVE  phase'[d] = IF d = current[Owner[c]] /\ phase[d] = "serving" THEN "closing"
                         ELSE IF d = current[Owner[c]] /\ phase[d] = "registered"
                              THEN "closed" ELSE phase[d]
  BY <1>2 DEF Register
<1>3. ASSUME NEW d \in Conns, Writable(d)', Attached(d)'
      PROVE  current'[Owner[d]] = d
  <2>1. CASE d = c
    BY <1>1, <2>1
  <2>2. CASE d # c
    <3>1. Writable(d) /\ Attached(d) /\ d # current[Owner[c]]
      BY <1>1, <1>2, <1>3, <2>2 DEF Writable, Attached
    <3>2. current[Owner[d]] = d
      BY <3>1 DEF AttachedIsRegistered
    <3> QED BY <1>1, <3>1, <3>2
  <2> QED BY <2>1, <2>2
<1> QED BY <1>3 DEF AttachedIsRegistered

\* Steps of a connection.
LEMMA ConnRegistry ==
  ASSUME IInv, AttachedIsRegistered, NEW c \in Conns,
         Connect(c) \/ HubStep(c) \/ HelloAckFails(c)
  PROVE  AttachedIsRegistered'
<1> USE DeliveryAssumption
<1>1. phase \in [Conns -> Phase] /\ ws \in [Agents -> Conns \cup {NoConn}]
  BY DEF IInv, TypeOK
<1>2. CASE Connect(c)
  <2>1. /\ ws[Owner[c]] = NoConn /\ ws' = [ws EXCEPT ![Owner[c]] = c]
        /\ phase' = [phase EXCEPT ![c] = "hello"] /\ current' = current
    BY <1>2 DEF Connect
  <2> QED BY <1>1, <2>1 DEF AttachedIsRegistered, Writable, Attached
<1>3. CASE Authenticate(c) \/ SendHelloAck(c) \/ HelloAckFails(c)
  <2>1. /\ ws' = ws /\ current' = current
        /\ \/ phase' = [phase EXCEPT ![c] = "authed"]
           \/ phase[c] = "registered" /\ phase' = [phase EXCEPT ![c] = "serving"]
           \/ phase' = [phase EXCEPT ![c] = "closed"]
    BY <1>3 DEF Authenticate, SendHelloAck, HelloAckFails, daemon
  <2> QED BY <1>1, <2>1 DEF AttachedIsRegistered, Writable, Attached
<1>4. CASE SessionDisconnects(c)
  BY <1>4, EndSessionRegistry DEF SessionDisconnects
<1>5. CASE Register(c)
  BY <1>5, RegisterRegistry
<1>6. CASE HandleSend(c) \/ RefuseSend(c) \/ Dispatch(c) \/ HandleAck(c) \/ Notify(c)
  <2>1. UNCHANGED <<current, phase, ws>>
    BY <1>6 DEF HandleSend, RefuseSend, Dispatch, HandleAck, Notify, session, daemon
  <2> QED BY <2>1, RegistryFrame
<1> QED BY <1>2, <1>3, <1>4, <1>5, <1>6 DEF HubStep

\* Steps of a daemon and of its users: a socket is at most let go of.
LEMMA DaemonRegistry ==
  ASSUME IInv, AttachedIsRegistered, NEW a \in Agents, NEW b \in Agents,
         \/ DaemonStep(a) \/ ConnectionLost(a) \/ DaemonCrash(a)
         \/ SubmitSend(a, b) \/ PanelSend(a, b)
  PROVE  AttachedIsRegistered'
<1> USE DeliveryAssumption
<1>1. ws \in [Agents -> Conns \cup {NoConn}]
  BY DEF IInv, TypeOK
<1>2. CASE SocketClosed(a) \/ ConnectionLost(a) \/ DaemonCrash(a)
  <2>1. UNCHANGED <<current, phase>> /\ ws' = [ws EXCEPT ![a] = NoConn]
    BY <1>2 DEF SocketClosed, ConnectionLost, OnClose, DaemonCrash, session
  <2> QED BY <1>1, <2>1 DEF AttachedIsRegistered, Writable, Attached
<1>3. CASE \/ ReceiveFrame(a) \/ SubmitSend(a, b) \/ PanelSend(a, b)
           \/ \E i \in todo[a] : HandleMessage(a, i)
  <2>1. UNCHANGED <<current, phase, ws>>
    BY <1>3 DEF ReceiveFrame, HandleMessage, SubmitSend, PanelSend, session, daemon
  <2> QED BY <2>1, RegistryFrame
<1> QED BY <1>2, <1>3 DEF DaemonStep

\* Every step keeps the registry in order.
LEMMA NextRegistry ==
  ASSUME IInv, AttachedIsRegistered, [Next]_vars
  PROVE  AttachedIsRegistered'
<1>1. ASSUME NEW c \in Conns, Connect(c) \/ HubStep(c) \/ HelloAckFails(c)
      PROVE  AttachedIsRegistered'
  BY <1>1, ConnRegistry
<1>2. ASSUME NEW a \in Agents, DaemonStep(a) \/ ConnectionLost(a) \/ DaemonCrash(a)
      PROVE  AttachedIsRegistered'
  BY <1>2, DaemonRegistry
<1>3. ASSUME NEW a \in Agents, NEW b \in Agents, SubmitSend(a, b) \/ PanelSend(a, b)
      PROVE  AttachedIsRegistered'
  BY <1>3, DaemonRegistry
<1>4. CASE (\E i \in posted : PanelDispatch(i) \/ PanelSendFails(i)) \/ (\E i \in Ids : Expire(i))
  <2>1. UNCHANGED <<current, phase, ws>>
    BY <1>4 DEF PanelDispatch, PanelSendFails, Expire, session, daemon
  <2> QED BY <2>1, RegistryFrame
<1>5. ASSUME NEW c \in Conns, HelloAbandoned(c) \/ HeartbeatTimeout(c)
      PROVE  AttachedIsRegistered'
  <2>1. phase \in [Conns -> Phase]
    BY DEF IInv, TypeOK
  <2>2. /\ ws' = ws /\ current' = current
        /\ \/ phase' = [phase EXCEPT ![c] = "closed"]
           \/ phase' = [phase EXCEPT ![c] = "closing"]
    BY <1>5 DEF HelloAbandoned, HeartbeatTimeout, daemon
  <2> QED BY <2>1, <2>2 DEF AttachedIsRegistered, Writable, Attached
<1>6. ASSUME NEW c \in Conns, HandlerFails(c)
      PROVE  AttachedIsRegistered'
  BY <1>6, EndSessionRegistry DEF HandlerFails
<1>7. CASE HubRestart
  <2>1. \A c \in Conns : phase'[c] = "closed"
    BY <1>7 DEF HubRestart
  <2> QED BY <2>1 DEF AttachedIsRegistered, Writable
<1>8. CASE UNCHANGED vars
  BY <1>8, RegistryFrame DEF vars, session, daemon
<1> QED
  BY <1>1, <1>2, <1>3, <1>4, <1>5, <1>6, <1>7, <1>8 DEF Next, Fault

\* A daemon whose socket the hub serves is registered under that very socket,
\* for any number of sessions of the same agent that overlap in any order.
THEOREM AttachedIsRegisteredAlways == Spec => []AttachedIsRegistered
<1>1. Init => IInv /\ AttachedIsRegistered
  <2>1. Init => AttachedIsRegistered
    BY DEF Init, AttachedIsRegistered, Writable
  <2> QED BY <2>1, InitCustody
<1>2. IInv /\ AttachedIsRegistered /\ [Next]_vars => (IInv /\ AttachedIsRegistered)'
  BY NextCustody, NextRegistry
<1> QED BY <1>1, <1>2, PTL DEF Spec

\* A slug leaves the registry only with the session that holds it: the late end
\* of a replaced session never takes its successor off.
THEOREM OnlyOwnSessionDeregistersAlways == Spec => OnlyOwnSessionDeregisters
<1> DEFINE Step == \A a \in Agents :
      current[a] # NoConn /\ current'[a] = NoConn => phase'[current[a]] = "closed"
<1>1. ASSUME IInv, [Next]_vars
      PROVE  Step \/ UNCHANGED vars
  <2> USE DeliveryAssumption
  <2>1. current \in [Agents -> Conns \cup {NoConn}] /\ phase \in [Conns -> Phase]
    BY <1>1 DEF IInv, TypeOK
  <2>2. ASSUME NEW c \in Conns, EndSession(c)
        PROVE  Step
    <3>1. /\ phase' = [phase EXCEPT ![c] = "closed"]
          /\ current' = IF current[Owner[c]] = c
                        THEN [current EXCEPT ![Owner[c]] = NoConn] ELSE current
      BY <2>2 DEF EndSession
    <3> QED BY <2>1, <3>1
  <2>3. ASSUME NEW c \in Conns, Register(c)
        PROVE  Step
    <3>1. current' = [current EXCEPT ![Owner[c]] = c]
      BY <2>3 DEF Register
    <3> QED BY <2>1, <3>1
  <2>4. CASE HubRestart
    <3>1. \A c \in Conns : phase'[c] = "closed"
      BY <2>4 DEF HubRestart
    <3> QED BY <2>1, <3>1
  <2>5. CASE current' = current
    BY <2>5
  <2>6. CASE Next
    <3>1. ASSUME NEW c \in Conns,
                 Connect(c) \/ HubStep(c) \/ HelloAckFails(c)
          PROVE  Step
      BY <3>1, <2>2, <2>3, <2>5
         DEF HubStep, Connect, HelloAckFails, RefuseSend, Authenticate, SendHelloAck,
             HandleSend, Dispatch, HandleAck, Notify, SessionDisconnects, session
    <3>2. ASSUME NEW a \in Agents, DaemonStep(a) \/ ConnectionLost(a) \/ DaemonCrash(a)
          PROVE  Step
      BY <3>2, <2>5 DEF DaemonStep, ReceiveFrame, SocketClosed, OnClose, HandleMessage,
                        ConnectionLost, DaemonCrash, session
    <3>3. ASSUME NEW a \in Agents, NEW b \in Agents, SubmitSend(a, b) \/ PanelSend(a, b)
          PROVE  Step
      BY <3>3, <2>5 DEF SubmitSend, PanelSend, session
    <3>4. CASE (\E i \in posted : PanelDispatch(i) \/ PanelSendFails(i)) \/ (\E i \in Ids : Expire(i))
      BY <3>4, <2>5 DEF PanelDispatch, PanelSendFails, Expire, session
    <3>5. ASSUME NEW c \in Conns,
                 HelloAbandoned(c) \/ HeartbeatTimeout(c) \/ HandlerFails(c)
          PROVE  Step
      BY <3>5, <2>2, <2>5 DEF HelloAbandoned, HeartbeatTimeout, HandlerFails
    <3> QED BY <2>4, <2>6, <3>1, <3>2, <3>3, <3>4, <3>5 DEF Next, Fault
  <2> QED BY <1>1, <2>6
<1>2. Spec => []IInv
  BY InitCustody, NextCustody, PTL DEF Spec
<1>3. IInv /\ [Next]_vars => [Step]_vars
  BY <1>1
<1> QED BY <1>2, <1>3, PTL DEF Spec, OnlyOwnSessionDeregisters

-----------------------------------------------------------------------------
(* Refinement *)

\* Steps that leave the table, the stores and the announcements alone are
\* stuttering steps of the contract.
LEMMA ContractStutters ==
  ASSUME UNCHANGED <<rows, delivered, store, told>>
  PROVE  UNCHANGED Contract!vars
BY DEF Contract!vars, Stored

\* A committed row is a Send of the contract.
LEMMA ContractSends ==
  ASSUME NEW r \in Row, r.from # r.to, rows' = Append(rows, r),
         UNCHANGED <<delivered, store, told>>
  PROVE  Contract!Next
<1>1. r \in Contract!Row
  BY DEF Row, Contract!Row
<1>2. Contract!Send(r)
  BY DEF Contract!Send, Stored
<1> QED BY <1>1, <1>2 DEF Contract!Next

\* A message handled by the daemon is a Deliver, or a stutter when redelivered.
LEMMA ContractDelivers ==
  ASSUME IInv, NEW a \in Agents, NEW i \in todo[a], HandleMessage(a, i)
  PROVE  Contract!Next \/ UNCHANGED Contract!vars
<1>1. i \in Ids /\ rows[i].to = a /\ i \in Nat
  BY DEF IInv, TypeOK, Custody, HandedOnlyToRecipient, ForAgent, Ids
<1>2. UNCHANGED <<rows, delivered, told>>
  BY DEF HandleMessage, table
<1>3. \A b \in Agents : Stored(b)' = IF b = a THEN Stored(a) \cup {i} ELSE Stored(b)
  BY <1>1, StoredGrows DEF IInv, TypeOK, HandleMessage
<1>4. CASE i \in Stored(a)
  <2>1. \A b \in Agents : Stored(b)' = Stored(b)
    BY <1>3, <1>4
  <2> QED BY <1>2, <2>1 DEF Contract!vars
<1>5. CASE i \notin Stored(a)
  <2>1. Contract!Deliver(i)
    BY <1>1, <1>2, <1>3, <1>5 DEF Contract!Deliver
  <2> QED BY <1>1, <2>1 DEF Contract!Next, Ids
<1> QED BY <1>4, <1>5

\* An accepted ack is a Confirm: what is acked is stored.
LEMMA ContractConfirms ==
  ASSUME IInv, NEW c \in Conns, HandleAck(c)
  PROVE  Contract!Next \/ UNCHANGED Contract!vars
<1> DEFINE i == Head(up[c]).id
<1>1. UNCHANGED <<rows, store, told>>
  BY DEF HandleAck, daemon
<1>2. CASE UNCHANGED delivered
  BY <1>1, <1>2, ContractStutters
<1>3. CASE /\ i \in Ids /\ rows[i].to = Owner[c] /\ delivered' = delivered \cup {i}
  <2>1. up[c] \in Seq(UpFrame) /\ up[c] # <<>> /\ Head(up[c]).type = "ack"
    BY DEF IInv, TypeOK, HandleAck, NextFrame
  <2>2. 1 \in DOMAIN up[c] /\ Head(up[c]) = up[c][1]
    BY <2>1, RemovedFrame
  <2>3. i \in Stored(Owner[c])
    BY <2>1, <2>2 DEF IInv, Custody, AckedIsStored
  <2>4. Owner[c] \in Agents
    BY DeliveryAssumption
  <2> HIDE DEF i
  <2>5. Contract!Confirm(i)
    BY <1>1, <1>3, <2>3, <2>4 DEF Contract!Confirm, Stored
  <2> QED BY <1>3, <2>5 DEF Contract!Next, Ids
<1> QED BY <1>2, <1>3 DEF HandleAck

\* A `delivered` frame that arrives is a Tell, any other frame a stutter.
LEMMA ContractTells ==
  ASSUME IInv, NEW a \in Agents, ReceiveFrame(a)
  PROVE  Contract!Next \/ UNCHANGED Contract!vars
<1> USE DeliveryAssumption
<1> DEFINE c == ws[a]
<1> DEFINE f == Head(down[c])
<1>1. UNCHANGED <<rows, delivered, store>>
  BY DEF ReceiveFrame, table
<1>2. CASE f.type # "delivered"
  <2>1. UNCHANGED told
    BY <1>2 DEF ReceiveFrame
  <2> QED BY <1>1, <2>1, ContractStutters
<1>3. CASE f.type = "delivered"
  <2>1. c \in Conns /\ Owner[c] = a /\ down[c] \in Seq(DownFrame) /\ down[c] # <<>>
    BY DEF IInv, TypeOK, Custody, SocketsAreOwn, ReceiveFrame
  <2>2. 1 \in DOMAIN down[c] /\ f = down[c][1]
    BY <2>1, RemovedFrame
  <2>3. PICK i \in delivered : f.ids = {i} /\ rows[i].from = a
    BY <1>3, <2>1, <2>2 DEF IInv, Custody, AnnouncedIsDelivered, Announces
  <2>4. told' = [told EXCEPT ![a] = @ \cup f.ids]
    BY <1>3 DEF ReceiveFrame
  <2>5. Contract!Tell(i)
    BY <1>1, <2>3, <2>4 DEF Contract!Tell, Stored
  <2>6. i \in DOMAIN rows
    BY <2>3 DEF IInv, TypeOK, Ids
  <2> QED BY <2>5, <2>6 DEF Contract!Next
<1> QED BY <1>2, <1>3

\* Steps of a connection.
LEMMA ConnRefines ==
  ASSUME IInv, NEW c \in Conns,
         Connect(c) \/ HubStep(c) \/ HelloAckFails(c)
  PROVE  Contract!Next \/ UNCHANGED Contract!vars
<1>1. CASE HandleSend(c)
  <2>1. up[c] \in Seq(UpFrame) /\ up[c] # <<>> /\ Head(up[c]).type = "message"
    BY <1>1 DEF IInv, TypeOK, HandleSend, NextFrame
  <2>2. Head(up[c]) \in UpFrame
    BY <2>1, RemovedFrame
  <2>3. Head(up[c]).to \in Agents /\ Owner[c] \in Agents
    BY <2>1, <2>2, DeliveryAssumption DEF UpFrame
  <2> DEFINE r == [from |-> Owner[c], to |-> Head(up[c]).to]
  <2>4. r \in Row /\ r.from # r.to
    BY <1>1, <2>3 DEF Row, HandleSend
  <2>5. rows' = Append(rows, r) /\ UNCHANGED <<delivered, store, told>>
    BY <1>1 DEF HandleSend, daemon
  <2> QED BY <2>4, <2>5, ContractSends
<1>2. CASE HandleAck(c)
  BY <1>2, ContractConfirms
<1>3. CASE \/ Connect(c) \/ HelloAckFails(c) \/ RefuseSend(c) \/ Authenticate(c)
           \/ Register(c) \/ SendHelloAck(c) \/ Dispatch(c) \/ Notify(c)
           \/ SessionDisconnects(c)
  <2>1. UNCHANGED <<rows, delivered, store, told>>
    BY <1>3 DEF Connect, HelloAckFails, RefuseSend, Authenticate, Register, SendHelloAck,
                Dispatch, Notify, SessionDisconnects, EndSession, table, daemon
  <2> QED BY <2>1, ContractStutters
<1> QED BY <1>1, <1>2, <1>3 DEF HubStep

\* Every step of the hub, of the daemons, of users and of the environment.
LEMMA NextRefines ==
  ASSUME IInv, [Next]_vars
  PROVE  Contract!Next \/ UNCHANGED Contract!vars
<1>1. ASSUME NEW c \in Conns, Connect(c) \/ HubStep(c) \/ HelloAckFails(c)
      PROVE  Contract!Next \/ UNCHANGED Contract!vars
  BY <1>1, ConnRefines
<1>2. ASSUME NEW a \in Agents, ReceiveFrame(a) \/ \E i \in todo[a] : HandleMessage(a, i)
      PROVE  Contract!Next \/ UNCHANGED Contract!vars
  BY <1>2, ContractTells, ContractDelivers
<1>3. ASSUME NEW a \in Agents, NEW b \in Agents, PanelSend(a, b)
      PROVE  Contract!Next
  <2> DEFINE r == [from |-> a, to |-> b]
  <2>1. r \in Row /\ r.from # r.to
    BY <1>3 DEF Row, PanelSend
  <2>2. rows' = Append(rows, r) /\ UNCHANGED <<delivered, store, told>>
    BY <1>3 DEF PanelSend, daemon
  <2> QED BY <2>1, <2>2, ContractSends
<1>4. CASE \/ \E a \in Agents : \/ SocketClosed(a) \/ ConnectionLost(a) \/ DaemonCrash(a)
                                \/ \E b \in Agents : SubmitSend(a, b)
           \/ \E c \in Conns : HelloAbandoned(c) \/ HeartbeatTimeout(c) \/ HandlerFails(c)
           \/ HubRestart
           \/ \E i \in posted : PanelDispatch(i) \/ PanelSendFails(i)
           \/ \E i \in Ids : Expire(i)
           \/ UNCHANGED vars
  <2>1. UNCHANGED <<rows, delivered, store, told>>
    BY <1>4 DEF SocketClosed, ConnectionLost, OnClose, DaemonCrash, SubmitSend,
                HelloAbandoned, HeartbeatTimeout, HandlerFails, EndSession, HubRestart,
                PanelDispatch, PanelSendFails, Expire, vars, table, daemon
  <2> QED BY <2>1, ContractStutters
<1> QED BY <1>1, <1>2, <1>3, <1>4 DEF Next, DaemonStep, Fault

\* The hub and the daemons implement the abstract contract: a message is stored
\* at most once, confirmed only when stored, announced only when confirmed.
THEOREM DeliveryImplementsContract == Spec => ImplementsContract
<1>1. Init => Contract!Init
  <2>1. Init => \A a \in Agents : Stored(a) = {}
    BY DEF Init, Stored
  <2> QED BY <2>1 DEF Init, Contract!Init
<1>2. IInv /\ [Next]_vars => [Contract!Next]_(Contract!vars)
  BY NextRefines
<1>3. Spec => []IInv
  BY InitCustody, NextCustody, PTL DEF Spec
<1> QED BY <1>1, <1>2, <1>3, PTL DEF Spec, ImplementsContract, Contract!Spec

=============================================================================
