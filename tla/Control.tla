------------------------------- MODULE Control -------------------------------
(* How an owner and an administrator steer one agent: its settings (edited   *)
(* or copied from a preset), its keys, the global kill switch, and what of   *)
(* that reaches the daemon over its connection and the panel's presence.     *)
(* Requests interleave at every await that reads, commits or sends; the      *)
(* connection is in any stage of its handshake meanwhile.                    *)
EXTENDS Naturals, Sequences, FiniteSets, TLC

CONSTANTS Columns,                 \* settings columns of the agents table
          Conns, NoConn, Handlers,   \* sockets; administrators' concurrent requests
          MaxActs, MaxKeys  \* bounds of the exploration

ASSUME ControlAssumption ==
  /\ NoConn \notin Conns /\ Columns # {}
  /\ {MaxActs, MaxKeys} \subseteq Nat

VARIABLES row,        \* the agent's settings in the database
          keys,       \* per key id, whether it is revoked
          flag,       \* hub_state.auto_responder_enabled in the database ...
          cache,      \* ... and app.state.auto_responder_enabled
          registered, \* the manager's socket of the agent
          session,    \* the hub's coroutine of each socket
          closed,     \* the sockets one side has closed
          wire,       \* frames on their way to the daemon
          daemon,     \* its socket and its copy of the settings and the switch
          news,       \* presence frames on their way to the panel
          view,       \* what the panel shows
          admin,      \* requests in progress
          past        \* what the properties remember; no action reads it
stateVars == <<row, keys, flag, cache>>
linkVars == <<registered, session, closed, wire, daemon>>
panelVars == <<news, view>>
controlVars == <<stateVars, linkVars, panelVars, admin, past>>

Settings == [Columns -> {"on", "off"}]
NoSettings == [none |-> TRUE]
Edit == [Columns -> {"on", "off", "keep"}]

AgentKey == [revoked : BOOLEAN]
Stage == {"off", "hello", "authed", "registered", "live"}
Switch == {"enabled", "disabled"}
Frame == [type : {"hello_ack", "settings_update", "kill_switch"},
          settings : Settings \cup {NoSettings}, enabled : Switch]
Resting == [op |-> "none"]

ControlInit ==
  /\ row = [c \in Columns |-> "off"] /\ keys = <<[revoked |-> FALSE]>>
  /\ flag = "enabled" /\ cache = "enabled"
  /\ registered = NoConn
  /\ session = [c \in Conns |-> [at |-> "off", key |-> 0, settings |-> NoSettings]]
  /\ closed = {} /\ wire = [c \in Conns |-> <<>>]
  /\ daemon = [conn |-> NoConn, settings |-> NoSettings, enabled |-> "enabled"]
  /\ news = {} /\ view = "offline"
  /\ admin = [r \in Handlers |-> Resting]
  /\ past = [raced |-> {}, acts |-> 0]

-----------------------------------------------------------------------------
Busy(op) == {r \in Handlers : admin[r].op = op}
Shaking == {c \in Conns : session[c].at \in {"authed", "registered"}}

\* The commit of a changed row writes the columns whose value changed since it
\* was loaded.
Saved(loaded, changed) ==
  [c \in Columns |-> IF changed[c] # loaded[c] THEN changed[c] ELSE row[c]]

\* Bug variant: an absent field is written as it came.
PatchedAsGiven(loaded, edit) == [c \in Columns |-> edit[c]]

Patched(loaded, edit) == [c \in Columns |-> IF edit[c] = "keep" THEN loaded[c] ELSE edit[c]]

\* Nothing is sent on a socket that is not registered, or that is closed.
SendTo(c, frame) ==
  wire' = IF c \in Conns \ closed THEN [wire EXCEPT ![c] = Append(@, frame)] ELSE wire

Announce(status) == news' = news \cup {status}
Conflicts(status) == IF news \ {status} = {} THEN {} ELSE {"presence"}

Begin(r, request, races) ==
  /\ admin[r] = Resting /\ past.acts < MaxActs
  /\ admin' = [admin EXCEPT ![r] = request]
  /\ past' = [past EXCEPT !.acts = @ + 1, !.raced = @ \cup races]

Working(r, op, at) == admin[r].op = op /\ admin[r].at = at
Proceed(r, at) == admin' = [admin EXCEPT ![r].at = at]
Finish(r) == admin' = [admin EXCEPT ![r] = Resting]

-----------------------------------------------------------------------------
\* PATCH /settings: load the agent, ...
EditRaces == {f \in {"edit"} : Busy("edit") # {}} \cup {f \in {"handshake"} : Shaking # {}}

UpdateSettings(r) ==
  /\ \E edit \in Edit :
       Begin(r, [op |-> "edit", at |-> "save", loaded |-> row, row |-> Patched(row, edit)],
             EditRaces)
  /\ UNCHANGED <<stateVars, linkVars, panelVars>>

\* ... or POST /apply-preset: the preset's settings replace every column.
ApplyPreset(r) ==
  /\ \E preset \in Settings :
       Begin(r, [op |-> "edit", at |-> "save", loaded |-> row, row |-> preset], EditRaces)
  /\ UNCHANGED <<stateVars, linkVars, panelVars>>

\* ... commit it ...
SaveSettings(r) ==
  /\ Working(r, "edit", "save") /\ Proceed(r, "push")
  /\ row' = Saved(admin[r].loaded, admin[r].row)
  /\ UNCHANGED <<keys, flag, cache, linkVars, panelVars, past>>

\* Bug variant: the row as it was loaded is pushed.
PushSettingsLoaded(r) ==
  /\ Working(r, "edit", "push") /\ Finish(r)
  /\ SendTo(registered, [type |-> "settings_update", settings |-> admin[r].loaded,
                         enabled |-> "enabled"])
  /\ UNCHANGED <<stateVars, registered, session, closed, daemon, panelVars, past>>

\* ... and push the request's own copy of the row.
PushSettings(r) ==
  /\ Working(r, "edit", "push") /\ Finish(r)
  /\ SendTo(registered, [type |-> "settings_update", settings |-> admin[r].row,
                         enabled |-> "enabled"])
  /\ UNCHANGED <<stateVars, registered, session, closed, daemon, panelVars, past>>

\* POST /kill-switch: load the singleton row, commit it, ...
SetKillSwitch(r) ==
  /\ \E e \in Switch :
       Begin(r, [op |-> "flip", at |-> "save", to |-> e, loaded |-> flag, conn |-> NoConn],
             {f \in {"flip"} : Busy("flip") # {}})
  /\ UNCHANGED <<stateVars, linkVars, panelVars>>

SaveKillSwitch(r) ==
  /\ Working(r, "flip", "save") /\ Proceed(r, "cache")
  /\ flag' = IF admin[r].to = admin[r].loaded THEN flag ELSE admin[r].to
  /\ UNCHANGED <<row, keys, cache, linkVars, panelVars, past>>

\* Bug variant: the broadcast is not preceded by the cache.
CacheKillSwitchSkipped(r) ==
  /\ Working(r, "flip", "cache")
  /\ admin' = [admin EXCEPT ![r].at = "push", ![r].conn = registered]
  /\ UNCHANGED <<stateVars, linkVars, panelVars, past>>

\* ... cache it, copy the list of sockets ...
CacheKillSwitch(r) ==
  /\ Working(r, "flip", "cache")
  /\ cache' = admin[r].to
  /\ admin' = [admin EXCEPT ![r].at = "push", ![r].conn = registered]
  /\ UNCHANGED <<row, keys, flag, linkVars, panelVars, past>>

\* ... and send to each, other agents' sockets perhaps first.
BroadcastKillSwitch(r) ==
  /\ Working(r, "flip", "push") /\ Finish(r)
  /\ SendTo(admin[r].conn, [type |-> "kill_switch", settings |-> NoSettings,
                            enabled |-> admin[r].to])
  /\ UNCHANGED <<stateVars, registered, session, closed, daemon, panelVars, past>>

\* POST /keys.
CreateKey ==
  /\ Len(keys) < MaxKeys
  /\ keys' = Append(keys, [revoked |-> FALSE])
  /\ UNCHANGED <<row, flag, cache, linkVars, panelVars, admin, past>>

\* DELETE /keys/{id}: mark the key, unless it is marked, ...
RevokeKey(r) ==
  /\ \E k \in DOMAIN keys :
       /\ keys' = [keys EXCEPT ![k].revoked = TRUE]
       /\ Begin(r, [op |-> "revoke", at |-> "kick"],
                {f \in {"revoke"} : \E c \in Conns : session[c].at = "authed"})
  /\ UNCHANGED <<row, flag, cache, linkVars, panelVars>>

\* Bug variant: the socket is closed and left to its receive loop to remove.
KickAgentLeavesIt(r) ==
  /\ Working(r, "revoke", "kick") /\ Finish(r)
  /\ closed' = closed \cup ({registered} \ {NoConn})
  /\ UNCHANGED <<stateVars, registered, session, wire, daemon, panelVars, past>>

\* ... then drop whatever connection the agent has.
KickAgent(r) ==
  /\ Working(r, "revoke", "kick") /\ Finish(r)
  /\ registered' = NoConn
  /\ IF registered = NoConn
     THEN UNCHANGED <<closed, news, past>>
     ELSE /\ closed' = closed \cup {registered} /\ Announce("offline")
          /\ past' = [past EXCEPT !.raced = @ \cup Conflicts("offline")]
  /\ UNCHANGED <<stateVars, session, wire, daemon, view>>

-----------------------------------------------------------------------------
\* The daemon opens a new socket (an identity not in use) and says hello.
Hello(c) ==
  /\ daemon.conn = NoConn /\ past.acts < MaxActs
  /\ session[c].at = "off" /\ registered # c
  /\ \A r \in Busy("flip") : admin[r].conn # c
  /\ daemon' = [daemon EXCEPT !.conn = c]
  /\ closed' = closed \ {c} /\ wire' = [wire EXCEPT ![c] = <<>>]
  /\ \E k \in DOMAIN keys :
       session' = [session EXCEPT ![c] = [at |-> "hello", key |-> k, settings |-> NoSettings]]
  /\ past' = [past EXCEPT !.acts = @ + 1]
  /\ UNCHANGED <<stateVars, registered, panelVars, admin>>

\* The key is looked up and, if valid, the settings are read; else the socket
\* is closed.
AuthenticateKey(c) ==
  /\ session[c].at = "hello"
  /\ IF keys[session[c].key].revoked
     THEN /\ session' = [session EXCEPT ![c].at = "off"] /\ closed' = closed \cup {c}
          /\ UNCHANGED past
     ELSE /\ session' = [session EXCEPT ![c].at = "authed", ![c].settings = row]
          /\ past' = [past EXCEPT !.raced = @ \cup {f \in {"handshake"} : Busy("edit") # {}}]
          /\ UNCHANGED closed
  /\ UNCHANGED <<stateVars, registered, wire, daemon, panelVars, admin>>

\* The new socket takes the agent's place and its predecessor is closed.
ConnectAgent(c) ==
  /\ session[c].at = "authed"
  /\ session' = [session EXCEPT ![c].at = "registered"]
  /\ registered' = c
  /\ closed' = closed \cup ({registered} \ {NoConn})
  /\ Announce("online") /\ past' = [past EXCEPT !.raced = @ \cup Conflicts("online")]
  /\ UNCHANGED <<stateVars, wire, daemon, view, admin>>

\* hello_ack carries the settings read at authentication and the cached switch.
SendHelloAck(c) ==
  /\ session[c].at = "registered"
  /\ session' = [session EXCEPT ![c].at = "live", ![c].settings = NoSettings]
  /\ SendTo(c, [type |-> "hello_ack", settings |-> session[c].settings, enabled |-> cache])
  /\ UNCHANGED <<stateVars, registered, closed, daemon, panelVars, admin, past>>

\* On a closed socket it may raise, before the try that would deregister.
HelloAckRaises(c) ==
  /\ session[c].at = "registered" /\ c \in closed
  /\ session' = [session EXCEPT ![c].at = "off", ![c].settings = NoSettings]
  /\ UNCHANGED <<stateVars, registered, closed, wire, daemon, panelVars, admin, past>>

\* Bug variant: `offline` is announced whichever socket is registered.
EndOfSessionAnnounces(c) ==
  /\ session[c].at = "live" /\ c \in closed
  /\ session' = [session EXCEPT ![c].at = "off"]
  /\ registered' = IF registered = c THEN NoConn ELSE registered
  /\ Announce("offline")
  /\ past' = [past EXCEPT !.raced = @ \cup Conflicts("offline")]
  /\ UNCHANGED <<stateVars, closed, wire, daemon, view, admin>>

\* The receive loop ends; only the registered socket is removed and announced.
EndOfSession(c) ==
  /\ session[c].at = "live" /\ c \in closed
  /\ session' = [session EXCEPT ![c].at = "off"]
  /\ IF registered = c
     THEN /\ registered' = NoConn /\ Announce("offline")
          /\ past' = [past EXCEPT !.raced = @ \cup Conflicts("offline")]
     ELSE UNCHANGED <<registered, news, past>>
  /\ UNCHANGED <<stateVars, closed, wire, daemon, view, admin>>

\* The daemon handles the next frame; only a panel's hello_ack has no settings.
OnFrame ==
  /\ daemon.conn # NoConn /\ wire[daemon.conn] # <<>>
  /\ LET f == Head(wire[daemon.conn])
     IN  daemon' = [daemon EXCEPT
           !.settings = IF f.type = "kill_switch" THEN @ ELSE f.settings,
           !.enabled = IF f.type = "settings_update" THEN @ ELSE f.enabled]
  /\ wire' = [wire EXCEPT ![daemon.conn] = Tail(@)]
  /\ UNCHANGED <<stateVars, registered, session, closed, panelVars, admin, past>>

\* The socket closes under the daemon, by the hub or the network; what was on
\* its way is lost, the copies stay.
OnClosed ==
  /\ daemon.conn # NoConn
  /\ closed' = closed \cup {daemon.conn} /\ wire' = [wire EXCEPT ![daemon.conn] = <<>>]
  /\ daemon' = [daemon EXCEPT !.conn = NoConn]
  /\ UNCHANGED <<stateVars, registered, session, panelVars, admin, past>>

\* A presence frame reaches the panel; broadcasts in progress are not ordered.
PresenceArrives(s) ==
  /\ s \in news
  /\ news' = news \ {s} /\ view' = s
  /\ UNCHANGED <<stateVars, linkVars, admin, past>>

\* A panel that connects is told who is registered.
ObserverConnects ==
  /\ view' = IF registered = NoConn THEN "offline" ELSE "online"
  /\ UNCHANGED <<stateVars, linkVars, news, admin, past>>

\* The hub restarts: every socket, coroutine and request is gone, the switch is
\* loaded from the database.
RestartHub ==
  /\ past.acts < MaxActs
  /\ cache' = flag
  /\ registered' = NoConn /\ closed' = Conns
  /\ session' = [c \in Conns |-> [session[c] EXCEPT !.at = "off", !.settings = NoSettings]]
  /\ wire' = [c \in Conns |-> <<>>] /\ daemon' = [daemon EXCEPT !.conn = NoConn]
  /\ news' = {} /\ view' = "offline"
  /\ admin' = [r \in Handlers |-> Resting]
  /\ past' = [past EXCEPT !.acts = @ + 1]
  /\ UNCHANGED <<row, keys, flag>>

ControlNext ==
  \/ \E r \in Handlers :
       \/ UpdateSettings(r) \/ ApplyPreset(r) \/ SaveSettings(r) \/ PushSettings(r)
       \/ SetKillSwitch(r) \/ SaveKillSwitch(r) \/ CacheKillSwitch(r) \/ BroadcastKillSwitch(r)
       \/ RevokeKey(r) \/ KickAgent(r)
  \/ CreateKey
  \/ \E c \in Conns :
       \/ Hello(c) \/ AuthenticateKey(c) \/ ConnectAgent(c)
       \/ SendHelloAck(c) \/ HelloAckRaises(c) \/ EndOfSession(c)
  \/ OnFrame \/ OnClosed \/ ObserverConnects \/ RestartHub
  \/ \E s \in {"online", "offline"} : PresenceArrives(s)

ControlSpec == ControlInit /\ [][ControlNext]_controlVars

-----------------------------------------------------------------------------
\* Every variable has its type.
ControlTypeOK ==
  /\ row \in Settings /\ keys \in Seq(AgentKey)
  /\ flag \in Switch /\ cache \in Switch
  /\ registered \in Conns \cup {NoConn} /\ closed \subseteq Conns
  /\ session \in [Conns -> [at : Stage, key : Nat, settings : Settings \cup {NoSettings}]]
  /\ wire \in [Conns -> Seq(Frame)]
  /\ daemon \in [conn : Conns \cup {NoConn}, settings : Settings \cup {NoSettings},
                 enabled : Switch]
  /\ news \subseteq {"online", "offline"} /\ view \in {"online", "offline"}
  /\ \A r \in Handlers : admin[r].op \in {"none", "edit", "flip", "revoke"}
  /\ past.raced \subseteq {"edit", "handshake", "flip", "revoke", "presence"}

\* The daemon is connected, has read every frame, and no request is in progress.
Settled ==
  /\ \A r \in Handlers : admin[r] = Resting
  /\ daemon.conn # NoConn /\ daemon.conn = registered /\ daemon.conn \notin closed
  /\ session[registered].at = "live" /\ wire[registered] = <<>>

\* ARCHITECTURE, "settings live in the hub": a connected daemon ends up with
\* the settings of the database whatever connections come and go, except when
\* two edits overlapped (each pushes its own copy of the row) or one overlapped
\* a handshake (hello_ack carries what was read at authentication).
SettingsArrive ==
  Settled => daemon.settings = row \/ past.raced \cap {"edit", "handshake"} # {}

\* Kill switch: a connected daemon obeys the cached switch, a handshake in
\* progress notwithstanding, and the cache is what a restart would load, except
\* when two flips overlapped.
SwitchArrives ==
  "flip" \notin past.raced =>
    /\ Settled => daemon.enabled = cache
    /\ Busy("flip") = {} => cache = flag

\* revoke_key: once a revocation is over no registered connection uses the key,
\* unless a session was between its authentication and its registration when
\* the key was marked.
RevokedKeyIsOut ==
  /\ registered # NoConn /\ Busy("revoke") = {}
  /\ keys[session[registered].key].revoked
  => "revoke" \in past.raced

\* Presence: when no presence frame is on its way the panel shows whether the
\* agent is registered, unless broadcasts of different tasks overlapped.
PanelSeesPresence ==
  news = {} /\ "presence" \notin past.raced
    => (view = "online" <=> registered # NoConn)

\* What the owner and the administrator decide reaches the daemon.
ControlTakesEffect == SettingsArrive /\ SwitchArrives /\ RevokedKeyIsOut
=============================================================================
