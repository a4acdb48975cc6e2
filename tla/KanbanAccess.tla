---------------------------- MODULE KanbanAccess ----------------------------
(* Who reaches one board (services/kanban_service.py): its visibility and    *)
(* members decide for people, grants and the default role for agents.  An    *)
(* agent's request reads the card, the board, the grant and the membership   *)
(* of the agent's keeper in awaits of their own, then acts, then reads again *)
(* who the panels to tell are; people change all of it meanwhile.  An admin  *)
(* sees everything and is left out.                                          *)
EXTENDS FiniteSets, Naturals

CONSTANTS Owner, Mates,  \* the board's owner, and the other users
          Bots, Keeper,  \* agents, and the user each belongs to
          MaxChanges     \* bound of the exploration: changes made by people
ASSUME AccessAssumption ==
  Owner \notin Mates /\ Keeper \in [Bots -> Mates \cup {Owner}] /\ MaxChanges \in Nat

VARIABLES visibility, fallback, \* visibility and default_agent_role of the board
          sharedWith,           \* users who are members of it
          grants,               \* role granted to each agent, or "none"
          holder,               \* agents that created the card at hand, or are assigned to it
          acting,               \* the agent's request in progress
          changes
accessVars == <<visibility, fallback, sharedWith, grants, holder, acting, changes>>

Roles == {"viewer", "contributor", "editor"}
AgentOps == {"view", "comment", "create", "move"}
NoAct == [at |-> "idle"]
People == Mates \cup {Owner}

Sees(u) == u = Owner \/ visibility = "team" \/ u \in sharedWith
Seers == {u \in People : Sees(u)}

AccessInit ==
  /\ visibility = "private" /\ fallback = "none" /\ sharedWith = {} /\ grants = [b \in Bots |-> "none"]
  /\ holder = {} /\ acting = NoAct /\ changes = 0

-----------------------------------------------------------------------------
(* What people change.  Each of these reads and writes one row, and two of   *)
(* them about one row end as if one had come first.                          *)

\* The request in progress lives through a change.
Shaken == acting' = IF acting = NoAct THEN NoAct
  ELSE [acting EXCEPT !.shifted = TRUE, !.flipped = @ \/ visibility' # visibility,
          !.saw = @ \cup {u \in People : Sees(u)'}, !.always = @ \cap {u \in People : Sees(u)'}]

Change == changes < MaxChanges /\ changes' = changes + 1 /\ Shaken

UpdateBoard(seen, role) ==
  /\ <<seen, role>> # <<visibility, fallback>> /\ visibility' = seen /\ fallback' = role
  /\ UNCHANGED <<sharedWith, grants, holder>> /\ Change

\* add_member, remove_member: the grants of the member's agents stay.
ShareBoard(u) ==
  /\ u \in Mates \ sharedWith /\ sharedWith' = sharedWith \cup {u}
  /\ UNCHANGED <<visibility, fallback, grants, holder>> /\ Change

UnshareBoard(u) ==
  /\ u \in sharedWith /\ sharedWith' = sharedWith \ {u}
  /\ UNCHANGED <<visibility, fallback, grants, holder>> /\ Change

\* The owner, or a user who sees the board for an agent of theirs.
AuthorizeGrant(u, b) == u = Owner \/ (Sees(u) /\ Keeper[b] = u)

\* set_grant, and remove_grant for "none".
SetGrant(u, b, role) ==
  /\ AuthorizeGrant(u, b) /\ role # grants[b] /\ grants' = [grants EXCEPT ![b] = role]
  /\ UNCHANGED <<visibility, fallback, sharedWith, holder>> /\ Change

Assign(S) ==
  /\ S # holder /\ holder' = S
  /\ UNCHANGED <<visibility, fallback, sharedWith, grants>> /\ Change

-----------------------------------------------------------------------------
(* The request of an agent.                                                  *)

ActGoes(stage) == acting' = [acting EXCEPT !.at = stage]

\* agent_capability
AgentCapability(role, op, owns) ==
  \/ role = "viewer" /\ op \in {"view", "comment"}
  \/ role = "contributor" /\ (op # "move" \/ owns)
  \/ role = "editor"

ActLoadsCard(b, op) ==
  /\ acting = NoAct
  /\ acting' = [at |-> "board", bot |-> b, op |-> op, owns |-> b \in holder,
                seen |-> "private", role |-> "none", to |-> {},
                shifted |-> FALSE, flipped |-> FALSE, saw |-> {}, always |-> {}]
  /\ UNCHANGED <<visibility, fallback, sharedWith, grants, holder, changes>>

ActLoadsBoard ==
  /\ acting.at = "board"
  /\ acting' = [acting EXCEPT !.at = "role", !.seen = visibility, !.role = fallback]
  /\ UNCHANGED <<visibility, fallback, sharedWith, grants, holder, changes>>

Allowed(role) == acting' =
  IF AgentCapability(role, acting.op, acting.owns) THEN [acting EXCEPT !.at = "act"] ELSE NoAct

\* agent_role: the grant, or else the default role of the loaded board, which
\* on a private one is subject to the keeper.
ActChecksGrant ==
  /\ acting.at = "role"
  /\ IF grants[acting.bot] # "none" THEN Allowed(grants[acting.bot])
     ELSE IF acting.role = "none" \/ acting.seen = "team" THEN Allowed(acting.role) ELSE ActGoes("keeper")
  /\ UNCHANGED <<visibility, fallback, sharedWith, grants, holder, changes>>

\* Bug variant: the default role is for everybody's agents.
DefaultRoleAppliesToAll(b) == TRUE

\* _default_role_applies, on a private board.
DefaultRoleApplies(b) == Keeper[b] \in sharedWith \cup {Owner}

ActChecksKeeper ==
  /\ acting.at = "keeper"
  /\ Allowed(IF DefaultRoleApplies(acting.bot) THEN acting.role ELSE "none")
  /\ UNCHANGED <<visibility, fallback, sharedWith, grants, holder, changes>>

\* The read, or the write.
Act ==
  /\ acting.at = "act"
  /\ acting' = IF acting.op = "view" THEN NoAct
               ELSE [acting EXCEPT !.at = "audience", !.shifted = FALSE, !.flipped = FALSE,
                                   !.saw = Seers, !.always = Seers]
  /\ UNCHANGED <<visibility, fallback, sharedWith, grants, holder, changes>>

\* Bug variant: the audience is that of the board loaded for the role.
ActReadsBoardAsLoaded ==
  /\ acting.at = "audience"
  /\ acting' = IF acting.seen = "team" THEN [acting EXCEPT !.at = "push", !.to = People]
               ELSE [acting EXCEPT !.at = "members"]
  /\ UNCHANGED <<visibility, fallback, sharedWith, grants, holder, changes>>

\* _handle_kanban_action: whom notify_board is to tell.
ActReadsBoard ==
  /\ acting.at = "audience"
  /\ acting' = IF visibility = "team" THEN [acting EXCEPT !.at = "push", !.to = People]
               ELSE [acting EXCEPT !.at = "members"]
  /\ UNCHANGED <<visibility, fallback, sharedWith, grants, holder, changes>>

ActReadsMembers ==
  /\ acting.at = "members" /\ acting' = [acting EXCEPT !.at = "push", !.to = sharedWith \cup {Owner}]
  /\ UNCHANGED <<visibility, fallback, sharedWith, grants, holder, changes>>

NotifyBoard ==
  /\ acting.at = "push" /\ acting' = NoAct
  /\ UNCHANGED <<visibility, fallback, sharedWith, grants, holder, changes>>

AccessNext ==
  \/ \E seen \in {"team", "private"}, role \in Roles \cup {"none"} : UpdateBoard(seen, role)
  \/ \E u \in Mates : ShareBoard(u) \/ UnshareBoard(u)
  \/ \E u \in People, b \in Bots, role \in Roles \cup {"none"} : SetGrant(u, b, role)
  \/ \E S \in SUBSET Bots : Assign(S)
  \/ \E b \in Bots, op \in AgentOps : ActLoadsCard(b, op)
  \/ ActLoadsBoard \/ ActChecksGrant \/ ActChecksKeeper \/ Act
  \/ ActReadsBoard \/ ActReadsMembers \/ NotifyBoard

AccessSpec == AccessInit /\ [][AccessNext]_accessVars

-----------------------------------------------------------------------------
\* Every variable has its type.
AccessTypeOK ==
  /\ visibility \in {"team", "private"} /\ fallback \in Roles \cup {"none"}
  /\ sharedWith \subseteq Mates /\ grants \in [Bots -> Roles \cup {"none"}] /\ holder \subseteq Bots
  /\ acting # NoAct => acting.bot \in Bots /\ acting.op \in AgentOps /\ acting.to \subseteq People

\* An agent without a grant reads or writes only on a board whose default role
\* reaches it through a keeper who sees the board; only an editor moves cards
\* that are not its own, and a viewer only comments; unless people changed the
\* board while the request was on its way.
AgentsKeepToRole ==
  LET b == acting.bot
      editor == grants[b] = "editor" \/ (grants[b] = "none" /\ fallback = "editor")
  IN acting.at = "act" /\ ~acting.shifted =>
       /\ grants[b] = "none" => fallback # "none" /\ Sees(Keeper[b])
       /\ acting.op = "move" /\ b \notin holder => editor
       /\ acting.op \in {"create", "move"} => grants[b] # "viewer"

\* The delta of an agent's write is told to everybody who could see the board
\* all the time from the write on, unless its visibility changed, and to nobody
\* who could not see it at some moment since.
DeltaReaches ==
  acting.at = "push" =>
    acting.to \subseteq acting.saw /\ (acting.flipped \/ acting.always \subseteq acting.to)

\* Agents stay within their roles, and what they do is told to those who may
\* know.
AccessHolds == AgentsKeepToRole /\ DeltaReaches
=============================================================================
