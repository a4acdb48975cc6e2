------------------------------ MODULE Accounts ------------------------------
(* The accounts of the hub (services/auth_service.py and the repositories it *)
(* uses): first set-up, invites, roles, password resets, log-in with its     *)
(* incremental lockout.  A request is a coroutine with a database session of *)
(* its own; between two of its awaits any other request may run and the hub  *)
(* may crash.  Every await that reads or commits is a step.  A request that  *)
(* is refused changes nothing and is not started.  Passwords are left out:   *)
(* whether one is right is a choice.  Rows are never deleted,                *)
(* so a table is a sequence and an id is a position.                         *)
EXTENDS Naturals, Sequences, FiniteSets, TLC

CONSTANTS Emails, Requests,
          MaxAttempts, LockBase, MaxLock,   \* lockout settings, in clock units
          Life,                             \* life of an invite or reset token
          MaxUsers, MaxInvites, MaxResets, MaxRequests, MaxNow  \* bounds of the exploration

ASSUME AccountsAssumption ==
  /\ Emails # {}
  /\ {MaxAttempts, LockBase, MaxLock, Life} \subseteq Nat \ {0}
  /\ {MaxUsers, MaxInvites, MaxResets, MaxRequests, MaxNow} \subseteq Nat

VARIABLES users, invites, resets, now, req,
          seen  \* what the properties remember of the past; no action reads it
accountVars == <<users, invites, resets, now, req, seen>>

\* A clock value 0 stands for a missing date.
User   == [email : Emails, role : {"admin", "member"}, failed : Nat, locked : Nat]
Invite == [expires : Nat, usedBy : Nat]
Reset  == [user : Nat \ {0}, expires : Nat, used : BOOLEAN]

\* What a request does, and the family whose members are said to race.
Family == [setup |-> "setup", register |-> "register", role |-> "role",
           issue |-> "issue", reset |-> "password", login |-> "password",
           change |-> "password"]
Idle == [op |-> "idle"]
Work == [op : DOMAIN Family, at : {"load", "check", "write", "mark", "retire"},
         id : Nat, new : Nat,
         arg : Emails \cup {"admin", "member", "right", "wrong", "none"},
         row : User \cup {Idle}]

AccountsInit ==
  /\ users = <<>> /\ invites = <<>> /\ resets = <<>>
  /\ now = 1
  /\ req = [r \in Requests |-> Idle]
  /\ seen = [via |-> <<>>, wrong |-> <<>>, uses |-> <<>>, raced |-> {}, crashed |-> FALSE,
             requests |-> 0]

-----------------------------------------------------------------------------
Admins == {u \in DOMAIN users : users[u].role = "admin"}
Unused(u) == {t \in DOMAIN resets : resets[t].user = u /\ ~resets[t].used}

\* Bug variant: the commit writes the whole row.
SaveWholeRow(u, loaded, changed) == changed

\* The commit of a changed row writes the columns whose value changed since
\* the session loaded it, whatever the others hold by now.
Save(u, loaded, changed) ==
  [c \in DOMAIN changed |-> IF changed[c] # loaded[c] THEN changed[c] ELSE users[u][c]]

Retire(u, table) == [t \in DOMAIN table |-> [table[t] EXCEPT !.used = @ \/ table[t].user = u]]

NewUser(e, ro) == [email |-> e, role |-> ro, failed |-> 0, locked |-> 0]

AddUser(row, via) ==
  /\ users' = Append(users, row)
  /\ seen' = [seen EXCEPT !.via = Append(@, via), !.wrong = Append(@, 0)]

\* The first read of a request, which found nothing to refuse.
Start(r, op, at, id, arg, row) ==
  /\ req[r] = Idle /\ seen.requests < MaxRequests
  /\ req' = [req EXCEPT ![r] = [op |-> op, at |-> at, id |-> id, new |-> 0,
                                 arg |-> arg, row |-> row]]
  /\ seen' = [seen EXCEPT !.requests = @ + 1, !.raced = @ \cup {Family[req[q].op] :
                q \in {p \in Requests : req[p] # Idle /\ Family[req[p].op] = Family[op]}}]
  /\ UNCHANGED <<users, invites, resets, now>>

Step(r, op, at) == req[r] # Idle /\ req[r].op = op /\ req[r].at = at
Goto(r, at) == req' = [req EXCEPT ![r].at = at]
Done(r) == req' = [req EXCEPT ![r] = Idle]

Authenticated(u) == u \in DOMAIN users
IsAdmin(u) == Authenticated(u) /\ users[u].role = "admin"

-----------------------------------------------------------------------------
\* Bug variant: set-up stays open.
SetupStartAlways(r) == \E e \in Emails : Start(r, "setup", "write", 0, e, Idle)

\* POST /api/auth/setup: count the users, then add the administrator.
SetupStart(r) == users = <<>> /\ \E e \in Emails : Start(r, "setup", "write", 0, e, Idle)

TakenEmail(e) == \E u \in DOMAIN users : users[u].email = e

\* The unique index on the address refuses a second account.
SetupAdmin(r) ==
  /\ Step(r, "setup", "write") /\ Done(r)
  /\ IF TakenEmail(req[r].arg) \/ Len(users) = MaxUsers
     THEN UNCHANGED <<users, seen>>
     ELSE AddUser(NewUser(req[r].arg, "admin"), 0)
  /\ UNCHANGED <<invites, resets, now>>

\* POST /api/invites: one insert.
CreateInvite(u) ==
  /\ IsAdmin(u) /\ Len(invites) < MaxInvites
  /\ invites' = Append(invites, [expires |-> now + Life, usedBy |-> 0])
  /\ UNCHANGED <<users, resets, now, req, seen>>

\* POST /api/auth/register: read the invite ...
RegisterStart(r) ==
  \E i \in DOMAIN invites, e \in Emails :
    /\ invites[i].usedBy = 0 /\ invites[i].expires >= now
    /\ Start(r, "register", "write", i, e, Idle)

\* Bug variant: the invite is to name the last account instead of the new one.
RegisterAddOffByOne(r) ==
  /\ Step(r, "register", "write")
  /\ IF TakenEmail(req[r].arg) \/ Len(users) = MaxUsers
     THEN Done(r) /\ UNCHANGED <<users, seen>>
     ELSE /\ AddUser(NewUser(req[r].arg, "member"), req[r].id)
          /\ req' = [req EXCEPT ![r].at = "mark", ![r].new = Len(users)]
  /\ UNCHANGED <<invites, resets, now>>

\* ... add the account (here and in SetupAdmin the earlier look-up of the
\* address refuses a subset of what the index refuses) ...
RegisterAdd(r) ==
  /\ Step(r, "register", "write")
  /\ IF TakenEmail(req[r].arg) \/ Len(users) = MaxUsers
     THEN Done(r) /\ UNCHANGED <<users, seen>>
     ELSE /\ AddUser(NewUser(req[r].arg, "member"), req[r].id)
          /\ req' = [req EXCEPT ![r].at = "mark", ![r].new = Len(users) + 1]
  /\ UNCHANGED <<invites, resets, now>>

\* Bug variant: the invite is never marked.
RegisterMarkSkipped(r) ==
  /\ Step(r, "register", "mark") /\ Done(r)
  /\ UNCHANGED <<users, invites, resets, now, seen>>

\* ... and mark the invite used, in a commit of its own.
RegisterMark(r) ==
  /\ Step(r, "register", "mark") /\ Done(r)
  /\ invites' = [invites EXCEPT ![req[r].id].usedBy = req[r].new]
  /\ UNCHANGED <<users, resets, now, seen>>

-----------------------------------------------------------------------------
\* PATCH /api/users/{id}/role: the session keeps the administrator it loaded,
\* load the target (the same object when they are one) ...
SetRoleStart(r) ==
  \E u, t \in DOMAIN users, ro \in {"admin", "member"} :
    IsAdmin(u) /\ Start(r, "role", "load", t, ro, IF t = u THEN users[u] ELSE Idle)

SetRoleLoad(r) ==
  /\ Step(r, "role", "load")
  /\ LET row == IF req[r].row = Idle THEN users[req[r].id] ELSE req[r].row
     IN  IF row.role = req[r].arg
         THEN Done(r)
         ELSE req' = [req EXCEPT ![r].row = row,
                        ![r].at = IF row.role = "admin" THEN "check" ELSE "write"]
  /\ UNCHANGED <<users, invites, resets, now, seen>>

\* ... count the administrators if one is demoted ...
SetRoleCheck(r) ==
  /\ Step(r, "role", "check")
  /\ IF Cardinality(Admins) <= 1 THEN Done(r) ELSE Goto(r, "write")
  /\ UNCHANGED <<users, invites, resets, now, seen>>

\* ... and save.
SetRoleWrite(r) ==
  /\ Step(r, "role", "write") /\ Done(r)
  /\ users' = [users EXCEPT ![req[r].id] =
                 Save(req[r].id, req[r].row, [req[r].row EXCEPT !.role = req[r].arg])]
  /\ UNCHANGED <<invites, resets, now, seen>>

-----------------------------------------------------------------------------
\* POST /api/users/{id}/password-reset: retire the outstanding tokens ...
IssueStart(r) ==
  /\ Admins # {} /\ Len(resets) < MaxResets
  /\ \E t \in DOMAIN users : Start(r, "issue", "retire", t, "none", Idle)

\* Bug variant: outstanding tokens stay.
IssueRetireSkipped(r) ==
  /\ Step(r, "issue", "retire") /\ Goto(r, "write")
  /\ UNCHANGED <<users, invites, resets, now, seen>>

IssueRetire(r) ==
  /\ Step(r, "issue", "retire") /\ Goto(r, "write")
  /\ resets' = Retire(req[r].id, resets)
  /\ UNCHANGED <<users, invites, now, seen>>

\* ... and add the new one.
IssueAdd(r) ==
  /\ Step(r, "issue", "write") /\ Done(r)
  /\ resets' = Append(resets, [user |-> req[r].id, expires |-> now + Life, used |-> FALSE])
  /\ seen' = [seen EXCEPT !.uses = Append(@, 0)]
  /\ UNCHANGED <<users, invites, now>>

\* Bug variant: only the date is checked.
ResetStartDateOnly(r) ==
  \E t \in DOMAIN resets :
    /\ resets[t].expires >= now
    /\ Start(r, "reset", "load", t, "none", Idle)

\* POST /api/auth/reset-password: read the token, read its user ...
ResetStart(r) ==
  \E t \in DOMAIN resets :
    /\ ~resets[t].used /\ resets[t].expires >= now
    /\ Start(r, "reset", "load", t, "none", Idle)

ResetLoad(r) ==
  /\ Step(r, "reset", "load")
  /\ req' = [req EXCEPT ![r].at = "write", ![r].row = users[resets[req[r].id].user]]
  /\ UNCHANGED <<users, invites, resets, now, seen>>

\* A right or new password ends the lockout.
Clear(row) == [row EXCEPT !.failed = 0, !.locked = 0]

\* ... save the password: the request's one database session commits the mark on
\* the token with it ...
ResetWrite(r) ==
  /\ Step(r, "reset", "write") /\ Goto(r, "retire")
  /\ LET u == resets[req[r].id].user
     IN  /\ users' = [users EXCEPT ![u] = Save(u, req[r].row, Clear(req[r].row))]
         /\ seen' = [seen EXCEPT !.wrong[u] = 0, !.uses[req[r].id] = @ + 1]
  /\ resets' = [resets EXCEPT ![req[r].id].used = TRUE]
  /\ UNCHANGED <<invites, now>>

\* ... and retire the user's other tokens.
ResetRetire(r) ==
  /\ Step(r, "reset", "retire") /\ Done(r)
  /\ resets' = Retire(resets[req[r].id].user, resets)
  /\ UNCHANGED <<users, invites, now, seen>>

-----------------------------------------------------------------------------
Locked(row) == row.locked > now

\* POST /api/auth/login: read the account and verify the password ...
LoginStart(r) ==
  \E u \in DOMAIN users, verdict \in {"right", "wrong"} :
    ~Locked(users[u]) /\ Start(r, "login", "write", u, verdict, users[u])

\* Bug variant: the lock has no ceiling.
LockSecsUncapped(failed) == LockBase * 2 ^ (failed - MaxAttempts)

\* The lock doubles with every failure past the limit, up to an hour.
LockSecs(failed) ==
  LET doubled == LockBase * 2 ^ (failed - MaxAttempts)
  IN  IF doubled \in 1 .. MaxLock THEN doubled ELSE MaxLock

\* Bug variant: the lock starts one failure late.
FailedLate(row) ==
  [row EXCEPT !.failed = @ + 1,
              !.locked = IF row.failed >= MaxAttempts THEN now + LockSecs(row.failed + 1) ELSE @]

Failed(row) ==
  [row EXCEPT !.failed = @ + 1,
              !.locked = IF row.failed + 1 >= MaxAttempts
                         THEN now + LockSecs(row.failed + 1) ELSE @]

\* ... and save the outcome.
LoginSave(r) ==
  /\ Step(r, "login", "write") /\ Done(r)
  /\ LET u == req[r].id   row == req[r].row   right == req[r].arg = "right"
         changed == IF right THEN Clear(row) ELSE Failed(row)
     IN  /\ users' = [users EXCEPT ![u] = Save(u, row, changed)]
         /\ seen' = [seen EXCEPT !.wrong[u] = IF right THEN 0 ELSE @ + 1]
  /\ UNCHANGED <<invites, resets, now>>

\* POST /api/auth/me/password: the account was read with the session cookie.
ChangeStart(r) ==
  \E u \in DOMAIN users : Start(r, "change", "write", u, "none", users[u])

ChangeWrite(r) ==
  /\ Step(r, "change", "write") /\ Done(r)
  /\ LET u == req[r].id
     IN  /\ users' = [users EXCEPT ![u] = Save(u, req[r].row, Clear(req[r].row))]
         /\ seen' = [seen EXCEPT !.wrong[u] = 0]
  /\ UNCHANGED <<invites, resets, now>>

-----------------------------------------------------------------------------
Tick == now < MaxNow /\ now' = now + 1 /\ UNCHANGED <<users, invites, resets, req, seen>>

\* The process dies: requests end where they are, the tables stay.
HubCrash ==
  /\ \E r \in Requests : req[r] # Idle
  /\ req' = [r \in Requests |-> Idle]
  /\ seen' = [seen EXCEPT !.crashed = TRUE]
  /\ UNCHANGED <<users, invites, resets, now>>

AccountsNext ==
  \/ \E r \in Requests :
       \/ SetupStart(r) \/ RegisterStart(r) \/ RegisterMark(r)
       \/ SetRoleStart(r) \/ SetRoleLoad(r) \/ SetRoleCheck(r) \/ SetRoleWrite(r)
       \/ IssueStart(r) \/ IssueRetire(r) \/ IssueAdd(r)
       \/ ResetStart(r) \/ ResetLoad(r) \/ ResetWrite(r) \/ ResetRetire(r)
       \/ LoginStart(r) \/ LoginSave(r) \/ ChangeStart(r) \/ ChangeWrite(r)
       \/ SetupAdmin(r) \/ RegisterAdd(r)
  \/ \E u \in DOMAIN users : CreateInvite(u)
  \/ Tick
  \/ HubCrash

AccountsSpec == AccountsInit /\ [][AccountsNext]_accountVars

-----------------------------------------------------------------------------
\* Every variable has its type; no lock reaches further than MaxLock ahead.
AccountsTypeOK ==
  /\ users \in Seq(User) /\ invites \in Seq(Invite) /\ resets \in Seq(Reset)
  /\ now \in Nat /\ \A u \in DOMAIN users : users[u].locked <= now + MaxLock
  /\ req \in [Requests -> Work \cup {Idle}]
  /\ seen.via \in Seq(Nat) /\ seen.wrong \in Seq(Nat) /\ seen.uses \in Seq(Nat)
  /\ seen.raced \subseteq {Family[op] : op \in DOMAIN Family} /\ seen.crashed \in BOOLEAN
  /\ seen.requests \in Nat

\* set_role: "never demote the last admin".  It takes two role changes in
\* progress at once to lose the last administrator; no other pair of requests
\* and no crash does, although log-ins, resets and registrations save rows they
\* loaded before a role changed.
LastAdminKept == users # <<>> /\ Admins = {} => "role" \in seen.raced

\* setup_admin: only the first account is made without an invite, unless two
\* set-ups counted the users before either had added its own.
OneSetup ==
  Cardinality({u \in DOMAIN users : seen.via[u] = 0}) > 1 => "setup" \in seen.raced

\* register: an invite admits one account, unless two registrations read it
\* unused or the hub died between the account and the mark.
InviteSingleUse ==
  \A i \in DOMAIN invites :
    Cardinality({u \in DOMAIN users : seen.via[u] = i}) > 1
      => "register" \in seen.raced \/ seen.crashed

\* register: whatever races, a used invite names an account it admitted.
InviteNamesGuest ==
  \A i \in DOMAIN invites :
    LET u == invites[i].usedBy IN u # 0 => u \in DOMAIN users /\ seen.via[u] = i

\* issue_password_reset, reset_password: "single active reset" for a user,
\* unless two tokens were being issued at once.
SingleActiveReset ==
  \A u \in DOMAIN users : Cardinality(Unused(u)) > 1 => "issue" \in seen.raced

\* reset_password: a token sets one password, unless two requests present it at
\* once; a crash of the hub is no excuse.
ResetSetsOnce ==
  \A t \in DOMAIN resets : seen.uses[t] > 1 => "password" \in seen.raced

\* login, reset_password, change_password: failed_logins counts the wrong
\* passwords since the last right or new one and the account has a lock exactly
\* from the MaxAttempts-th on, unless two of these requests overlapped.
CountedFailures ==
  "password" \notin seen.raced
    => \A u \in DOMAIN users :
         /\ users[u].failed = seen.wrong[u]
         /\ users[u].locked # 0 <=> users[u].failed >= MaxAttempts

\* Administrators come from one set-up and never run out.
AdminsHold == LastAdminKept /\ OneSetup

\* Invites, reset tokens and the lock-out do what they are for.
CredentialsHold ==
  InviteSingleUse /\ InviteNamesGuest /\ SingleActiveReset /\ ResetSetsOnce /\ CountedFailures
=============================================================================
