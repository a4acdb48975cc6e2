------------------------------- MODULE MCHub -------------------------------
(* Three parts of the hub that share no state, explored one at a time:       *)
(* accounts, the limiters, and the control of one agent.                     *)
EXTENDS Accounts, Control, RateLimit

CONSTANTS ana, bia, caio, r1, r2, c1, c2

VARIABLE part
hubVars == <<part, accountVars, controlVars, limitVars>>

HubInit ==
  /\ part \in {"accounts", "control", "window", "bucket"}
  /\ AccountsInit /\ ControlInit /\ LimitInit

HubNext ==
  /\ part' = part
  /\ \/ part = "accounts" /\ AccountsNext /\ UNCHANGED <<controlVars, limitVars>>
     \/ part = "control" /\ ControlNext /\ UNCHANGED <<accountVars, limitVars>>
     \/ /\ \/ part = "window" /\ (AllowWindow \/ Advance)
           \/ part = "bucket" /\ (AllowBucket \/ Advance)
        /\ UNCHANGED <<accountVars, controlVars>>

HubSpec == HubInit /\ [][HubNext]_hubVars

HubSymm ==
  Permutations({ana, bia, caio}) \cup Permutations({r1, r2})
    \cup Permutations({c1, c2})

\* Every variable of every part has its type.
HubTypeOK == AccountsTypeOK /\ ControlTypeOK /\ LimitTypeOK
=============================================================================
