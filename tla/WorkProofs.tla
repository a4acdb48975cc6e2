----------------------------- MODULE WorkProofs -----------------------------
(***************************************************************************)
(* Proofs about the services of the hub that act for an owner: the         *)
(* approval of drafted replies, the tasks agents delegate, the schedules,  *)
(* the directory of agents, groups and presets, and the triage inbox; then *)
(* about one board: who reaches it, its columns under concurrent requests, *)
(* and the order a column is shown in; and about all of them together.     *)
(***************************************************************************)
EXTENDS MCWork, RankProofs, FiniteSetTheorems, TLAPS

\* A finite set holds at most one element if any two are the same.
LEMMA AtMostOne ==
  ASSUME NEW R, IsFiniteSet(R)
  PROVE  Cardinality(R) <= 1 <=> \A i, j \in R : i = j
<1>1. Cardinality(R) \in Nat
  BY FS_CardinalityType
<1>2. ASSUME \A i, j \in R : i = j PROVE Cardinality(R) <= 1
  <2>1. CASE R = {}
    BY <2>1, FS_EmptySet
  <2>2. CASE R # {}
    <3>1. PICK i : i \in R
      BY <2>2
    <3>2. R = {i}
      BY <1>2, <3>1
    <3> QED BY <3>2, FS_Singleton
  <2> QED BY <2>1, <2>2
<1>3. ASSUME Cardinality(R) <= 1, NEW i \in R, NEW j \in R PROVE i = j
  <2>1. Cardinality(R) # 0
    BY FS_EmptySet
  <2>2. Cardinality(R) = 1
    BY <1>1, <1>3, <2>1
  <2>3. PICK k : R = {k}
    BY <2>2, FS_Singleton
  <2> QED BY <2>3
<1>4. Cardinality(R) <= 1 => \A i, j \in R : i = j
  BY <1>3
<1> QED BY <1>2, <1>4

\* The greatest of finitely many numbers exists: the number with the fewest
\* above it, strict inclusion being well-founded on finite sets.
LEMMA MaxIsGreatest ==
  ASSUME NEW S \in SUBSET Nat, IsFiniteSet(S), S # {}
  PROVE  Max(S) \in S /\ \A y \in S : Max(S) >= y
<1> DEFINE Above(x) == {y \in S : y > x}
           T == {Above(x) : x \in S}
<1>1. T \subseteq FiniteSubsetsOf(S) /\ T # {}
  <2>1. FiniteSubsetsOf(S) = SUBSET S
    BY FS_FiniteSubsetsOfFinite
  <2>2. \A x \in S : Above(x) \in SUBSET S
    OBVIOUS
  <2>3. PICK x : x \in S
    OBVIOUS
  <2> HIDE DEF Above
  <2>4. T \subseteq SUBSET S
    BY <2>2
  <2>5. Above(x) \in T
    BY <2>3
  <2> QED BY <2>1, <2>4, <2>5
<1>2. IsWellFoundedOn(StrictSubsetOrdering(S), FiniteSubsetsOf(S))
  BY FS_StrictSubsetOrderingWellFounded
<1>3. PICK U \in T : \A V \in T : ~(<<V, U>> \in StrictSubsetOrdering(S))
  <2> HIDE DEF T
  <2> QED BY <1>1, <1>2, WFMin
<1>4. PICK x \in S : U = Above(x)
  OBVIOUS
<1>5. \A y \in S : x >= y
  <2> SUFFICES ASSUME NEW y \in S, y > x PROVE FALSE
    OBVIOUS
  <2>1. x \in Nat /\ y \in Nat /\ \A z \in S : z \in Nat
    OBVIOUS
  <2>2. Above(y) \in T
    OBVIOUS
  <2>3. y \in Above(x) /\ y \notin Above(y) /\ \A z \in S : z > y => z > x
    BY <2>1
  <2>4. <<Above(y), U>> \in StrictSubsetOrdering(S)
    <3>1. Above(x) \in SUBSET S /\ Above(y) \in SUBSET S
      OBVIOUS
    <3>2. Above(y) \subseteq Above(x)
      BY <2>3, Zenon
    <3> HIDE DEF Above
    <3> QED BY <1>4, <2>3, <3>1, <3>2 DEF StrictSubsetOrdering
  <2> HIDE DEF T
  <2> QED BY <1>3, <2>2, <2>4
<1> QED BY <1>5 DEF Max

(***************************************************************************)
(* Approvals.  An uncontested draft is in one hand (OneHolder), that hand  *)
(* finds it pending (HeldIsPending), and beyond what was cut the reply has *)
(* gone out exactly when the row says approved or the hand that sent it is *)
(* about to say so (SentOnce).  Contested drafts are bounded by what every hand keeps:     *)
(* who is about to say approved has sent the reply (SaveHasSent).          *)
(***************************************************************************)
Holds(h, d) == deciding[h] # NotDeciding /\ deciding[h].draft = d

SaveHasSent ==
  \A h \in Deciders : deciding[h] # NotDeciding =>
    /\ deciding[h].at = "send" => deciding[h].as = "approved"
    /\ HasSent(h) => replies[deciding[h].draft] > 0
OneHolder ==
  \A d \in Drafts \ contested, h \in Deciders :
    Holds(h, d) => d \notin stale /\ \A g \in Deciders : Holds(g, d) => g = h
HeldIsPending ==
  \A d \in Drafts \ contested :
    d \in stale \/ (\E h \in Deciders : Holds(h, d)) => approval[d] = "pending"
SentOnce ==
  \A d \in Drafts \ contested :
    replies[d] = IF approval[d] = "approved" \/ \E h \in Deciders : Holds(h, d) /\ HasSent(h)
                 THEN cut[d] + 1 ELSE cut[d]

ApprovalsInv ==
  ApprovalsTypeOK /\ ApprovedWasSent /\ SaveHasSent /\ OneHolder /\ HeldIsPending /\ SentOnce

\* A hand that holds a draft holds a decision about it, and nothing else is at work.
LEMMA HolderType ==
  ASSUME ApprovalsTypeOK, NEW h \in Deciders
  PROVE  /\ deciding[h] # NotDeciding =>
              deciding[h] \in [at : {"send", "save"}, draft : Drafts, as : {"approved", "rejected"}]
         /\ deciding[h] = NotDeciding => deciding[h].at = "rest"
BY DEF ApprovalsTypeOK, NotDeciding

LEMMA HeldIsHeld ==
  \A d : d \in Held <=> d \in stale \/ \E h \in Deciders : Holds(h, d)
BY DEF Held, Holds

\* Who takes a pending draft takes it alone, or it is contested from now on.
LEMMA DecideLoadsKeeps ==
  ASSUME ApprovalsInv, NEW h \in Deciders, NEW d \in Drafts, NEW decision \in {"approved", "rejected"},
         DecideLoads(h, d, decision)
  PROVE  ApprovalsInv'
<1> DEFINE taken == [at |-> IF decision = "approved" THEN "send" ELSE "save", draft |-> d, as |-> decision]
<1>1. /\ deciding[h] = NotDeciding /\ approval[d] = "pending"
      /\ deciding' = [deciding EXCEPT ![h] = taken]
      /\ contested' = contested \cup (Held \cap {d})
      /\ UNCHANGED <<approval, overdue, stale, replies, cut>>
  BY DEF DecideLoads, Decidable
<1>2. ApprovalsTypeOK /\ contested \subseteq Drafts
  BY DEF ApprovalsInv, ApprovalsTypeOK
<1>3. /\ taken \in [at : {"send", "save"}, draft : Drafts, as : {"approved", "rejected"}]
      /\ taken # NotDeciding
      /\ taken.at = "send" => taken.as = "approved"
      /\ ~(taken.at = "save" /\ taken.as = "approved")
      /\ taken.draft = d
  BY DEF NotDeciding
<1>4. /\ deciding'[h] = taken /\ \A g \in Deciders \ {h} : deciding'[g] = deciding[g]
      /\ deciding' \in [Deciders -> {NotDeciding}
             \cup [at : {"send", "save"}, draft : Drafts, as : {"approved", "rejected"}]]
  <2> HIDE DEF taken
  <2> QED BY <1>1, <1>2, <1>3 DEF ApprovalsTypeOK
<1> HIDE DEF taken
<1>5. ApprovalsTypeOK'
  BY <1>1, <1>2, <1>4 DEF ApprovalsTypeOK
<1>6. ApprovedWasSent' /\ SaveHasSent'
  BY <1>1, <1>3, <1>4 DEF ApprovalsInv, ApprovedWasSent, SaveHasSent, HasSent
<1>7. d \notin contested' => d \notin stale /\ \A g \in Deciders : ~Holds(g, d)
  BY <1>1, HeldIsHeld
<1>8. /\ \A e, g \in Deciders \ {h} : Holds(g, e)' <=> Holds(g, e)
      /\ \A e : Holds(h, e)' <=> e = d
      /\ \A e : ~Holds(h, e)
      /\ \A g \in Deciders \ {h} : \A e : Holds(g, e)' <=> Holds(g, e)
      /\ \A g \in Deciders \ {h} : HasSent(g)' <=> HasSent(g)
      /\ ~HasSent(h)'
  BY <1>1, <1>3, <1>4 DEF Holds, HasSent
<1>9. OneHolder'
  BY <1>1, <1>7, <1>8 DEF ApprovalsInv, OneHolder
<1>10. HeldIsPending'
  BY <1>1, <1>8 DEF ApprovalsInv, HeldIsPending
<1>11. SentOnce'
  <2> SUFFICES ASSUME NEW e \in Drafts, e \notin contested'
               PROVE  (\E g \in Deciders : Holds(g, e)' /\ HasSent(g)')
                        <=> \E g \in Deciders : Holds(g, e) /\ HasSent(g)
    BY <1>1 DEF ApprovalsInv, SentOnce
  <2> QED BY <1>8
<1> QED BY <1>5, <1>6, <1>9, <1>10, <1>11 DEF ApprovalsInv

\* A request that lets go of its draft: the reply was refused, or the row is
\* written.
LEMMA LetsGo ==
  ASSUME ApprovalsTypeOK, NEW h \in Deciders, deciding' = [deciding EXCEPT ![h] = NotDeciding]
  PROVE  /\ deciding' \in [Deciders -> {NotDeciding}
              \cup [at : {"send", "save"}, draft : Drafts, as : {"approved", "rejected"}]]
         /\ deciding'[h] = NotDeciding /\ \A g \in Deciders \ {h} : deciding'[g] = deciding[g]
         /\ \A e : ~Holds(h, e)'
         /\ \A g \in Deciders \ {h} : \A e : Holds(g, e)' <=> Holds(g, e)
         /\ \A g \in Deciders \ {h} : HasSent(g)' <=> HasSent(g)
BY DEF ApprovalsTypeOK, Holds, HasSent

\* The reply is sent once, or refused.
LEMMA DecideSendsKeeps ==
  ASSUME ApprovalsInv, NEW h \in Deciders, DecideSends(h)
  PROVE  ApprovalsInv'
<1> DEFINE d == deciding[h].draft
<1>1. /\ deciding[h].at = "send" /\ deciding[h] # NotDeciding
      /\ UNCHANGED <<approval, overdue, stale, contested, cut>>
  BY DEF DecideSends, NotDeciding
<1>2. ApprovalsTypeOK
  BY DEF ApprovalsInv
<1>3. /\ d \in Drafts /\ deciding[h].as = "approved"
      /\ deciding[h] \in [at : {"send", "save"}, draft : Drafts, as : {"approved", "rejected"}]
      /\ Holds(h, d) /\ ~HasSent(h)
  BY <1>1, <1>2, HolderType DEF ApprovalsInv, SaveHasSent, Holds, HasSent
<1>4. CASE Refused(h) /\ UNCHANGED replies
  <2>0. deciding' = [deciding EXCEPT ![h] = NotDeciding]
    BY <1>4 DEF Refused
  <2>1. /\ deciding' \in [Deciders -> {NotDeciding}
              \cup [at : {"send", "save"}, draft : Drafts, as : {"approved", "rejected"}]]
        /\ deciding'[h] = NotDeciding /\ \A g \in Deciders \ {h} : deciding'[g] = deciding[g]
        /\ \A e : ~Holds(h, e)'
        /\ \A g \in Deciders \ {h} : \A e : Holds(g, e)' <=> Holds(g, e)
        /\ \A g \in Deciders \ {h} : HasSent(g)' <=> HasSent(g)
    BY <2>0, <1>2, LetsGo
  <2>2. ApprovalsTypeOK'
    <3> HIDE DEF d
    <3> QED BY <1>1, <1>2, <1>4, <2>1 DEF ApprovalsTypeOK
  <2>3. ApprovedWasSent' /\ SaveHasSent'
    BY <1>1, <1>4, <2>1 DEF ApprovalsInv, ApprovedWasSent, SaveHasSent, HasSent
  <2>4. OneHolder' /\ HeldIsPending'
    BY <1>1, <2>1 DEF ApprovalsInv, OneHolder, HeldIsPending
  <2>5. SentOnce'
    <3>1. ~HasSent(h)
      BY <1>3
    <3>2. ASSUME NEW e \in Drafts
          PROVE  (\E g \in Deciders : Holds(g, e)' /\ HasSent(g)')
                   <=> \E g \in Deciders : Holds(g, e) /\ HasSent(g)
      BY <3>1, <2>1
    <3> QED BY <3>2, <1>1, <1>4 DEF ApprovalsInv, SentOnce
  <2> QED BY <2>2, <2>3, <2>4, <2>5 DEF ApprovalsInv
<1>5. CASE /\ replies' = [replies EXCEPT ![d] = @ + 1]
           /\ deciding' = [deciding EXCEPT ![h].at = "save"]
  <2>1. /\ deciding'[h] = [deciding[h] EXCEPT !.at = "save"]
        /\ \A g \in Deciders \ {h} : deciding'[g] = deciding[g]
        /\ deciding' \in [Deciders -> {NotDeciding}
              \cup [at : {"send", "save"}, draft : Drafts, as : {"approved", "rejected"}]]
    <3>1. deciding' = [deciding EXCEPT ![h] = [deciding[h] EXCEPT !.at = "save"]]
      BY <1>5
    <3>2. [deciding[h] EXCEPT !.at = "save"]
            \in [at : {"send", "save"}, draft : Drafts, as : {"approved", "rejected"}]
      BY <1>3
    <3> QED BY <3>1, <3>2, <1>2 DEF ApprovalsTypeOK
  <2>2. deciding'[h].at = "save" /\ deciding'[h].draft = d /\ deciding'[h].as = "approved"
        /\ deciding'[h] # NotDeciding
    BY <2>1, <1>3 DEF NotDeciding
  <2>3. /\ replies \in [Drafts -> Nat] /\ replies' \in [Drafts -> Nat]
        /\ replies'[d] = replies[d] + 1 /\ \A e \in Drafts \ {d} : replies'[e] = replies[e]
        /\ \A e \in Drafts : replies'[e] >= replies[e]
    BY <1>2, <1>3, <1>5 DEF ApprovalsTypeOK
  <2> HIDE DEF d
  <2>4. ApprovalsTypeOK'
    BY <1>1, <1>2, <2>1, <2>3 DEF ApprovalsTypeOK
  <2>5. ApprovedWasSent'
    BY <1>1, <2>3 DEF ApprovalsInv, ApprovedWasSent
  <2>6. SaveHasSent'
    <3> SUFFICES ASSUME NEW g \in Deciders, deciding'[g] # NotDeciding
                 PROVE  /\ deciding'[g].at = "send" => deciding'[g].as = "approved"
                        /\ HasSent(g)' => replies'[deciding'[g].draft] > 0
      BY DEF SaveHasSent
    <3>1. CASE g = h
      BY <3>1, <1>3, <2>2, <2>3
    <3>2. CASE g # h
      <4>1. deciding'[g] = deciding[g] /\ deciding[g].draft \in Drafts
        BY <3>2, <2>1, <1>2, HolderType
      <4>2. HasSent(g)' <=> HasSent(g)
        BY <4>1 DEF HasSent
      <4> QED BY <4>1, <4>2, <2>3 DEF ApprovalsInv, SaveHasSent
    <3> QED BY <3>1, <3>2
  <2>7. \A g \in Deciders : \A e : Holds(g, e)' <=> Holds(g, e)
    BY <1>1, <1>3, <2>1, <2>2 DEF Holds, d
  <2>8. OneHolder' /\ HeldIsPending'
    BY <1>1, <2>7 DEF ApprovalsInv, OneHolder, HeldIsPending
  <2>9. SentOnce'
    <3> SUFFICES ASSUME NEW e \in Drafts \ contested
                 PROVE  replies'[e] = IF approval[e] = "approved"
                                         \/ \E g \in Deciders : Holds(g, e)' /\ HasSent(g)'
                                      THEN cut[e] + 1 ELSE cut[e]
      BY <1>1 DEF SentOnce
    <3>1. replies[e] = IF approval[e] = "approved" \/ \E g \in Deciders : Holds(g, e) /\ HasSent(g)
                       THEN cut[e] + 1 ELSE cut[e]
      BY DEF ApprovalsInv, SentOnce
    <3>2. \A g \in Deciders \ {h} : HasSent(g)' <=> HasSent(g)
      BY <2>1 DEF HasSent
    <3>3. CASE e = d
      <4>1. approval[e] = "pending" /\ \A g \in Deciders : Holds(g, e) => g = h
        BY <3>3, <1>3 DEF ApprovalsInv, OneHolder, HeldIsPending
      <4>2. replies[e] = cut[e]
        BY <3>1, <4>1, <1>3
      <4>3. Holds(h, e)' /\ HasSent(h)'
        BY <3>3, <2>2 DEF Holds, HasSent
      <4> QED BY <4>2, <4>3, <3>3, <2>3
    <3>4. CASE e # d
      <4>1. ~Holds(h, e) /\ ~Holds(h, e)'
        BY <3>4, <2>7 DEF Holds, d
      <4> QED BY <4>1, <3>1, <3>2, <3>4, <2>3, <2>7
    <3> QED BY <3>3, <3>4
  <2> QED BY <2>4, <2>5, <2>6, <2>8, <2>9 DEF ApprovalsInv
<1> QED BY <1>4, <1>5 DEF DecideSends

\* Writing the outcome of a draft held alone: a decision, which then lets go ...
LEMMA DecideSavesKeeps ==
  ASSUME ApprovalsInv, NEW h \in Deciders, DecideSaves(h)
  PROVE  ApprovalsInv' /\ DecisionStands
<1> DEFINE d == deciding[h].draft
           outcome == deciding[h].as
<1>1. /\ deciding[h].at = "save" /\ deciding[h] # NotDeciding
      /\ approval' = [approval EXCEPT ![d] = outcome]
      /\ deciding' = [deciding EXCEPT ![h] = NotDeciding]
      /\ UNCHANGED <<overdue, stale, replies, contested, cut>>
  BY DEF DecideSaves, NotDeciding
<1>2. ApprovalsTypeOK
  BY DEF ApprovalsInv
<1>3. /\ d \in Drafts /\ outcome \in {"approved", "rejected"} /\ Holds(h, d)
      /\ HasSent(h) <=> outcome = "approved"
      /\ outcome = "approved" => replies[d] > 0
  BY <1>1, <1>2, HolderType DEF ApprovalsInv, SaveHasSent, Holds, HasSent
<1>4. /\ deciding' \in [Deciders -> {NotDeciding}
              \cup [at : {"send", "save"}, draft : Drafts, as : {"approved", "rejected"}]]
      /\ deciding'[h] = NotDeciding /\ \A g \in Deciders \ {h} : deciding'[g] = deciding[g]
      /\ \A e : ~Holds(h, e)'
      /\ \A g \in Deciders \ {h} : \A e : Holds(g, e)' <=> Holds(g, e)
      /\ \A g \in Deciders \ {h} : HasSent(g)' <=> HasSent(g)
  BY <1>1, <1>2, LetsGo
<1>5. \A e \in Drafts \ {d} : ~Holds(h, e)
  BY DEF Holds
<1> HIDE DEF d, outcome
<1>6. /\ approval' \in [Drafts -> Statuses] /\ approval'[d] = outcome
      /\ \A e \in Drafts \ {d} : approval'[e] = approval[e]
  BY <1>1, <1>2, <1>3 DEF ApprovalsTypeOK, Statuses
<1>7. ApprovalsTypeOK'
  BY <1>1, <1>2, <1>4, <1>6 DEF ApprovalsTypeOK
<1>8. ApprovedWasSent'
  BY <1>1, <1>3, <1>6 DEF ApprovalsInv, ApprovedWasSent
<1>9. SaveHasSent'
  BY <1>1, <1>4 DEF ApprovalsInv, SaveHasSent, HasSent
<1>10. d \notin contested => /\ approval[d] = "pending" /\ d \notin stale
                             /\ \A g \in Deciders : Holds(g, d) => g = h
  BY <1>3 DEF ApprovalsInv, OneHolder, HeldIsPending
<1>11. OneHolder'
  BY <1>1, <1>4 DEF ApprovalsInv, OneHolder
<1>12. HeldIsPending'
  <2> SUFFICES ASSUME NEW e \in Drafts \ contested, e \in stale \/ \E g \in Deciders : Holds(g, e)'
               PROVE  approval'[e] = "pending"
    BY <1>1 DEF HeldIsPending
  <2>1. e # d /\ (e \in stale \/ \E g \in Deciders : Holds(g, e))
    BY <1>4, <1>10
  <2> QED BY <2>1, <1>6 DEF ApprovalsInv, HeldIsPending
<1>13. SentOnce'
  <2> SUFFICES ASSUME NEW e \in Drafts \ contested
               PROVE  replies[e] = IF approval'[e] = "approved"
                                      \/ \E g \in Deciders : Holds(g, e)' /\ HasSent(g)'
                                   THEN cut[e] + 1 ELSE cut[e]
    BY <1>1 DEF SentOnce
  <2>1. replies[e] = IF approval[e] = "approved" \/ \E g \in Deciders : Holds(g, e) /\ HasSent(g)
                     THEN cut[e] + 1 ELSE cut[e]
    BY DEF ApprovalsInv, SentOnce
  <2>2. CASE e = d
    <3>1. (\E g \in Deciders : Holds(g, e) /\ HasSent(g)) <=> outcome = "approved"
      BY <2>2, <1>3, <1>10
    <3>2. ~\E g \in Deciders : Holds(g, e)' /\ HasSent(g)'
      BY <2>2, <1>4, <1>10
    <3> QED BY <3>1, <3>2, <2>1, <2>2, <1>3, <1>6, <1>10
  <2>3. CASE e # d
    <3>1. (\E g \in Deciders : Holds(g, e)' /\ HasSent(g)')
            <=> \E g \in Deciders : Holds(g, e) /\ HasSent(g)
      BY <2>3, <1>4, <1>5
    <3> QED BY <3>1, <2>1, <2>3, <1>6
  <2> QED BY <2>2, <2>3
<1>14. DecisionStands
  BY <1>6, <1>10 DEF DecisionStands
<1> QED BY <1>7, <1>8, <1>9, <1>11, <1>12, <1>13, <1>14 DEF ApprovalsInv

\* ... or the sweep.
LEMMA SweepSavesKeeps ==
  ASSUME ApprovalsInv, NEW d \in stale,
         stale' = stale \ {d}, approval' = [approval EXCEPT ![d] = "rejected"],
         UNCHANGED <<overdue, deciding, replies, contested, cut>>
  PROVE  ApprovalsInv' /\ DecisionStands
<1>1. ApprovalsTypeOK /\ d \in Drafts /\ d \in overdue
  BY DEF ApprovalsInv, ApprovalsTypeOK
<1>2. /\ approval' \in [Drafts -> Statuses] /\ approval'[d] = "rejected"
      /\ \A e \in Drafts \ {d} : approval'[e] = approval[e]
  BY <1>1 DEF ApprovalsTypeOK, Statuses
<1>3. /\ \A g \in Deciders : \A e : Holds(g, e)' <=> Holds(g, e)
      /\ \A g \in Deciders : HasSent(g)' <=> HasSent(g)
  BY DEF Holds, HasSent
<1>4. d \notin contested => approval[d] = "pending" /\ \A g \in Deciders : ~Holds(g, d)
  BY <1>1 DEF ApprovalsInv, OneHolder, HeldIsPending
<1>5. ApprovalsTypeOK'
  BY <1>1, <1>2 DEF ApprovalsTypeOK
<1>6. ApprovedWasSent'
  BY <1>1, <1>2 DEF ApprovalsInv, ApprovedWasSent
<1>7. SaveHasSent'
  BY DEF ApprovalsInv, SaveHasSent, HasSent
<1>8. OneHolder'
  BY <1>3 DEF ApprovalsInv, OneHolder
<1>9. HeldIsPending'
  BY <1>2, <1>3, <1>4 DEF ApprovalsInv, HeldIsPending
<1>10. SentOnce'
  <2> SUFFICES ASSUME NEW e \in Drafts \ contested
               PROVE  replies[e] = IF approval'[e] = "approved"
                                      \/ \E g \in Deciders : Holds(g, e)' /\ HasSent(g)'
                                   THEN cut[e] + 1 ELSE cut[e]
    BY DEF SentOnce
  <2>1. replies[e] = IF approval[e] = "approved" \/ \E g \in Deciders : Holds(g, e) /\ HasSent(g)
                     THEN cut[e] + 1 ELSE cut[e]
    BY DEF ApprovalsInv, SentOnce
  <2>2. approval'[e] = "approved" <=> approval[e] = "approved"
    BY <1>2, <1>4
  <2> QED BY <2>1, <2>2, <1>3
<1>11. DecisionStands
  BY <1>2, <1>4 DEF DecisionStands
<1> QED BY <1>5, <1>6, <1>7, <1>8, <1>9, <1>10, <1>11 DEF ApprovalsInv

\* The sweep takes its rows alone, or contests them.
LEMMA SweepLoadsKeeps ==
  ASSUME ApprovalsInv, SweepLoads
  PROVE  ApprovalsInv'
<1>1. /\ stale = {} /\ stale' = {d \in Drafts : Stale(d)}
      /\ contested' = contested \cup (Held \cap stale')
      /\ UNCHANGED <<approval, overdue, deciding, replies, cut>>
  BY DEF SweepLoads
<1>2. ApprovalsTypeOK
  BY DEF ApprovalsInv
<1>3. /\ \A g \in Deciders : \A e : Holds(g, e)' <=> Holds(g, e)
      /\ \A g \in Deciders : HasSent(g)' <=> HasSent(g)
  BY <1>1 DEF Holds, HasSent
<1>4. ASSUME NEW d \in Drafts, d \in stale', d \notin contested'
      PROVE  approval[d] = "pending" /\ \A g \in Deciders : ~Holds(g, d)
  BY <1>1, <1>4, HeldIsHeld DEF Stale
<1>5. stale' \subseteq overdue /\ contested \subseteq contested' /\ contested' \subseteq Drafts
  BY <1>1, <1>2 DEF Stale, ApprovalsTypeOK
<1>6. ApprovalsTypeOK'
  BY <1>1, <1>2, <1>5 DEF ApprovalsTypeOK
<1>7. ApprovedWasSent' /\ SaveHasSent'
  BY <1>1 DEF ApprovalsInv, ApprovedWasSent, SaveHasSent, HasSent
<1>8. OneHolder'
  BY <1>3, <1>4, <1>5 DEF ApprovalsInv, OneHolder
<1>9. HeldIsPending'
  BY <1>1, <1>3, <1>4, <1>5 DEF ApprovalsInv, HeldIsPending
<1>10. SentOnce'
  BY <1>1, <1>3, <1>5 DEF ApprovalsInv, SentOnce
<1> QED BY <1>6, <1>7, <1>8, <1>9, <1>10 DEF ApprovalsInv

\* A decision that fails lets go of its draft; if its reply was out, that is a cut.
LEMMA DecideFailsKeeps ==
  ASSUME ApprovalsInv, NEW h \in Deciders, DecideFails(h)
  PROVE  ApprovalsInv'
<1> DEFINE d == deciding[h].draft
<1>1. /\ deciding[h].at = "save" /\ deciding[h] # NotDeciding
      /\ cut' = IF HasSent(h) THEN [cut EXCEPT ![d] = @ + 1] ELSE cut
      /\ deciding' = [deciding EXCEPT ![h] = NotDeciding]
      /\ UNCHANGED <<approval, overdue, stale, replies, contested>>
  BY DEF DecideFails, NotDeciding
<1>2. ApprovalsTypeOK
  BY DEF ApprovalsInv
<1>3. d \in Drafts /\ Holds(h, d)
  BY <1>1, <1>2, HolderType DEF Holds
<1>4. /\ deciding' \in [Deciders -> {NotDeciding}
              \cup [at : {"send", "save"}, draft : Drafts, as : {"approved", "rejected"}]]
      /\ deciding'[h] = NotDeciding /\ \A g \in Deciders \ {h} : deciding'[g] = deciding[g]
      /\ \A e : ~Holds(h, e)'
      /\ \A g \in Deciders \ {h} : \A e : Holds(g, e)' <=> Holds(g, e)
      /\ \A g \in Deciders \ {h} : HasSent(g)' <=> HasSent(g)
  BY <1>1, <1>2, LetsGo
<1>5. \A e \in Drafts \ {d} : ~Holds(h, e)
  BY DEF Holds
<1> HIDE DEF d
<1>6. /\ cut' \in [Drafts -> Nat] /\ \A e \in Drafts \ {d} : cut'[e] = cut[e]
      /\ cut'[d] = IF HasSent(h) THEN cut[d] + 1 ELSE cut[d]
  BY <1>1, <1>2, <1>3 DEF ApprovalsTypeOK
<1>7. ApprovalsTypeOK'
  BY <1>1, <1>2, <1>4, <1>6 DEF ApprovalsTypeOK
<1>8. ApprovedWasSent' /\ SaveHasSent'
  BY <1>1, <1>4 DEF ApprovalsInv, ApprovedWasSent, SaveHasSent, HasSent
<1>9. OneHolder' /\ HeldIsPending'
  BY <1>1, <1>4 DEF ApprovalsInv, OneHolder, HeldIsPending
<1>10. SentOnce'
  <2> SUFFICES ASSUME NEW e \in Drafts \ contested
               PROVE  replies[e] = IF approval[e] = "approved"
                                      \/ \E g \in Deciders : Holds(g, e)' /\ HasSent(g)'
                                   THEN cut'[e] + 1 ELSE cut'[e]
    BY <1>1 DEF SentOnce
  <2>1. replies[e] = IF approval[e] = "approved" \/ \E g \in Deciders : Holds(g, e) /\ HasSent(g)
                     THEN cut[e] + 1 ELSE cut[e]
    BY DEF ApprovalsInv, SentOnce
  <2>2. CASE e = d
    <3>1. approval[e] = "pending" /\ \A g \in Deciders : Holds(g, e) => g = h
      BY <2>2, <1>3 DEF ApprovalsInv, OneHolder, HeldIsPending
    <3>2. (\E g \in Deciders : Holds(g, e) /\ HasSent(g)) <=> HasSent(h)
      BY <2>2, <3>1, <1>3
    <3>3. ~\E g \in Deciders : Holds(g, e)' /\ HasSent(g)'
      BY <3>1, <1>4
    <3> QED BY <3>1, <3>2, <3>3, <2>1, <2>2, <1>6
  <2>3. CASE e # d
    <3>1. (\E g \in Deciders : Holds(g, e)' /\ HasSent(g)')
            <=> \E g \in Deciders : Holds(g, e) /\ HasSent(g)
      BY <2>3, <1>4, <1>5
    <3> QED BY <3>1, <2>1, <2>3, <1>6
  <2> QED BY <2>2, <2>3
<1> QED BY <1>7, <1>8, <1>9, <1>10 DEF ApprovalsInv

\* A sweep that fails lets go of its rows.
LEMMA SweepFailsKeeps ==
  ASSUME ApprovalsInv, SweepFails
  PROVE  ApprovalsInv'
<1>1. stale' = {} /\ UNCHANGED <<approval, overdue, deciding, replies, contested, cut>>
  BY DEF SweepFails
<1>2. /\ \A g \in Deciders : \A e : Holds(g, e)' <=> Holds(g, e)
      /\ \A g \in Deciders : HasSent(g)' <=> HasSent(g)
  BY <1>1 DEF Holds, HasSent
<1>3. ApprovalsTypeOK' /\ ApprovedWasSent' /\ SaveHasSent'
  BY <1>1 DEF ApprovalsInv, ApprovalsTypeOK, ApprovedWasSent, SaveHasSent, HasSent
<1>4. OneHolder' /\ HeldIsPending' /\ SentOnce'
  BY <1>1, <1>2 DEF ApprovalsInv, OneHolder, HeldIsPending, SentOnce
<1> QED BY <1>3, <1>4 DEF ApprovalsInv

\* A halt drops every draft; those whose reply was out are cut.
LEMMA HubStopsKeeps ==
  ASSUME ApprovalsInv, HubStops
  PROVE  ApprovalsInv'
<1>1. /\ deciding' = [h \in Deciders |-> NotDeciding] /\ stale' = {}
      /\ UNCHANGED <<approval, overdue, replies, contested>>
      /\ cut' = [d \in Drafts |->
             IF \E h \in Deciders : HasSent(h) /\ deciding[h].draft = d THEN cut[d] + 1 ELSE cut[d]]
  BY DEF HubStops
<1>2. ApprovalsTypeOK
  BY DEF ApprovalsInv
<1>3. \A g \in Deciders : \A e : ~Holds(g, e)'
  BY <1>1 DEF Holds
<1>4. \A g \in Deciders : HasSent(g) => deciding[g] # NotDeciding
  BY DEF HasSent, NotDeciding
<1>5. \A e \in Drafts :
        cut'[e] = IF \E g \in Deciders : Holds(g, e) /\ HasSent(g) THEN cut[e] + 1 ELSE cut[e]
  BY <1>1, <1>4 DEF Holds
<1>6. cut' \in [Drafts -> Nat]
  BY <1>1, <1>2 DEF ApprovalsTypeOK
<1>7. ApprovalsTypeOK'
  BY <1>1, <1>2, <1>6 DEF ApprovalsTypeOK
<1>8. ApprovedWasSent' /\ SaveHasSent'
  BY <1>1 DEF ApprovalsInv, ApprovedWasSent, SaveHasSent
<1>9. OneHolder' /\ HeldIsPending'
  BY <1>1, <1>3 DEF OneHolder, HeldIsPending
<1>10. SentOnce'
  <2> SUFFICES ASSUME NEW e \in Drafts \ contested
               PROVE  replies[e] = IF approval[e] = "approved" THEN cut'[e] + 1 ELSE cut'[e]
    BY <1>1, <1>3 DEF SentOnce
  <2>1. replies[e] = IF approval[e] = "approved" \/ \E g \in Deciders : Holds(g, e) /\ HasSent(g)
                     THEN cut[e] + 1 ELSE cut[e]
    BY DEF ApprovalsInv, SentOnce
  <2>2. (\E g \in Deciders : Holds(g, e) /\ HasSent(g)) => approval[e] = "pending"
    BY DEF ApprovalsInv, HeldIsPending
  <2> QED BY <2>1, <2>2, <1>5
<1> QED BY <1>7, <1>8, <1>9, <1>10 DEF ApprovalsInv

\* Every step keeps the invariant, and no step takes back an uncontested decision.
LEMMA ApprovalsStep ==
  ApprovalsInv /\ [ApprovalsNext]_approvalVars => ApprovalsInv' /\ DecisionStands
<1> SUFFICES ASSUME ApprovalsInv, [ApprovalsNext]_approvalVars
             PROVE  ApprovalsInv' /\ DecisionStands
  OBVIOUS
<1>1. UNCHANGED approval => DecisionStands
  BY DEF DecisionStands
<1>2. ASSUME NEW d \in Drafts, CreateRequest(d)
      PROVE  ApprovalsInv' /\ DecisionStands
  <2>1. /\ approval[d] = "absent" /\ approval' = [approval EXCEPT ![d] = "pending"]
        /\ UNCHANGED <<overdue, deciding, stale, replies, contested, cut>>
    BY <1>2 DEF CreateRequest
  <2>2. /\ approval' \in [Drafts -> Statuses] /\ approval'[d] = "pending"
        /\ \A e \in Drafts \ {d} : approval'[e] = approval[e]
    BY <2>1 DEF ApprovalsInv, ApprovalsTypeOK, Statuses
  <2>3. /\ \A g \in Deciders : \A e : Holds(g, e)' <=> Holds(g, e)
        /\ \A g \in Deciders : HasSent(g)' <=> HasSent(g)
    BY <2>1 DEF Holds, HasSent
  <2>4. ApprovalsTypeOK' /\ ApprovedWasSent' /\ SaveHasSent'
    BY <2>1, <2>2 DEF ApprovalsInv, ApprovalsTypeOK, ApprovedWasSent, SaveHasSent, HasSent
  <2>5. OneHolder' /\ HeldIsPending'
    BY <2>1, <2>2, <2>3 DEF ApprovalsInv, OneHolder, HeldIsPending
  <2>6. SentOnce'
    BY <2>1, <2>2, <2>3 DEF ApprovalsInv, SentOnce
  <2>7. DecisionStands
    BY <2>1, <2>2 DEF DecisionStands
  <2> QED BY <2>4, <2>5, <2>6, <2>7 DEF ApprovalsInv
<1>3. ASSUME \/ \E d \in Drafts : TimePasses(d)
             \/ UNCHANGED approvalVars
      PROVE  ApprovalsInv' /\ DecisionStands
  <2>1. /\ UNCHANGED <<approval, deciding, stale, replies, contested, cut>>
        /\ overdue \subseteq overdue' /\ (overdue \subseteq Drafts => overdue' \subseteq Drafts)
    BY <1>3 DEF TimePasses, approvalVars
  <2>2. ApprovalsTypeOK'
    BY <2>1 DEF ApprovalsInv, ApprovalsTypeOK
  <2>3. ApprovedWasSent' /\ SaveHasSent' /\ OneHolder' /\ HeldIsPending' /\ SentOnce'
    BY <2>1 DEF ApprovalsInv, ApprovedWasSent, SaveHasSent, OneHolder, HeldIsPending, SentOnce, Holds, HasSent
  <2> QED BY <2>1, <2>2, <2>3, <1>1 DEF ApprovalsInv
<1>4. ASSUME NEW d \in Drafts, NEW h \in Deciders, NEW decision \in {"approved", "rejected"},
             DecideLoads(h, d, decision)
      PROVE  ApprovalsInv' /\ DecisionStands
  <2>1. UNCHANGED approval
    BY <1>4 DEF DecideLoads
  <2> QED BY <2>1, <1>1, <1>4, DecideLoadsKeeps
<1>5. ASSUME NEW h \in Deciders, DecideSends(h)
      PROVE  ApprovalsInv' /\ DecisionStands
  <2>1. UNCHANGED approval
    BY <1>5 DEF DecideSends
  <2> QED BY <2>1, <1>1, <1>5, DecideSendsKeeps
<1>6. ASSUME NEW h \in Deciders, DecideSaves(h)
      PROVE  ApprovalsInv' /\ DecisionStands
  BY <1>6, DecideSavesKeeps
<1>7. CASE SweepLoads
  <2>1. UNCHANGED approval
    BY <1>7 DEF SweepLoads
  <2> QED BY <2>1, <1>1, <1>7, SweepLoadsKeeps
<1>8. CASE SweepSaves
  BY <1>8, SweepSavesKeeps DEF SweepSaves
<1>9. CASE HubStops
  <2>1. UNCHANGED approval
    BY <1>9 DEF HubStops
  <2> QED BY <2>1, <1>1, <1>9, HubStopsKeeps
<1>10. ASSUME NEW h \in Deciders, DecideFails(h)
       PROVE  ApprovalsInv' /\ DecisionStands
  <2>1. UNCHANGED approval
    BY <1>10 DEF DecideFails
  <2> QED BY <2>1, <1>1, <1>10, DecideFailsKeeps
<1>11. CASE SweepFails
  <2>1. UNCHANGED approval
    BY <1>11 DEF SweepFails
  <2> QED BY <2>1, <1>1, <1>11, SweepFailsKeeps
<1> QED BY <1>2, <1>3, <1>4, <1>5, <1>6, <1>7, <1>8, <1>9, <1>10, <1>11 DEF ApprovalsNext

LEMMA ApprovalsInvInit == ApprovalsInit => ApprovalsInv
<1> SUFFICES ASSUME ApprovalsInit PROVE ApprovalsInv
  OBVIOUS
<1>1. ApprovalsTypeOK
  BY DEF ApprovalsInit, ApprovalsTypeOK, Statuses
<1>2. ApprovedWasSent /\ SaveHasSent
  BY DEF ApprovalsInit, ApprovedWasSent, SaveHasSent
<1>3. \A g \in Deciders : \A e : ~Holds(g, e)
  BY DEF ApprovalsInit, Holds
<1>4. OneHolder /\ HeldIsPending /\ SentOnce
  BY <1>3 DEF ApprovalsInit, OneHolder, HeldIsPending, SentOnce
<1> QED BY <1>1, <1>2, <1>4 DEF ApprovalsInv

\* However decisions, sweeps, failures and halts interleave: a row says approved
\* only when the reply is out, and an uncontested draft has one outcome, which
\* stands and matches the replies, those of lost decisions apart.
THEOREM ApprovalsHoldAlways == ApprovalsSpec => ApprovalsHold
<1>1. ApprovalsInv => ApprovedWasSent /\ OneOutcome
  <2> SUFFICES ASSUME ApprovalsInv PROVE OneOutcome
    BY DEF ApprovalsInv
  <2> SUFFICES ASSUME NEW d \in Drafts \ contested
               PROVE  /\ approval[d] = "approved" => replies[d] = cut[d] + 1
                      /\ approval[d] = "rejected" => replies[d] = cut[d]
    BY DEF OneOutcome
  <2>1. replies[d] = IF approval[d] = "approved" \/ \E h \in Deciders : Holds(h, d) /\ HasSent(h)
                     THEN cut[d] + 1 ELSE cut[d]
    BY DEF ApprovalsInv, SentOnce
  <2>2. (\E h \in Deciders : Holds(h, d)) => approval[d] = "pending"
    BY DEF ApprovalsInv, HeldIsPending
  <2> QED BY <2>1, <2>2
<1> QED BY <1>1, ApprovalsInvInit, ApprovalsStep, PTL DEF ApprovalsSpec, ApprovalsHold

-----------------------------------------------------------------------------
(***************************************************************************)
(* Delegations.  The cap holds because the task whose row is still to come *)
(* is counted with the open rows (CapCounts): only a second hand-off at    *)
(* the same time could slip past the check.  How far a hand-off and an     *)
(* answer are says what the row says (RowFollows), an answered task is on  *)
(* its way to completed (AnswerFollows), and so is its card (CardFollows). *)
(***************************************************************************)
Pledged == {t \in Tasks : handing[t] \in {"send", "add"}}

CapCounts ==
  /\ IsFiniteSet(OpenRows \cup Pledged)
  /\ ~crowded => /\ Cardinality(OpenRows \cup Pledged) <= MaxOpen
                 /\ \A t, u \in Underway : t = u
RowFollows ==
  \A t \in Tasks :
    /\ handing[t] \in {"new", "send", "add", "decline", "lost"} => delegation[t] = "absent"
    /\ handing[t] = "card" => delegation[t] \in {"open", "completed"}
    /\ closing[t] = "save" => delegation[t] = "open"
    /\ closing[t] = "card" => delegation[t] = "completed"
    /\ closing[t] # "rest" \/ delegation[t] = "completed" => answers[t] > 0
    /\ eventCard[t] = "done" => delegation[t] = "completed"
AnswerFollows ==
  \A t \in Tasks : answers[t] > 0 =>
    /\ handing[t] \in {"add", "card", "lost", "over"}
    /\ handing[t] = "over" => delegation[t] \in {"open", "completed"}
    /\ closing[t] = "rest" /\ t \notin early \cup dropped => delegation[t] = "completed"
CardFollows ==
  \A t \in Tasks \ (late \cup kept) :
    delegation[t] = "completed" /\ closing[t] # "card" => handing[t] # "card" /\ eventCard[t] # "landing"

DelegationsInv == DelegationsTypeOK /\ CapCounts /\ RowFollows /\ AnswerFollows /\ CardFollows

\* The constants one by one.
LEMMA DelegationConstants ==
  MaxOpen \in Nat \ {0} /\ Sockets \in Nat \ {0} /\ MaxAnswers \in Nat /\ MaxHalts \in Nat
BY DelegationsAssumption DEF DelegationsAssumption

\* Nothing a step takes away or keeps makes the counted rows more.
LEMMA CapKept ==
  ASSUME CapCounts, crowded' = crowded, Underway' \subseteq Underway,
         (OpenRows \cup Pledged)' \subseteq OpenRows \cup Pledged
  PROVE  CapCounts'
<1> DEFINE before == OpenRows \cup Pledged
           after == (OpenRows \cup Pledged)'
<1>1. IsFiniteSet(before) /\ after \in SUBSET before
  BY DEF CapCounts
<1>2. IsFiniteSet(after) /\ Cardinality(after) <= Cardinality(before)
  BY <1>1, FS_Subset
<1>3. Cardinality(after) \in Nat /\ Cardinality(before) \in Nat
  BY <1>1, <1>2, FS_CardinalityType
<1>4. ~crowded => Cardinality(before) <= MaxOpen /\ \A t, u \in Underway : t = u
  BY DEF CapCounts
<1>5. IsFiniteSet(after) /\ (~crowded => Cardinality(after) <= MaxOpen)
  <2> HIDE DEF before, after
  <2> QED BY <1>2, <1>3, <1>4, DelegationConstants
<1>6. ~crowded' => \A t, u \in Underway' : t = u
  BY <1>4
<1> QED BY <1>5, <1>6 DEF CapCounts

\* What a step at one task leaves of the others.
LEMMA HandingMoves ==
  ASSUME DelegationsTypeOK, NEW t \in Tasks,
         NEW stage \in {"new", "send", "add", "decline", "card", "lost", "over"}, To(t, stage)
  PROVE  /\ handing' \in [Tasks -> {"new", "send", "add", "decline", "card", "lost", "over"}]
         /\ handing'[t] = stage /\ \A u \in Tasks \ {t} : handing'[u] = handing[u]
BY DEF DelegationsTypeOK, To

\* delegate counts the open rows while no other hand-off is under way.
LEMMA DelegateKeeps ==
  ASSUME DelegationsInv, NEW t \in Tasks, Delegate(t)
  PROVE  DelegationsInv'
<1>1. /\ handing[t] = "new" /\ To(t, IF BelowCap THEN "send" ELSE "over")
      /\ crowded' = (crowded \/ Underway # {})
      /\ UNCHANGED <<delegation, answers, closing, eventCard, early, dropped, late, kept>>
  BY DEF Delegate, delegationLog
<1>2. DelegationsTypeOK
  BY DEF DelegationsInv
<1>3. /\ handing' \in [Tasks -> {"new", "send", "add", "decline", "card", "lost", "over"}]
      /\ handing'[t] = IF BelowCap THEN "send" ELSE "over"
      /\ \A u \in Tasks \ {t} : handing'[u] = handing[u]
  BY <1>1, <1>2, HandingMoves
<1>4. DelegationsTypeOK'
  BY <1>1, <1>2, <1>3 DEF DelegationsTypeOK
<1>5. RowFollows'
  BY <1>1, <1>3 DEF DelegationsInv, RowFollows
<1>6. AnswerFollows'
  BY <1>1, <1>3 DEF DelegationsInv, AnswerFollows
<1>7. CardFollows'
  BY <1>1, <1>3 DEF DelegationsInv, CardFollows
<1>8. CapCounts'
  <2>1. /\ IsFiniteSet(OpenRows \cup Pledged)
        /\ ~crowded => /\ Cardinality(OpenRows \cup Pledged) <= MaxOpen
                       /\ \A v, u \in Underway : v = u
    BY DEF DelegationsInv, CapCounts
  <2>2. OpenRows' = OpenRows
    BY <1>1 DEF OpenRows
  <2>3. CASE BelowCap
    <3>1. Pledged' = Pledged \cup {t} /\ Underway' = Underway \cup {t}
      BY <1>3, <2>3 DEF Pledged, Underway
    <3>2. (OpenRows \cup Pledged)' = (OpenRows \cup Pledged) \cup {t}
      BY <2>2, <3>1
    <3>3. IsFiniteSet((OpenRows \cup Pledged)')
      BY <2>1, <3>2, FS_AddElement
    <3>4. ASSUME Underway = {}
          PROVE  Cardinality((OpenRows \cup Pledged)') <= MaxOpen
      <4>1. Pledged = {}
        BY <3>4 DEF Pledged, Underway
      <4>2. OpenRows \cup Pledged = OpenRows /\ IsFiniteSet(OpenRows)
        BY <4>1, <2>1
      <4>3. Cardinality(OpenRows \cup {t}) =
              IF t \in OpenRows THEN Cardinality(OpenRows) ELSE Cardinality(OpenRows) + 1
        BY <4>2, FS_AddElement
      <4>4. Cardinality(OpenRows) \in Nat /\ Cardinality(OpenRows) < MaxOpen
        BY <4>2, <2>3, FS_CardinalityType DEF BelowCap
      <4>5. (OpenRows \cup Pledged)' = OpenRows \cup {t}
        BY <3>2, <4>2
      <4> QED BY <4>3, <4>4, <4>5, DelegationConstants
    <3>5. Underway = {} => \A v, u \in Underway' : v = u
      BY <3>1
    <3> QED BY <1>1, <3>3, <3>4, <3>5 DEF CapCounts
  <2>4. CASE ~BelowCap
    <3>1. Pledged' = Pledged /\ Underway' = Underway
      BY <1>1, <1>3, <2>4 DEF Pledged, Underway
    <3>2. (OpenRows \cup Pledged)' = OpenRows \cup Pledged
      BY <2>2, <3>1
    <3> QED BY <1>1, <2>1, <3>1, <3>2 DEF CapCounts
  <2> QED BY <2>3, <2>4
<1> QED BY <1>4, <1>5, <1>6, <1>7, <1>8 DEF DelegationsInv

\* The task is sent; its row is written; its card is made; or one of these fails.
LEMMA HandOffKeeps ==
  ASSUME DelegationsInv, NEW t \in Tasks,
         SendTask(t) \/ AddDelegation(t) \/ EventCard(t) \/ HandOffFails(t)
  PROVE  DelegationsInv'
<1>0. DelegationsTypeOK /\ CapCounts /\ handing[t] \in {"send", "add", "decline", "card"}
  BY DEF DelegationsInv, SendTask, AddDelegation, EventCard, HandOffFails
<1>1. UNCHANGED <<answers, closing, crowded, early, dropped, late, kept>>
  BY DEF SendTask, AddDelegation, EventCard, HandOffFails, delegationLog
<1>2. CASE SendTask(t)
  <2>1. /\ handing[t] = "send" /\ UNCHANGED <<delegation, eventCard>>
        /\ handing'[t] \in {"add", "decline", "over"} /\ \A u \in Tasks \ {t} : handing'[u] = handing[u]
        /\ handing' \in [Tasks -> {"new", "send", "add", "decline", "card", "lost", "over"}]
    BY <1>0, <1>2, HandingMoves DEF SendTask
  <2>2. DelegationsTypeOK'
    BY <1>0, <1>1, <2>1 DEF DelegationsTypeOK
  <2>3. RowFollows'
    BY <1>1, <2>1 DEF DelegationsInv, RowFollows
  <2>4. AnswerFollows' /\ CardFollows'
    BY <1>1, <2>1 DEF DelegationsInv, AnswerFollows, CardFollows
  <2>5. Underway' \subseteq Underway /\ (OpenRows \cup Pledged)' \subseteq OpenRows \cup Pledged
    BY <1>0, <2>1 DEF Underway, OpenRows, Pledged
  <2> QED BY <1>0, <1>1, <2>2, <2>3, <2>4, <2>5, CapKept DEF DelegationsInv
<1>3. CASE AddDelegation(t)
  <2>1. /\ \/ handing[t] = "add" /\ delegation'[t] = "open" /\ handing'[t] = "card"
           \/ handing[t] = "decline" /\ delegation'[t] = "declined" /\ handing'[t] = "over"
        /\ eventCard' = eventCard
        /\ \A u \in Tasks \ {t} : handing'[u] = handing[u] /\ delegation'[u] = delegation[u]
        /\ handing' \in [Tasks -> {"new", "send", "add", "decline", "card", "lost", "over"}]
        /\ delegation' \in [Tasks -> {"absent", "open", "completed", "declined"}]
    BY <1>0, <1>3, HandingMoves DEF AddDelegation, Recorded, DelegationsTypeOK
  <2>2. delegation[t] = "absent" /\ closing[t] \notin {"save", "card"}
        /\ (closing[t] # "rest" => answers[t] > 0)
    BY <1>0, <2>1 DEF DelegationsInv, RowFollows
  <2>3. eventCard[t] = "none"
    BY <1>0, <2>2 DEF DelegationsTypeOK
  <2>4. DelegationsTypeOK'
    BY <1>0, <1>1, <2>1, <2>2, <2>3 DEF DelegationsTypeOK
  <2>5. RowFollows'
    BY <1>1, <2>1, <2>2 DEF DelegationsInv, RowFollows
  <2>6. AnswerFollows'
    BY <1>1, <2>1, <2>2 DEF DelegationsInv, AnswerFollows
  <2>7. CardFollows'
    BY <1>1, <2>1, <2>2 DEF DelegationsInv, CardFollows
  <2>8. Underway' \subseteq Underway /\ (OpenRows \cup Pledged)' \subseteq OpenRows \cup Pledged
    BY <1>0, <2>1 DEF Underway, OpenRows, Pledged
  <2> QED BY <1>0, <1>1, <2>4, <2>5, <2>6, <2>7, <2>8, CapKept DEF DelegationsInv
<1>4. CASE EventCard(t)
  <2>1. /\ handing[t] = "card" /\ handing'[t] = "over" /\ delegation' = delegation
        /\ \A u \in Tasks \ {t} : handing'[u] = handing[u] /\ eventCard'[u] = eventCard[u]
        /\ handing' \in [Tasks -> {"new", "send", "add", "decline", "card", "lost", "over"}]
        /\ eventCard' \in [Tasks -> {"none", "landing", "done"}]
        /\ eventCard'[t] = "done" => eventCard[t] = "done"
    BY <1>0, <1>4, HandingMoves DEF EventCard, DelegationsTypeOK
  <2>2. delegation[t] \in {"open", "completed"}
    BY <2>1 DEF DelegationsInv, RowFollows
  <2>3. DelegationsTypeOK'
    BY <1>0, <1>1, <2>1, <2>2 DEF DelegationsTypeOK
  <2>4. RowFollows'
    BY <1>1, <2>1 DEF DelegationsInv, RowFollows
  <2>5. AnswerFollows'
    BY <1>1, <2>1, <2>2 DEF DelegationsInv, AnswerFollows
  <2>6. CardFollows'
    BY <1>1, <2>1 DEF DelegationsInv, CardFollows
  <2>7. Underway' \subseteq Underway /\ (OpenRows \cup Pledged)' \subseteq OpenRows \cup Pledged
    BY <1>0, <2>1 DEF Underway, OpenRows, Pledged
  <2> QED BY <1>0, <1>1, <2>3, <2>4, <2>5, <2>6, <2>7, CapKept DEF DelegationsInv
<1>5. CASE HandOffFails(t)
  <2>1. /\ handing'[t] = IF handing[t] = "add" THEN "lost" ELSE "over"
        /\ UNCHANGED <<delegation, eventCard>> /\ \A u \in Tasks \ {t} : handing'[u] = handing[u]
        /\ handing' \in [Tasks -> {"new", "send", "add", "decline", "card", "lost", "over"}]
        /\ handing[t] \in {"add", "decline", "card"}
    BY <1>0, <1>5, HandingMoves DEF HandOffFails
  <2>2. DelegationsTypeOK'
    BY <1>0, <1>1, <2>1 DEF DelegationsTypeOK
  <2>3. RowFollows'
    BY <1>1, <2>1 DEF DelegationsInv, RowFollows
  <2>4. AnswerFollows' /\ CardFollows'
    BY <1>1, <2>1 DEF DelegationsInv, RowFollows, AnswerFollows, CardFollows
  <2>5. Underway' \subseteq Underway /\ (OpenRows \cup Pledged)' \subseteq OpenRows \cup Pledged
    BY <1>0, <2>1 DEF Underway, OpenRows, Pledged
  <2> QED BY <1>0, <1>1, <2>2, <2>3, <2>4, <2>5, CapKept DEF DelegationsInv
<1> QED BY <1>2, <1>3, <1>4, <1>5

\* An answer is stored, finds its row, closes it, and closes its card.
LEMMA AnswerKeeps ==
  ASSUME DelegationsInv, NEW t \in Tasks,
         Reply(t) \/ FindDelegation(t) \/ CompleteDelegation(t) \/ CompleteCard(t)
  PROVE  DelegationsInv'
<1>0. DelegationsTypeOK /\ CapCounts /\ RowFollows /\ AnswerFollows /\ CardFollows
  BY DEF DelegationsInv
<1>1. UNCHANGED <<handing, crowded>>
  BY DEF Reply, FindDelegation, CompleteDelegation, CompleteCard
<1>2. (\A u \in Tasks : delegation'[u] = "open" => delegation[u] = "open") => CapCounts'
  <2>1. Underway' = Underway /\ Pledged' = Pledged
    BY <1>1 DEF Underway, Pledged
  <2> SUFFICES ASSUME \A u \in Tasks : delegation'[u] = "open" => delegation[u] = "open" PROVE CapCounts'
    OBVIOUS
  <2>2. (OpenRows \cup Pledged)' \subseteq OpenRows \cup Pledged
    BY <2>1 DEF OpenRows
  <2> QED BY <1>0, <1>1, <2>1, <2>2, CapKept
<1>3. CASE Reply(t)
  <2>1. /\ Sent(t) /\ closing[t] = "rest" /\ closing'[t] = "find" /\ answers'[t] > 0
        /\ early' = early \ {t} /\ dropped' = dropped \ {t} /\ UNCHANGED <<delegation, eventCard, late, kept>>
        /\ \A u \in Tasks \ {t} : closing'[u] = closing[u] /\ answers'[u] = answers[u]
        /\ closing' \in [Tasks -> {"rest", "find", "save", "card"}] /\ answers' \in [Tasks -> Nat]
    BY <1>0, <1>3 DEF Reply, DelegationsTypeOK
  <2>2. DelegationsTypeOK'
    BY <1>0, <1>1, <2>1 DEF DelegationsTypeOK
  <2>3. RowFollows'
    BY <1>0, <1>1, <2>1 DEF RowFollows
  <2>4. /\ handing[t] \in {"add", "card", "lost", "over"}
        /\ handing[t] = "over" => delegation[t] \in {"open", "completed"}
    <3>1. handing[t] \in {"new", "send", "add", "decline", "card", "lost", "over"}
      BY <1>0 DEF DelegationsTypeOK
    <3>2. handing[t] \in {"add", "card", "lost"} \/ delegation[t] \in {"open", "completed"}
      BY <2>1 DEF Sent
    <3> QED BY <1>0, <3>1, <3>2 DEF RowFollows
  <2>5. AnswerFollows'
    BY <1>0, <1>1, <2>1, <2>4 DEF AnswerFollows
  <2>6. CardFollows'
    BY <1>0, <1>1, <2>1 DEF CardFollows
  <2> QED BY <1>2, <2>1, <2>2, <2>3, <2>5, <2>6 DEF DelegationsInv
<1>4. CASE FindDelegation(t)
  <2>1. /\ closing[t] = "find" /\ closing'[t] = (IF delegation[t] = "open" THEN "save" ELSE "rest")
        /\ early' = IF delegation[t] = "absent" THEN early \cup {t} ELSE early
        /\ UNCHANGED <<delegation, answers, eventCard, dropped, late, kept>>
        /\ \A u \in Tasks \ {t} : closing'[u] = closing[u]
        /\ closing' \in [Tasks -> {"rest", "find", "save", "card"}]
    BY <1>0, <1>4 DEF FindDelegation, Matches, DelegationsTypeOK
  <2>2. DelegationsTypeOK'
    BY <1>0, <1>1, <2>1 DEF DelegationsTypeOK
  <2>3. RowFollows'
    BY <1>0, <1>1, <2>1 DEF RowFollows
  <2>4. delegation[t] \in {"absent", "open", "completed"}
    BY <1>0, <2>1 DEF RowFollows, AnswerFollows
  <2>5. AnswerFollows'
    BY <1>0, <1>1, <2>1, <2>4 DEF AnswerFollows
  <2>6. CardFollows'
    BY <1>0, <1>1, <2>1 DEF CardFollows
  <2> QED BY <1>2, <2>1, <2>2, <2>3, <2>5, <2>6 DEF DelegationsInv
<1>5. CASE CompleteDelegation(t)
  <2>1. /\ closing[t] = "save" /\ closing'[t] = "card" /\ delegation'[t] = "completed"
        /\ UNCHANGED <<answers, eventCard, early, dropped, late, kept>>
        /\ \A u \in Tasks \ {t} : closing'[u] = closing[u] /\ delegation'[u] = delegation[u]
        /\ closing' \in [Tasks -> {"rest", "find", "save", "card"}]
        /\ delegation' \in [Tasks -> {"absent", "open", "completed", "declined"}]
    BY <1>0, <1>5 DEF CompleteDelegation, delegationLog, DelegationsTypeOK
  <2>2. delegation[t] = "open" /\ handing[t] \notin {"new", "send", "add", "decline", "lost"} /\ answers[t] > 0
    BY <1>0, <2>1 DEF RowFollows
  <2>3. DelegationsTypeOK'
    BY <1>0, <1>1, <2>1 DEF DelegationsTypeOK
  <2>4. RowFollows'
    BY <1>0, <1>1, <2>1, <2>2 DEF RowFollows
  <2>5. AnswerFollows'
    BY <1>0, <1>1, <2>1 DEF AnswerFollows
  <2>6. CardFollows'
    BY <1>0, <1>1, <2>1 DEF CardFollows
  <2>7. \A u \in Tasks : delegation'[u] = "open" => delegation[u] = "open"
    BY <2>1
  <2> QED BY <1>2, <2>3, <2>4, <2>5, <2>6, <2>7 DEF DelegationsInv
<1>6. CASE CompleteCard(t)
  <2>1. /\ closing[t] = "card" /\ closing'[t] = "rest" /\ (eventCard'[t] # "landing" \/ t \in kept')
        /\ eventCard'[t] = "landing" => eventCard[t] = "landing"
        /\ kept \subseteq kept' /\ kept' \subseteq kept \cup {t}
        /\ late' = IF handing[t] = "card" THEN late \cup {t} ELSE late
        /\ UNCHANGED <<delegation, answers, early, dropped>>
        /\ \A u \in Tasks \ {t} : closing'[u] = closing[u] /\ eventCard'[u] = eventCard[u]
        /\ closing' \in [Tasks -> {"rest", "find", "save", "card"}]
        /\ eventCard' \in [Tasks -> {"none", "landing", "done"}]
    BY <1>0, <1>6 DEF CompleteCard, CardDone, DelegationsTypeOK
  <2>2. delegation[t] = "completed"
    BY <1>0, <2>1 DEF RowFollows
  <2>3. DelegationsTypeOK'
    BY <1>0, <1>1, <2>1, <2>2 DEF DelegationsTypeOK
  <2>4. RowFollows'
    BY <1>0, <1>1, <2>1, <2>2 DEF RowFollows
  <2>5. AnswerFollows'
    BY <1>0, <1>1, <2>1, <2>2 DEF AnswerFollows
  <2>6. CardFollows'
    BY <1>0, <1>1, <2>1 DEF CardFollows
  <2> QED BY <1>2, <2>1, <2>3, <2>4, <2>5, <2>6 DEF DelegationsInv
<1> QED BY <1>3, <1>4, <1>5, <1>6

\* An error or a halt cuts the answers of some tasks short, and a halt the
\* hand-offs: those past the sending have lost their row.
LEMMA CutShortKeeps ==
  ASSUME DelegationsInv, NEW tasks \in SUBSET Tasks, CutShort(tasks),
         UNCHANGED <<delegation, answers, eventCard, crowded, early, late>>,
         handing' \in [Tasks -> {"new", "send", "add", "decline", "card", "lost", "over"}],
         \A t \in Tasks : \/ handing'[t] = handing[t]
                          \/ handing[t] \in {"add", "lost"} /\ handing'[t] = "lost"
                          \/ handing[t] \in {"send", "decline", "card"} /\ handing'[t] = "over"
  PROVE  DelegationsInv'
<1>0. DelegationsTypeOK /\ CapCounts /\ RowFollows /\ AnswerFollows /\ CardFollows
  BY DEF DelegationsInv
<1>1. /\ \A t \in tasks : /\ closing'[t] = "rest"
                          /\ closing[t] \in {"find", "save"} => t \in dropped'
                          /\ closing[t] = "card" => t \in kept'
      /\ \A t \in Tasks \ tasks : closing'[t] = closing[t]
      /\ closing' \in [Tasks -> {"rest", "find", "save", "card"}]
      /\ dropped \subseteq dropped' /\ dropped' \subseteq dropped \cup Tasks
      /\ kept \subseteq kept' /\ kept' \subseteq kept \cup Tasks
  BY <1>0 DEF CutShort, DelegationsTypeOK
<1>2. DelegationsTypeOK'
  BY <1>0, <1>1 DEF DelegationsTypeOK
<1>3. RowFollows'
  BY <1>0, <1>1 DEF RowFollows
<1>4. AnswerFollows'
  <2> SUFFICES ASSUME NEW t \in Tasks, answers[t] > 0
               PROVE  /\ handing'[t] \in {"add", "card", "lost", "over"}
                      /\ handing'[t] = "over" => delegation[t] \in {"open", "completed"}
                      /\ closing'[t] = "rest" /\ t \notin early \cup dropped' => delegation[t] = "completed"
    BY DEF AnswerFollows
  <2>1. closing[t] \in {"rest", "find", "save", "card"}
    BY <1>0 DEF DelegationsTypeOK
  <2>2. closing'[t] = "rest" /\ t \notin early \cup dropped' => delegation[t] = "completed"
    BY <1>0, <1>1, <2>1 DEF RowFollows, AnswerFollows
  <2> QED BY <1>0, <2>2 DEF RowFollows, AnswerFollows
<1>5. CardFollows'
  <2> SUFFICES ASSUME NEW t \in Tasks \ (late \cup kept'), delegation[t] = "completed",
                      closing'[t] # "card"
               PROVE  handing'[t] # "card" /\ eventCard[t] # "landing"
    BY DEF CardFollows
  <2>1. closing[t] # "card" /\ t \notin kept
    BY <1>1
  <2> QED BY <1>0, <2>1 DEF CardFollows
<1>6. Underway' \subseteq Underway /\ (OpenRows \cup Pledged)' \subseteq OpenRows \cup Pledged
  BY DEF Underway, OpenRows, Pledged
<1> QED BY <1>0, <1>2, <1>3, <1>4, <1>5, <1>6, CapKept DEF DelegationsInv

LEMMA CompletionFailsKeeps ==
  ASSUME DelegationsInv, NEW t \in Tasks, CompletionFails(t)
  PROVE  DelegationsInv'
<1>1. CutShort({t}) /\ UNCHANGED <<handing, delegation, answers, eventCard, crowded, early, late>>
  BY DEF CompletionFails
<1>2. handing \in [Tasks -> {"new", "send", "add", "decline", "card", "lost", "over"}]
  BY DEF DelegationsInv, DelegationsTypeOK
<1>3. {t} \in SUBSET Tasks /\ handing' = handing
  BY <1>1
<1>4. \A u \in Tasks : handing'[u] = handing[u]
  BY <1>3
<1> QED BY <1>1, <1>2, <1>3, <1>4, CutShortKeeps

LEMMA HubHaltsKeeps ==
  ASSUME DelegationsInv, HubHalts
  PROVE  DelegationsInv'
<1>1. /\ handing' = [t \in Tasks |-> IF handing[t] = "new" THEN "new"
                                    ELSE IF handing[t] \in {"add", "lost"} THEN "lost" ELSE "over"]
      /\ CutShort(Tasks) /\ UNCHANGED <<delegation, answers, eventCard, crowded, early, late>>
  BY DEF HubHalts
<1>2. handing \in [Tasks -> {"new", "send", "add", "decline", "card", "lost", "over"}]
  BY DEF DelegationsInv, DelegationsTypeOK
<1>3. handing' \in [Tasks -> {"new", "send", "add", "decline", "card", "lost", "over"}]
  BY <1>1
<1>4. \A t \in Tasks : \/ handing'[t] = handing[t]
                       \/ handing[t] \in {"add", "lost"} /\ handing'[t] = "lost"
                       \/ handing[t] \in {"send", "decline", "card"} /\ handing'[t] = "over"
  BY <1>1, <1>2
<1>5. Tasks \in SUBSET Tasks
  OBVIOUS
<1> QED BY <1>1, <1>3, <1>4, <1>5, CutShortKeeps

LEMMA DelegationsInvStep == DelegationsInv /\ [DelegationsNext]_delegationVars => DelegationsInv'
<1> SUFFICES ASSUME DelegationsInv, [DelegationsNext]_delegationVars PROVE DelegationsInv'
  OBVIOUS
<1>1. CASE UNCHANGED delegationVars
  BY <1>1 DEF delegationVars, DelegationsInv, DelegationsTypeOK, CapCounts, RowFollows, AnswerFollows,
     CardFollows, OpenRows, Pledged, Underway
<1> QED BY <1>1, DelegateKeeps, HandOffKeeps, AnswerKeeps, CompletionFailsKeeps, HubHaltsKeeps DEF DelegationsNext

LEMMA DelegationsInvInit == DelegationsInit => DelegationsInv
<1> SUFFICES ASSUME DelegationsInit PROVE DelegationsInv
  OBVIOUS
<1>0. \A t \in Tasks : /\ handing[t] = "new" /\ delegation[t] = "absent" /\ answers[t] = 0
                       /\ closing[t] = "rest" /\ eventCard[t] = "none"
  BY DEF DelegationsInit
<1>1. DelegationsTypeOK /\ RowFollows /\ AnswerFollows /\ CardFollows
  <2>1. DelegationsTypeOK
    BY DEF DelegationsInit, DelegationsTypeOK
  <2>2. RowFollows
    BY <1>0 DEF RowFollows
  <2>3. AnswerFollows /\ CardFollows
    BY <1>0 DEF AnswerFollows, CardFollows
  <2> QED BY <2>1, <2>2, <2>3
<1>2. OpenRows \cup Pledged = {} /\ Underway = {}
  BY DEF DelegationsInit, OpenRows, Pledged, Underway
<1>3. IsFiniteSet(OpenRows \cup Pledged) /\ Cardinality(OpenRows \cup Pledged) = 0
  BY <1>2, FS_EmptySet
<1>4. CapCounts
  BY <1>2, <1>3, DelegationConstants DEF CapCounts
<1> QED BY <1>1, <1>4 DEF DelegationsInv

\* For any number of tasks, sockets and answers: no more tasks than the cap are
\* open unless two hand-offs overlapped; an answered task is closed unless its
\* latest answer found no row or was cut short; its card is done unless it came
\* late or was left where it was; and nothing is closed or done without an answer.
THEOREM DelegationsHoldAlways == DelegationsSpec => []DelegationsHold
<1>1. DelegationsInv => DelegationsHold
  <2> SUFFICES ASSUME DelegationsInv PROVE DelegationsHold
    OBVIOUS
  <2>1. OpenCap
    <3> SUFFICES ASSUME ~crowded PROVE Cardinality(OpenRows) <= MaxOpen
      BY DEF OpenCap
    <3>1. IsFiniteSet(OpenRows \cup Pledged) /\ Cardinality(OpenRows \cup Pledged) <= MaxOpen
      BY DEF DelegationsInv, CapCounts
    <3>2. OpenRows \in SUBSET (OpenRows \cup Pledged)
      OBVIOUS
    <3>3. IsFiniteSet(OpenRows) /\ Cardinality(OpenRows) <= Cardinality(OpenRows \cup Pledged)
      BY <3>1, <3>2, FS_Subset
    <3>4. Cardinality(OpenRows) \in Nat
      BY <3>3, FS_CardinalityType
    <3>5. Cardinality(OpenRows \cup Pledged) \in Nat
      BY <3>1, FS_CardinalityType
    <3> QED BY <3>1, <3>3, <3>4, <3>5, DelegationConstants
  <2>2. AnsweredIsCompleted
    BY DEF DelegationsInv, AnswerFollows, AnsweredIsCompleted
  <2>3. CompletedCardIsDone
    BY DEF DelegationsInv, CardFollows, CompletedCardIsDone
  <2>4. DoneIsEarned
    BY DEF DelegationsInv, RowFollows, DoneIsEarned
  <2> QED BY <2>1, <2>2, <2>3, <2>4 DEF DelegationsHold
<1> QED BY <1>1, DelegationsInvInit, DelegationsInvStep, PTL DEF DelegationsSpec

(***************************************************************************)
(* Scheduler.  What is due, or about to be read by the tick, is owed a run *)
(* (SlotsOwed); a tick nobody crossed knows the switches as they are       *)
(* (SwitchesSeen) and the rows it works on as they are (CopyIsFresh); what *)
(* the save of a run is about to say is what the row says already, unless  *)
(* the run was crossed (ReportIsFresh); and a change the owner has in hand *)
(* was computed from the row as it is, unless the tick or another request  *)
(* holds the row (EditIsFresh).  From these, the settled rows say what     *)
(* happened to them (RowsTell).                                            *)
(***************************************************************************)
LastKinds == {"never", "running", "skipped", "ok", "gone"}
Ticks == [at : {"next", "send", "sent", "skip"}, left : SUBSET Schedules, now : SUBSET Schedules,
          copy : [Schedules -> Rows], enabled : BOOLEAN, agent : {"unread", "paused", "free"},
          locked : BOOLEAN, touched : BOOLEAN]
Reports == [of : Schedules, last : LastKinds]
\* What a request has in hand: a disabled row is not armed, and only a run by
\* hand is due at once.
Changes == [of : Schedules, enabled : BOOLEAN, spec : Specs, next : {"none", "later", "due"},
            by : Specs \cup {"now"}, switches : BOOLEAN, retimes : BOOLEAN, moves : BOOLEAN,
            lapsed : BOOLEAN]
Sound(c) ==
  /\ ~c.enabled => c.next = "none"
  /\ c.next # "none" => c.by \in {c.spec, "now"}
  /\ c.next = "due" => c.by = "now"
Edits == {c \in Changes : Sound(c)}

SchedulerTyped ==
  /\ row \in [Schedules -> Rows]
  /\ past \in SUBSET Schedules /\ running \in SUBSET Schedules /\ owed \in SUBSET Schedules
  /\ crossed \in SUBSET Schedules /\ refired \in SUBSET Schedules
  /\ engine \in Ticks \cup {Rest} /\ reporting \in Reports \cup {Rest}
  /\ autoOn \in BOOLEAN /\ agentPaused \in BOOLEAN
  /\ answer \in [Schedules -> {"none", "ok"}]
  /\ editing \in [Editors -> Edits \cup {Rest}] /\ entwined \in SUBSET Schedules
SlotsOwed ==
  /\ Ticking => engine.left \cap engine.now = {}
  /\ \A s \in Schedules :
       /\ row[s].next = "due" =>
            s \in owed \cup refired \/ (Ticking /\ engine.at = "sent" /\ s \in engine.now)
       /\ ~Exists(s) => row[s].next = "none"
       /\ Ticking /\ (s \in engine.left \/ (engine.at = "send" /\ s \in engine.now))
            => s \in owed \cup refired
SwitchesSeen ==
  Ticking /\ ~engine.touched =>
    /\ engine.enabled = autoOn
    /\ engine.agent # "unread" => (engine.agent = "paused" <=> agentPaused)
    /\ engine.at = "send" => engine.enabled /\ engine.agent = "free"
    /\ \A s \in AtWork : row[s].enabled
CopyIsFresh ==
  \A s \in AtWork \ crossed : row[s].enabled /\ row[s].spec = engine.copy[s].spec
ReportIsFresh ==
  reporting # Rest =>
    /\ Ticking /\ reporting.of \in engine.now => reporting.of \in crossed
    /\ reporting.of \notin crossed /\ Exists(reporting.of) => row[reporting.of].last = reporting.last
\* What the change leaves of the row is what it was computed from.
FreshFor(c, r) ==
  /\ ~c.switches => r.enabled = c.enabled
  /\ ~c.retimes => r.spec = c.spec
  /\ ~c.moves => /\ c.next = "none" => r.next = "none"
                 /\ r.next # "none" => r.by \in {c.spec, "now"}
EditIsFresh ==
  \A e \in Editors : editing[e] # Rest =>
    /\ editing[e].of \in AtWork => editing[e].of \in crossed
    /\ editing[e].of \in Settled /\ row[editing[e].of].last # "gone"
         => FreshFor(editing[e], row[editing[e].of])
    /\ \A f \in Editors : f # e /\ editing[f] # Rest /\ editing[f].of = editing[e].of
                           => editing[e].of \in entwined
OffIsUnarmed == \A s \in Settled : ~row[s].enabled => row[s].next = "none"
RowsTell == OffIsUnarmed /\ ReportStands /\ ArmedByItsSpec

SchedulerInv ==
  /\ SchedulerTyped /\ SlotsOwed /\ SwitchesSeen /\ CopyIsFresh /\ ReportIsFresh
  /\ EditIsFresh /\ RowsTell

LEMMA AtWorkType ==
  ASSUME SchedulerTyped
  PROVE  /\ AtWork \in SUBSET Schedules
         /\ Ticking => engine \in Ticks /\ AtWork = engine.left \cup engine.now
         /\ ~Ticking => AtWork = {}
         /\ reporting # Rest => reporting \in Reports /\ reporting.of \in Schedules
BY DEF AtWork, Ticking, Ticks, Reports, SchedulerTyped

LEMMA EditType ==
  ASSUME SchedulerTyped, NEW e \in Editors, editing[e] # Rest
  PROVE  editing[e] \in Changes /\ Sound(editing[e]) /\ editing[e].of \in Schedules
<1>1. editing[e] \in Edits
  BY DEF SchedulerTyped
<1>2. editing[e] \in Changes /\ Sound(editing[e])
  BY <1>1 DEF Edits
<1> QED BY <1>2 DEF Changes

\* For whoever still holds the row, it says what it said.
SameFor(s) ==
  /\ row'[s].last # "gone" => row[s].last # "gone"
  /\ row'[s].enabled = row[s].enabled /\ row'[s].spec = row[s].spec /\ row'[s].by = row[s].by
  /\ row'[s].next = row[s].next \/ (row'[s].next = "due" /\ row[s].next = "later")

\* Changes in hand stay fresh while nobody writes their rows, or they are not settled.
LEMMA EditsKeep ==
  ASSUME SchedulerInv,
         \A e \in Editors : editing'[e] = editing[e] \/ editing'[e] = Rest,
         crossed \subseteq crossed', entwined \subseteq entwined',
         \A e \in Editors : editing'[e] # Rest =>
           /\ editing[e].of \in AtWork' => editing[e].of \in AtWork \/ editing[e].of \in crossed'
           /\ editing[e].of \in Settled' /\ row'[editing[e].of].last # "gone" => SameFor(editing[e].of)
  PROVE  EditIsFresh'
<1>1. ASSUME NEW e \in Editors, NEW c, editing'[e] = c, c # Rest
      PROVE  /\ c.of \in AtWork' => c.of \in crossed'
             /\ c.of \in Settled' /\ row'[c.of].last # "gone" => FreshFor(c, row'[c.of])
             /\ \A f \in Editors : f # e /\ editing'[f] # Rest /\ editing'[f].of = c.of => c.of \in entwined'
  <2>1. editing[e] = c /\ editing'[e] # Rest
    BY <1>1
  <2>2. /\ c.of \in AtWork => c.of \in crossed
        /\ c.of \in Settled /\ row[c.of].last # "gone" => FreshFor(c, row[c.of])
        /\ \A f \in Editors : f # e /\ editing[f] # Rest /\ editing[f].of = c.of => c.of \in entwined
    BY <1>1, <2>1 DEF SchedulerInv, EditIsFresh
  <2>3. c.of \in AtWork' => c.of \in crossed'
    BY <1>1, <2>1, <2>2
  <2>4. ASSUME c.of \in Settled', row'[c.of].last # "gone"
        PROVE  FreshFor(c, row'[c.of])
    <3>1. SameFor(c.of) /\ c.of \in Settled
      BY <1>1, <2>1, <2>4 DEF Settled
    <3>2. FreshFor(c, row[c.of])
      BY <2>2, <2>4, <3>1 DEF SameFor
    <3> QED BY <3>1, <3>2 DEF SameFor, FreshFor
  <2>5. ASSUME NEW f \in Editors, f # e, editing'[f] # Rest, editing'[f].of = c.of
        PROVE  c.of \in entwined'
    <3>1. editing[f] # Rest /\ editing[f].of = c.of
      BY <2>5
    <3> QED BY <2>2, <2>5, <3>1
  <2> QED BY <2>3, <2>4, <2>5
<1>2. \A e \in Editors : editing'[e] # Rest =>
        /\ editing'[e].of \in AtWork' => editing'[e].of \in crossed'
        /\ editing'[e].of \in Settled' /\ row'[editing'[e].of].last # "gone"
             => FreshFor(editing'[e], row'[editing'[e].of])
        /\ \A f \in Editors : f # e /\ editing'[f] # Rest /\ editing'[f].of = editing'[e].of
                               => editing'[e].of \in entwined'
  BY <1>1
<1> QED BY <1>2 DEF EditIsFresh

\* The same for the steps of others that leave the requests alone.
LEMMA EditsStay ==
  ASSUME SchedulerInv, UNCHANGED ownerState, crossed \subseteq crossed',
         AtWork' \subseteq AtWork,
         \A s \in Schedules : s \in Settled' /\ InHand(s) => SameFor(s)
  PROVE  EditIsFresh'
<1>1. ASSUME NEW e \in Editors, editing'[e] # Rest
      PROVE  InHand(editing[e].of) /\ editing[e].of \in Schedules
  BY <1>1, EditType DEF SchedulerInv, InHand, ownerState
<1> QED BY <1>1, EditsKeep DEF ownerState

LEMMA TickTouched ==
  ASSUME NEW e \in Ticks, NEW f, f = [e EXCEPT !.touched = TRUE]
  PROVE  /\ f \in Ticks /\ f.touched = TRUE
         /\ f.at = e.at /\ f.left = e.left /\ f.now = e.now /\ f.copy = e.copy
         /\ f.enabled = e.enabled /\ f.agent = e.agent /\ f.locked = e.locked
BY DEF Ticks

LEMMA TickNotRest ==
  ASSUME NEW e \in Ticks
  PROVE  e # Rest /\ e.at # "rest"
BY DEF Ticks, Rest

\* The tick goes on as it was, except that it may be touched.
SameTick ==
  /\ Ticking' <=> Ticking
  /\ Ticking => /\ engine'.at = engine.at /\ engine'.left = engine.left /\ engine'.now = engine.now
                /\ engine'.copy = engine.copy /\ engine'.enabled = engine.enabled
                /\ engine'.agent = engine.agent
                /\ engine.touched => engine'.touched
  /\ engine' \in Ticks \cup {Rest}

LEMMA CrossingEffect ==
  ASSUME SchedulerTyped, NEW s \in Schedules, Crossing(s)
  PROVE  /\ SameTick /\ AtWork' = AtWork
         /\ s \in AtWork => engine'.touched /\ s \in crossed'
         /\ crossed' \in SUBSET Schedules /\ crossed \subseteq crossed'
         /\ Ticking \/ crossed' = crossed
<1>1. CASE s \in AtWork
  <2>1. Ticking /\ engine \in Ticks
    BY <1>1 DEF AtWork, Ticking, SchedulerTyped
  <2>2. engine' = [engine EXCEPT !.touched = TRUE]
    BY <1>1 DEF Crossing
  <2>3. SameTick /\ engine'.touched /\ Ticking'
    BY <2>1, <2>2, TickTouched, TickNotRest DEF SameTick, Ticking
  <2>4. AtWork' = AtWork
    BY <2>1, <2>3 DEF AtWork, SameTick
  <2> QED BY <1>1, <2>1, <2>3, <2>4 DEF Crossing, SchedulerTyped
<1>2. CASE s \notin AtWork
  <2>1. engine' = engine /\ crossed' = crossed
    BY <1>2 DEF Crossing
  <2> QED BY <1>2, <2>1 DEF SameTick, Ticking, AtWork, SchedulerTyped
<1> QED BY <1>1, <1>2

\* What the owner does to a row, whatever it is.
LEMMA OwnerKeeps ==
  ASSUME SchedulerInv, NEW s \in Schedules, NEW r \in Rows,
         row' = [row EXCEPT ![s] = r], Crossing(s),
         UNCHANGED <<linkState, running, reporting, answer, refired, entwined>>,
         past' \in SUBSET Schedules, owed' \in SUBSET Schedules, owed \subseteq owed',
         editing' \in [Editors -> Edits \cup {Rest}],
         \A e \in Editors : editing'[e] = editing[e] \/ editing'[e] = Rest,
         \A e \in Editors : editing'[e] # Rest /\ editing[e].of = s /\ s \in Settled => r.last = "gone",
         r.next = "due" => s \in owed' \/ row[s].next = "due",
         r.last = row[s].last \/ r.last = "gone",
         r.last = "gone" => r.next = "none",
         s \in Settled => /\ ~r.enabled => r.next = "none"
                          /\ r.next # "none" => r.by \in {r.spec, "now"}
  PROVE  SchedulerInv'
<1>1. /\ SameTick /\ AtWork' = AtWork
      /\ s \in AtWork => engine'.touched /\ s \in crossed'
      /\ crossed' \in SUBSET Schedules /\ crossed \subseteq crossed'
  BY CrossingEffect DEF SchedulerInv
<1>2. row' \in [Schedules -> Rows] /\ row'[s] = r /\ \A t \in Schedules : t # s => row'[t] = row[t]
  BY DEF SchedulerInv, SchedulerTyped
<1>3. SchedulerTyped'
  BY <1>1, <1>2 DEF SchedulerInv, SchedulerTyped, SameTick, linkState
<1>4. SlotsOwed'
  BY <1>1, <1>2 DEF SchedulerInv, SlotsOwed, SameTick, Exists
<1>5. SwitchesSeen'
  <2>1. \A t \in AtWork : t \in Schedules
    BY DEF AtWork, Ticking, Ticks, SchedulerInv, SchedulerTyped
  <2> QED BY <1>1, <1>2, <2>1 DEF SchedulerInv, SwitchesSeen, SameTick, linkState
<1>6. CopyIsFresh'
  <2>1. \A t \in AtWork : t \in Schedules /\ Ticking
    BY DEF AtWork, Ticking, Ticks, SchedulerInv, SchedulerTyped
  <2> QED BY <1>1, <1>2, <2>1 DEF SchedulerInv, CopyIsFresh, SameTick
<1>7. ReportIsFresh'
  <2>1. reporting # Rest => reporting.of \in Schedules
    BY DEF SchedulerInv, SchedulerTyped, Reports
  <2> QED BY <1>1, <1>2, <2>1 DEF SchedulerInv, ReportIsFresh, SameTick, Exists
<1>8. Settled' \subseteq Settled
  BY <1>1 DEF Settled
<1>9. ReportStands'
  BY <1>1, <1>2 DEF SchedulerInv, RowsTell, ReportStands, Exists
<1>10. OffIsUnarmed' /\ ArmedByItsSpec'
  <2>1. \A t \in Settled' : t \in Settled /\ t \in Schedules
    BY <1>8 DEF Settled
  <2> QED BY <1>2, <2>1 DEF SchedulerInv, RowsTell, OffIsUnarmed, ArmedByItsSpec
<1>11. EditIsFresh'
  <2>1. ASSUME NEW e \in Editors, editing'[e] # Rest
        PROVE  /\ editing[e].of \in AtWork' => editing[e].of \in AtWork
               /\ editing[e].of \in Settled' /\ row'[editing[e].of].last # "gone" => SameFor(editing[e].of)
    <3>1. editing[e].of \in Schedules
      BY <2>1, EditType DEF SchedulerInv
    <3>2. CASE editing[e].of = s
      <4>1. s \in Settled' /\ row'[s].last # "gone" => FALSE
        BY <1>2, <1>8, <2>1, <3>2
      <4> QED BY <1>1, <3>2, <4>1
    <3>3. CASE editing[e].of # s
      BY <1>1, <1>2, <3>1, <3>3 DEF SameFor
    <3> QED BY <3>2, <3>3
  <2> QED BY <1>1, <2>1, EditsKeep
<1> QED BY <1>3, <1>4, <1>5, <1>6, <1>7, <1>9, <1>10, <1>11 DEF SchedulerInv, RowsTell

\* A change is sound, and fresh for the settled row it was computed from.
LEMMA TakesInHandKeeps ==
  ASSUME SchedulerInv, NEW s \in Schedules, NEW e \in Editors, NEW c \in Edits, c.of = s,
         TakesInHand(e, s, c), s \in Settled => FreshFor(c, row[s])
  PROVE  SchedulerInv'
<1>1. UNCHANGED <<row, past, engine, linkState, running, reporting, owed, answer, refired>>
  BY DEF TakesInHand
<1>2. /\ editing[e] = Rest /\ editing' = [editing EXCEPT ![e] = c]
      /\ entwined' = entwined \cup {t \in {s} : InHand(t)}
      /\ crossed' = crossed \cup (AtWork \cap {s})
  BY DEF TakesInHand
<1>3. /\ editing' \in [Editors -> Edits \cup {Rest}] /\ editing'[e] = c
      /\ \A f \in Editors : f # e => editing'[f] = editing[f]
  BY <1>2 DEF SchedulerInv, SchedulerTyped
<1>4. /\ crossed' \in SUBSET Schedules /\ entwined' \in SUBSET Schedules
      /\ crossed \subseteq crossed' /\ entwined \subseteq entwined' /\ Settled' \subseteq Settled
  BY <1>2 DEF SchedulerInv, SchedulerTyped, Settled
<1>5. AtWork' = AtWork /\ (Ticking' <=> Ticking)
  BY <1>1 DEF AtWork, Ticking
<1>6. SchedulerTyped'
  BY <1>1, <1>3, <1>4 DEF SchedulerInv, SchedulerTyped, linkState
<1>7. SlotsOwed'
  BY <1>1, <1>5 DEF SchedulerInv, SlotsOwed, Exists
<1>8. SwitchesSeen' /\ CopyIsFresh'
  BY <1>1, <1>4, <1>5 DEF SchedulerInv, SwitchesSeen, CopyIsFresh, linkState
<1>9. ReportIsFresh'
  BY <1>1, <1>4, <1>5 DEF SchedulerInv, ReportIsFresh, Exists
<1>10. RowsTell'
  BY <1>1, <1>4 DEF SchedulerInv, RowsTell, OffIsUnarmed, ReportStands, ArmedByItsSpec, Exists
<1>12. ASSUME NEW f \in Editors, NEW d, editing'[f] = d, d # Rest
       PROVE  /\ d.of \in AtWork' => d.of \in crossed'
              /\ d.of \in Settled' /\ row'[d.of].last # "gone" => FreshFor(d, row'[d.of])
  <2>1. CASE f = e
    <3>1. d = c /\ d.of = s
      BY <1>3, <1>12, <2>1
    <3>2. s \in AtWork' => s \in crossed'
      BY <1>2, <1>5
    <3>3. s \in Settled' => FreshFor(c, row'[s])
      BY <1>1, <1>4
    <3> QED BY <3>1, <3>2, <3>3
  <2>2. CASE f # e
    <3>1. d = editing[f]
      BY <1>3, <1>12, <2>2
    <3>2. /\ d.of \in AtWork => d.of \in crossed
          /\ d.of \in Settled /\ row[d.of].last # "gone" => FreshFor(d, row[d.of])
      BY <1>12, <3>1 DEF SchedulerInv, EditIsFresh
    <3> QED BY <1>1, <1>4, <1>5, <3>2
  <2> QED BY <2>1, <2>2
<1>13. ASSUME NEW f \in Editors, NEW g \in Editors, f # g, editing'[f] # Rest, editing'[g] # Rest,
              editing'[f].of = editing'[g].of
       PROVE  editing'[f].of \in entwined'
  <2>1. CASE f = e
    <3>1. editing[g] # Rest /\ editing[g].of = s
      BY <1>3, <1>13, <2>1
    <3>2. InHand(s)
      BY <3>1 DEF InHand
    <3> QED BY <1>2, <1>3, <2>1, <3>2
  <2>2. CASE g = e
    <3>1. editing[f] # Rest /\ editing[f].of = s
      BY <1>3, <1>13, <2>2
    <3>2. InHand(s)
      BY <3>1 DEF InHand
    <3> QED BY <1>2, <1>3, <1>13, <2>2, <3>2
  <2>3. CASE f # e /\ g # e
    <3>1. editing'[f] = editing[f] /\ editing'[g] = editing[g]
      BY <1>3, <2>3
    <3>2. editing[f].of \in entwined
      BY <1>13, <3>1 DEF SchedulerInv, EditIsFresh
    <3> QED BY <1>4, <3>1, <3>2
  <2> QED BY <2>1, <2>2, <2>3
<1>14. EditIsFresh'
  <2>1. \A f \in Editors : editing'[f] # Rest =>
          /\ editing'[f].of \in AtWork' => editing'[f].of \in crossed'
          /\ editing'[f].of \in Settled' /\ row'[editing'[f].of].last # "gone"
               => FreshFor(editing'[f], row'[editing'[f].of])
    BY <1>12
  <2> QED BY <1>13, <2>1 DEF EditIsFresh
<1> QED BY <1>6, <1>7, <1>8, <1>9, <1>10, <1>14 DEF SchedulerInv

LEMMA UpdateLoadsKeeps ==
  ASSUME SchedulerInv, NEW s \in Schedules, NEW e \in Editors, UpdateLoads(e, s)
  PROVE  SchedulerInv'
<1>1. PICK q \in Rows : q = row[s]
  BY DEF SchedulerInv, SchedulerTyped
<1>2. PICK spec, enabled, lapsed, to, next, moves, c :
        /\ spec \in Specs \cup {"same"} /\ enabled \in BOOLEAN
        /\ lapsed \in Lapsed(s, spec) /\ to = (IF spec = "same" THEN q.spec ELSE spec)
        /\ next = Armed(enabled, lapsed) /\ moves \in Moves(s, spec, next)
        /\ c = [of |-> s, enabled |-> enabled, spec |-> to, next |-> next, by |-> to,
                switches |-> enabled # q.enabled, retimes |-> spec # "same", moves |-> moves,
                lapsed |-> lapsed]
        /\ TakesInHand(e, s, c)
  <2>1. PICK spec \in Specs \cup {"same"}, enabled \in BOOLEAN : \E lapsed \in Lapsed(s, spec) :
          \E moves \in Moves(s, spec, Armed(enabled, lapsed)) :
            TakesInHand(e, s, [of |-> s, enabled |-> enabled,
              spec |-> (IF spec = "same" THEN row[s].spec ELSE spec), next |-> Armed(enabled, lapsed),
              by |-> (IF spec = "same" THEN row[s].spec ELSE spec),
              switches |-> enabled # row[s].enabled, retimes |-> spec # "same", moves |-> moves,
              lapsed |-> lapsed])
    BY Zenon DEF UpdateLoads
  <2>2. PICK lapsed : /\ lapsed \in Lapsed(s, spec)
                      /\ \E moves \in Moves(s, spec, Armed(enabled, lapsed)) :
                          TakesInHand(e, s, [of |-> s, enabled |-> enabled,
                            spec |-> (IF spec = "same" THEN row[s].spec ELSE spec), next |-> Armed(enabled, lapsed),
                            by |-> (IF spec = "same" THEN row[s].spec ELSE spec),
                            switches |-> enabled # row[s].enabled, retimes |-> spec # "same", moves |-> moves,
                            lapsed |-> lapsed])
    BY <2>1
  <2> QED BY <1>1, <2>2, Zenon
<1>12. spec \in Specs \cup {"same"} /\ enabled \in BOOLEAN
  BY <1>2
<1>3. to \in Specs /\ (spec = "same" => to = q.spec) /\ "same" \notin Specs
  BY <1>2 DEF Rows, Specs
<1>4. lapsed \in BOOLEAN
  BY <1>2 DEF Lapsed
<1>5. next \in {"none", "later"} /\ (~enabled => next = "none")
  BY <1>2 DEF Armed
<1>6. moves \in BOOLEAN /\ (~moves => next = q.next /\ (next = "none" \/ spec = "same"))
  BY <1>1, <1>2 DEF Moves
<1>7. PICK w \in BOOLEAN, t \in BOOLEAN : w = (enabled # q.enabled) /\ t = (spec # "same")
  OBVIOUS
<1>8. c = [of |-> s, enabled |-> enabled, spec |-> to, next |-> next, by |-> to,
           switches |-> w, retimes |-> t, moves |-> moves, lapsed |-> lapsed]
  BY <1>2, <1>7
<1>9. /\ c \in Changes /\ c.of = s /\ c.enabled = enabled /\ c.spec = to /\ c.next = next /\ c.by = to
      /\ c.switches = w /\ c.retimes = t /\ c.moves = moves
  BY <1>3, <1>4, <1>5, <1>6, <1>7, <1>8, <1>12 DEF Changes
<1>10. c \in Edits
  BY <1>5, <1>9 DEF Edits, Sound
<1>11. ASSUME s \in Settled PROVE FreshFor(c, row[s])
  <2>1. ~w => q.enabled = enabled
    BY <1>1, <1>7 DEF Rows
  <2>2. ~t => q.spec = to
    BY <1>3, <1>7
  <2>3. ~moves => (next = "none" => q.next = "none")
    BY <1>6
  <2>4. q.next # "none" => q.by \in {q.spec, "now"}
    BY <1>1, <1>11 DEF SchedulerInv, RowsTell, ArmedByItsSpec
  <2>5. ~moves /\ q.next # "none" => q.by \in {to, "now"}
    BY <1>3, <1>6, <2>4
  <2> QED BY <1>1, <1>9, <2>1, <2>2, <2>3, <2>5 DEF FreshFor
<1> QED BY <1>2, <1>9, <1>10, <1>11, TakesInHandKeeps

LEMMA RunNowLoadsKeeps ==
  ASSUME SchedulerInv, NEW s \in Schedules, NEW e \in Editors, RunNowLoads(e, s)
  PROVE  SchedulerInv'
<1>1. PICK q \in Rows : q = row[s]
  BY DEF SchedulerInv, SchedulerTyped
<1>2. PICK w \in BOOLEAN : w = ~q.enabled
  BY DEF Rows
<1>3. PICK c : c = [of |-> s, enabled |-> TRUE, spec |-> q.spec, next |-> "due", by |-> "now",
                    switches |-> w, retimes |-> FALSE, moves |-> TRUE, lapsed |-> FALSE]
  OBVIOUS
<1>4. TakesInHand(e, s, c)
  BY <1>1, <1>2, <1>3, Zenon DEF RunNowLoads
<1>5. /\ c \in Changes /\ c.of = s /\ c.enabled = TRUE /\ c.spec = q.spec /\ c.next = "due" /\ c.by = "now"
      /\ c.switches = w /\ c.retimes = FALSE /\ c.moves = TRUE
  BY <1>3 DEF Changes, Rows
<1>6. c \in Edits
  BY <1>5 DEF Edits, Sound
<1>7. FreshFor(c, row[s])
  BY <1>1, <1>2, <1>5 DEF FreshFor, Rows
<1> QED BY <1>4, <1>5, <1>6, <1>7, TakesInHandKeeps

LEMMA EditFailsKeeps ==
  ASSUME SchedulerInv, NEW e \in Editors, EditFails(e)
  PROVE  SchedulerInv'
<1>1. UNCHANGED <<row, past, engine, linkState, running, reporting, owed, answer, crossed, refired, entwined>>
  BY DEF EditFails
<1>2. /\ editing' \in [Editors -> Edits \cup {Rest}]
      /\ \A f \in Editors : editing'[f] = editing[f] \/ editing'[f] = Rest
  BY DEF EditFails, SchedulerInv, SchedulerTyped
<1>3. AtWork' = AtWork /\ (Ticking' <=> Ticking) /\ Settled' = Settled
  BY <1>1 DEF AtWork, Ticking, Settled
<1>4. SchedulerTyped'
  BY <1>1, <1>2 DEF SchedulerInv, SchedulerTyped, linkState
<1>5. SlotsOwed'
  BY <1>1, <1>3 DEF SchedulerInv, SlotsOwed, Exists
<1>6. SwitchesSeen' /\ CopyIsFresh'
  BY <1>1, <1>3 DEF SchedulerInv, SwitchesSeen, CopyIsFresh, linkState
<1>7. ReportIsFresh' /\ RowsTell'
  BY <1>1, <1>3 DEF SchedulerInv, ReportIsFresh, RowsTell, OffIsUnarmed, ReportStands, ArmedByItsSpec, Exists
<1>8. EditIsFresh'
  BY <1>1, <1>2, <1>3, EditsKeep DEF SameFor
<1> QED BY <1>4, <1>5, <1>6, <1>7, <1>8 DEF SchedulerInv

LEMMA EditSavesKeeps ==
  ASSUME SchedulerInv, NEW e \in Editors, EditSaves(e)
  PROVE  SchedulerInv'
<1>1. editing[e] # Rest /\ editing' = [editing EXCEPT ![e] = Rest]
  BY DEF EditSaves
<1>2. PICK c : c = editing[e]
  OBVIOUS
<1>3. PICK s \in Schedules : s = c.of
  BY <1>1, <1>2, EditType DEF SchedulerInv
<1>4. c \in Changes /\ Sound(c)
  BY <1>1, <1>2, EditType DEF SchedulerInv
<1>5. /\ editing' \in [Editors -> Edits \cup {Rest}] /\ editing'[e] = Rest
      /\ \A f \in Editors : editing'[f] = editing[f] \/ editing'[f] = Rest
  BY <1>1 DEF SchedulerInv, SchedulerTyped
<1>6. CASE ~Exists(s)
  <2>1. UNCHANGED <<row, past, engine, linkState, running, reporting, owed, answer, crossed, refired, entwined>>
    BY <1>2, <1>3, <1>6 DEF EditSaves
  <2>2. AtWork' = AtWork /\ (Ticking' <=> Ticking) /\ Settled' = Settled
    BY <2>1 DEF AtWork, Ticking, Settled
  <2>3. SchedulerTyped'
    BY <1>5, <2>1 DEF SchedulerInv, SchedulerTyped, linkState
  <2>4. SlotsOwed'
    BY <2>1, <2>2 DEF SchedulerInv, SlotsOwed, Exists
  <2>5. SwitchesSeen' /\ CopyIsFresh'
    BY <2>1, <2>2 DEF SchedulerInv, SwitchesSeen, CopyIsFresh, linkState
  <2>6. ReportIsFresh' /\ RowsTell'
    BY <2>1, <2>2 DEF SchedulerInv, ReportIsFresh, RowsTell, OffIsUnarmed, ReportStands, ArmedByItsSpec, Exists
  <2>7. EditIsFresh'
    BY <1>5, <2>1, <2>2, EditsKeep DEF SameFor
  <2> QED BY <2>3, <2>4, <2>5, <2>6, <2>7 DEF SchedulerInv
<1>7. CASE Exists(s)
  <2>1. PICK q \in Rows : q = row[s]
    BY DEF SchedulerInv, SchedulerTyped
  <2>2. PICK enabled \in BOOLEAN, spec \in Specs :
          /\ enabled = IF c.switches THEN c.enabled ELSE q.enabled
          /\ spec = IF c.retimes THEN c.spec ELSE q.spec
    BY <1>4 DEF Changes, Rows
  <2>3. PICK next \in {"none", "later", "due"}, by \in Specs \cup {"now"} :
          /\ next = IF c.moves THEN c.next ELSE q.next
          /\ by = IF c.moves THEN c.by ELSE q.by
    BY <1>4 DEF Changes, Rows
  <2>4. PICK r : r = [q EXCEPT !.enabled = enabled, !.spec = spec, !.next = next, !.by = by]
    OBVIOUS
  <2>5. /\ r \in Rows /\ r.enabled = enabled /\ r.spec = spec /\ r.next = next /\ r.by = by
        /\ r.last = q.last
    BY <2>4 DEF Rows
  <2>6. Edited(q, c) = r
    BY <2>2, <2>3, <2>4, Zenon DEF Edited
  <2>7. row' = [row EXCEPT ![s] = r] /\ Crossing(s)
    BY <1>2, <1>3, <1>7, <2>1, <2>6, Zenon DEF EditSaves
  <2>8. UNCHANGED <<linkState, running, reporting, answer, refired, entwined>>
    BY DEF EditSaves
  <2>9. owed' = (IF c.by = "now" THEN owed \cup {s} ELSE owed)
    BY <1>2, <1>3, <1>7, Zenon DEF EditSaves
  <2>10. past' = past \cup {s} \/ past' = past \ {s} \/ past' = past
    BY <1>2, <1>3, <1>7 DEF EditSaves
  <2>11. past' \in SUBSET Schedules /\ owed' \in SUBSET Schedules /\ owed \subseteq owed'
    BY <2>9, <2>10 DEF SchedulerInv, SchedulerTyped
  <2>12. next = "due" => s \in owed' \/ row[s].next = "due"
    BY <1>4, <2>1, <2>3, <2>9 DEF Sound
  <2>13. r.last # "gone" /\ r.last = row[s].last
    BY <1>7, <2>1, <2>5 DEF Exists
  <2>14. s \in Settled => FreshFor(c, q)
    BY <1>1, <1>2, <1>3, <1>7, <2>1 DEF SchedulerInv, EditIsFresh, Exists
  <2>15. ASSUME s \in Settled
         PROVE  (~enabled => next = "none") /\ (next # "none" => by \in {spec, "now"})
    <3>1. enabled = c.enabled /\ spec = c.spec
      BY <1>3, <2>1, <2>2, <2>14, <2>15 DEF FreshFor
    <3>2. CASE c.moves
      BY <1>4, <2>3, <3>1, <3>2 DEF Sound
    <3>3. CASE ~c.moves
      <4>1. c.next = "none" => q.next = "none"
        BY <1>3, <2>1, <2>14, <2>15, <3>3 DEF FreshFor
      <4>2. q.next # "none" => q.by \in {c.spec, "now"}
        BY <1>3, <2>1, <2>14, <2>15, <3>3 DEF FreshFor
      <4> QED BY <1>4, <2>3, <3>1, <3>3, <4>1, <4>2 DEF Sound
    <3> QED BY <3>2, <3>3
  <2>16. \A f \in Editors : editing'[f] # Rest /\ editing[f].of = s /\ s \in Settled => FALSE
    <3> SUFFICES ASSUME NEW f \in Editors, editing'[f] # Rest, editing[f].of = s PROVE s \in entwined
      BY DEF Settled
    <3>1. f # e /\ editing[f] # Rest
      BY <1>5
    <3> QED BY <1>1, <1>2, <1>3, <3>1 DEF SchedulerInv, EditIsFresh
  <2> QED BY <1>5, <2>5, <2>7, <2>8, <2>11, <2>12, <2>13, <2>15, <2>16, OwnerKeeps
<1> QED BY <1>6, <1>7

LEMMA DeleteScheduleKeeps ==
  ASSUME SchedulerInv, NEW s \in Schedules, DeleteSchedule(s)
  PROVE  SchedulerInv'
<1>1. PICK q \in Rows : q = row[s]
  BY DEF SchedulerInv, SchedulerTyped
<1>2. PICK r : r = [q EXCEPT !.enabled = FALSE, !.next = "none", !.last = "gone"]
  OBVIOUS
<1>3. r \in Rows /\ r.next = "none" /\ r.last = "gone"
  BY <1>2 DEF Rows
<1>4. row' = [row EXCEPT ![s] = r]
  BY <1>1, <1>2, Zenon DEF DeleteSchedule
<1>5. /\ editing' = editing /\ entwined' = entwined /\ editing' \in [Editors -> Edits \cup {Rest}]
      /\ UNCHANGED <<past, owed>> /\ past' \in SUBSET Schedules /\ owed' \in SUBSET Schedules
  BY DEF DeleteSchedule, ownerState, SchedulerInv, SchedulerTyped
<1> QED BY <1>3, <1>4, <1>5, OwnerKeeps DEF DeleteSchedule, ownerState

LEMMA TimeComesKeeps ==
  ASSUME SchedulerInv, NEW s \in Schedules, TimeComes(s)
  PROVE  SchedulerInv'
<1>1. PICK q \in Rows : q = row[s]
  BY DEF SchedulerInv, SchedulerTyped
<1>0. PICK r : r = [q EXCEPT !.next = "due"]
  OBVIOUS
<1>2. /\ r \in Rows /\ r.enabled = q.enabled /\ r.spec = q.spec /\ r.next = "due" /\ r.by = q.by
      /\ r.last = q.last
  BY <1>0 DEF Rows
<1>3. row' = [row EXCEPT ![s] = r] /\ q.next = "later"
  BY <1>1, <1>0, Zenon DEF TimeComes
<1>4. row' \in [Schedules -> Rows] /\ row'[s] = r /\ \A t \in Schedules : t # s => row'[t] = row[t]
  BY <1>2, <1>3 DEF SchedulerInv, SchedulerTyped
<1>5. UNCHANGED <<engine, linkState, running, reporting, answer, crossed, refired, editing, entwined>>
  BY DEF TimeComes, ownerState
<1>6. owed' = owed \cup {s} /\ past' = past \cup {s}
  BY DEF TimeComes
<1>7. /\ row'[s].enabled = row[s].enabled /\ row'[s].spec = row[s].spec /\ row'[s].by = row[s].by
      /\ row'[s].last = row[s].last /\ row'[s].next = "due" /\ row[s].next = "later"
  BY <1>1, <1>2, <1>3, <1>4
<1>8. SchedulerTyped'
  BY <1>4, <1>5, <1>6 DEF SchedulerInv, SchedulerTyped, linkState
<1>9. SlotsOwed'
  BY <1>4, <1>5, <1>6, <1>7 DEF SchedulerInv, SlotsOwed, Exists, Ticking
<1>10. \A t \in AtWork : t \in Schedules
  BY DEF AtWork, Ticking, Ticks, SchedulerInv, SchedulerTyped
<1>11. SwitchesSeen' /\ CopyIsFresh'
  BY <1>4, <1>5, <1>7, <1>10 DEF SchedulerInv, SwitchesSeen, CopyIsFresh, AtWork, Ticking, linkState
<1>12. ReportIsFresh'
  <2>1. reporting # Rest => reporting.of \in Schedules
    BY DEF SchedulerInv, SchedulerTyped, Reports
  <2> QED BY <1>4, <1>5, <1>7, <2>1 DEF SchedulerInv, ReportIsFresh, Exists, Ticking
<1>13. RowsTell'
  BY <1>4, <1>5, <1>7 DEF SchedulerInv, RowsTell, Settled, OffIsUnarmed, ReportStands, ArmedByItsSpec, Exists
<1>14. EditIsFresh'
  <2>1. \A t \in Schedules : SameFor(t)
    BY <1>4, <1>7 DEF SameFor
  <2>2. AtWork' = AtWork
    BY <1>5 DEF AtWork, Ticking
  <2> QED BY <1>5, <2>1, <2>2, EditsStay DEF ownerState
<1> QED BY <1>8, <1>9, <1>11, <1>12, <1>13, <1>14 DEF SchedulerInv

LEMMA FlipKeeps ==
  ASSUME SchedulerInv, Flip
  PROVE  SchedulerInv'
<1>1. UNCHANGED <<row, past, running, reporting, owed, answer, crossed, refired, editing, entwined>>
  BY DEF Flip, ownerState
<1>2. autoOn' \in BOOLEAN /\ agentPaused' \in BOOLEAN
  BY DEF Flip, SchedulerInv, SchedulerTyped
<1>3. SameTick /\ AtWork' = AtWork /\ (Ticking => engine'.touched)
  <2>1. CASE Ticking
    <3>1. engine \in Ticks /\ engine' = [engine EXCEPT !.touched = TRUE]
      BY <2>1 DEF Flip, Ticking, SchedulerInv, SchedulerTyped
    <3>2. SameTick /\ engine'.touched /\ Ticking'
      BY <2>1, <3>1, TickTouched, TickNotRest DEF SameTick, Ticking
    <3> QED BY <2>1, <3>2 DEF SameTick, AtWork
  <2>2. CASE ~Ticking
    <3>1. engine' = engine
      BY <2>2 DEF Flip
    <3> QED BY <2>2, <3>1 DEF SameTick, AtWork, Ticking, SchedulerInv, SchedulerTyped
  <2> QED BY <2>1, <2>2
<1>4. SchedulerTyped'
  BY <1>1, <1>2, <1>3 DEF SameTick, SchedulerInv, SchedulerTyped
<1>5. SlotsOwed'
  BY <1>1, <1>3 DEF SchedulerInv, SlotsOwed, SameTick, Exists
<1>6. SwitchesSeen'
  BY <1>3 DEF SwitchesSeen, SameTick
<1>7. CopyIsFresh'
  BY <1>1, <1>3, AtWorkType DEF SchedulerInv, CopyIsFresh, SameTick
<1>8. ReportIsFresh'
  BY <1>1, <1>3 DEF SchedulerInv, ReportIsFresh, SameTick, Exists
<1>9. RowsTell'
  BY <1>1 DEF SchedulerInv, RowsTell, Settled, OffIsUnarmed, ReportStands, ArmedByItsSpec, Exists
<1>10. EditIsFresh'
  BY <1>1, <1>3, EditsStay DEF ownerState, SameFor
<1> QED BY <1>4, <1>5, <1>6, <1>7, <1>8, <1>9, <1>10 DEF SchedulerInv

LEMMA TickLoadsKeeps ==
  ASSUME SchedulerInv, TickLoads
  PROVE  SchedulerInv'
<1>1. /\ UNCHANGED <<row, past, autoOn, agentPaused, running, reporting, owed, answer, refired>>
      /\ UNCHANGED <<editing, entwined>>
  BY DEF TickLoads, linkState, ownerState
<1>0. /\ crossed' = crossed \cup {s \in Schedules : Due(s) /\ InHand(s)}
      /\ crossed' \in SUBSET Schedules /\ crossed \subseteq crossed' /\ Settled' \subseteq Settled
  BY <1>1 DEF TickLoads, Settled, SchedulerInv, SchedulerTyped
<1>2. PICK e : e = [at |-> "next", left |-> {s \in Schedules : Due(s)}, now |-> {}, copy |-> row,
                enabled |-> autoOn, agent |-> "unread", locked |-> FALSE, touched |-> FALSE]
  OBVIOUS
<1>3. /\ engine' = e /\ e \in Ticks /\ e.at = "next" /\ e.left = {s \in Schedules : Due(s)}
      /\ e.now = {} /\ e.copy = row /\ e.enabled = autoOn /\ e.agent = "unread"
  BY <1>2 DEF TickLoads, Ticks, SchedulerInv, SchedulerTyped
<1>4. engine = Rest /\ Ticking' /\ AtWork' = e.left /\ ~Ticking
  BY <1>3, TickNotRest DEF TickLoads, Ticking, AtWork
<1>5. SchedulerTyped'
  BY <1>0, <1>1, <1>3 DEF SchedulerInv, SchedulerTyped
<1>6. SlotsOwed'
  BY <1>1, <1>3, <1>4 DEF SchedulerInv, SlotsOwed, Exists, Due
<1>7. SwitchesSeen'
  BY <1>1, <1>3, <1>4 DEF SwitchesSeen, Due
<1>8. CopyIsFresh'
  BY <1>1, <1>3, <1>4 DEF CopyIsFresh, Due
<1>9. ReportIsFresh'
  BY <1>0, <1>1, <1>3, <1>4 DEF SchedulerInv, ReportIsFresh, Exists
<1>10. RowsTell'
  BY <1>0, <1>1 DEF SchedulerInv, RowsTell, OffIsUnarmed, ReportStands, ArmedByItsSpec, Exists
<1>11. EditIsFresh'
  <2>1. ASSUME NEW f \in Editors, editing[f] # Rest, editing[f].of \in AtWork'
        PROVE  editing[f].of \in crossed'
    <3>1. PICK s \in Schedules : s = editing[f].of
      BY <2>1, EditType DEF SchedulerInv
    <3>2. Due(s) /\ InHand(s)
      BY <1>3, <1>4, <2>1, <3>1 DEF InHand
    <3> QED BY <1>0, <3>1, <3>2
  <2> QED BY <1>0, <1>1, <2>1, EditsKeep DEF SameFor
<1> QED BY <1>5, <1>6, <1>7, <1>8, <1>9, <1>10, <1>11 DEF SchedulerInv

\* The tick ends: nothing is at work.
LEMMA RestKeeps ==
  ASSUME SchedulerInv, engine' = Rest, UNCHANGED <<row, past, linkState, running, owed, answer, entwined>>,
         editing' \in {editing, [e \in Editors |-> Rest]},
         reporting' \in {reporting, Rest}, crossed' \in SUBSET Schedules, crossed \subseteq crossed',
         refired' \in SUBSET Schedules, refired \subseteq refired',
         Ticking /\ engine.at = "sent" => \A s \in engine.now : s \in refired' \/ ~Exists(s)
  PROVE  SchedulerInv'
<1>1. ~Ticking' /\ AtWork' = {}
  BY DEF Ticking, AtWork
<1>2. SchedulerTyped'
  BY DEF SchedulerInv, SchedulerTyped, linkState
<1>3. SlotsOwed'
  BY <1>1 DEF SchedulerInv, SlotsOwed, Exists
<1>4. SwitchesSeen' /\ CopyIsFresh'
  BY <1>1 DEF SwitchesSeen, CopyIsFresh
<1>5. ReportIsFresh'
  BY <1>1 DEF SchedulerInv, ReportIsFresh, Exists
<1>6. RowsTell'
  BY DEF SchedulerInv, RowsTell, Settled, OffIsUnarmed, ReportStands, ArmedByItsSpec, Exists
<1>7. EditIsFresh'
  BY <1>1, EditsKeep DEF SameFor
<1> QED BY <1>2, <1>3, <1>4, <1>5, <1>6, <1>7 DEF SchedulerInv

LEMMA HubFallsKeeps ==
  ASSUME SchedulerInv, HubFalls
  PROVE  SchedulerInv'
<1>1. Ticking => engine.now \in SUBSET Schedules
  BY AtWorkType DEF Ticks, SchedulerInv
<1>2. refired' \in SUBSET Schedules /\ refired \subseteq refired'
  BY <1>1 DEF HubFalls, SchedulerInv, SchedulerTyped
<1>3. crossed \in SUBSET Schedules
  BY DEF SchedulerInv, SchedulerTyped
<1>4. Ticking /\ engine.at = "sent" => engine.now \subseteq refired'
  BY DEF HubFalls
<1> QED BY <1>2, <1>3, <1>4, RestKeeps DEF HubFalls

LEMMA ClaimKeeps ==
  ASSUME SchedulerInv, NEW s \in Schedules, Claim(s)
  PROVE  SchedulerInv'
<1> DEFINE first  == engine.agent = "unread"
           paused == IF first THEN agentPaused ELSE engine.agent = "paused"
           goes   == IF ~Blocked(paused) /\ agentUp THEN "send" ELSE "skip"
           agent  == IF paused THEN "paused" ELSE "free"
<1>1. Ticking /\ engine.at = "next" /\ s \in engine.left /\ engine \in Ticks
  BY AtWorkType DEF Claim, SchedulerInv
<1>2. UNCHANGED <<row, past, linkState, running, reporting, owed, answer, refired, editing, entwined>>
  BY DEF Claim, ownerState
<1>3. /\ crossed' \in SUBSET Schedules /\ crossed \subseteq crossed'
      /\ reporting # Rest /\ reporting.of = s => s \in crossed'
  BY DEF Claim, SchedulerInv, SchedulerTyped
<1>4. CASE first /\ ~Exists(s)
  <2>1. engine' = Rest
    BY <1>4 DEF Claim
  <2>2. reporting' \in {reporting, Rest} /\ refired' \in SUBSET Schedules /\ refired \subseteq refired'
    BY <1>2 DEF SchedulerInv, SchedulerTyped
  <2> QED BY <1>1, <1>2, <1>3, <2>1, <2>2, RestKeeps
<1>5. CASE ~(first /\ ~Exists(s))
  <2>1. PICK e \in Ticks : e = engine
    BY <1>1
  <2>2. PICK a : a = goes
    OBVIOUS
  <2>3. PICK g : g = agent
    OBVIOUS
  <2>4. PICK l : l = first
    OBVIOUS
  <2>5. engine' = [e EXCEPT !.left = @ \ {s}, !.now = {s}, !.locked = l, !.agent = g, !.at = a]
    BY <1>5, <2>1, <2>2, <2>3, <2>4 DEF Claim
  <2>6. a \in {"send", "skip"} /\ g \in {"paused", "free"} /\ l \in BOOLEAN
    BY <2>2, <2>3, <2>4
  <2>7. PICK f : f = engine'
    OBVIOUS
  <2>8. PICK left : left = e.left \ {s}
    OBVIOUS
  <2>9. f = [e EXCEPT !.left = left, !.now = {s}, !.locked = l, !.agent = g, !.at = a]
    BY <2>5, <2>7, <2>8
  <2>10. left \in SUBSET Schedules
    BY <2>8 DEF Ticks
  <2>11. /\ f \in Ticks /\ f.left = left /\ f.now = {s} /\ f.agent = g /\ f.at = a
         /\ f.copy = e.copy /\ f.enabled = e.enabled /\ f.touched = e.touched
    BY <2>6, <2>9, <2>10 DEF Ticks
  <2>12. Ticking' /\ engine' = f /\ AtWork' = left \cup {s}
    BY <2>7, <2>11, TickNotRest DEF AtWork, Ticking
  <2>13. AtWork = e.left \cup e.now /\ AtWork \in SUBSET Schedules
    BY <1>1, <2>1, AtWorkType DEF SchedulerInv
  <2>14. left \cup {s} = e.left /\ s \notin left
    BY <1>1, <2>1, <2>8
  <2>15. \A t \in AtWork' : t \in AtWork /\ t \in e.left
    BY <2>12, <2>13, <2>14
  <2>16. SchedulerTyped'
    BY <1>2, <1>3, <2>11, <2>12 DEF SchedulerInv, SchedulerTyped, linkState
  <2>17. SlotsOwed'
    <3>1. \A t \in e.left : t \in owed \cup refired
      BY <1>1, <2>1, <2>10 DEF SchedulerInv, SlotsOwed, Ticks
    <3>2. engine.at # "sent"
      BY <1>1
    <3> QED BY <1>1, <1>2, <2>1, <2>11, <2>12, <2>14, <3>1, <3>2 DEF SchedulerInv, SlotsOwed, Exists
  <2>18. SwitchesSeen'
    <3>1. SUFFICES ASSUME ~e.touched PROVE SwitchesSeen'
      BY <2>11, <2>12 DEF SwitchesSeen
    <3>2. /\ e.enabled = autoOn /\ (e.agent # "unread" => (e.agent = "paused" <=> agentPaused))
          /\ \A t \in AtWork : row[t].enabled
      BY <1>1, <2>1, <3>1 DEF SchedulerInv, SwitchesSeen
    <3>3. paused <=> agentPaused
      BY <2>1, <3>2
    <3>4. g = "paused" <=> agentPaused
      BY <2>3, <3>3
    <3>5. a = "send" => e.enabled /\ ~agentPaused
      BY <2>1, <2>2, <3>3 DEF Blocked
    <3> HIDE DEF first, paused, goes, agent
    <3>6. g # "paused" => g = "free"
      BY <2>6
    <3> QED BY <1>2, <2>11, <2>12, <2>15, <3>2, <3>4, <3>5, <3>6 DEF SwitchesSeen, linkState
  <2>19. CopyIsFresh'
    BY <1>2, <1>3, <2>1, <2>11, <2>12, <2>15 DEF SchedulerInv, CopyIsFresh
  <2>20. ReportIsFresh'
    BY <1>2, <1>3, <2>11, <2>12 DEF SchedulerInv, ReportIsFresh, Exists
  <2>21. RowsTell'
    BY <1>2, <1>3 DEF SchedulerInv, RowsTell, Settled, OffIsUnarmed, ReportStands, ArmedByItsSpec, Exists
  <2>22. EditIsFresh'
    BY <1>2, <1>3, <2>15, EditsStay DEF ownerState, SameFor
  <2> QED BY <2>16, <2>17, <2>18, <2>19, <2>20, <2>21, <2>22 DEF SchedulerInv
<1> QED BY <1>4, <1>5

LEMMA FireKeeps ==
  ASSUME SchedulerInv, NEW s \in Schedules, Fire(s)
  PROVE  SchedulerInv'
<1>1. Ticking /\ engine.at = "send" /\ engine.now = {s} /\ engine \in Ticks
  BY AtWorkType DEF Fire, SchedulerInv
<1>2. /\ UNCHANGED <<row, past, autoOn, agentPaused, reporting, answer, crossed, refired>>
      /\ UNCHANGED <<editing, entwined>>
  BY DEF Fire, linkState, ownerState
<1>3. /\ owed' \in SUBSET Schedules /\ running' \in SUBSET Schedules
      /\ \A t \in Schedules : t # s => (t \in owed' <=> t \in owed)
  BY DEF Fire, SchedulerInv, SchedulerTyped
<1>4. PICK e \in Ticks : e = engine
  BY <1>1
<1>5. PICK goes \in {"sent", "skip"} : engine' = [e EXCEPT !.at = goes] /\ (goes = "skip" => owed' = owed)
  <2>1. CASE engine' = [engine EXCEPT !.at = "sent"]
    <3>1. "sent" # "skip"
      OBVIOUS
    <3>2. engine' = [e EXCEPT !.at = "sent"]
      BY <1>4, <2>1
    <3> QED BY <3>1, <3>2
  <2>2. CASE engine' = [engine EXCEPT !.at = "skip"] /\ UNCHANGED owed
    <3>1. engine' = [e EXCEPT !.at = "skip"]
      BY <1>4, <2>2
    <3> QED BY <2>2, <3>1
  <2> QED BY <2>1, <2>2 DEF Fire
<1>6. PICK f : f = engine'
  OBVIOUS
<1>7. f = [e EXCEPT !.at = goes]
  BY <1>5, <1>6
<1>8. /\ f \in Ticks /\ f.left = e.left /\ f.now = e.now /\ f.agent = e.agent /\ f.at = goes
      /\ f.copy = e.copy /\ f.enabled = e.enabled /\ f.touched = e.touched
  BY <1>7 DEF Ticks
<1>9. Ticking' /\ AtWork' = AtWork
  BY <1>1, <1>4, <1>6, <1>8, TickNotRest DEF AtWork, Ticking
<1>10. SchedulerTyped'
  BY <1>2, <1>3, <1>6, <1>8 DEF SchedulerInv, SchedulerTyped
<1>11. SlotsOwed'
  BY <1>1, <1>2, <1>3, <1>4, <1>5, <1>6, <1>8, <1>9 DEF SchedulerInv, SlotsOwed, Exists
<1>12. SwitchesSeen'
  BY <1>1, <1>2, <1>4, <1>6, <1>8, <1>9 DEF SchedulerInv, SwitchesSeen
<1>13. CopyIsFresh'
  BY <1>1, <1>2, <1>4, <1>6, <1>8, <1>9 DEF SchedulerInv, CopyIsFresh
<1>14. ReportIsFresh'
  BY <1>1, <1>2, <1>4, <1>6, <1>8, <1>9 DEF SchedulerInv, ReportIsFresh, Exists
<1>15. RowsTell'
  BY <1>2 DEF SchedulerInv, RowsTell, Settled, OffIsUnarmed, ReportStands, ArmedByItsSpec, Exists
<1>16. EditIsFresh'
  BY <1>2, <1>9, EditsStay DEF ownerState, SameFor
<1> QED BY <1>10, <1>11, <1>12, <1>13, <1>14, <1>15, <1>16 DEF SchedulerInv

LEMMA SaveClaimKeeps ==
  ASSUME SchedulerInv, NEW s \in Schedules, SaveClaim(s)
  PROVE  SchedulerInv'
<1>1. Ticking /\ engine.at \in {"sent", "skip"} /\ engine.now = {s} /\ engine \in Ticks
  BY AtWorkType DEF SaveClaim, SchedulerInv
<1>2. UNCHANGED <<past, linkState, running, reporting, crossed, refired, editing, entwined>>
  BY DEF SaveClaim, ownerState
<1>3. CASE ~Exists(s)
  <2>1. engine' = Rest /\ UNCHANGED <<row, answer, owed>>
    BY <1>3 DEF SaveClaim
  <2>2. /\ reporting' \in {reporting, Rest} /\ refired' \in SUBSET Schedules /\ refired \subseteq refired'
        /\ crossed' \in SUBSET Schedules /\ crossed \subseteq crossed'
    BY <1>2 DEF SchedulerInv, SchedulerTyped
  <2> QED BY <1>1, <1>2, <1>3, <2>1, <2>2, RestKeeps
<1>4. CASE Exists(s)
  <2>1. PICK last \in {"running", "skipped"} :
          row' = [row EXCEPT ![s] = ReArmed(s, last)]
    BY <1>1, <1>4 DEF SaveClaim
  <2>2. PICK q \in Rows : q = row[s]
    BY DEF SchedulerInv, SchedulerTyped
  <2>3. PICK e \in Ticks : e = engine
    BY <1>1
  <2>4. PICK c \in Rows : c = e.copy[s]
    BY DEF Ticks
  <2>5. PICK next \in {"none", "later"} : next = NextRun(s, c.spec)
    BY DEF NextRun
  <2>6. PICK by : by = c.spec
    OBVIOUS
  <2>7. PICK to : to = IF last = c.last THEN q.last ELSE last
    OBVIOUS
  <2>8. PICK r : r = [q EXCEPT !.next = next, !.by = by, !.last = to]
    OBVIOUS
  <2>9. by \in Specs /\ to \in LastKinds /\ to # "gone"
    BY <1>4, <2>2, <2>6, <2>7 DEF Rows, LastKinds, Exists
  <2>10. /\ r \in Rows /\ r.next = next /\ r.by = by /\ r.last = to
         /\ r.spec = q.spec /\ r.enabled = q.enabled
    BY <2>8, <2>9 DEF Rows, LastKinds, Specs
  <2>11. ReArmed(s, last) = r
    BY <2>2, <2>3, <2>4, <2>5, <2>6, <2>7, <2>8, Zenon DEF ReArmed
  <2>12. row' \in [Schedules -> Rows] /\ row'[s] = r /\ \A t \in Schedules : t # s => row'[t] = row[t]
    BY <2>1, <2>10, <2>11 DEF SchedulerInv, SchedulerTyped
  <2>13. /\ row'[s].enabled = row[s].enabled /\ row'[s].spec = row[s].spec /\ row'[s].by = engine.copy[s].spec
         /\ row'[s].next # "due" /\ row'[s].last # "gone" /\ row[s].last # "gone"
    BY <1>4, <2>2, <2>3, <2>4, <2>6, <2>9, <2>10, <2>12 DEF Exists
  <2>14. /\ answer' = IF s \in crossed THEN answer ELSE [answer EXCEPT ![s] = "none"]
         /\ owed' = owed \ {s}
    BY <1>4 DEF SaveClaim
  <2>15. /\ answer' \in [Schedules -> {"none", "ok"}] /\ (s \notin crossed => answer'[s] = "none")
         /\ \A t \in Schedules : t # s => answer'[t] = answer[t]
    BY <2>14 DEF SchedulerInv, SchedulerTyped
  <2>16. s \in AtWork
    BY <1>1, AtWorkType DEF SchedulerInv
  <2>17. /\ engine' \in Ticks \cup {Rest}
         /\ Ticking' => /\ engine'.at = "next" /\ engine'.now = {} /\ engine'.left = engine.left
                        /\ engine'.copy = engine.copy /\ engine'.enabled = engine.enabled
                        /\ engine'.agent = engine.agent /\ engine'.touched = engine.touched
                        /\ AtWork' = engine.left
         /\ ~Ticking' => AtWork' = {}
    <3>1. CASE engine.left = {}
      <4>1. engine' = Rest
        BY <1>4, <3>1 DEF SaveClaim
      <4> QED BY <4>1 DEF Ticking, AtWork
    <3>2. CASE engine.left # {}
      <4>1. PICK f : f = engine'
        OBVIOUS
      <4>2. f = [e EXCEPT !.at = "next", !.now = {}, !.locked = FALSE]
        BY <1>4, <2>3, <3>2, <4>1 DEF SaveClaim
      <4>3. /\ f \in Ticks /\ f.at = "next" /\ f.now = {} /\ f.left = e.left /\ f.copy = e.copy
            /\ f.enabled = e.enabled /\ f.agent = e.agent /\ f.touched = e.touched
        BY <4>2 DEF Ticks
      <4>4. Ticking' /\ AtWork' = f.left
        BY <4>1, <4>3, TickNotRest DEF Ticking, AtWork
      <4> QED BY <2>3, <4>1, <4>3, <4>4
    <3> QED BY <3>1, <3>2
  <2>18. \A t \in engine.left : t \in AtWork /\ t \in Schedules /\ t # s
    BY <1>1, AtWorkType DEF SchedulerInv, SlotsOwed
  <2>19. SchedulerTyped'
    BY <1>2, <2>12, <2>14, <2>15, <2>17 DEF SchedulerInv, SchedulerTyped, linkState
  <2>20. SlotsOwed'
    BY <1>1, <1>2, <2>12, <2>13, <2>14, <2>17, <2>18 DEF SchedulerInv, SlotsOwed, Exists
  <2>21. SwitchesSeen'
    BY <1>1, <1>2, <2>12, <2>13, <2>17, <2>18 DEF SchedulerInv, SwitchesSeen, linkState
  <2>22. CopyIsFresh'
    BY <1>2, <2>12, <2>17, <2>18 DEF SchedulerInv, CopyIsFresh
  <2>23. ReportIsFresh'
    <3>1. reporting # Rest => reporting.of \in Schedules
      BY AtWorkType DEF SchedulerInv
    <3>2. reporting # Rest /\ reporting.of = s => s \in crossed
      BY <1>1 DEF SchedulerInv, ReportIsFresh
    <3> QED BY <1>2, <2>12, <2>17, <3>1, <3>2 DEF SchedulerInv, ReportIsFresh, Exists
  <2>24. RowsTell'
    <3>1. s \notin crossed => row[s].enabled /\ row[s].spec = engine.copy[s].spec
      BY <2>16 DEF SchedulerInv, CopyIsFresh
    <3> QED BY <1>2, <2>12, <2>13, <2>15, <3>1
            DEF SchedulerInv, RowsTell, Settled, OffIsUnarmed, ReportStands, ArmedByItsSpec, Exists
  <2>25. EditIsFresh'
    <3>1. ASSUME NEW f \in Editors, editing[f] # Rest, editing[f].of = s PROVE s \notin Settled
      BY <2>16, <3>1 DEF SchedulerInv, EditIsFresh, Settled
    <3>2. InHand(s) => s \notin Settled
      BY <3>1 DEF InHand
    <3>3. Settled' = Settled
      BY <1>2 DEF Settled
    <3>4. \A t \in Schedules : t \in Settled' /\ InHand(t) => SameFor(t)
      BY <2>12, <3>2, <3>3 DEF SameFor
    <3>5. AtWork' \subseteq AtWork
      BY <2>17, <2>18
    <3> QED BY <1>2, <3>4, <3>5, EditsStay DEF ownerState
  <2> QED BY <2>19, <2>20, <2>21, <2>22, <2>23, <2>24, <2>25 DEF SchedulerInv
<1> QED BY <1>3, <1>4

LEMMA ReportLoadsKeeps ==
  ASSUME SchedulerInv, NEW s \in Schedules, ReportLoads(s)
  PROVE  SchedulerInv'
<1>1. UNCHANGED <<row, past, engine, linkState, owed, answer, refired, editing, entwined>>
  BY DEF ReportLoads, ownerState
<1>2. crossed' = crossed \cup (AtWork \cap {s}) /\ running' \in SUBSET Schedules
  BY DEF ReportLoads, SchedulerInv, SchedulerTyped
<1>3. reporting' = IF Exists(s) THEN [of |-> s, last |-> row[s].last] ELSE Rest
  BY DEF ReportLoads
<1>4. row[s].last \in LastKinds
  BY DEF SchedulerInv, SchedulerTyped, Rows, LastKinds
<1>5. /\ reporting' \in Reports \cup {Rest}
      /\ reporting' # Rest => reporting'.of = s /\ reporting'.last = row[s].last
  BY <1>3, <1>4 DEF Reports
<1>6. AtWork' = AtWork /\ (Ticking' <=> Ticking)
  BY <1>1 DEF AtWork, Ticking
<1>7. SchedulerTyped'
  BY <1>1, <1>2, <1>5 DEF SchedulerInv, SchedulerTyped, linkState
<1>8. SlotsOwed'
  BY <1>1, <1>6 DEF SchedulerInv, SlotsOwed, Exists
<1>9. SwitchesSeen' /\ CopyIsFresh'
  BY <1>1, <1>2, <1>6 DEF SchedulerInv, SwitchesSeen, CopyIsFresh, linkState
<1>10. ReportIsFresh'
  BY <1>1, <1>2, <1>5, <1>6, AtWorkType DEF SchedulerInv, ReportIsFresh, Exists
<1>11. RowsTell'
  BY <1>1, <1>2 DEF SchedulerInv, RowsTell, Settled, OffIsUnarmed, ReportStands, ArmedByItsSpec, Exists
<1>12. EditIsFresh'
  BY <1>1, <1>2, <1>6, EditsStay DEF ownerState, SameFor
<1> QED BY <1>7, <1>8, <1>9, <1>10, <1>11, <1>12 DEF SchedulerInv

LEMMA ReportSavesKeeps ==
  ASSUME SchedulerInv, ReportSaves
  PROVE  SchedulerInv'
<1> DEFINE s == reporting.of
<1>1. reporting # Rest /\ reporting' = Rest /\ s \in Schedules /\ reporting \in Reports
  BY AtWorkType DEF ReportSaves, SchedulerInv
<1>2. UNCHANGED <<past, engine, linkState, running, owed, refired, editing, entwined>>
  BY DEF ReportSaves, ownerState
<1>3. AtWork' = AtWork /\ (Ticking' <=> Ticking)
  BY <1>2 DEF AtWork, Ticking
<1>4. crossed' \in SUBSET Schedules /\ crossed \subseteq crossed'
  <2>1. crossed \in SUBSET Schedules
    BY DEF SchedulerInv, SchedulerTyped
  <2>2. crossed' = crossed \cup (AtWork \cap {s}) \/ crossed' = crossed
    BY Zenon DEF ReportSaves
  <2> HIDE DEF s
  <2> QED BY <1>1, <2>1, <2>2
<1>5. /\ row' \in [Schedules -> Rows] /\ answer' \in [Schedules -> {"none", "ok"}]
      /\ \A t \in Schedules :
           /\ row'[t].enabled = row[t].enabled /\ row'[t].spec = row[t].spec /\ row'[t].by = row[t].by
           /\ row'[t].next = row[t].next /\ (row'[t].last = "gone" <=> row[t].last = "gone")
           /\ t # s => row'[t] = row[t] /\ answer'[t] = answer[t]
      /\ Exists(s) /\ s \notin crossed => row'[s].last = "ok" /\ answer'[s] = "ok"
  <2>1. CASE Exists(s)
    <3>1. PICK q \in Rows : q = row[s]
      BY <1>1 DEF SchedulerInv, SchedulerTyped
    <3>2. PICK last : last = IF reporting.last = "ok" THEN q.last ELSE "ok"
      OBVIOUS
    <3>3. PICK r : r = [q EXCEPT !.last = last]
      OBVIOUS
    <3>4. last \in LastKinds /\ last # "gone"
      BY <2>1, <3>1, <3>2 DEF Rows, LastKinds, Exists
    <3>5. /\ r \in Rows /\ r.last = last /\ r.enabled = q.enabled /\ r.spec = q.spec /\ r.by = q.by
          /\ r.next = q.next
      BY <3>3, <3>4 DEF Rows, LastKinds
    <3>6. ReportWritten(s) = r
      BY <3>1, <3>2, <3>3, Zenon DEF ReportWritten
    <3>7. row' = [row EXCEPT ![s] = r] /\ answer' = [answer EXCEPT ![s] = "ok"]
      BY <2>1, <3>6 DEF ReportSaves
    <3>8. s \notin crossed => last = "ok"
      BY <1>1, <2>1, <3>1, <3>2 DEF SchedulerInv, ReportIsFresh
    <3> HIDE DEF s
    <3>9. /\ row' \in [Schedules -> Rows] /\ answer' \in [Schedules -> {"none", "ok"}]
          /\ row'[s] = r /\ answer'[s] = "ok"
          /\ \A t \in Schedules : t # s => row'[t] = row[t] /\ answer'[t] = answer[t]
      BY <1>1, <3>5, <3>7 DEF SchedulerInv, SchedulerTyped
    <3> QED BY <1>1, <2>1, <3>1, <3>4, <3>5, <3>8, <3>9 DEF Exists
  <2>2. CASE ~Exists(s)
    <3>1. UNCHANGED <<row, answer>>
      BY <2>2 DEF ReportSaves
    <3> QED BY <2>2, <3>1 DEF SchedulerInv, SchedulerTyped
  <2> QED BY <2>1, <2>2
<1> HIDE DEF s
<1>6. SchedulerTyped'
  BY <1>1, <1>2, <1>4, <1>5 DEF SchedulerInv, SchedulerTyped, linkState
<1>7. SlotsOwed'
  BY <1>2, <1>3, <1>5 DEF SchedulerInv, SlotsOwed, Exists
<1>8. SwitchesSeen' /\ CopyIsFresh'
  BY <1>2, <1>3, <1>4, <1>5, AtWorkType DEF SchedulerInv, SwitchesSeen, CopyIsFresh, linkState
<1>9. ReportIsFresh'
  BY <1>1 DEF ReportIsFresh
<1>10. RowsTell'
  BY <1>2, <1>4, <1>5 DEF SchedulerInv, RowsTell, Settled, OffIsUnarmed, ReportStands, ArmedByItsSpec, Exists
<1>11. EditIsFresh'
  <2>1. \A t \in Schedules : SameFor(t)
    BY <1>5 DEF SameFor
  <2> QED BY <1>2, <1>3, <1>4, <2>1, EditsStay DEF ownerState
<1> QED BY <1>6, <1>7, <1>8, <1>9, <1>10, <1>11 DEF SchedulerInv

LEMMA SchedulerInvInit == SchedulerInit => SchedulerInv
<1> SUFFICES ASSUME SchedulerInit PROVE SchedulerInv
  OBVIOUS
<1>1. PICK spec \in [Schedules -> Specs] : row = [s \in Schedules |-> NewRow(spec[s])]
  BY DEF SchedulerInit
<1>2. \A s \in Schedules : NewRow(spec[s]) \in Rows
  BY DEF NewRow, Rows, Specs
<1>3. \A s \in Schedules : /\ row[s] = NewRow(spec[s]) /\ row[s].next = "later" /\ row[s].last = "never"
                           /\ row[s].enabled /\ row[s].by = spec[s] /\ row[s].spec = spec[s]
  BY <1>1 DEF NewRow
<1>4. ~Ticking /\ AtWork = {}
  BY DEF SchedulerInit, Ticking, AtWork
<1>5. SchedulerTyped
  BY <1>1, <1>2 DEF SchedulerInit, SchedulerTyped
<1>6. SlotsOwed /\ SwitchesSeen /\ CopyIsFresh
  BY <1>3, <1>4 DEF SlotsOwed, SwitchesSeen, CopyIsFresh, Exists
<1>7. ReportIsFresh /\ RowsTell
  BY <1>3 DEF SchedulerInit, ReportIsFresh, RowsTell, Settled, OffIsUnarmed, ReportStands, ArmedByItsSpec
<1>8. EditIsFresh
  BY DEF SchedulerInit, EditIsFresh
<1> QED BY <1>5, <1>6, <1>7, <1>8 DEF SchedulerInv

LEMMA SchedulerStep ==
  ASSUME SchedulerInv, [SchedulerNext]_scheduleVars
  PROVE  SchedulerInv'
<1>1. CASE UNCHANGED scheduleVars
  BY <1>1 DEF scheduleVars, SchedulerInv, SchedulerTyped, SlotsOwed, SwitchesSeen, CopyIsFresh,
              ReportIsFresh, EditIsFresh, FreshFor, RowsTell, Settled, OffIsUnarmed, ReportStands,
              ArmedByItsSpec, Exists, AtWork, Ticking
<1>2. CASE SchedulerNext
  BY <1>2, UpdateLoadsKeeps, RunNowLoadsKeeps, EditSavesKeeps, EditFailsKeeps, DeleteScheduleKeeps, TimeComesKeeps, ClaimKeeps, FireKeeps,
     SaveClaimKeeps, ReportLoadsKeeps, FlipKeeps, TickLoadsKeeps, ReportSavesKeeps, HubFallsKeeps
     DEF SchedulerNext
<1> QED BY <1>1, <1>2

LEMMA SchedulerInvAlways == SchedulerSpec => []SchedulerInv
BY SchedulerInvInit, SchedulerStep, PTL DEF SchedulerSpec

\* For any number of schedules and any order of ticks, edits, runs by hand and
\* halts: a slot fires once, unless the hub fell before the commit; no run goes out
\* with the switch, the agent or its row off, unless that changed during the tick;
\* a row no report crossed says what its last run did; and a row that neither the
\* tick nor a second request held while the owner changed it is armed by its timing.
THEOREM SchedulesHoldAlways == SchedulerSpec => SchedulesHold
<1>1. SchedulerInv /\ SchedulerInv' /\ [SchedulerNext]_scheduleVars
        => [(ReportStands /\ ArmedByItsSpec)' /\ OncePerSlot /\ SwitchStopsRuns]_scheduleVars
  <2> SUFFICES ASSUME SchedulerInv, SchedulerInv', SchedulerNext
               PROVE  (ReportStands /\ ArmedByItsSpec)' /\ OncePerSlot /\ SwitchStopsRuns
    OBVIOUS
  <2>1. ASSUME NEW s \in Schedules, Sends(s)
        PROVE  Ticking /\ engine.at = "send" /\ engine.now = {s} /\ engine \in Ticks /\ s \in AtWork
    <3>1. Ticking
      BY <2>1 DEF Sends, Ticking, Rest
    <3> QED BY <2>1, <3>1, AtWorkType DEF Sends, SchedulerInv
  <2>2. OncePerSlot
    BY <2>1 DEF OncePerSlot, SchedulerInv, SlotsOwed
  <2>3. SwitchStopsRuns
    <3> SUFFICES ASSUME NEW s \in Schedules, Sends(s), ~engine.touched
                 PROVE  autoOn /\ ~agentPaused /\ row[s].enabled
      BY DEF SwitchStopsRuns
    <3> QED BY <2>1 DEF SchedulerInv, SwitchesSeen
  <2> QED BY <2>2, <2>3 DEF SchedulerInv, RowsTell
<1>2. SchedulerSpec => [][SchedulerNext]_scheduleVars
  BY PTL DEF SchedulerSpec
<1> QED BY <1>1, <1>2, SchedulerInvAlways, PTL DEF SchedulesHold

\* The types of the scheduler's rows and of the tick at work.
THEOREM SchedulerTypesHold == SchedulerSpec => []SchedulerTypeOK
<1>1. SchedulerInv => SchedulerTypeOK
  <2> SUFFICES ASSUME SchedulerInv PROVE SchedulerTypeOK
    OBVIOUS
  <2>1. engine = Rest \/ (engine.at \in {"next", "send", "sent", "skip"} /\ engine.left \subseteq Schedules)
    BY DEF SchedulerInv, SchedulerTyped, Ticks
  <2> QED BY <2>1 DEF SchedulerTypeOK, SchedulerInv, SchedulerTyped, RowsTell, OffIsUnarmed
<1> QED BY <1>1, SchedulerInvAlways, PTL

(***************************************************************************)
(* Directory.  Two creations under one name, unless entangled, are one     *)
(* (CreationsApart), and the one about to add finds the name still free    *)
(* (AddsAreFree).  A broadcast has told, skipped or left every recipient,  *)
(* and has one copy for each it told (CastInv).  Preset names are unique,  *)
(* and the one rename under way goes to a name no row has (PresetsInv).    *)
(***************************************************************************)
Creations == [at : {"other", "add"}, kind : {"agent", "group"}, name : Names]
Casts == [at : {"store", "told"}, to : SUBSET Names, left : SUBSET Names, sent : SUBSET Names,
          skipped : SUBSET Names, push : SUBSET Names, offline : SUBSET Names]
PresetNames == SeedNames \cup {Renamed}
Renames == [id : Presets, name : PresetNames]

DirectoryTyped ==
  /\ agents \in SUBSET Names /\ groups \in SUBSET Names /\ entangled \in SUBSET Names
  /\ members \subseteq groups \X agents
  /\ creating \in [Clerks -> Creations \cup {Off}]
  /\ cast \in Casts \cup {Off} /\ copies \in [Names -> Nat]
  /\ preset \in [Presets -> PresetNames \cup {NoName}] /\ renaming \in SUBSET Renames
  /\ muddled \in BOOLEAN
CreationsApart ==
  \A c, d \in Clerks :
    creating[c] # Off /\ creating[d] # Off /\ creating[c].name = creating[d].name
      => c = d \/ creating[c].name \in entangled
AddsAreFree ==
  \A c \in Clerks : creating[c].at = "add" => Free(c) \/ creating[c].name \in entangled
SlugsInv == OneNamespace /\ CreationsApart /\ AddsAreFree
CastInv ==
  cast # Off =>
    /\ cast.sent \cup cast.skipped \cup cast.left = cast.to
    /\ cast.left \cap cast.sent = {}
    /\ cast.push \subseteq cast.sent /\ cast.offline \subseteq cast.sent
    /\ \A n \in Names : copies[n] = IF n \in cast.sent THEN 1 ELSE 0
    /\ cast.at = "told" => cast.left = {}
PresetsInv ==
  ~muddled =>
    /\ \A i, j \in Presets : preset[i] = preset[j] /\ preset[i] # NoName => i = j
    /\ \A r, q \in renaming : r = q
    /\ \A r \in renaming : RowsNamed(r.name) = {}

DirectoryInv == DirectoryTyped /\ SlugsInv /\ CastInv /\ PresetsInv

LEMMA SeedsAre ==
  /\ NoName \notin PresetNames /\ SeedNames \subseteq PresetNames /\ IsFiniteSet(Presets)
  /\ \A i \in DOMAIN Seeds : \A k \in 1 .. i : k \in DOMAIN Seeds
  /\ \A i \in DOMAIN Seeds : Seeds[i] \in SeedNames
<1>1. DOMAIN Seeds = 1 .. Len(Seeds) /\ Len(Seeds) \in Nat
  BY DirectoryAssumption
<1>2. \A i \in DOMAIN Seeds : \A k \in 1 .. i : k \in DOMAIN Seeds
  BY <1>1
<1> QED BY <1>2, DirectoryAssumption DEF PresetNames, SeedNames

\* What a clerk is busy with.
LEMMA CreationType ==
  ASSUME DirectoryTyped, NEW c \in Clerks
  PROVE  /\ creating[c] # Off <=> creating[c] \in Creations
         /\ creating[c].at \in {"other", "add"} => creating[c] # Off
         /\ creating[c] # Off => /\ creating[c].name \in Names /\ creating[c].kind \in {"agent", "group"}
                                 /\ creating[c].at \in {"other", "add"}
BY DEF DirectoryTyped, Creations, Off

LEMMA CreateLooksKeeps ==
  ASSUME DirectoryTyped, SlugsInv, NEW c \in Clerks, NEW kind \in {"agent", "group"}, NEW n \in Names,
         CreateLooks(c, kind, n)
  PROVE  SlugsInv' /\ creating' \in [Clerks -> Creations \cup {Off}] /\ entangled' \in SUBSET Names
<1>1. PICK q : q = [at |-> "other", kind |-> kind, name |-> n]
  OBVIOUS
<1>2. q \in Creations /\ q.at = "other" /\ q.name = n /\ q # Off
  BY <1>1 DEF Creations, Off
<1>3. /\ creating[c] = Off /\ creating' = [creating EXCEPT ![c] = q]
      /\ UNCHANGED <<agents, groups, members>>
  BY <1>1 DEF CreateLooks
<1>4. /\ creating' \in [Clerks -> Creations \cup {Off}] /\ creating'[c] = q
      /\ \A d \in Clerks : d # c => creating'[d] = creating[d]
  BY <1>2, <1>3 DEF DirectoryTyped
<1>5. /\ entangled' \in SUBSET Names /\ entangled \subseteq entangled'
      /\ \A d \in Clerks : creating[d] # Off /\ creating[d].name = n => n \in entangled'
  BY DEF CreateLooks, DirectoryTyped
<1>6. OneNamespace'
  BY <1>3, <1>5 DEF SlugsInv, OneNamespace
<1>7. CreationsApart'
  BY <1>2, <1>3, <1>4, <1>5 DEF SlugsInv, CreationsApart
<1>8. AddsAreFree'
  BY <1>2, <1>3, <1>4, <1>5 DEF SlugsInv, AddsAreFree, Free, Table
<1> QED BY <1>4, <1>5, <1>6, <1>7, <1>8 DEF SlugsInv

LEMMA CreateLooksAsideKeeps ==
  ASSUME DirectoryTyped, SlugsInv, NEW c \in Clerks, CreateLooksAside(c)
  PROVE  SlugsInv' /\ creating' \in [Clerks -> Creations \cup {Off}]
<1>1. PICK p \in Creations : p = creating[c]
  BY CreationType DEF CreateLooksAside
<1>2. PICK q : q = IF Free(c) THEN [p EXCEPT !.at = "add"] ELSE Off
  OBVIOUS
<1>3. \/ q \in Creations /\ q # Off /\ q.name = p.name /\ q.kind = p.kind /\ Free(c)
      \/ q = Off
  BY <1>2 DEF Creations, Off
<1>4. /\ creating' = [creating EXCEPT ![c] = q] /\ UNCHANGED <<agents, groups, members, entangled>>
  BY <1>1, <1>2 DEF CreateLooksAside
<1>5. /\ creating' \in [Clerks -> Creations \cup {Off}] /\ creating'[c] = q
      /\ \A d \in Clerks : d # c => creating'[d] = creating[d]
  BY <1>3, <1>4 DEF DirectoryTyped
<1>6. p # Off /\ Off.at # "add"
  BY <1>1, CreationType DEF Off
<1>7. OneNamespace'
  BY <1>4 DEF SlugsInv, OneNamespace
<1>8. CreationsApart'
  BY <1>1, <1>3, <1>4, <1>5, <1>6 DEF SlugsInv, CreationsApart
<1>9. AddsAreFree'
  BY <1>1, <1>3, <1>4, <1>5, <1>6 DEF SlugsInv, AddsAreFree, Free, Table
<1> QED BY <1>5, <1>7, <1>8, <1>9 DEF SlugsInv

LEMMA CreateAddsKeeps ==
  ASSUME DirectoryTyped, SlugsInv, NEW c \in Clerks, CreateAdds(c)
  PROVE  /\ SlugsInv' /\ creating' \in [Clerks -> Creations \cup {Off}]
         /\ agents' \in SUBSET Names /\ groups' \in SUBSET Names
         /\ agents \subseteq agents' /\ groups \subseteq groups'
<1>1. PICK p \in Creations : p = creating[c]
  BY CreationType DEF CreateAdds
<1>2. /\ creating' = [creating EXCEPT ![c] = Off] /\ UNCHANGED entangled /\ p.at = "add"
      /\ IF p.kind = "agent" THEN agents' = agents \cup {p.name} /\ groups' = groups
                             ELSE groups' = groups \cup {p.name} /\ agents' = agents
  BY <1>1 DEF CreateAdds
<1>3. /\ creating' \in [Clerks -> Creations \cup {Off}] /\ creating'[c] = Off
      /\ \A d \in Clerks : d # c => creating'[d] = creating[d]
  BY <1>2 DEF DirectoryTyped
<1>4. p # Off /\ Off.at # "add" /\ p.name \in Names /\ p.kind \in {"agent", "group"}
  BY <1>1, CreationType DEF Off
<1>5. /\ agents' \in SUBSET Names /\ groups' \in SUBSET Names
      /\ agents \subseteq agents' /\ groups \subseteq groups'
      /\ agents' \subseteq agents \cup {p.name} /\ groups' \subseteq groups \cup {p.name}
  BY <1>2, <1>4 DEF DirectoryTyped
<1>6. OneNamespace'
  BY <1>1, <1>2, <1>4 DEF SlugsInv, OneNamespace, AddsAreFree, Free, Table
<1>7. CreationsApart'
  BY <1>2, <1>3 DEF SlugsInv, CreationsApart
<1>8. AddsAreFree'
  <2> SUFFICES ASSUME NEW d \in Clerks, creating'[d].at = "add", creating'[d].name \notin entangled
               PROVE  Free(d)'
    BY <1>2 DEF AddsAreFree
  <2>1. d # c /\ creating'[d] = creating[d]
    BY <1>3, <1>4
  <2>2. creating[d] # Off /\ creating[d].name # p.name
    BY <1>1, <1>4, <2>1, CreationType DEF SlugsInv, CreationsApart
  <2>3. Free(d)
    BY <1>2, <2>1 DEF SlugsInv, AddsAreFree
  <2> QED BY <1>5, <2>1, <2>2, <2>3 DEF Free, Table
<1> QED BY <1>3, <1>5, <1>6, <1>7, <1>8 DEF SlugsInv

LEMMA SlugsKeep ==
  ASSUME DirectoryInv, SlugNext
  PROVE  DirectoryInv'
<1>0. DirectoryTyped /\ SlugsInv
  BY DEF DirectoryInv
<1>1. UNCHANGED <<cast, copies, preset, renaming, muddled>>
  BY DEF SlugNext, CreateLooks, CreateLooksAside, CreateAdds, DeleteGroup, AddMember, RemoveMember,
         castVars, presetVars
<1>2. CastInv' /\ PresetsInv'
  BY <1>1 DEF DirectoryInv, CastInv, PresetsInv, RowsNamed
<1>3. ASSUME NEW c \in Clerks, NEW kind \in {"agent", "group"}, NEW n \in Names, CreateLooks(c, kind, n)
      PROVE  DirectoryTyped' /\ SlugsInv'
  BY <1>0, <1>1, <1>3, CreateLooksKeeps DEF DirectoryTyped, CreateLooks
<1>4. ASSUME NEW c \in Clerks, CreateLooksAside(c)
      PROVE  DirectoryTyped' /\ SlugsInv'
  BY <1>0, <1>1, <1>4, CreateLooksAsideKeeps DEF DirectoryTyped, CreateLooksAside
<1>5. ASSUME NEW c \in Clerks, CreateAdds(c)
      PROVE  DirectoryTyped' /\ SlugsInv'
  <2>1. UNCHANGED <<members, entangled>>
    BY <1>5 DEF CreateAdds
  <2>2. members' \subseteq groups' \X agents'
    BY <1>0, <1>5, <2>1, CreateAddsKeeps DEF DirectoryTyped
  <2> QED BY <1>0, <1>1, <1>5, <2>1, <2>2, CreateAddsKeeps DEF DirectoryTyped
<1>6. ASSUME NEW g \in Names, DeleteGroup(g)
      PROVE  DirectoryTyped' /\ SlugsInv'
  <2>1. /\ groups' = groups \ {g} /\ members' = {m \in members : m[1] # g}
        /\ UNCHANGED <<agents, creating, entangled>>
    BY <1>6 DEF DeleteGroup, StrippedOf
  <2>2. members' \subseteq groups' \X agents'
    BY <1>0, <2>1 DEF DirectoryTyped
  <2>3. DirectoryTyped'
    BY <1>0, <1>1, <2>1, <2>2 DEF DirectoryTyped
  <2>4. SlugsInv'
    BY <1>0, <2>1 DEF SlugsInv, OneNamespace, CreationsApart, AddsAreFree, Free, Table
  <2> QED BY <2>3, <2>4
<1>7. ASSUME NEW g \in Names, NEW a \in Names, AddMember(g, a) \/ RemoveMember(g, a)
      PROVE  DirectoryTyped' /\ SlugsInv'
  <2>1. UNCHANGED <<agents, groups, creating, entangled>>
    BY <1>7 DEF AddMember, RemoveMember
  <2>2. members' \subseteq groups' \X agents'
    BY <1>0, <1>7 DEF AddMember, RemoveMember, DirectoryTyped
  <2>3. SlugsInv'
    BY <1>0, <2>1 DEF SlugsInv, OneNamespace, CreationsApart, AddsAreFree, Free, Table
  <2> QED BY <1>0, <1>1, <2>1, <2>2, <2>3 DEF DirectoryTyped
<1>8. DirectoryTyped' /\ SlugsInv'
  BY <1>3, <1>4, <1>5, <1>6, <1>7 DEF SlugNext
<1> QED BY <1>2, <1>8 DEF DirectoryInv

LEMMA BroadcastKeeps ==
  ASSUME DirectoryTyped, NEW ref, Broadcast(ref)
  PROVE  CastInv' /\ cast' \in Casts /\ copies' \in [Names -> Nat]
<1>1. PICK to : to = Resolved(ref)
  OBVIOUS
<1>2. to \in SUBSET Names
  BY <1>1 DEF Resolved, DirectoryTyped
<1>3. PICK f : f = [at |-> "store", to |-> to, left |-> to, sent |-> {},
                    skipped |-> {}, push |-> {}, offline |-> {}]
  OBVIOUS
<1>4. /\ f \in Casts /\ f.at = "store" /\ f.to = to /\ f.left = to /\ f.sent = {}
      /\ f.skipped = {} /\ f.push = {} /\ f.offline = {}
  BY <1>2, <1>3 DEF Casts
<1>5. cast' = f /\ copies' = [n \in Names |-> 0]
  BY <1>1, <1>3 DEF Broadcast
<1> QED BY <1>4, <1>5 DEF CastInv

LEMMA CastStoresKeeps ==
  ASSUME DirectoryTyped, CastInv, NEW a \in Names, CastStores(a)
  PROVE  CastInv' /\ cast' \in Casts /\ copies' \in [Names -> Nat]
<1>1. cast.at = "store" /\ a \in cast.left /\ cast # Off
  BY DEF CastStores, Off
<1>2. PICK e \in Casts : e = cast
  BY <1>1 DEF DirectoryTyped
<1>3. e.left \in SUBSET Names /\ e.sent \in SUBSET Names /\ e.skipped \in SUBSET Names /\ e.push \in SUBSET Names
  BY DEF Casts
<1>4. PICK f : f = cast'
  OBVIOUS
<1>5. PICK left : left = e.left \ {a}
  OBVIOUS
<1>6. CASE copies' = [copies EXCEPT ![a] = @ + 1]
           /\ cast' = [cast EXCEPT !.left = @ \ {a}, !.sent = @ \cup {a}, !.push = @ \cup {a}]
  <2>1. PICK sent : sent = e.sent \cup {a}
    OBVIOUS
  <2>2. PICK push : push = e.push \cup {a}
    OBVIOUS
  <2>3. f = [e EXCEPT !.left = left, !.sent = sent, !.push = push]
    BY <1>2, <1>4, <1>5, <1>6, <2>1, <2>2
  <2>4. left \in SUBSET Names /\ sent \in SUBSET Names /\ push \in SUBSET Names
    BY <1>3, <1>5, <2>1, <2>2
  <2>5. /\ f \in Casts /\ f.at = e.at /\ f.to = e.to /\ f.left = left /\ f.sent = sent
        /\ f.skipped = e.skipped /\ f.push = push /\ f.offline = e.offline
    BY <2>3, <2>4 DEF Casts
  <2>6. copies' \in [Names -> Nat] /\ \A n \in Names : copies'[n] = IF n = a THEN copies[n] + 1 ELSE copies[n]
    BY <1>6 DEF DirectoryTyped
  <2>7. copies[a] = 0
    BY <1>1, <1>2 DEF CastInv
  <2> QED BY <1>1, <1>2, <1>3, <1>4, <1>5, <2>1, <2>2, <2>5, <2>6, <2>7 DEF CastInv
<1>7. CASE Skipped(a) /\ UNCHANGED copies
  <2>1. PICK skipped : skipped = e.skipped \cup {a}
    OBVIOUS
  <2>2. f = [e EXCEPT !.left = left, !.skipped = skipped]
    BY <1>2, <1>4, <1>5, <1>7, <2>1 DEF Skipped
  <2>3. left \in SUBSET Names /\ skipped \in SUBSET Names
    BY <1>3, <1>5, <2>1
  <2>4. /\ f \in Casts /\ f.at = e.at /\ f.to = e.to /\ f.left = left /\ f.sent = e.sent
        /\ f.skipped = skipped /\ f.push = e.push /\ f.offline = e.offline
    BY <2>2, <2>3 DEF Casts
  <2> QED BY <1>1, <1>2, <1>3, <1>4, <1>5, <1>7, <2>1, <2>4 DEF CastInv, DirectoryTyped
<1> QED BY <1>6, <1>7 DEF CastStores

LEMMA CastPushesKeeps ==
  ASSUME DirectoryTyped, CastInv, CastPushes
  PROVE  CastInv' /\ cast' \in Casts
<1>1. cast.at = "store" /\ cast.left = {} /\ UNCHANGED copies /\ cast # Off
  <2>1. cast.at = "store" /\ cast.left = {} /\ UNCHANGED copies
    BY DEF CastPushes
  <2> QED BY <2>1 DEF Off
<1>2. PICK e \in Casts : e = cast
  BY <1>1 DEF DirectoryTyped
<1>3. PICK f : f = cast'
  OBVIOUS
<1>4. ASSUME NEW a \in cast.push, NEW off \in BOOLEAN,
             cast' = [cast EXCEPT !.push = @ \ {a}, !.offline = IF off THEN @ \cup {a} ELSE @]
      PROVE  CastInv' /\ cast' \in Casts
  <2>1. PICK push : push = e.push \ {a}
    OBVIOUS
  <2>2. PICK offline : offline = IF off THEN e.offline \cup {a} ELSE e.offline
    OBVIOUS
  <2>3. f = [e EXCEPT !.push = push, !.offline = offline]
    BY <1>2, <1>3, <1>4, <2>1, <2>2
  <2>4. /\ a \in e.push /\ push \in SUBSET Names /\ offline \in SUBSET Names
        /\ push \subseteq e.push /\ offline \subseteq e.offline \cup {a}
    BY <1>2, <1>4, <2>1, <2>2 DEF Casts
  <2>5. /\ f \in Casts /\ f.at = e.at /\ f.to = e.to /\ f.left = e.left /\ f.sent = e.sent
        /\ f.skipped = e.skipped /\ f.push = push /\ f.offline = offline
    BY <2>3, <2>4 DEF Casts
  <2> QED BY <1>1, <1>2, <1>3, <2>4, <2>5 DEF CastInv
<1>5. ASSUME cast' = [cast EXCEPT !.at = "told"]
      PROVE  CastInv' /\ cast' \in Casts
  <2>1. f = [e EXCEPT !.at = "told"]
    BY <1>2, <1>3, <1>5
  <2>2. /\ f \in Casts /\ f.to = e.to /\ f.left = e.left /\ f.sent = e.sent
        /\ f.skipped = e.skipped /\ f.push = e.push /\ f.offline = e.offline
    BY <2>1 DEF Casts
  <2> QED BY <1>1, <1>2, <1>3, <2>2 DEF CastInv
<1> QED BY <1>4, <1>5 DEF CastPushes

LEMMA CastsKeep ==
  ASSUME DirectoryInv, CastNext
  PROVE  DirectoryInv'
<1>0. DirectoryTyped /\ SlugsInv /\ CastInv /\ PresetsInv
  BY DEF DirectoryInv
<1>1. UNCHANGED <<agents, groups, members, creating, entangled, preset, renaming, muddled>>
  BY DEF CastNext, Broadcast, CastStores, CastPushes, slugVars, presetVars
<1>2. CastPushes => UNCHANGED copies
  BY DEF CastPushes
<1>3. CastInv' /\ cast' \in Casts /\ copies' \in [Names -> Nat]
  BY <1>0, <1>2, BroadcastKeeps, CastStoresKeeps, CastPushesKeeps DEF CastNext, DirectoryTyped
<1>4. DirectoryTyped'
  BY <1>0, <1>1, <1>3 DEF DirectoryTyped
<1>5. SlugsInv' /\ PresetsInv'
  BY <1>0, <1>1 DEF SlugsInv, OneNamespace, CreationsApart, AddsAreFree, Free, Table, PresetsInv, RowsNamed
<1> QED BY <1>3, <1>4, <1>5 DEF DirectoryInv

-----------------------------------------------------------------------------
(* Presets *)

\* Few rows of a name.
LEMMA RowsAreFew ==
  ASSUME DirectoryTyped, NEW n
  PROVE  /\ IsFiniteSet(RowsNamed(n))
         /\ Cardinality(RowsNamed(n)) <= 1 <=> \A i, j \in RowsNamed(n) : i = j
<1>1. RowsNamed(n) \subseteq Presets
  BY DEF RowsNamed
<1>2. IsFiniteSet(RowsNamed(n))
  BY <1>1, SeedsAre, FS_Subset
<1> QED BY <1>2, AtMostOne

\* The lifespan leaves one row of every built-in name.
LEMMA BootSeeds ==
  ASSUME DirectoryInv, Boot
  PROVE  /\ PresetsInv'
         /\ ~muddled => \A n \in SeedNames : \E i \in Presets : preset'[i] = n
<1>0. DirectoryTyped /\ PresetsInv
  BY DEF DirectoryInv
<1>1. /\ preset' \in [Presets -> PresetNames \cup {NoName}] /\ renaming' = {} /\ muddled' = muddled
      /\ \A i \in Presets \ RowsNamed(NoName) : preset'[i] = preset[i]
      /\ \A n \in Missing : Cardinality({i \in RowsNamed(NoName) : preset'[i] = n}) = 1
      /\ \A i \in RowsNamed(NoName) : preset'[i] \in Missing \cup {NoName}
  BY DEF Boot, PresetNames
<1>2. \A n \in Missing : \E i \in RowsNamed(NoName) : {j \in RowsNamed(NoName) : preset'[j] = n} = {i}
  <2> SUFFICES ASSUME NEW n \in Missing
               PROVE  \E i \in RowsNamed(NoName) : {j \in RowsNamed(NoName) : preset'[j] = n} = {i}
    OBVIOUS
  <2>1. PICK S : S = {j \in RowsNamed(NoName) : preset'[j] = n}
    OBVIOUS
  <2>2. S \subseteq RowsNamed(NoName) /\ IsFiniteSet(RowsNamed(NoName))
    BY <1>0, <2>1, RowsAreFew
  <2>3. IsFiniteSet(S) /\ Cardinality(S) = 1
    BY <1>1, <2>1, <2>2, FS_Subset
  <2>4. PICK i : S = {i}
    BY <2>3, FS_Singleton
  <2> QED BY <2>1, <2>2, <2>4
<1>3. \A n \in Missing : n \in PresetNames /\ RowsNamed(n) = {}
  <2>1. \A i \in DOMAIN Seeds : Seeds[i] \in PresetNames
    BY SeedsAre
  <2> QED BY <2>1 DEF Missing, Seedable
<1> SUFFICES ASSUME ~muddled
             PROVE  PresetsInv' /\ \A n \in SeedNames : \E i \in Presets : preset'[i] = n
  BY <1>1 DEF PresetsInv
<1>4. \A i, j \in Presets : preset[i] = preset[j] /\ preset[i] # NoName => i = j
  BY <1>0 DEF PresetsInv
<1>5. ASSUME NEW i \in Presets, NEW j \in Presets, preset'[i] = preset'[j], preset'[i] # NoName
      PROVE  i = j
  <2>1. CASE i \in RowsNamed(NoName) /\ j \in RowsNamed(NoName)
    <3>1. preset'[i] \in Missing
      BY <1>1, <1>5, <2>1
    <3>2. PICK k : {l \in RowsNamed(NoName) : preset'[l] = preset'[i]} = {k}
      BY <1>2, <3>1
    <3> QED BY <1>5, <2>1, <3>2
  <2>2. CASE i \notin RowsNamed(NoName) /\ j \notin RowsNamed(NoName)
    BY <1>1, <1>4, <1>5, <2>2
  <2>3. ASSUME NEW k \in RowsNamed(NoName), NEW l \in Presets \ RowsNamed(NoName), preset'[k] = preset'[l],
               preset'[k] # NoName
        PROVE  FALSE
    <3>1. preset'[k] \in Missing /\ preset'[l] = preset[l]
      BY <1>1, <2>3
    <3>2. l \in RowsNamed(preset'[k])
      BY <2>3, <3>1 DEF RowsNamed
    <3> QED BY <1>3, <3>1, <3>2
  <2> QED BY <1>5, <2>1, <2>2, <2>3
<1>6. PresetsInv'
  BY <1>1, <1>5 DEF PresetsInv
<1>7. ASSUME NEW n \in SeedNames PROVE \E i \in Presets : preset'[i] = n
  <2>1. n # NoName
    BY SeedsAre
  <2>2. CASE RowsNamed(n) # {}
    <3>1. PICK i \in Presets : preset[i] = n
      BY <2>2 DEF RowsNamed
    <3>2. i \notin RowsNamed(NoName)
      BY <2>1, <3>1 DEF RowsNamed
    <3> QED BY <1>1, <3>1, <3>2
  <2>3. CASE RowsNamed(n) = {}
    <3>1. PICK i \in DOMAIN Seeds : n = Seeds[i]
      BY DEF SeedNames
    <3>2. \A k \in 1 .. i : Cardinality(RowsNamed(Seeds[k])) <= 1
      <4> SUFFICES ASSUME NEW k \in 1 .. i PROVE Cardinality(RowsNamed(Seeds[k])) <= 1
        OBVIOUS
      <4>1. k \in DOMAIN Seeds
        BY <3>1, SeedsAre
      <4>2. Seeds[k] # NoName
        BY <4>1, SeedsAre
      <4>3. \A a, b \in RowsNamed(Seeds[k]) : a = b
        BY <1>4, <4>2 DEF RowsNamed
      <4> QED BY <1>0, <4>3, RowsAreFew
    <3>3. n \in Missing
      BY <2>3, <3>1, <3>2 DEF Missing, Seedable
    <3>4. PICK i1 \in RowsNamed(NoName) : {j \in RowsNamed(NoName) : preset'[j] = n} = {i1}
      BY <1>2, <3>3
    <3> QED BY <3>4 DEF RowsNamed
  <2> QED BY <2>2, <2>3
<1> QED BY <1>6, <1>7

LEMMA PresetsKeep ==
  ASSUME DirectoryInv, PresetNext
  PROVE  DirectoryInv'
<1>0. DirectoryTyped /\ SlugsInv /\ CastInv /\ PresetsInv
  BY DEF DirectoryInv
<1>1. CASE Boot
  <2>1. /\ UNCHANGED <<agents, groups, members, entangled, copies, muddled>>
        /\ renaming' = {} /\ cast' = Off /\ creating' = [c \in Clerks |-> Off]
        /\ preset' \in [Presets -> PresetNames \cup {NoName}]
    BY <1>1 DEF Boot, PresetNames
  <2>2. \A c \in Clerks : creating'[c] = Off
    BY <2>1
  <2>3. SlugsInv' /\ CastInv'
    BY <1>0, <2>1, <2>2 DEF SlugsInv, OneNamespace, CreationsApart, AddsAreFree, CastInv, Off
  <2>4. DirectoryTyped'
    BY <1>0, <2>1 DEF DirectoryTyped
  <2> QED BY <1>1, <2>3, <2>4, BootSeeds DEF DirectoryInv
<1>2. ASSUME ~Boot PROVE UNCHANGED <<agents, groups, members, creating, entangled, cast, copies>>
  BY <1>2 DEF PresetNext, RenameSaves, DeletePreset, RenameLoads, slugVars, castVars
<1>3. ASSUME UNCHANGED <<agents, groups, members, creating, entangled, cast, copies>>
      PROVE  SlugsInv' /\ CastInv'
  BY <1>0, <1>3 DEF SlugsInv, OneNamespace, CreationsApart, AddsAreFree, Free, Table, CastInv
<1>4. ASSUME NEW i \in Presets, NEW n \in PresetNames, RenameLoads(i, n)
      PROVE  DirectoryInv'
  <2>1. PICK q : q = [id |-> i, name |-> n]
    OBVIOUS
  <2>2. q \in Renames /\ q.name = n
    BY <2>1 DEF Renames
  <2>3. /\ renaming' = renaming \cup {q} /\ muddled' = (muddled \/ renaming # {}) /\ preset' = preset
        /\ RowsNamed(n) = {}
        /\ UNCHANGED <<agents, groups, members, creating, entangled, cast, copies>>
    BY <1>4, <2>1 DEF RenameLoads, slugVars, castVars, Clash
  <2>4. DirectoryTyped'
    BY <1>0, <2>2, <2>3 DEF DirectoryTyped
  <2>5. PresetsInv'
    BY <1>0, <2>2, <2>3 DEF PresetsInv, RowsNamed
  <2> QED BY <1>3, <2>3, <2>4, <2>5 DEF DirectoryInv
<1>5. CASE RenameSaves
  <2>1. PICK r \in renaming :
          /\ renaming' = renaming \ {r}
          /\ preset' = IF preset[r.id] = NoName THEN preset ELSE [preset EXCEPT ![r.id] = r.name]
          /\ UNCHANGED <<agents, groups, members, creating, entangled, cast, copies, muddled>>
    BY <1>5 DEF RenameSaves, slugVars, castVars
  <2>2. r.id \in Presets /\ r.name \in PresetNames
    BY <1>0 DEF DirectoryTyped, Renames
  <2>3. /\ preset' \in [Presets -> PresetNames \cup {NoName}]
        /\ \A i \in Presets : preset'[i] = preset[i] \/ (i = r.id /\ preset'[i] = r.name)
    BY <1>0, <2>1, <2>2 DEF DirectoryTyped
  <2>4. DirectoryTyped'
    BY <1>0, <2>1, <2>3 DEF DirectoryTyped
  <2>5. PresetsInv'
    <3> SUFFICES ASSUME ~muddled PROVE PresetsInv'
      BY <2>1 DEF PresetsInv
    <3>1. renaming' = {} /\ RowsNamed(r.name) = {}
      BY <1>0, <2>1 DEF PresetsInv
    <3>2. \A i, j \in Presets : preset[i] = preset[j] /\ preset[i] # NoName => i = j
      BY <1>0 DEF PresetsInv
    <3>3. \A i \in Presets : preset[i] # r.name
      BY <3>1 DEF RowsNamed
    <3> QED BY <2>3, <3>1, <3>2, <3>3 DEF PresetsInv
  <2> QED BY <1>3, <2>1, <2>4, <2>5 DEF DirectoryInv
<1>6. ASSUME NEW i \in Presets, DeletePreset(i)
      PROVE  DirectoryInv'
  <2>1. /\ preset' = [preset EXCEPT ![i] = NoName]
        /\ UNCHANGED <<agents, groups, members, creating, entangled, cast, copies, renaming, muddled>>
    BY <1>6 DEF DeletePreset, slugVars, castVars
  <2>2. /\ preset' \in [Presets -> PresetNames \cup {NoName}]
        /\ \A j \in Presets : preset'[j] = preset[j] \/ preset'[j] = NoName
    BY <1>0, <2>1 DEF DirectoryTyped
  <2>3. DirectoryTyped'
    BY <1>0, <2>1, <2>2 DEF DirectoryTyped
  <2>4. \A r \in renaming : r.name # NoName
    BY <1>0, SeedsAre DEF DirectoryTyped, Renames
  <2>5. PresetsInv'
    BY <1>0, <2>1, <2>2, <2>4 DEF PresetsInv, RowsNamed
  <2> QED BY <1>3, <2>1, <2>3, <2>5 DEF DirectoryInv
<1> QED BY <1>1, <1>4, <1>5, <1>6 DEF PresetNext, PresetNames

LEMMA DirectoryInvInit == DirectoryInit => DirectoryInv
<1> SUFFICES ASSUME DirectoryInit PROVE DirectoryInv
  OBVIOUS
<1>1. DirectoryTyped
  BY DirectoryAssumption DEF DirectoryInit, DirectoryTyped
<1>2. \A c \in Clerks : creating[c] = Off /\ creating[c].at = "off"
  BY DEF DirectoryInit, Off
<1>3. SlugsInv
  BY <1>2 DEF DirectoryInit, SlugsInv, OneNamespace, CreationsApart, AddsAreFree
<1>4. CastInv
  BY DEF DirectoryInit, CastInv
<1>5. PresetsInv
  BY DEF DirectoryInit, PresetsInv
<1> QED BY <1>1, <1>3, <1>4, <1>5 DEF DirectoryInv

LEMMA DirectoryStep ==
  ASSUME DirectoryInv, [DirectoryNext]_directoryVars
  PROVE  DirectoryInv'
<1>1. CASE UNCHANGED directoryVars
  BY <1>1 DEF directoryVars, DirectoryInv, DirectoryTyped, SlugsInv, OneNamespace, CreationsApart,
              AddsAreFree, Free, Table, CastInv, PresetsInv, RowsNamed
<1>2. CASE DirectoryNext
  BY <1>2, SlugsKeep, CastsKeep, PresetsKeep DEF DirectoryNext
<1> QED BY <1>1, <1>2

LEMMA DirectoryInvAlways == DirectorySpec => []DirectoryInv
BY DirectoryInvInit, DirectoryStep, PTL DEF DirectorySpec

\* For any number of clerks and names: agents and groups share one namespace, a
\* broadcast accounts for every recipient with one copy each, built-in presets
\* keep their names apart and every lifespan brings the missing ones back.
THEOREM DirectoryHoldsAlways == DirectorySpec => DirectoryHolds
<1>1. DirectoryInv' => (OneNamespace /\ BroadcastAccounts /\ BuiltinNamesUnique)'
  <2> SUFFICES ASSUME DirectoryInv PROVE OneNamespace /\ BroadcastAccounts /\ BuiltinNamesUnique
    BY PTL
  <2>1. BroadcastAccounts
    <3> SUFFICES ASSUME cast.at = "told" PROVE BroadcastAccounts
      BY DEF BroadcastAccounts
    <3>1. cast # Off
      BY DEF Off
    <3> QED BY <3>1 DEF DirectoryInv, CastInv, BroadcastAccounts
  <2>2. BuiltinNamesUnique
    <3> SUFFICES ASSUME ~muddled, NEW n \in PresetNames PROVE Cardinality(RowsNamed(n)) <= 1
      BY DEF BuiltinNamesUnique, PresetNames
    <3>1. n # NoName
      BY SeedsAre
    <3>2. \A i, j \in RowsNamed(n) : i = j
      BY <3>1 DEF DirectoryInv, PresetsInv, RowsNamed
    <3> QED BY <3>2, RowsAreFew DEF DirectoryInv
  <2> QED BY <2>1, <2>2 DEF DirectoryInv, SlugsInv
<1>2. DirectoryInv => SeedsRestored
  BY BootSeeds DEF SeedsRestored
<1>3. DirectoryInv /\ DirectoryInv'
        => [(OneNamespace /\ BroadcastAccounts /\ BuiltinNamesUnique)' /\ SeedsRestored]_directoryVars
  BY <1>1, <1>2
<1> QED BY <1>3, DirectoryInvAlways, PTL DEF DirectoryHolds

\* The types of the directory.
THEOREM DirectoryTypesHold == DirectorySpec => []DirectoryTypeOK
<1>1. DirectoryInv => DirectoryTypeOK
  BY DEF DirectoryInv, DirectoryTyped, DirectoryTypeOK, PresetNames
<1> QED BY <1>1, DirectoryInvAlways, PTL

(***************************************************************************)
(* Notifications.  Outside the subjects whose calls overlapped, a call is  *)
(* alone with its subject (CallsApart), no row comes up behind a call about *)
(* to add one (OneRow), the row a call or a gesture is about to save is    *)
(* still its own and still says the reason it loaded (RowsAreTheirs), and a *)
(* call nobody disturbed saves over what it loaded (AloneIsFresh).  While  *)
(* adds did not overlap, one plain thread at most is about to be added, and *)
(* there is room for it (CapInv).                                          *)
(***************************************************************************)
ThreadStatus == {"inbox", "saved", "done"}
Threaded == [of : Subjects, why : Reasons, unread : BOOLEAN, status : ThreadStatus, fresh : BOOLEAN,
             old : BOOLEAN, forced : BOOLEAN]
Calls == [at : {"follow", "look", "count", "add", "save"}, of : Subjects, why : Reasons, id : Nat,
          copy : SUBSET Threaded, alone : BOOLEAN]
Gestures == [at : {"save"}, id : Nat, of : Subjects, gesture : {"read", "inbox", "done"},
             unread : BOOLEAN, status : ThreadStatus]
InboxTyped ==
  /\ level \in Levels /\ following \in [Subjects -> {"none", "subscribed", "ignored"}]
  /\ DOMAIN inbox \in SUBSET Nat /\ IsFiniteSet(DOMAIN inbox) /\ inbox \in [DOMAIN inbox -> Threaded]
  /\ notifying \in [Notifiers -> Calls \cup {NoCall}] /\ triaging \in Gestures \cup {NoCall}
  /\ pinged \in SUBSET Subjects /\ doubled \in SUBSET Subjects /\ flooded \in BOOLEAN
CallsFit ==
  \A c \in Notifiers :
    /\ notifying[c].at = "count" => notifying[c].why \notin AlwaysDeliver
    /\ notifying[c].at = "save" => \E r \in Threaded : notifying[c].copy = {r} /\
          (r.status = "done" => notifying[c].why \in HighSignal)
    /\ notifying[c] # NoCall /\ notifying[c].at # "follow" /\ notifying[c].alone =>
         following[notifying[c].of] # "ignored"
CallsApart ==
  \A c, d \in Notifiers :
    notifying[c] # NoCall /\ notifying[d] # NoCall /\ notifying[c].of = notifying[d].of
      => c = d \/ notifying[c].of \in doubled
OneRow ==
  /\ \A i, j \in DOMAIN inbox : inbox[i].of = inbox[j].of => i = j \/ inbox[i].of \in doubled
  /\ \A c \in Notifiers : notifying[c].at \in {"count", "add"} /\ notifying[c].of \notin doubled
       => \A i \in DOMAIN inbox : inbox[i].of # notifying[c].of
RowsAreTheirs ==
  \A i \in DOMAIN inbox : inbox[i].of \notin doubled =>
    /\ \A c \in Notifiers : notifying[c].at = "save" /\ notifying[c].id = i =>
         /\ inbox[i].of = notifying[c].of
         /\ \A r \in notifying[c].copy : r.why = inbox[i].why
    /\ triaging # NoCall /\ triaging.id = i => inbox[i].of = triaging.of
AloneIsFresh ==
  \A c \in Notifiers : notifying[c].at = "save" /\ notifying[c].alone /\ notifying[c].of \notin doubled =>
    /\ notifying[c].id \in DOMAIN inbox /\ inbox[notifying[c].id].of = notifying[c].of
    /\ \A r \in notifying[c].copy : /\ r.unread = inbox[notifying[c].id].unread
                                    /\ r.status = inbox[notifying[c].id].status
\* Threads of the hour that no always-deliver reason made.
Plain == {i \in DOMAIN inbox : inbox[i].fresh /\ ~inbox[i].forced}
AddsPlain(c) == notifying[c].at = "add" /\ notifying[c].why \notin AlwaysDeliver
CapInv ==
  ~flooded /\ MaxNewPerHour > 0 =>
    /\ Cardinality(Plain) <= MaxNewPerHour
    /\ \A c \in Notifiers : AddsPlain(c) =>
         /\ Cardinality(Plain) < MaxNewPerHour
         /\ \A d \in Notifiers : AddsPlain(d) => c = d
InboxInv == /\ InboxTyped /\ CallsFit /\ CallsApart /\ OneRow /\ RowsAreTheirs
            /\ AloneIsFresh /\ AlwaysDelivered /\ CapInv

-----------------------------------------------------------------------------
(* Reasons, calls, rows *)

LEMMA PriorityIs ==
  /\ Priority["system"] = 0 /\ Priority["subscribed"] = 1 /\ Priority["participating"] = 1
  /\ Priority["state_change"] = 1 /\ Priority["autorespond_completed"] = 1
  /\ Priority["autorespond_blocked"] = 2 /\ Priority["direct_message"] = 2
  /\ Priority["task_assigned"] = 3 /\ Priority["broadcast"] = 3 /\ Priority["team_mention"] = 4
  /\ Priority["mention"] = 5 /\ Priority["escalation"] = 5 /\ Priority["approval_requested"] = 6
  /\ Priority["security_alert"] = 7
  /\ DOMAIN Priority = {"system", "subscribed", "participating", "state_change",
       "autorespond_completed", "autorespond_blocked", "direct_message", "task_assigned",
       "broadcast", "team_mention", "mention", "escalation", "approval_requested", "security_alert"}
BY DEF Priority

LEMMA ReasonsAre ==
  /\ MaxNewPerHour \in Nat
  /\ \A r \in Reasons : Priority[r] \in Nat
  /\ \A r \in AlwaysDeliver : Priority[r] >= 5 /\ r \in HighSignal /\ r \in DeliverAtDefault
  /\ Priority["mention"] = 5
<1>1. Reasons \subseteq DOMAIN Priority /\ MaxNewPerHour \in Nat
  BY NotificationsAssumption
<1>2. \A r \in DOMAIN Priority : Priority[r] \in Nat
  <2> SUFFICES ASSUME NEW r \in DOMAIN Priority PROVE Priority[r] \in Nat
    OBVIOUS
  <2>1. /\ 0 \in Nat /\ 1 \in Nat /\ 2 \in Nat /\ 3 \in Nat /\ 4 \in Nat /\ 5 \in Nat /\ 6 \in Nat /\ 7 \in Nat
    OBVIOUS
  <2> QED BY <2>1, PriorityIs, Zenon
<1>3. \A r \in AlwaysDeliver : Priority[r] >= 5
  BY PriorityIs DEF AlwaysDeliver
<1>4. \A r \in AlwaysDeliver : r \in HighSignal /\ r \in DeliverAtDefault
  BY DEF AlwaysDeliver, HighSignal, DeliverAtDefault
<1> QED BY <1>1, <1>2, <1>3, <1>4, PriorityIs

\* A reason that is always delivered passes both gates.
LEMMA AlwaysPasses ==
  ASSUME level \in Levels, NEW r \in AlwaysDeliver
  PROVE  Delivers(r)
BY ReasonsAre DEF Levels, Delivers

LEMMA CallType ==
  ASSUME InboxTyped, NEW c \in Notifiers
  PROVE  /\ notifying[c] # NoCall <=> notifying[c] \in Calls
         /\ notifying[c].at # "free" <=> notifying[c] # NoCall
         /\ notifying[c] # NoCall =>
              /\ notifying[c].of \in Subjects /\ notifying[c].why \in Reasons /\ notifying[c].id \in Nat
              /\ notifying[c].copy \subseteq Threaded /\ notifying[c].alone \in BOOLEAN
              /\ notifying[c].at \in {"follow", "look", "count", "add", "save"}
BY DEF InboxTyped, Calls, NoCall

LEMMA RowType ==
  ASSUME InboxTyped, NEW i \in DOMAIN inbox
  PROVE  /\ inbox[i] \in Threaded /\ i \in Nat /\ inbox[i].of \in Subjects /\ inbox[i].why \in Reasons
         /\ inbox[i].unread \in BOOLEAN /\ inbox[i].status \in ThreadStatus
         /\ inbox[i].fresh \in BOOLEAN /\ inbox[i].forced \in BOOLEAN
BY DEF InboxTyped, Threaded

\* What the gestures of the user leave of a call: all but that it was alone.
Muffled(q, p, S) ==
  /\ q = NoCall <=> p = NoCall
  /\ q.at = p.at
  /\ p # NoCall => /\ q.of = p.of /\ q.why = p.why /\ q.id = p.id /\ q.copy = p.copy
                   /\ q.alone => p.alone /\ p.of \notin S

LEMMA DisturbedIs ==
  ASSUME InboxTyped, NEW S
  PROVE  /\ Disturbed(S) \in [Notifiers -> Calls \cup {NoCall}]
         /\ \A c \in Notifiers : Muffled(Disturbed(S)[c], notifying[c], S)
<1> SUFFICES ASSUME NEW c \in Notifiers
             PROVE  Disturbed(S)[c] \in Calls \cup {NoCall} /\ Muffled(Disturbed(S)[c], notifying[c], S)
  BY DEF Disturbed
<1>1. PICK p \in Calls \cup {NoCall} : p = notifying[c]
  BY DEF InboxTyped
<1>2. PICK q : q = Disturbed(S)[c]
  OBVIOUS
<1>3. CASE p # NoCall /\ p.of \in S
  <2>1. q = [p EXCEPT !.alone = FALSE]
    BY <1>1, <1>2, <1>3, Zenon DEF Disturbed
  <2>2. p \in Calls
    BY <1>3
  <2>3. /\ q \in Calls /\ q.at = p.at /\ q.of = p.of /\ q.why = p.why /\ q.id = p.id
        /\ q.copy = p.copy /\ q.alone = FALSE
    BY <2>1, <2>2 DEF Calls
  <2>4. q # NoCall
    BY <2>3 DEF Calls, NoCall
  <2> QED BY <1>1, <1>2, <1>3, <2>3, <2>4 DEF Muffled
<1>4. CASE ~(p # NoCall /\ p.of \in S)
  <2>1. q = p
    BY <1>1, <1>2, <1>4, Zenon DEF Disturbed
  <2> QED BY <1>1, <1>2, <1>4, <2>1 DEF Muffled
<1> QED BY <1>3, <1>4

\* What a shown thread is to a subject.
Shows(i, s) ==
  inbox[i].of = s /\ inbox[i].unread /\ inbox[i].status # "done" /\ Priority[inbox[i].why] >= 5

LEMMA DeliveredIs ==
  ASSUME InboxTyped, OneRow
  PROVE  AlwaysDelivered <=>
           \A s \in pinged \ doubled : following[s] # "ignored" /\ \E i \in DOMAIN inbox : Shows(i, s)
<1>1. ASSUME AlwaysDelivered, NEW s \in pinged \ doubled
      PROVE  following[s] # "ignored" /\ \E i \in DOMAIN inbox : Shows(i, s)
  <2>1. PICK i \in DOMAIN inbox : inbox[i].of = s /\ inbox[i].unread /\ inbox[i].status # "done"
    BY <1>1 DEF AlwaysDelivered, Surfaced, Threads
  <2>2. PICK j \in DOMAIN inbox : inbox[j].of = s /\ Priority[inbox[j].why] >= 5
    BY <1>1, ReasonsAre DEF AlwaysDelivered, Threads
  <2>3. i = j
    BY <1>1, <2>1, <2>2 DEF OneRow
  <2> QED BY <1>1, <2>1, <2>2, <2>3 DEF AlwaysDelivered, Shows
<1>2. ASSUME \A s \in pinged \ doubled :
               following[s] # "ignored" /\ \E i \in DOMAIN inbox : Shows(i, s)
      PROVE  AlwaysDelivered
  BY <1>2, ReasonsAre DEF AlwaysDelivered, Surfaced, Threads, Shows
<1> QED BY <1>1, <1>2

LEMMA PlainIsFew ==
  ASSUME InboxTyped
  PROVE  IsFiniteSet(Plain) /\ Cardinality(Plain) \in Nat
<1>1. Plain \in SUBSET DOMAIN inbox /\ IsFiniteSet(DOMAIN inbox)
  BY DEF Plain, InboxTyped
<1> QED BY <1>1, FS_Subset, FS_CardinalityType

\* Fewer plain threads, and no more of their adds, keep the cap.
LEMMA CapKeeps ==
  ASSUME InboxTyped, CapInv, flooded' = flooded, Plain' \subseteq Plain,
         \A c \in Notifiers : AddsPlain(c)' => AddsPlain(c)
  PROVE  CapInv'
<1>1. IsFiniteSet(Plain) /\ Cardinality(Plain) \in Nat
  BY PlainIsFew
<1>2. Cardinality(Plain') <= Cardinality(Plain) /\ Cardinality(Plain') \in Nat
  BY <1>1, FS_Subset, FS_CardinalityType
<1>3. MaxNewPerHour \in Nat
  BY ReasonsAre
<1> SUFFICES ASSUME ~flooded', MaxNewPerHour > 0
             PROVE  /\ Cardinality(Plain') <= MaxNewPerHour
                    /\ \A c \in Notifiers : AddsPlain(c)' =>
                         /\ Cardinality(Plain') < MaxNewPerHour
                         /\ \A d \in Notifiers : AddsPlain(d)' => c = d
  BY DEF CapInv
<1>4. /\ Cardinality(Plain) <= MaxNewPerHour
      /\ \A c \in Notifiers : AddsPlain(c) =>
           /\ Cardinality(Plain) < MaxNewPerHour
           /\ \A d \in Notifiers : AddsPlain(d) => c = d
  BY DEF CapInv
<1> HIDE DEF Plain, AddsPlain
<1> QED BY <1>1, <1>2, <1>3, <1>4

(* What the user, the clock and the sweep do, whose subjects are S: rows go  *)
(* or stay, those of other subjects as they were.                            *)
UserActs(S) ==
  /\ \A c \in Notifiers : Muffled(notifying'[c], notifying[c], S)
  /\ doubled' = doubled /\ flooded' = flooded
  /\ DOMAIN inbox' \subseteq DOMAIN inbox
  /\ \A i \in DOMAIN inbox' :
       /\ inbox'[i].of = inbox[i].of /\ inbox'[i].why = inbox[i].why
       /\ inbox'[i].forced = inbox[i].forced /\ (inbox'[i].fresh => inbox[i].fresh)
  /\ \A i \in DOMAIN inbox : inbox[i].of \notin S \cup doubled =>
       /\ i \in DOMAIN inbox'
       /\ inbox'[i].unread = inbox[i].unread /\ inbox'[i].status = inbox[i].status
  /\ pinged' \subseteq pinged
  /\ \A i \in DOMAIN inbox :
       inbox[i].of \in pinged' \ doubled /\ inbox[i].unread /\ inbox[i].status # "done" =>
         i \in DOMAIN inbox' /\ inbox'[i].unread /\ inbox'[i].status # "done"
  /\ \/ triaging' \in {triaging, NoCall}
     \/ triaging'.id \in DOMAIN inbox' /\ inbox'[triaging'.id].of = triaging'.of
  /\ \A s \in Subjects :
       following'[s] = "ignored" => following[s] = "ignored" \/ (s \in S /\ s \notin pinged')

LEMMA UserKeeps ==
  ASSUME InboxInv, InboxTyped', NEW S, UserActs(S)
  PROVE  InboxInv' /\ ReasonSticks
<1>0. InboxTyped /\ InboxTyped'
  BY DEF InboxInv
<1>a. \A c \in Notifiers : notifying[c] # NoCall => notifying[c].of \in Subjects
  BY <1>0, CallType
<1>b. \A c \in Notifiers : Muffled(notifying'[c], notifying[c], S)
  BY DEF UserActs
<1>c. \A c \in Notifiers : notifying[c].at # "free" <=> notifying[c] # NoCall
  BY <1>0, CallType
<1>d. \A c \in Notifiers :
        /\ notifying'[c] # NoCall <=> notifying[c] # NoCall
        /\ notifying'[c].at = notifying[c].at
        /\ notifying[c] # NoCall =>
             /\ notifying'[c].of = notifying[c].of /\ notifying'[c].why = notifying[c].why
             /\ notifying'[c].id = notifying[c].id /\ notifying'[c].copy = notifying[c].copy
             /\ notifying'[c].alone => notifying[c].alone /\ notifying[c].of \notin S
  BY <1>b DEF Muffled
<1>1. CallsFit'
  <2> SUFFICES ASSUME NEW c \in Notifiers
               PROVE  /\ notifying'[c].at = "count" => notifying'[c].why \notin AlwaysDeliver
                      /\ notifying'[c].at = "save" => \E r \in Threaded : notifying'[c].copy = {r} /\
                            (r.status = "done" => notifying'[c].why \in HighSignal)
                      /\ notifying'[c] # NoCall /\ notifying'[c].at # "follow" /\ notifying'[c].alone =>
                           following'[notifying'[c].of] # "ignored"
    BY DEF CallsFit
  <2>1. /\ notifying[c].at = "count" => notifying[c].why \notin AlwaysDeliver
        /\ notifying[c].at = "save" => \E r \in Threaded : notifying[c].copy = {r} /\
              (r.status = "done" => notifying[c].why \in HighSignal)
        /\ notifying[c] # NoCall /\ notifying[c].at # "follow" /\ notifying[c].alone =>
             following[notifying[c].of] # "ignored"
    BY DEF InboxInv, CallsFit
  <2>2. notifying[c] # NoCall /\ following'[notifying[c].of] = "ignored" =>
          following[notifying[c].of] = "ignored" \/ notifying[c].of \in S
    BY <1>a DEF UserActs
  <2>3. notifying'[c].at \in {"count", "save"} => notifying[c] # NoCall
    BY <1>c, <1>d
  <2> QED BY <1>d, <2>1, <2>2, <2>3
<1>2. CallsApart'
  <2>1. doubled' = doubled
    BY DEF UserActs
  <2> QED BY <1>d, <2>1 DEF InboxInv, CallsApart
<1>3. OneRow'
  <2>1. ASSUME NEW i \in DOMAIN inbox', NEW j \in DOMAIN inbox', inbox'[i].of = inbox'[j].of
        PROVE  i = j \/ inbox'[i].of \in doubled'
    <3>1. i \in DOMAIN inbox /\ j \in DOMAIN inbox /\ inbox'[i].of = inbox[i].of /\ inbox'[j].of = inbox[j].of
      BY DEF UserActs
    <3> QED BY <2>1, <3>1 DEF UserActs, InboxInv, OneRow
  <2>2. ASSUME NEW c \in Notifiers, notifying'[c].at \in {"count", "add"}, notifying'[c].of \notin doubled',
               NEW i \in DOMAIN inbox'
        PROVE  inbox'[i].of # notifying'[c].of
    <3>1. notifying[c] # NoCall /\ notifying[c].at \in {"count", "add"} /\ notifying'[c].of = notifying[c].of
      BY <2>2, <1>c, <1>d
    <3>2. i \in DOMAIN inbox /\ inbox'[i].of = inbox[i].of
      BY DEF UserActs
    <3> QED BY <2>2, <3>1, <3>2 DEF UserActs, InboxInv, OneRow
  <2> QED BY <2>1, <2>2 DEF OneRow
<1>4. RowsAreTheirs'
  <2> SUFFICES ASSUME NEW i \in DOMAIN inbox', inbox'[i].of \notin doubled'
               PROVE  /\ \A c \in Notifiers : notifying'[c].at = "save" /\ notifying'[c].id = i =>
                           /\ inbox'[i].of = notifying'[c].of
                           /\ \A r \in notifying'[c].copy : r.why = inbox'[i].why
                      /\ triaging' # NoCall /\ triaging'.id = i => inbox'[i].of = triaging'.of
    BY DEF RowsAreTheirs
  <2>1. i \in DOMAIN inbox /\ inbox'[i].of = inbox[i].of /\ inbox'[i].why = inbox[i].why /\ doubled' = doubled
    BY DEF UserActs
  <2>2. /\ \A c \in Notifiers : notifying[c].at = "save" /\ notifying[c].id = i =>
             /\ inbox[i].of = notifying[c].of
             /\ \A r \in notifying[c].copy : r.why = inbox[i].why
        /\ triaging # NoCall /\ triaging.id = i => inbox[i].of = triaging.of
    BY <2>1 DEF InboxInv, RowsAreTheirs
  <2>3. triaging' # NoCall /\ triaging'.id = i => inbox'[i].of = triaging'.of
    <3>1. triaging' \in {triaging, NoCall} \/ (triaging'.id \in DOMAIN inbox' /\ inbox'[triaging'.id].of = triaging'.of)
      BY DEF UserActs
    <3> QED BY <2>1, <2>2, <3>1
  <2>4. ASSUME NEW c \in Notifiers, notifying'[c].at = "save", notifying'[c].id = i
        PROVE  /\ inbox'[i].of = notifying'[c].of
               /\ \A r \in notifying'[c].copy : r.why = inbox'[i].why
    <3>1. notifying[c] # NoCall
      BY <2>4, <1>c, <1>d
    <3> QED BY <1>d, <2>1, <2>2, <2>4, <3>1
  <2> QED BY <2>3, <2>4
<1>5. AloneIsFresh'
  <2> SUFFICES ASSUME NEW c \in Notifiers, notifying'[c].at = "save", notifying'[c].alone,
                      notifying'[c].of \notin doubled'
               PROVE  /\ notifying'[c].id \in DOMAIN inbox' /\ inbox'[notifying'[c].id].of = notifying'[c].of
                      /\ \A r \in notifying'[c].copy : /\ r.unread = inbox'[notifying'[c].id].unread
                                                      /\ r.status = inbox'[notifying'[c].id].status
    BY DEF AloneIsFresh
  <2>1. notifying[c] # NoCall
    BY <1>c, <1>d
  <2>2. /\ notifying[c].at = "save" /\ notifying[c].alone /\ notifying[c].of \notin doubled
        /\ notifying[c].of \notin S /\ doubled' = doubled
        /\ notifying'[c].of = notifying[c].of /\ notifying'[c].id = notifying[c].id
        /\ notifying'[c].copy = notifying[c].copy
    BY <1>d, <2>1 DEF UserActs
  <2>3. PICK i : i = notifying[c].id
    OBVIOUS
  <2>4. /\ i \in DOMAIN inbox /\ inbox[i].of = notifying[c].of
        /\ \A r \in notifying[c].copy : r.unread = inbox[i].unread /\ r.status = inbox[i].status
    BY <2>2, <2>3 DEF InboxInv, AloneIsFresh
  <2>5. /\ i \in DOMAIN inbox' /\ inbox'[i].unread = inbox[i].unread /\ inbox'[i].status = inbox[i].status
        /\ inbox'[i].of = inbox[i].of
    BY <2>2, <2>4 DEF UserActs
  <2> QED BY <2>2, <2>3, <2>4, <2>5
<1>6. AlwaysDelivered'
  <2>1. ASSUME NEW s \in pinged' \ doubled'
        PROVE  following'[s] # "ignored" /\ \E i \in DOMAIN inbox' : Shows(i, s)'
    <3>1. s \in pinged \ doubled /\ doubled' = doubled /\ s \in Subjects
      BY <1>0 DEF UserActs, InboxTyped
    <3>2. following[s] # "ignored" /\ \E i \in DOMAIN inbox : Shows(i, s)
      BY <1>0, <3>1, DeliveredIs DEF InboxInv
    <3>3. PICK i \in DOMAIN inbox : Shows(i, s)
      BY <3>2
    <3>4. i \in DOMAIN inbox' /\ inbox'[i].unread /\ inbox'[i].status # "done"
      BY <2>1, <3>1, <3>3 DEF UserActs, Shows
    <3>5. inbox'[i].of = inbox[i].of /\ inbox'[i].why = inbox[i].why
      BY <3>4 DEF UserActs
    <3>6. following'[s] # "ignored"
      BY <2>1, <3>1, <3>2 DEF UserActs
    <3> QED BY <3>3, <3>4, <3>5, <3>6 DEF Shows
  <2> QED BY <2>1, ReasonsAre DEF AlwaysDelivered, Surfaced, Threads, Shows
<1>7. CapInv'
  <2>1. Plain' \subseteq Plain
    BY DEF UserActs, Plain
  <2>2. \A c \in Notifiers : AddsPlain(c)' => AddsPlain(c)
    <3>1. \A c \in Notifiers : notifying[c].at = "add" => notifying[c] # NoCall
      BY <1>c
    <3> QED BY <1>d, <3>1 DEF AddsPlain
  <2> QED BY <1>0, <2>1, <2>2, CapKeeps DEF InboxInv, UserActs
<1>8. ReasonSticks
  <2> SUFFICES ASSUME NEW i \in DOMAIN inbox \cap DOMAIN inbox'
               PROVE  Priority[inbox'[i].why] >= Priority[inbox[i].why]
    BY DEF ReasonSticks
  <2>1. inbox'[i].why = inbox[i].why
    BY DEF UserActs
  <2>2. Priority[inbox[i].why] \in Nat
    BY <1>0, RowType, ReasonsAre
  <2> QED BY <2>1, <2>2
<1> QED BY <1>0, <1>1, <1>2, <1>3, <1>4, <1>5, <1>6, <1>7, <1>8 DEF InboxInv

\* Rows of the inbox after one of them changed.
LEMMA RowsTyped ==
  ASSUME InboxTyped, NEW i \in DOMAIN inbox, NEW f \in Threaded, inbox' = [inbox EXCEPT ![i] = f]
  PROVE  /\ DOMAIN inbox' = DOMAIN inbox /\ inbox' \in [DOMAIN inbox' -> Threaded]
         /\ inbox'[i] = f /\ \A j \in DOMAIN inbox \ {i} : inbox'[j] = inbox[j]
<1>1. inbox \in [DOMAIN inbox -> Threaded]
  BY DEF InboxTyped
<1> QED BY <1>1

LEMMA SettingsStep ==
  ASSUME InboxInv,
         \/ \E l \in Levels : SetPrefs(l)
         \/ \E s \in Subjects, state \in {"subscribed", "ignored"} : SetSubscription(s, state)
  PROVE  InboxInv' /\ ReasonSticks
<1>0. InboxTyped
  BY DEF InboxInv
<1>a. \A i \in DOMAIN inbox : inbox[i].of \in Subjects
  BY <1>0, RowType
<1>1. ASSUME NEW l \in Levels, SetPrefs(l) PROVE InboxTyped' /\ UserActs({})
  <2>1. InboxTyped'
    BY <1>0, <1>1 DEF InboxTyped, SetPrefs, NewEpisode
  <2>2. UserActs({})
    BY <1>1 DEF UserActs, Muffled, SetPrefs
  <2> QED BY <2>1, <2>2
<1>2. ASSUME NEW s \in Subjects, NEW state \in {"subscribed", "ignored"}, SetSubscription(s, state)
      PROVE  InboxTyped' /\ UserActs({s})
  <2>1. /\ notifying' \in [Notifiers -> Calls \cup {NoCall}]
        /\ \A c \in Notifiers : Muffled(notifying'[c], notifying[c], {s})
    BY <1>0, <1>2, DisturbedIs DEF SetSubscription
  <2>2. /\ following' \in [Subjects -> {"none", "subscribed", "ignored"}]
        /\ \A t \in Subjects \ {s} : following'[t] = following[t]
        /\ following'[s] = state
    BY <1>0, <1>2 DEF InboxTyped, SetSubscription
  <2>3. InboxTyped'
    BY <1>0, <1>2, <2>1, <2>2 DEF InboxTyped, SetSubscription, NewEpisode
  <2>4. UserActs({s})
    <3>1. \A t \in Subjects : following'[t] = "ignored" =>
            following[t] = "ignored" \/ (t \in {s} /\ t \notin pinged')
      BY <1>2, <2>2 DEF SetSubscription
    <3> QED BY <1>2, <2>1, <3>1 DEF UserActs, SetSubscription
  <2> QED BY <2>3, <2>4
<1> QED BY <1>1, <1>2, UserKeeps

LEMMA SweepsStep ==
  ASSUME InboxInv, MarkAllRead \/ PruneDone \/ \E days \in BOOLEAN : ClockAdvances(days)
  PROVE  InboxInv' /\ ReasonSticks
<1>0. InboxTyped
  BY DEF InboxInv
<1>a. \A i \in DOMAIN inbox : inbox[i].of \in Subjects /\ inbox[i] \in Threaded
  BY <1>0, RowType
<1>1. ASSUME MarkAllRead PROVE InboxTyped' /\ UserActs(Subjects)
  <2>1. /\ notifying' \in [Notifiers -> Calls \cup {NoCall}]
        /\ \A c \in Notifiers : Muffled(notifying'[c], notifying[c], Subjects)
    BY <1>0, <1>1, DisturbedIs DEF MarkAllRead
  <2>2. DOMAIN inbox' = DOMAIN inbox /\ inbox' = [i \in DOMAIN inbox |-> inbox'[i]]
    BY <1>1 DEF MarkAllRead
  <2>3. ASSUME NEW i \in DOMAIN inbox
        PROVE  /\ inbox'[i] \in Threaded /\ inbox'[i].of = inbox[i].of /\ inbox'[i].why = inbox[i].why
               /\ inbox'[i].forced = inbox[i].forced /\ inbox'[i].fresh = inbox[i].fresh
    <3>1. PICK e \in Threaded : e = inbox[i]
      BY <1>a
    <3>2. PICK f : f = [e EXCEPT !.unread = FALSE]
      OBVIOUS
    <3>3. f \in Threaded /\ f.of = e.of /\ f.why = e.why /\ f.forced = e.forced /\ f.fresh = e.fresh
      BY <3>2 DEF Threaded
    <3>4. inbox'[i] = f
      BY <1>1, <3>1, <3>2 DEF MarkAllRead
    <3> QED BY <3>1, <3>3, <3>4
  <2>4. InboxTyped'
    <3>1. inbox' \in [DOMAIN inbox' -> Threaded]
      BY <2>2, <2>3
    <3> QED BY <1>0, <1>1, <2>1, <2>2, <3>1 DEF InboxTyped, MarkAllRead, NewEpisode
  <2>5. UserActs(Subjects)
    BY <1>1, <1>a, <2>1, <2>2, <2>3 DEF UserActs, MarkAllRead
  <2> QED BY <2>4, <2>5
<1>2. ASSUME PruneDone PROVE InboxTyped' /\ \E S : UserActs(S)
  <2> DEFINE gone == {i \in DOMAIN inbox : inbox[i].status = "done" /\ inbox[i].old}
             S == {inbox[i].of : i \in gone}
  <2>1. /\ notifying' \in [Notifiers -> Calls \cup {NoCall}]
        /\ \A c \in Notifiers : Muffled(notifying'[c], notifying[c], S)
    <3>1. notifying' = Disturbed(S)
      BY <1>2, Zenon DEF PruneDone
    <3> HIDE DEF S
    <3> QED BY <1>0, <3>1, DisturbedIs
  <2>2. /\ DOMAIN inbox' = DOMAIN inbox \ gone /\ inbox' = [i \in DOMAIN inbox' |-> inbox'[i]]
        /\ \A i \in DOMAIN inbox' : inbox'[i] = inbox[i]
    BY <1>2 DEF PruneDone
  <2>3. IsFiniteSet(DOMAIN inbox')
    <3>1. DOMAIN inbox' \in SUBSET DOMAIN inbox
      BY <2>2
    <3> QED BY <1>0, <3>1, FS_Subset DEF InboxTyped
  <2>4. InboxTyped'
    <3>1. inbox' \in [DOMAIN inbox' -> Threaded] /\ DOMAIN inbox' \in SUBSET Nat
      BY <1>0, <1>a, <2>2 DEF InboxTyped
    <3> QED BY <1>0, <1>2, <2>1, <2>3, <3>1 DEF InboxTyped, PruneDone
  <2>5. UserActs(S)
    <3>1. \A i \in DOMAIN inbox : inbox[i].of \notin S => i \in DOMAIN inbox'
      BY <2>2
    <3>2. \A i \in DOMAIN inbox : inbox[i].status # "done" => i \in DOMAIN inbox'
      BY <2>2
    <3>3. DOMAIN inbox' \subseteq DOMAIN inbox
      BY <2>2
    <3>4. /\ doubled' = doubled /\ flooded' = flooded /\ pinged' = pinged /\ triaging' = triaging
          /\ following' = following
      BY <1>2 DEF PruneDone
    <3> HIDE DEF S
    <3> QED BY <2>1, <2>2, <3>1, <3>2, <3>3, <3>4 DEF UserActs
  <2> QED BY <2>4, <2>5
<1>3. ASSUME NEW days \in BOOLEAN, ClockAdvances(days) PROVE InboxTyped' /\ UserActs({})
  <2>1. DOMAIN inbox' = DOMAIN inbox /\ inbox' = [i \in DOMAIN inbox |-> inbox'[i]]
    BY <1>3 DEF ClockAdvances
  <2>2. ASSUME NEW i \in DOMAIN inbox
        PROVE  /\ inbox'[i] \in Threaded /\ inbox'[i].of = inbox[i].of /\ inbox'[i].why = inbox[i].why
               /\ inbox'[i].forced = inbox[i].forced /\ inbox'[i].fresh = FALSE
               /\ inbox'[i].unread = inbox[i].unread /\ inbox'[i].status = inbox[i].status
    <3>1. PICK e \in Threaded : e = inbox[i]
      BY <1>a
    <3>2. PICK o \in BOOLEAN : o = (e.old \/ days)
      BY DEF Threaded
    <3>3. PICK f : f = [e EXCEPT !.fresh = FALSE, !.old = o]
      OBVIOUS
    <3>4. /\ f \in Threaded /\ f.of = e.of /\ f.why = e.why /\ f.forced = e.forced /\ f.fresh = FALSE
          /\ f.unread = e.unread /\ f.status = e.status
      BY <3>3 DEF Threaded
    <3>5. inbox'[i] = [e EXCEPT !.fresh = FALSE, !.old = (e.old \/ days)]
      BY <1>3, <3>1, Zenon DEF ClockAdvances
    <3>6. inbox'[i] = f
      BY <3>2, <3>3, <3>5, Zenon
    <3> QED BY <3>1, <3>4, <3>6
  <2>3. InboxTyped'
    <3>1. inbox' \in [DOMAIN inbox' -> Threaded]
      BY <2>1, <2>2
    <3> QED BY <1>0, <1>3, <2>1, <3>1 DEF InboxTyped, ClockAdvances, NewEpisode
  <2>4. UserActs({})
    BY <1>3, <2>1, <2>2 DEF UserActs, Muffled, ClockAdvances
  <2> QED BY <2>3, <2>4
<1> QED BY <1>1, <1>2, <1>3, UserKeeps

LEMMA TriageLoadsStep ==
  ASSUME InboxInv, NEW i \in DOMAIN inbox, NEW gesture \in {"read", "inbox", "done"},
         TriageLoads(i, gesture)
  PROVE  InboxInv' /\ ReasonSticks
<1>0. InboxTyped /\ inbox[i].of \in Subjects /\ inbox[i].unread \in BOOLEAN
      /\ inbox[i].status \in ThreadStatus /\ i \in Nat
  BY RowType DEF InboxInv
<1>1. PICK s \in Subjects : s = inbox[i].of
  BY <1>0
<1>2. /\ notifying' \in [Notifiers -> Calls \cup {NoCall}]
      /\ \A c \in Notifiers : Muffled(notifying'[c], notifying[c], {s})
  BY <1>0, <1>1, DisturbedIs DEF TriageLoads
<1>3. triaging' \in Gestures /\ triaging'.id = i /\ triaging'.of = s
  BY <1>0, <1>1 DEF TriageLoads, Gestures
<1>4. InboxTyped'
  BY <1>0, <1>2, <1>3 DEF InboxTyped, TriageLoads, NewEpisode
<1>5. UserActs({s})
  <2>1. /\ doubled' = doubled /\ flooded' = flooded /\ following' = following /\ inbox' = inbox
        /\ pinged' = pinged \ {s}
    BY <1>1 DEF TriageLoads
  <2> QED BY <1>1, <1>2, <1>3, <2>1 DEF UserActs
<1> QED BY <1>4, <1>5, UserKeeps

LEMMA TriageSavesStep ==
  ASSUME InboxInv, TriageSaves
  PROVE  InboxInv' /\ ReasonSticks
<1>0. InboxTyped /\ triaging \in Gestures
  BY DEF InboxInv, InboxTyped, TriageSaves
<1>1. PICK s \in Subjects, i \in Nat, g \in {"read", "inbox", "done"} :
        s = triaging.of /\ i = triaging.id /\ g = triaging.gesture
  BY <1>0 DEF Gestures
<1>2. /\ notifying' \in [Notifiers -> Calls \cup {NoCall}]
      /\ \A c \in Notifiers : Muffled(notifying'[c], notifying[c], {s})
  BY <1>0, <1>1, DisturbedIs DEF TriageSaves
<1>3. /\ doubled' = doubled /\ flooded' = flooded /\ following' = following /\ level' = level
      /\ pinged' = pinged \ {s} /\ triaging' = NoCall
  BY <1>1 DEF TriageSaves
<1>4. CASE i \notin DOMAIN inbox
  <2>1. inbox' = inbox
    BY <1>1, <1>4, Zenon DEF TriageSaves
  <2>2. InboxTyped'
    BY <1>0, <1>2, <1>3, <2>1 DEF InboxTyped
  <2>3. UserActs({s})
    BY <1>2, <1>3, <2>1 DEF UserActs
  <2> QED BY <2>2, <2>3, UserKeeps
<1>5. CASE i \in DOMAIN inbox
  <2>1. PICK e \in Threaded : e = inbox[i]
    BY <1>0, <1>5, RowType
  <2>2. PICK u \in BOOLEAN : u = (e.unread /\ ~(g = "read" /\ triaging.unread))
    BY DEF Threaded
  <2>3. PICK t \in ThreadStatus : t = IF g # "read" /\ triaging.status # g THEN g ELSE e.status
    BY DEF Threaded, ThreadStatus
  <2>4. PICK f : f = [e EXCEPT !.unread = u, !.status = t]
    OBVIOUS
  <2>5. /\ f \in Threaded /\ f.of = e.of /\ f.why = e.why /\ f.forced = e.forced /\ f.fresh = e.fresh
    BY <2>4 DEF Threaded
  <2>6. inbox' = [inbox EXCEPT ![i] = f]
    <3>0. triaging.id \in DOMAIN inbox
      BY <1>1, <1>5
    <3>a. inbox' = [inbox EXCEPT ![triaging.id] = [inbox[triaging.id] EXCEPT
            !.unread = inbox[triaging.id].unread /\ ~(triaging.gesture = "read" /\ triaging.unread),
            !.status = IF triaging.gesture # "read" /\ triaging.status # triaging.gesture
                       THEN triaging.gesture ELSE inbox[triaging.id].status]]
      BY <3>0, Zenon DEF TriageSaves
    <3>1. inbox' = [inbox EXCEPT ![i] = [inbox[i] EXCEPT
            !.unread = inbox[i].unread /\ ~(g = "read" /\ triaging.unread),
            !.status = IF g # "read" /\ triaging.status # g THEN g ELSE inbox[i].status]]
      BY <1>1, <3>a, Zenon
    <3>2. f = [inbox[i] EXCEPT
            !.unread = inbox[i].unread /\ ~(g = "read" /\ triaging.unread),
            !.status = IF g # "read" /\ triaging.status # g THEN g ELSE inbox[i].status]
      BY <2>1, <2>2, <2>3, <2>4, Zenon
    <3> QED BY <3>1, <3>2, Zenon
  <2>7. /\ DOMAIN inbox' = DOMAIN inbox /\ inbox' \in [DOMAIN inbox' -> Threaded]
        /\ inbox'[i] = f /\ \A j \in DOMAIN inbox \ {i} : inbox'[j] = inbox[j]
    BY <1>0, <1>5, <2>5, <2>6, RowsTyped
  <2>8. InboxTyped'
    BY <1>0, <1>2, <1>3, <2>7 DEF InboxTyped
  <2>9. inbox[i].of \notin doubled => inbox[i].of = s
    BY <1>1, <1>5 DEF InboxInv, RowsAreTheirs, TriageSaves
  <2>10. UserActs({s})
    BY <1>2, <1>3, <2>1, <2>5, <2>7, <2>9 DEF UserActs
  <2> QED BY <2>8, <2>10, UserKeeps
<1> QED BY <1>4, <1>5

\* The call c ends, or goes on as p about the same event; the others do not move.
CallMoves(c, p) ==
  /\ notifying' = [notifying EXCEPT ![c] = p]
  /\ p # NoCall => /\ p \in Calls /\ p.of = notifying[c].of /\ p.why = notifying[c].why
                   /\ p.alone = notifying[c].alone

LEMMA CallsAfter ==
  ASSUME InboxTyped, NEW c \in Notifiers, NEW p \in Calls \cup {NoCall}, CallMoves(c, p)
  PROVE  /\ notifying' \in [Notifiers -> Calls \cup {NoCall}]
         /\ notifying'[c] = p /\ \A d \in Notifiers \ {c} : notifying'[d] = notifying[d]
BY DEF InboxTyped, CallMoves

LEMMA PingsIs ==
  ASSUME InboxTyped, NEW s \in Subjects, NEW reason, NEW alone \in BOOLEAN
  PROVE  /\ Pings(s, reason, alone) \in SUBSET Subjects /\ pinged \subseteq Pings(s, reason, alone)
         /\ Pings(s, reason, alone) \subseteq pinged \cup {s}
         /\ ~(reason \in AlwaysDeliver /\ alone) => Pings(s, reason, alone) = pinged
BY DEF InboxTyped, Pings

(* What a stage of a call may do that leaves the rows alone.                 *)
StageOf(c, p) ==
  /\ CallMoves(c, p) /\ notifying[c] # NoCall
  /\ UNCHANGED <<level, inbox, triaging, doubled>>
  /\ following' \in [Subjects -> {"none", "subscribed", "ignored"}]
  /\ \A s \in Subjects : following'[s] = "ignored" => following[s] = "ignored"
  /\ p.at = "count" => p.why \notin AlwaysDeliver
  /\ p.at = "save" => /\ p.id \in Threads(p.of) /\ p.copy = {inbox[p.id]}
                      /\ inbox[p.id].status = "done" => p.why \in HighSignal
  /\ p # NoCall /\ p.at # "follow" /\ p.alone => following'[p.of] # "ignored"
  /\ p.at \in {"count", "add"} /\ p.of \notin doubled => Threads(p.of) = {}
  /\ pinged' \in SUBSET Subjects /\ pinged' \subseteq pinged \cup doubled

LEMMA StageKeeps ==
  ASSUME InboxInv, NEW c \in Notifiers, NEW p \in Calls \cup {NoCall}, StageOf(c, p),
         flooded' \in BOOLEAN, CapInv'
  PROVE  InboxInv' /\ ReasonSticks
<1>0. InboxTyped
  BY DEF InboxInv
<1>1. /\ notifying' \in [Notifiers -> Calls \cup {NoCall}]
      /\ notifying'[c] = p /\ \A d \in Notifiers \ {c} : notifying'[d] = notifying[d]
  BY <1>0, CallsAfter DEF StageOf
<1>2. /\ level' = level /\ inbox' = inbox /\ triaging' = triaging /\ doubled' = doubled
  BY DEF StageOf
<1>3. \A d \in Notifiers : /\ notifying[d] # NoCall <=> notifying[d] \in Calls
                           /\ notifying[d].at # "free" <=> notifying[d] # NoCall
                           /\ notifying[d] # NoCall => notifying[d].of \in Subjects
  BY <1>0, CallType
<1>4. /\ p.at # "free" <=> p # NoCall
      /\ p # NoCall => p.of = notifying[c].of /\ p.why = notifying[c].why /\ p.alone = notifying[c].alone
  BY DEF StageOf, CallMoves, Calls, NoCall
<1>5. InboxTyped'
  BY <1>0, <1>1, <1>2 DEF InboxTyped, StageOf
<1>6. CallsFit'
  <2> SUFFICES ASSUME NEW d \in Notifiers
               PROVE  /\ notifying'[d].at = "count" => notifying'[d].why \notin AlwaysDeliver
                      /\ notifying'[d].at = "save" => \E r \in Threaded : notifying'[d].copy = {r} /\
                            (r.status = "done" => notifying'[d].why \in HighSignal)
                      /\ notifying'[d] # NoCall /\ notifying'[d].at # "follow" /\ notifying'[d].alone =>
                           following'[notifying'[d].of] # "ignored"
    BY DEF CallsFit
  <2>1. CASE d # c
    <3>1. notifying'[d] = notifying[d]
      BY <1>1, <2>1
    <3>2. notifying[d] # NoCall /\ following'[notifying[d].of] = "ignored"
            => following[notifying[d].of] = "ignored"
      BY <1>3 DEF StageOf
    <3> QED BY <3>1, <3>2 DEF InboxInv, CallsFit
  <2>2. CASE d = c
    <3>1. ASSUME p.at = "save"
          PROVE  \E r \in Threaded : p.copy = {r} /\ (r.status = "done" => p.why \in HighSignal)
      <4>1. p.id \in DOMAIN inbox
        BY <3>1 DEF StageOf, Threads
      <4>2. inbox[p.id] \in Threaded
        BY <1>0, <4>1, RowType
      <4> QED BY <3>1, <4>2 DEF StageOf
    <3>2. /\ p.at = "count" => p.why \notin AlwaysDeliver
          /\ p # NoCall /\ p.at # "follow" /\ p.alone => following'[p.of] # "ignored"
      BY DEF StageOf
    <3> QED BY <1>1, <2>2, <3>1, <3>2
  <2> QED BY <2>1, <2>2
<1>7. CallsApart'
  <2> SUFFICES ASSUME NEW d \in Notifiers, NEW e \in Notifiers, notifying'[d] # NoCall,
                      notifying'[e] # NoCall, notifying'[d].of = notifying'[e].of
               PROVE  d = e \/ notifying'[d].of \in doubled
    BY <1>2 DEF CallsApart
  <2>1. notifying[d] # NoCall /\ notifying'[d].of = notifying[d].of
    BY <1>1, <1>4 DEF StageOf
  <2>2. notifying[e] # NoCall /\ notifying'[e].of = notifying[e].of
    BY <1>1, <1>4 DEF StageOf
  <2> QED BY <2>1, <2>2 DEF InboxInv, CallsApart
<1>8. OneRow'
  <2>1. ASSUME NEW d \in Notifiers, notifying'[d].at \in {"count", "add"}, notifying'[d].of \notin doubled,
               NEW i \in DOMAIN inbox
        PROVE  inbox[i].of # notifying'[d].of
    <3>1. CASE d # c
      BY <1>1, <2>1, <3>1 DEF InboxInv, OneRow
    <3>2. CASE d = c
      <4>1. Threads(p.of) = {}
        BY <1>1, <2>1, <3>2 DEF StageOf
      <4> QED BY <1>1, <3>2, <4>1 DEF Threads
    <3> QED BY <3>1, <3>2
  <2> QED BY <1>2, <2>1 DEF InboxInv, OneRow
<1>9. RowsAreTheirs'
  <2> SUFFICES ASSUME NEW i \in DOMAIN inbox, inbox[i].of \notin doubled, NEW d \in Notifiers,
                      notifying'[d].at = "save", notifying'[d].id = i
               PROVE  /\ inbox[i].of = notifying'[d].of
                      /\ \A r \in notifying'[d].copy : r.why = inbox[i].why
    BY <1>2 DEF InboxInv, RowsAreTheirs
  <2>1. CASE d # c
    BY <1>1, <2>1 DEF InboxInv, RowsAreTheirs
  <2>2. CASE d = c
    BY <1>1, <2>2 DEF StageOf, Threads
  <2> QED BY <2>1, <2>2
<1>10. AloneIsFresh'
  <2> SUFFICES ASSUME NEW d \in Notifiers, notifying'[d].at = "save", notifying'[d].alone,
                      notifying'[d].of \notin doubled
               PROVE  /\ notifying'[d].id \in DOMAIN inbox /\ inbox[notifying'[d].id].of = notifying'[d].of
                      /\ \A r \in notifying'[d].copy : /\ r.unread = inbox[notifying'[d].id].unread
                                                      /\ r.status = inbox[notifying'[d].id].status
    BY <1>2 DEF AloneIsFresh
  <2>1. CASE d # c
    BY <1>1, <2>1 DEF InboxInv, AloneIsFresh
  <2>2. CASE d = c
    BY <1>1, <2>2 DEF StageOf, Threads
  <2> QED BY <2>1, <2>2
<1>11. AlwaysDelivered'
  <2>1. ASSUME NEW s \in pinged' \ doubled'
        PROVE  following'[s] # "ignored" /\ \E i \in DOMAIN inbox' : Shows(i, s)'
    <3>1. s \in pinged \ doubled /\ s \in Subjects
      BY <1>2 DEF StageOf
    <3>2. following[s] # "ignored" /\ \E i \in DOMAIN inbox : Shows(i, s)
      BY <1>0, <3>1, DeliveredIs DEF InboxInv
    <3> QED BY <1>2, <3>1, <3>2 DEF StageOf, Shows
  <2> QED BY <2>1, ReasonsAre DEF AlwaysDelivered, Surfaced, Threads, Shows
<1>12. ReasonSticks
  <2> SUFFICES ASSUME NEW i \in DOMAIN inbox
               PROVE  Priority[inbox[i].why] >= Priority[inbox[i].why]
    BY <1>2 DEF ReasonSticks
  <2>1. Priority[inbox[i].why] \in Nat
    BY <1>0, RowType, ReasonsAre
  <2> QED BY <2>1
<1> QED BY <1>5, <1>6, <1>7, <1>8, <1>9, <1>10, <1>11, <1>12 DEF InboxInv

LEMMA ResubscribesStep ==
  ASSUME InboxInv, NEW c \in Notifiers, Resubscribes(c)
  PROVE  InboxInv' /\ ReasonSticks
<1>0. InboxTyped /\ notifying[c] # NoCall /\ notifying[c] \in Calls /\ notifying[c].of \in Subjects
  BY CallType DEF InboxInv, Resubscribes
<1>1. PICK e \in Calls : e = notifying[c]
  BY <1>0
<1>2. PICK p : p = [e EXCEPT !.at = "look"]
  OBVIOUS
<1>3. p \in Calls /\ p.at = "look" /\ p.of = e.of /\ p.why = e.why /\ p.alone = e.alone
  BY <1>2 DEF Calls
<1>4. notifying' = [notifying EXCEPT ![c] = p]
  BY <1>1, <1>2, Zenon DEF Resubscribes, Goes
<1>5. /\ following' \in [Subjects -> {"none", "subscribed", "ignored"}]
      /\ following'[e.of] = "subscribed"
      /\ \A s \in Subjects : following'[s] = "ignored" => following[s] = "ignored"
  BY <1>0, <1>1 DEF Resubscribes, InboxTyped
<1>6. UNCHANGED <<level, inbox, triaging, doubled, pinged, flooded>>
  BY DEF Resubscribes, Goes
<1>7. StageOf(c, p)
  BY <1>0, <1>1, <1>3, <1>4, <1>5, <1>6 DEF StageOf, CallMoves, InboxTyped
<1>8. CapInv'
  <2>1. \A d \in Notifiers : AddsPlain(d)' => AddsPlain(d)
    BY <1>0, <1>3, <1>4 DEF InboxTyped, AddsPlain
  <2>2. Plain' = Plain
    BY <1>6 DEF Plain
  <2> QED BY <1>0, <1>6, <2>1, <2>2, CapKeeps DEF InboxInv
<1> QED BY <1>0, <1>3, <1>6, <1>7, <1>8, StageKeeps DEF InboxTyped

\* Two rows, or a done thread that stays done: then no alert is lost, or calls overlapped.
LEMMA LooksEndsStep ==
  ASSUME InboxInv, NEW c \in Notifiers, notifying[c] # NoCall, Ends(c),
         UNCHANGED <<level, following, inbox, triaging, doubled, flooded>>,
         \/ notifying[c].why \notin AlwaysDeliver
         \/ notifying[c].of \in doubled
  PROVE  InboxInv' /\ ReasonSticks
<1>0. /\ InboxTyped /\ notifying[c].of \in Subjects /\ notifying[c].alone \in BOOLEAN
  BY CallType DEF InboxInv
<1>1. notifying' = [notifying EXCEPT ![c] = NoCall]
  BY DEF Ends
<1>2. /\ pinged' \in SUBSET Subjects /\ pinged' \subseteq pinged \cup doubled
  BY <1>0, PingsIs DEF Ends
<1>3. StageOf(c, NoCall)
  <2>1. NoCall.at = "free"
    BY DEF NoCall
  <2> QED BY <1>0, <1>1, <1>2, <2>1 DEF StageOf, CallMoves, InboxTyped
<1>4. CapInv'
  <2>1. \A d \in Notifiers : AddsPlain(d)' => AddsPlain(d)
    BY <1>0, <1>1 DEF InboxTyped, AddsPlain, NoCall
  <2>2. Plain' = Plain
    BY DEF Plain
  <2> QED BY <1>0, <2>1, <2>2, CapKeeps DEF InboxInv
<1> QED BY <1>0, <1>3, <1>4, StageKeeps DEF InboxTyped

LEMMA LooksStep ==
  ASSUME InboxInv, NEW c \in Notifiers, LooksForThread(c)
  PROVE  InboxInv' /\ ReasonSticks
<1>0. InboxTyped /\ notifying[c] # NoCall /\ notifying[c] \in Calls /\ notifying[c].of \in Subjects
  BY CallType DEF InboxInv, LooksForThread
<1>1. PICK e \in Calls : e = notifying[c]
  BY <1>0
<1>2. /\ UNCHANGED <<level, following, inbox, triaging, doubled, flooded>> /\ e.at = "look"
      /\ e.alone => following[e.of] # "ignored"
  BY <1>0, <1>1 DEF LooksForThread, InboxInv, CallsFit
<1>3. Plain' = Plain
  BY <1>2 DEF Plain
<1>4. CASE /\ Threads(e.of) = {}
           /\ Goes(c, IF e.why \in AlwaysDeliver THEN "add" ELSE "count")
  <2>1. PICK a \in {"add", "count"} : a = IF e.why \in AlwaysDeliver THEN "add" ELSE "count"
    OBVIOUS
  <2>2. PICK p : p = [e EXCEPT !.at = a]
    OBVIOUS
  <2>3. p \in Calls /\ p.at = a /\ p.of = e.of /\ p.why = e.why /\ p.alone = e.alone
    BY <2>2 DEF Calls
  <2>4. notifying' = [notifying EXCEPT ![c] = p] /\ pinged' = pinged
    BY <1>1, <1>4, <2>1, <2>2, Zenon DEF Goes
  <2>5. StageOf(c, p)
    BY <1>0, <1>1, <1>2, <1>4, <2>1, <2>3, <2>4 DEF StageOf, CallMoves, InboxTyped
  <2>6. \A d \in Notifiers : AddsPlain(d)' => AddsPlain(d)
    BY <1>0, <2>1, <2>3, <2>4 DEF InboxTyped, AddsPlain
  <2>7. CapInv'
    BY <1>0, <1>2, <1>3, <2>6, CapKeeps DEF InboxInv
  <2> QED BY <1>0, <1>2, <2>3, <2>5, <2>7, StageKeeps DEF InboxTyped
<1>5. ASSUME NEW i \in Threads(e.of), Threads(e.of) = {i}, Resurfaces(i, e.why), pinged' = pinged,
             notifying' = [notifying EXCEPT ![c] = [e EXCEPT !.at = "save", !.id = i, !.copy = {inbox[i]}]]
      PROVE  InboxInv' /\ ReasonSticks
  <2>1. i \in DOMAIN inbox /\ i \in Nat /\ inbox[i] \in Threaded
    BY <1>0, <1>5, RowType DEF Threads
  <2>2. PICK copy \in SUBSET Threaded : copy = {inbox[i]}
    BY <2>1
  <2>3. PICK p : p = [e EXCEPT !.at = "save", !.id = i, !.copy = copy]
    OBVIOUS
  <2>4. /\ p \in Calls /\ p.at = "save" /\ p.of = e.of /\ p.why = e.why /\ p.alone = e.alone
        /\ p.id = i /\ p.copy = copy
    BY <2>1, <2>3 DEF Calls
  <2>5. notifying' = [notifying EXCEPT ![c] = p]
    BY <1>5, <2>2, <2>3, Zenon
  <2>6. inbox[i].status = "done" => e.why \in HighSignal
    BY <1>5 DEF Resurfaces
  <2>7. StageOf(c, p)
    BY <1>0, <1>1, <1>2, <1>5, <2>2, <2>4, <2>5, <2>6 DEF StageOf, CallMoves, InboxTyped
  <2>8. \A d \in Notifiers : AddsPlain(d)' => AddsPlain(d)
    BY <1>0, <2>4, <2>5 DEF InboxTyped, AddsPlain
  <2>9. CapInv'
    BY <1>0, <1>2, <1>3, <2>8, CapKeeps DEF InboxInv
  <2> QED BY <1>0, <1>2, <2>4, <2>7, <2>9, StageKeeps DEF InboxTyped
<1>6. CASE /\ Ends(c)
           /\ \/ Cardinality(Threads(e.of)) > 1
              \/ \E i \in Threads(e.of) : ~Resurfaces(i, e.why)
  <2>1. e.why \notin AlwaysDeliver \/ e.of \in doubled
    <3>1. ASSUME e.of \notin doubled PROVE Cardinality(Threads(e.of)) <= 1
      <4>1. Threads(e.of) \in SUBSET DOMAIN inbox /\ IsFiniteSet(DOMAIN inbox)
        BY <1>0 DEF Threads, InboxTyped
      <4>2. IsFiniteSet(Threads(e.of))
        BY <4>1, FS_Subset
      <4>3. \A i, j \in Threads(e.of) : i = j
        BY <3>1 DEF Threads, InboxInv, OneRow
      <4> QED BY <4>2, <4>3, AtMostOne
    <3>2. ASSUME NEW i \in Threads(e.of), ~Resurfaces(i, e.why) PROVE e.why \notin AlwaysDeliver
      BY <3>2, ReasonsAre DEF Resurfaces
    <3>3. Cardinality(Threads(e.of)) <= 1 => ~(Cardinality(Threads(e.of)) > 1)
      <4>1. IsFiniteSet(DOMAIN inbox) /\ Threads(e.of) \in SUBSET DOMAIN inbox
        BY <1>0 DEF Threads, InboxTyped
      <4>2. Cardinality(Threads(e.of)) \in Nat
        BY <4>1, FS_Subset, FS_CardinalityType
      <4> QED BY <4>2
    <3> QED BY <1>6, <3>1, <3>2, <3>3
  <2> QED BY <1>0, <1>1, <1>2, <1>6, <2>1, LooksEndsStep
<1>7. \/ /\ Threads(e.of) = {}
         /\ Goes(c, IF e.why \in AlwaysDeliver THEN "add" ELSE "count")
      \/ \E i \in Threads(e.of) :
           /\ Threads(e.of) = {i} /\ Resurfaces(i, e.why) /\ pinged' = pinged
           /\ notifying' = [notifying EXCEPT ![c] = [e EXCEPT !.at = "save", !.id = i, !.copy = {inbox[i]}]]
      \/ /\ Ends(c)
         /\ \/ Cardinality(Threads(e.of)) > 1
            \/ \E i \in Threads(e.of) : ~Resurfaces(i, e.why)
  BY <1>1, Zenon DEF LooksForThread
<1> QED BY <1>4, <1>5, <1>6, <1>7

LEMMA CountsStep ==
  ASSUME InboxInv, NEW c \in Notifiers, CountsThreads(c)
  PROVE  InboxInv' /\ ReasonSticks
<1>0. InboxTyped /\ notifying[c] # NoCall /\ notifying[c] \in Calls /\ notifying[c].of \in Subjects
  BY CallType DEF InboxInv, CountsThreads
<1>1. PICK e \in Calls : e = notifying[c]
  BY <1>0
<1>2. /\ UNCHANGED <<level, following, inbox, triaging, doubled>> /\ e.at = "count"
      /\ e.why \notin AlwaysDeliver /\ e.alone => following[e.of] # "ignored"
      /\ e.of \notin doubled => Threads(e.of) = {}
  BY <1>0, <1>1 DEF CountsThreads, InboxInv, CallsFit, OneRow, Threads
<1>3. /\ e.why \notin AlwaysDeliver /\ flooded' \in BOOLEAN
  BY <1>0, <1>1, <1>2 DEF InboxInv, CallsFit, CountsThreads, InboxTyped
<1>4. CASE RateCapped
  <2>1. Ends(c)
    BY <1>4 DEF CountsThreads
  <2>2. flooded' = flooded
    BY <1>0, <1>4 DEF CountsThreads, InboxTyped
  <2> QED BY <1>0, <1>1, <1>2, <1>3, <2>1, <2>2, LooksEndsStep
<1>5. CASE ~RateCapped
  <2>1. PICK p : p = [e EXCEPT !.at = "add"]
    OBVIOUS
  <2>2. p \in Calls /\ p.at = "add" /\ p.of = e.of /\ p.why = e.why /\ p.alone = e.alone
    BY <2>1 DEF Calls
  <2>3. notifying' = [notifying EXCEPT ![c] = p] /\ pinged' = pinged
    BY <1>1, <1>5, <2>1, Zenon DEF CountsThreads, Goes
  <2>4. StageOf(c, p)
    <3>1. e.alone => following[e.of] # "ignored"
      BY <1>0, <1>1, <1>2 DEF InboxInv, CallsFit
    <3> QED BY <1>0, <1>1, <1>2, <2>2, <2>3, <3>1 DEF StageOf, CallMoves, InboxTyped
  <2>5. CapInv'
    <3> SUFFICES ASSUME ~flooded', MaxNewPerHour > 0
                 PROVE  /\ Cardinality(Plain') <= MaxNewPerHour
                        /\ \A d \in Notifiers : AddsPlain(d)' =>
                             /\ Cardinality(Plain') < MaxNewPerHour
                             /\ \A g \in Notifiers : AddsPlain(g)' => d = g
      BY DEF CapInv
    <3>1. \A d \in Notifiers : notifying[d].at # "add"
      BY <1>5 DEF CountsThreads
    <3>2. \A d \in Notifiers : AddsPlain(d)' => d = c
      BY <1>0, <2>3, <3>1 DEF AddsPlain, InboxTyped
    <3>3. PICK T : T = {i \in DOMAIN inbox : inbox[i].fresh}
      OBVIOUS
    <3>4. IsFiniteSet(T) /\ Cardinality(T) \in Nat
      <4>1. T \in SUBSET DOMAIN inbox /\ IsFiniteSet(DOMAIN inbox)
        BY <1>0, <3>3 DEF InboxTyped
      <4> QED BY <4>1, FS_Subset, FS_CardinalityType
    <3>5. MaxNewPerHour \in Nat /\ Cardinality(T) < MaxNewPerHour
      <4>1. ~(Cardinality(T) >= MaxNewPerHour)
        BY <1>5, <3>3 DEF RateCapped
      <4> QED BY <3>4, <4>1, ReasonsAre
    <3>6. Plain' \subseteq T
      BY <1>2, <3>3 DEF Plain
    <3>7. Cardinality(Plain') <= Cardinality(T) /\ Cardinality(Plain') \in Nat
      BY <3>4, <3>6, FS_Subset, FS_CardinalityType
    <3> HIDE DEF Plain, AddsPlain
    <3> QED BY <3>2, <3>4, <3>5, <3>7
  <2> QED BY <1>0, <1>3, <2>2, <2>4, <2>5, StageKeeps
<1> QED BY <1>4, <1>5

\* A gate that stops an event stops none that is always delivered.
LEMMA NotifyStopsStep ==
  ASSUME InboxInv, NEW c \in Notifiers, NEW s \in Subjects, NEW reason \in Reasons,
         Notify(c, s, reason),
         ~(Delivers(reason) /\ (following[s] = "ignored" => reason \in AlwaysDeliver))
  PROVE  InboxInv' /\ ReasonSticks
<1>1. reason \notin AlwaysDeliver
  BY AlwaysPasses DEF InboxInv, InboxTyped
<1>2. pinged' = pinged
  BY <1>1, Zenon DEF Notify, Pings
<1>3. /\ UNCHANGED <<level, following, inbox, notifying, triaging, doubled, flooded>>
  BY DEF Notify
<1>4. InboxTyped
  BY DEF InboxInv
<1>5. InboxTyped'
  BY <1>2, <1>3, <1>4 DEF InboxTyped
<1>6. UserActs({})
  BY <1>2, <1>3 DEF UserActs, Muffled
<1> QED BY <1>5, <1>6, UserKeeps

LEMMA NotifyStartsStep ==
  ASSUME InboxInv, NEW c \in Notifiers, NEW s \in Subjects, NEW reason \in Reasons,
         Notify(c, s, reason),
         Delivers(reason) /\ (following[s] = "ignored" => reason \in AlwaysDeliver)
  PROVE  InboxInv' /\ ReasonSticks
<1>0. InboxTyped /\ notifying[c] = NoCall
  BY DEF InboxInv, Notify
<1>1. PICK alone \in BOOLEAN : alone = (Others(c, s) = {} /\ ~Triaged(s))
  OBVIOUS
<1>2. PICK a \in {"follow", "look"} : a = IF following[s] = "ignored" THEN "follow" ELSE "look"
  OBVIOUS
<1>3. PICK p \in Calls : p = [at |-> a, of |-> s, why |-> reason, id |-> 0, copy |-> {}, alone |-> alone]
  BY DEF Calls
<1>4. /\ p.at = a /\ p.of = s /\ p.why = reason /\ p # NoCall
  BY <1>3 DEF NoCall, Calls
<1>5. notifying' = [Disturbed({s}) EXCEPT ![c] = p]
  BY <1>1, <1>2, <1>3, Zenon DEF Notify
<1>6. /\ Disturbed({s}) \in [Notifiers -> Calls \cup {NoCall}]
      /\ \A d \in Notifiers : Muffled(Disturbed({s})[d], notifying[d], {s})
  BY <1>0, DisturbedIs
<1>7. /\ notifying' \in [Notifiers -> Calls \cup {NoCall}] /\ notifying'[c] = p
      /\ \A d \in Notifiers \ {c} : Muffled(notifying'[d], notifying[d], {s})
  BY <1>5, <1>6
<1>8. /\ UNCHANGED <<level, following, inbox, triaging, flooded, pinged>>
      /\ doubled' = IF Others(c, s) = {} THEN doubled ELSE doubled \cup {s}
  BY Zenon DEF Notify
<1>9. /\ doubled \subseteq doubled' /\ doubled' \in SUBSET Subjects
      /\ \A d \in Notifiers \ {c} : notifying[d] # NoCall /\ notifying[d].of = s => s \in doubled'
  BY <1>0, <1>8 DEF Others, InboxTyped
<1>c. \A d \in Notifiers : notifying[d].at # "free" <=> notifying[d] # NoCall
  BY <1>0, CallType
<1>d. \A d \in Notifiers \ {c} :
        /\ notifying'[d] # NoCall <=> notifying[d] # NoCall
        /\ notifying'[d].at = notifying[d].at
        /\ notifying[d] # NoCall =>
             /\ notifying'[d].of = notifying[d].of /\ notifying'[d].why = notifying[d].why
             /\ notifying'[d].id = notifying[d].id /\ notifying'[d].copy = notifying[d].copy
             /\ notifying'[d].alone => notifying[d].alone
  BY <1>7 DEF Muffled
<1>10. InboxTyped'
  BY <1>0, <1>7, <1>8, <1>9 DEF InboxTyped
<1>11. CallsFit'
  <2> SUFFICES ASSUME NEW d \in Notifiers
               PROVE  /\ notifying'[d].at = "count" => notifying'[d].why \notin AlwaysDeliver
                      /\ notifying'[d].at = "save" => \E r \in Threaded : notifying'[d].copy = {r} /\
                            (r.status = "done" => notifying'[d].why \in HighSignal)
                      /\ notifying'[d] # NoCall /\ notifying'[d].at # "follow" /\ notifying'[d].alone =>
                           following[notifying'[d].of] # "ignored"
    BY <1>8 DEF CallsFit
  <2>1. CASE d = c
    BY <1>2, <1>4, <1>7, <2>1
  <2>2. CASE d # c
    <3>1. notifying'[d].at \in {"count", "save"} => notifying[d] # NoCall
      BY <1>c, <1>d, <2>2
    <3> QED BY <1>d, <2>2, <3>1 DEF InboxInv, CallsFit
  <2> QED BY <2>1, <2>2
<1>12. CallsApart'
  <2> SUFFICES ASSUME NEW d \in Notifiers, NEW e \in Notifiers, notifying'[d] # NoCall,
                      notifying'[e] # NoCall, notifying'[d].of = notifying'[e].of
               PROVE  d = e \/ notifying'[d].of \in doubled'
    BY DEF CallsApart
  <2>1. CASE d = c /\ e # c
    BY <1>4, <1>7, <1>9, <1>d, <2>1
  <2>2. CASE d # c /\ e = c
    BY <1>4, <1>7, <1>9, <1>d, <2>2
  <2>3. CASE d # c /\ e # c
    BY <1>9, <1>d, <2>3 DEF InboxInv, CallsApart
  <2> QED BY <2>1, <2>2, <2>3
<1>13. OneRow'
  <2>1. ASSUME NEW d \in Notifiers, notifying'[d].at \in {"count", "add"}, notifying'[d].of \notin doubled',
               NEW i \in DOMAIN inbox
        PROVE  inbox[i].of # notifying'[d].of
    <3>1. d # c
      BY <1>2, <1>4, <1>7, <2>1
    <3>2. notifying[d] # NoCall
      BY <1>c, <1>d, <2>1, <3>1
    <3> QED BY <1>9, <1>d, <2>1, <3>1, <3>2 DEF InboxInv, OneRow
  <2> QED BY <1>8, <1>9, <2>1 DEF InboxInv, OneRow
<1>14. RowsAreTheirs'
  <2> SUFFICES ASSUME NEW i \in DOMAIN inbox, inbox[i].of \notin doubled', NEW d \in Notifiers,
                      notifying'[d].at = "save", notifying'[d].id = i
               PROVE  /\ inbox[i].of = notifying'[d].of
                      /\ \A r \in notifying'[d].copy : r.why = inbox[i].why
    BY <1>8, <1>9 DEF InboxInv, RowsAreTheirs
  <2>1. d # c
    BY <1>2, <1>4, <1>7
  <2>2. notifying[d] # NoCall
    BY <1>c, <1>d, <2>1
  <2> QED BY <1>9, <1>d, <2>1, <2>2 DEF InboxInv, RowsAreTheirs
<1>15. AloneIsFresh'
  <2> SUFFICES ASSUME NEW d \in Notifiers, notifying'[d].at = "save", notifying'[d].alone,
                      notifying'[d].of \notin doubled'
               PROVE  /\ notifying'[d].id \in DOMAIN inbox /\ inbox[notifying'[d].id].of = notifying'[d].of
                      /\ \A r \in notifying'[d].copy : /\ r.unread = inbox[notifying'[d].id].unread
                                                      /\ r.status = inbox[notifying'[d].id].status
    BY <1>8 DEF AloneIsFresh
  <2>1. d # c
    BY <1>2, <1>4, <1>7
  <2>2. notifying[d] # NoCall
    BY <1>c, <1>d, <2>1
  <2> QED BY <1>9, <1>d, <2>1, <2>2 DEF InboxInv, AloneIsFresh
<1>16. AlwaysDelivered'
  BY <1>8, <1>9 DEF InboxInv, AlwaysDelivered, Surfaced, Threads
<1>17. CapInv'
  <2>1. \A d \in Notifiers : AddsPlain(d)' => AddsPlain(d)
    <3>1. notifying'[c].at # "add"
      BY <1>2, <1>4, <1>7
    <3> QED BY <1>c, <1>d, <3>1 DEF AddsPlain
  <2>2. Plain' = Plain
    BY <1>8 DEF Plain
  <2> QED BY <1>0, <1>8, <2>1, <2>2, CapKeeps DEF InboxInv
<1>18. ReasonSticks
  <2> SUFFICES ASSUME NEW i \in DOMAIN inbox
               PROVE  Priority[inbox[i].why] >= Priority[inbox[i].why]
    BY <1>8 DEF ReasonSticks
  <2>1. Priority[inbox[i].why] \in Nat
    BY <1>0, RowType, ReasonsAre
  <2> QED BY <2>1
<1> QED BY <1>10, <1>11, <1>12, <1>13, <1>14, <1>15, <1>16, <1>17, <1>18 DEF InboxInv

\* The id a new row gets is nobody's.
LEMMA NextIdIsFree ==
  ASSUME InboxTyped
  PROVE  NextId \in Nat /\ NextId \notin DOMAIN inbox
<1>1. PICK D \in SUBSET Nat : D = DOMAIN inbox /\ IsFiniteSet(D)
  BY DEF InboxTyped
<1>2. PICK S : S = {0} \cup D
  OBVIOUS
<1>3. S \in SUBSET Nat /\ S # {} /\ IsFiniteSet(S)
  <2>1. S = D \cup {0}
    BY <1>2
  <2>2. IsFiniteSet(S)
    BY <1>1, <2>1, FS_AddElement
  <2> QED BY <1>2, <2>2
<1>4. PICK m \in S : m = Max(S) /\ \A y \in S : m >= y
  BY <1>3, MaxIsGreatest
<1>5. NextId = 1 + m
  BY <1>1, <1>2, <1>4, Zenon DEF NextId
<1>6. 1 + m \notin S /\ 1 + m \in Nat
  BY <1>3, <1>4
<1> QED BY <1>1, <1>2, <1>5, <1>6

LEMMA AddsStep ==
  ASSUME InboxInv, NEW c \in Notifiers, AddsThread(c)
  PROVE  InboxInv' /\ ReasonSticks
<1>0. InboxTyped /\ notifying[c] # NoCall /\ notifying[c] \in Calls /\ notifying[c].of \in Subjects
  BY CallType DEF InboxInv, AddsThread
<1>1. PICK e \in Calls : e = notifying[c]
  BY <1>0
<1>2. /\ UNCHANGED <<level, following, triaging, flooded>> /\ e.at = "add"
      /\ notifying' = [notifying EXCEPT ![c] = NoCall]
      /\ pinged' = Pings(e.of, e.why, e.alone)
  BY <1>1 DEF AddsThread, Ends
<1>3. /\ notifying' \in [Notifiers -> Calls \cup {NoCall}] /\ notifying'[c] = NoCall
      /\ \A d \in Notifiers \ {c} : notifying'[d] = notifying[d]
  BY <1>0, <1>2 DEF InboxTyped
<1>4. /\ e.of \in Subjects /\ e.why \in Reasons /\ e.alone \in BOOLEAN /\ NoCall.at = "free"
  BY DEF Calls, NoCall
<1>5. PICK n \in Nat : n = NextId /\ n \notin DOMAIN inbox
  BY <1>0, NextIdIsFree
<1>6. PICK f \in Threaded : f = NewThread(c)
  <2>1. PICK b \in BOOLEAN : b = (e.why \in AlwaysDeliver)
    <3>1. (e.why \in AlwaysDeliver) \in BOOLEAN
      BY SMT
    <3> QED BY <3>1, Zenon
  <2>2. NewThread(c) = [of |-> e.of, why |-> e.why, unread |-> TRUE, status |-> "inbox",
                        fresh |-> TRUE, old |-> FALSE, forced |-> b]
    BY <1>1, <2>1, Zenon DEF NewThread
  <2> QED BY <1>4, <2>2 DEF Threaded, ThreadStatus
<1>7. /\ f.of = e.of /\ f.why = e.why /\ f.unread = TRUE /\ f.status = "inbox" /\ f.fresh = TRUE
      /\ f.forced <=> e.why \in AlwaysDeliver
  BY <1>1, <1>6 DEF NewThread
<1>8. inbox' = [i \in DOMAIN inbox \cup {n} |-> IF i = n THEN f ELSE inbox[i]]
  BY <1>5, <1>6, Zenon DEF AddsThread
<1>9. /\ DOMAIN inbox' = DOMAIN inbox \cup {n} /\ inbox'[n] = f
      /\ \A i \in DOMAIN inbox : inbox'[i] = inbox[i] /\ i # n
  BY <1>5, <1>8
<1>10. /\ doubled \subseteq doubled' /\ doubled' \subseteq doubled \cup {e.of}
       /\ Awaited(n) => e.of \in doubled'
  BY <1>1, <1>5 DEF AddsThread
<1>11. /\ pinged' \in SUBSET Subjects /\ pinged' \subseteq pinged \cup {e.of}
       /\ ~(e.why \in AlwaysDeliver /\ e.alone) => pinged' = pinged
  BY <1>0, <1>2, <1>4, PingsIs
<1>12. InboxTyped'
  <2>1. DOMAIN inbox' \in SUBSET Nat /\ IsFiniteSet(DOMAIN inbox')
    <3>1. DOMAIN inbox \in SUBSET Nat /\ IsFiniteSet(DOMAIN inbox)
      BY <1>0 DEF InboxTyped
    <3> QED BY <1>9, <3>1, FS_AddElement
  <2>2. inbox' \in [DOMAIN inbox' -> Threaded]
    <3>1. \A i \in DOMAIN inbox : inbox[i] \in Threaded
      BY <1>0, RowType
    <3>2. \A i \in DOMAIN inbox' : inbox'[i] \in Threaded
      BY <1>9, <3>1
    <3>3. inbox' = [i \in DOMAIN inbox' |-> inbox'[i]]
      BY <1>8
    <3> QED BY <3>2, <3>3
  <2>3. doubled' \in SUBSET Subjects
    BY <1>0, <1>4, <1>10 DEF InboxTyped
  <2> QED BY <1>0, <1>2, <1>3, <1>11, <2>1, <2>2, <2>3 DEF InboxTyped
<1>13. CallsFit'
  BY <1>2, <1>3, <1>4 DEF InboxInv, CallsFit
<1>14. CallsApart'
  BY <1>3, <1>10 DEF InboxInv, CallsApart
<1>a. e.of \notin doubled => \A i \in DOMAIN inbox : inbox[i].of # e.of
  BY <1>1, <1>2 DEF InboxInv, OneRow
<1>b. \A d \in Notifiers \ {c} : notifying[d] # NoCall /\ notifying[d].of = e.of => e.of \in doubled
  BY <1>0, <1>1 DEF InboxInv, CallsApart
<1>c. \A d \in Notifiers : notifying[d].at # "free" <=> notifying[d] # NoCall
  BY <1>0, CallType
<1>15. OneRow'
  <2>1. ASSUME NEW i \in DOMAIN inbox', NEW j \in DOMAIN inbox', inbox'[i].of = inbox'[j].of
        PROVE  i = j \/ inbox'[i].of \in doubled'
    <3>1. CASE i \in DOMAIN inbox /\ j \in DOMAIN inbox
      BY <1>9, <1>10, <2>1, <3>1 DEF InboxInv, OneRow
    <3>2. CASE i = n \/ j = n
      BY <1>7, <1>9, <1>10, <1>a, <2>1, <3>2
    <3> QED BY <1>9, <3>1, <3>2
  <2>2. ASSUME NEW d \in Notifiers, notifying'[d].at \in {"count", "add"}, notifying'[d].of \notin doubled',
               NEW i \in DOMAIN inbox'
        PROVE  inbox'[i].of # notifying'[d].of
    <3>1. d # c /\ notifying'[d] = notifying[d] /\ notifying[d] # NoCall
      BY <1>3, <1>4, <1>c, <2>2
    <3>2. CASE i = n
      BY <1>7, <1>9, <1>10, <1>b, <2>2, <3>1, <3>2
    <3>3. CASE i \in DOMAIN inbox
      BY <1>9, <1>10, <2>2, <3>1, <3>3 DEF InboxInv, OneRow
    <3> QED BY <1>9, <3>2, <3>3
  <2> QED BY <2>1, <2>2 DEF OneRow
<1>16. RowsAreTheirs'
  <2> SUFFICES ASSUME NEW i \in DOMAIN inbox', inbox'[i].of \notin doubled'
               PROVE  /\ \A d \in Notifiers : notifying'[d].at = "save" /\ notifying'[d].id = i =>
                           /\ inbox'[i].of = notifying'[d].of
                           /\ \A r \in notifying'[d].copy : r.why = inbox'[i].why
                      /\ triaging' # NoCall /\ triaging'.id = i => inbox'[i].of = triaging'.of
    BY DEF RowsAreTheirs
  <2>1. \A d \in Notifiers : notifying'[d].at = "save" => notifying'[d] = notifying[d]
    BY <1>3, <1>4
  <2>2. CASE i = n
    <3>1. ~Awaited(n)
      BY <1>7, <1>9, <1>10, <2>2
    <3> QED BY <1>2, <2>1, <2>2, <3>1 DEF Awaited
  <2>3. CASE i \in DOMAIN inbox
    <3>1. inbox'[i] = inbox[i] /\ inbox[i].of \notin doubled /\ triaging' = triaging
      BY <1>2, <1>9, <1>10, <2>3
    <3> QED BY <2>1, <2>3, <3>1 DEF InboxInv, RowsAreTheirs
  <2> QED BY <1>9, <2>2, <2>3
<1>17. AloneIsFresh'
  <2> SUFFICES ASSUME NEW d \in Notifiers, notifying'[d].at = "save", notifying'[d].alone,
                      notifying'[d].of \notin doubled'
               PROVE  /\ notifying'[d].id \in DOMAIN inbox' /\ inbox'[notifying'[d].id].of = notifying'[d].of
                      /\ \A r \in notifying'[d].copy : /\ r.unread = inbox'[notifying'[d].id].unread
                                                      /\ r.status = inbox'[notifying'[d].id].status
    BY DEF AloneIsFresh
  <2>1. notifying'[d] = notifying[d] /\ notifying[d].of \notin doubled
    BY <1>3, <1>4, <1>10
  <2>2. /\ notifying[d].id \in DOMAIN inbox /\ inbox[notifying[d].id].of = notifying[d].of
        /\ \A r \in notifying[d].copy : /\ r.unread = inbox[notifying[d].id].unread
                                       /\ r.status = inbox[notifying[d].id].status
    BY <2>1 DEF InboxInv, AloneIsFresh
  <2> QED BY <1>9, <2>1, <2>2
<1>18. AlwaysDelivered'
  <2>1. ASSUME NEW s \in pinged' \ doubled'
        PROVE  following'[s] # "ignored" /\ \E i \in DOMAIN inbox' : Shows(i, s)'
    <3>1. CASE s \in pinged
      <4>1. following[s] # "ignored" /\ \E i \in DOMAIN inbox : Shows(i, s)
        BY <1>0, <1>10, <2>1, <3>1, DeliveredIs DEF InboxInv
      <4> QED BY <1>2, <1>9, <4>1 DEF Shows
    <3>2. CASE s \notin pinged
      <4>1. s = e.of /\ e.why \in AlwaysDeliver /\ e.alone
        BY <1>11, <2>1, <3>2
      <4>2. following[s] # "ignored"
        BY <1>0, <1>1, <1>2, <4>1 DEF InboxInv, CallsFit
      <4>3. Priority[f.why] >= 5
        BY <1>7, <4>1, ReasonsAre
      <4>4. Shows(n, s)'
        BY <1>7, <1>9, <4>1, <4>3 DEF Shows
      <4> QED BY <1>2, <1>9, <4>2, <4>4
    <3> QED BY <3>1, <3>2
  <2> QED BY <2>1, ReasonsAre DEF AlwaysDelivered, Surfaced, Threads, Shows
<1>19. CapInv'
  <2>1. \A d \in Notifiers : AddsPlain(d)' => AddsPlain(d) /\ d # c
    BY <1>3, <1>4 DEF AddsPlain
  <2>2. CASE e.why \in AlwaysDeliver
    <3>1. Plain' \subseteq Plain
      BY <1>7, <1>9, <2>2 DEF Plain
    <3> QED BY <1>0, <1>2, <2>1, <3>1, CapKeeps DEF InboxInv
  <2>3. CASE e.why \notin AlwaysDeliver
    <3> SUFFICES ASSUME ~flooded', MaxNewPerHour > 0
                 PROVE  /\ Cardinality(Plain') <= MaxNewPerHour
                        /\ \A d \in Notifiers : ~AddsPlain(d)'
      BY DEF CapInv
    <3>1. AddsPlain(c)
      BY <1>1, <1>2, <2>3 DEF AddsPlain
    <3>2. Cardinality(Plain) < MaxNewPerHour /\ \A d \in Notifiers : AddsPlain(d) => c = d
      BY <1>2, <3>1 DEF InboxInv, CapInv
    <3>3. Plain' \subseteq Plain \cup {n} /\ n \notin Plain
      BY <1>5, <1>9 DEF Plain
    <3>4. IsFiniteSet(Plain) /\ Cardinality(Plain) \in Nat
      BY <1>0, PlainIsFew
    <3> HIDE DEF Plain, AddsPlain
    <3>5. IsFiniteSet(Plain \cup {n}) /\ Cardinality(Plain \cup {n}) = Cardinality(Plain) + 1
      BY <3>3, <3>4, FS_AddElement
    <3>6. Cardinality(Plain') <= Cardinality(Plain \cup {n}) /\ Cardinality(Plain') \in Nat
      BY <3>3, <3>5, FS_Subset, FS_CardinalityType
    <3> QED BY <2>1, <3>2, <3>4, <3>5, <3>6, ReasonsAre
  <2> QED BY <2>2, <2>3
<1>20. ReasonSticks
  <2> SUFFICES ASSUME NEW i \in DOMAIN inbox
               PROVE  Priority[inbox'[i].why] >= Priority[inbox[i].why]
    BY DEF ReasonSticks
  <2>1. Priority[inbox[i].why] \in Nat
    BY <1>0, RowType, ReasonsAre
  <2> QED BY <1>9, <2>1
<1> QED BY <1>12, <1>13, <1>14, <1>15, <1>16, <1>17, <1>18, <1>19, <1>20 DEF InboxInv

\* What a saving call leaves of its row.
Collapsed(f, e, r, was) ==
  /\ f \in Threaded /\ f.of = was.of /\ f.forced = was.forced /\ f.fresh = was.fresh
  /\ f.why = IF Priority[e.why] >= Priority[r.why] /\ e.why # r.why THEN e.why ELSE was.why
  /\ ~r.unread => f.unread
  /\ was.unread => f.unread
  /\ f.status = IF r.status = "done" THEN "inbox" ELSE was.status

LEMMA CollapseIs ==
  ASSUME InboxInv, NEW c \in Notifiers, CollapsesThread(c), NEW e \in Calls, e = notifying[c]
  PROVE  \E r \in Threaded :
           /\ e.copy = {r}
           /\ e.id \notin DOMAIN inbox => inbox' = inbox
           /\ e.id \in DOMAIN inbox =>
                \E f : Collapsed(f, e, r, inbox[e.id]) /\ inbox' = [inbox EXCEPT ![e.id] = f]
<1>1. PICK r \in Threaded : e.copy = {r}
  BY DEF CollapsesThread, InboxInv, CallsFit
<1>2. (CHOOSE q \in notifying[c].copy : TRUE) = r
  BY <1>1
<1>3. e.id \notin DOMAIN inbox => inbox' = inbox
  BY Zenon DEF CollapsesThread
<1>4. ASSUME e.id \in DOMAIN inbox
      PROVE  \E f : Collapsed(f, e, r, inbox[e.id]) /\ inbox' = [inbox EXCEPT ![e.id] = f]
  <2>1. PICK was \in Threaded : was = inbox[e.id]
    BY <1>4, RowType DEF InboxInv
  <2>2. PICK w \in Reasons :
          w = IF Priority[e.why] >= Priority[r.why] /\ e.why # r.why THEN e.why ELSE was.why
    BY DEF Threaded, Calls
  <2>3. PICK u \in BOOLEAN : u = (was.unread \/ ~r.unread)
    BY DEF Threaded
  <2>4. PICK t \in ThreadStatus : t = IF r.status = "done" THEN "inbox" ELSE was.status
    BY DEF Threaded, ThreadStatus
  <2>5. PICK f : f = [was EXCEPT !.why = w, !.unread = u, !.status = t, !.old = FALSE]
    OBVIOUS
  <2>6. /\ f \in Threaded /\ f.of = was.of /\ f.forced = was.forced /\ f.fresh = was.fresh
        /\ f.why = w /\ f.unread = u /\ f.status = t
    BY <2>5 DEF Threaded
  <2>7. Collapsed(f, e, r, was)
    BY <2>2, <2>3, <2>4, <2>6 DEF Collapsed
  <2>8. inbox' = [inbox EXCEPT ![e.id] = [inbox[e.id] EXCEPT
           !.why = IF Sharper(e.why, r.why) /\ e.why # r.why THEN e.why ELSE inbox[e.id].why,
           !.unread = inbox[e.id].unread \/ ~r.unread,
           !.status = IF r.status = "done" THEN "inbox" ELSE inbox[e.id].status,
           !.old = FALSE]]
    BY <1>2, <1>4, Zenon DEF CollapsesThread
  <2>9. f = [inbox[e.id] EXCEPT
           !.why = IF Sharper(e.why, r.why) /\ e.why # r.why THEN e.why ELSE inbox[e.id].why,
           !.unread = inbox[e.id].unread \/ ~r.unread,
           !.status = IF r.status = "done" THEN "inbox" ELSE inbox[e.id].status,
           !.old = FALSE]
    BY <2>1, <2>2, <2>3, <2>4, <2>5, Zenon DEF Sharper
  <2>10. inbox' = [inbox EXCEPT ![e.id] = f]
    BY <2>8, <2>9, Zenon
  <2> QED BY <2>1, <2>7, <2>10, Zenon
<1> QED BY <1>1, <1>3, <1>4

\* The rows after a save: at most the one the call loaded changed.
Saved(e, r) ==
  /\ DOMAIN inbox' = DOMAIN inbox /\ inbox' \in [DOMAIN inbox' -> Threaded]
  /\ \A j \in DOMAIN inbox : j # e.id => inbox'[j] = inbox[j]
  /\ e.id \in DOMAIN inbox => Collapsed(inbox'[e.id], e, r, inbox[e.id])

LEMMA CollapseSaves ==
  ASSUME InboxInv, NEW c \in Notifiers, CollapsesThread(c), NEW e \in Calls, e = notifying[c]
  PROVE  \E r \in Threaded : e.copy = {r} /\ Saved(e, r)
<1>0. InboxTyped
  BY DEF InboxInv
<1>1. PICK r \in Threaded :
           /\ e.copy = {r}
           /\ e.id \notin DOMAIN inbox => inbox' = inbox
           /\ e.id \in DOMAIN inbox =>
                \E f : Collapsed(f, e, r, inbox[e.id]) /\ inbox' = [inbox EXCEPT ![e.id] = f]
  BY CollapseIs
<1>2. CASE e.id \notin DOMAIN inbox
  BY <1>0, <1>1, <1>2 DEF Saved, InboxTyped
<1>3. CASE e.id \in DOMAIN inbox
  <2>1. PICK f : Collapsed(f, e, r, inbox[e.id]) /\ inbox' = [inbox EXCEPT ![e.id] = f]
    BY <1>1, <1>3
  <2>2. f \in Threaded
    BY <2>1 DEF Collapsed
  <2>3. /\ DOMAIN inbox' = DOMAIN inbox /\ inbox' \in [DOMAIN inbox' -> Threaded]
        /\ inbox'[e.id] = f /\ \A j \in DOMAIN inbox \ {e.id} : inbox'[j] = inbox[j]
    BY <1>0, <1>3, <2>1, <2>2, RowsTyped
  <2> QED BY <1>1, <2>1, <2>3 DEF Saved
<1> QED BY <1>2, <1>3

LEMMA CollapsesStep ==
  ASSUME InboxInv, NEW c \in Notifiers, CollapsesThread(c)
  PROVE  InboxInv' /\ ReasonSticks
<1>0. InboxTyped /\ notifying[c] # NoCall /\ notifying[c] \in Calls /\ notifying[c].of \in Subjects
  BY CallType DEF InboxInv, CollapsesThread
<1>1. PICK e \in Calls : e = notifying[c]
  BY <1>0
<1>2. /\ UNCHANGED <<level, following, triaging, doubled, flooded>> /\ e.at = "save"
      /\ notifying' = [notifying EXCEPT ![c] = NoCall]
      /\ pinged' = Pings(e.of, e.why, e.alone)
  BY <1>1 DEF CollapsesThread, Ends
<1>3. /\ notifying' \in [Notifiers -> Calls \cup {NoCall}] /\ notifying'[c] = NoCall
      /\ \A d \in Notifiers \ {c} : notifying'[d] = notifying[d]
  BY <1>0, <1>2 DEF InboxTyped
<1>4. /\ e.of \in Subjects /\ e.why \in Reasons /\ e.alone \in BOOLEAN /\ NoCall.at = "free"
  BY DEF Calls, NoCall
<1>5. PICK r \in Threaded : e.copy = {r} /\ Saved(e, r)
  BY <1>1, CollapseSaves
<1>6. /\ pinged' \in SUBSET Subjects /\ pinged' \subseteq pinged \cup {e.of}
      /\ ~(e.why \in AlwaysDeliver /\ e.alone) => pinged' = pinged
  BY <1>0, <1>2, <1>4, PingsIs
<1>7. /\ DOMAIN inbox' = DOMAIN inbox
      /\ \A j \in DOMAIN inbox : /\ inbox'[j].of = inbox[j].of /\ inbox'[j].forced = inbox[j].forced
                                /\ inbox'[j].fresh = inbox[j].fresh
  BY <1>5 DEF Saved, Collapsed
<1>8. e.id \in DOMAIN inbox /\ inbox[e.id].of \notin doubled =>
        inbox[e.id].of = e.of /\ r.why = inbox[e.id].why
  BY <1>1, <1>2, <1>5 DEF InboxInv, RowsAreTheirs
<1>b. \A d \in Notifiers \ {c} : notifying[d] # NoCall /\ notifying[d].of = e.of => e.of \in doubled
  BY <1>0, <1>1 DEF InboxInv, CallsApart
<1>c. \A d \in Notifiers : notifying[d].at # "free" <=> notifying[d] # NoCall
  BY <1>0, CallType
<1>d. /\ Priority[e.why] \in Nat /\ Priority[r.why] \in Nat
      /\ \A j \in DOMAIN inbox : Priority[inbox[j].why] \in Nat
  <2>1. r.why \in Reasons
    BY DEF Threaded
  <2> QED BY <1>0, <1>4, <2>1, RowType, ReasonsAre
<1>9. InboxTyped'
  BY <1>0, <1>2, <1>3, <1>5, <1>6, <1>7 DEF InboxTyped, Saved
<1>10. CallsFit'
  BY <1>2, <1>3, <1>4 DEF InboxInv, CallsFit
<1>11. CallsApart'
  BY <1>2, <1>3 DEF InboxInv, CallsApart
<1>12. OneRow'
  <2>1. \A d \in Notifiers : notifying'[d].at \in {"count", "add"} => notifying'[d] = notifying[d]
    BY <1>3, <1>4
  <2> QED BY <1>2, <1>7, <2>1 DEF InboxInv, OneRow
<1>13. \A i \in DOMAIN inbox, d \in Notifiers :
         /\ inbox[i].of \notin doubled /\ notifying'[d].at = "save" /\ notifying'[d].id = i
         => /\ i # e.id /\ notifying'[d] = notifying[d]
  <2> SUFFICES ASSUME NEW i \in DOMAIN inbox, NEW d \in Notifiers, inbox[i].of \notin doubled,
                      notifying'[d].at = "save", notifying'[d].id = i
               PROVE  i # e.id /\ notifying'[d] = notifying[d]
    OBVIOUS
  <2>1. d # c /\ notifying'[d] = notifying[d] /\ notifying[d] # NoCall
    BY <1>3, <1>4, <1>c
  <2>2. inbox[i].of = notifying[d].of
    BY <2>1 DEF InboxInv, RowsAreTheirs
  <2> QED BY <1>8, <1>b, <2>1, <2>2
<1>14. RowsAreTheirs'
  <2> SUFFICES ASSUME NEW i \in DOMAIN inbox, inbox[i].of \notin doubled
               PROVE  /\ \A d \in Notifiers : notifying'[d].at = "save" /\ notifying'[d].id = i =>
                           /\ inbox[i].of = notifying'[d].of
                           /\ \A q \in notifying'[d].copy : q.why = inbox'[i].why
                      /\ triaging # NoCall /\ triaging.id = i => inbox[i].of = triaging.of
    BY <1>2, <1>7 DEF RowsAreTheirs
  <2>1. i # e.id => inbox'[i] = inbox[i]
    BY <1>5 DEF Saved
  <2> QED BY <1>13, <2>1 DEF InboxInv, RowsAreTheirs
<1>15. AloneIsFresh'
  <2> SUFFICES ASSUME NEW d \in Notifiers, notifying'[d].at = "save", notifying'[d].alone,
                      notifying'[d].of \notin doubled
               PROVE  /\ notifying'[d].id \in DOMAIN inbox' /\ inbox'[notifying'[d].id].of = notifying'[d].of
                      /\ \A q \in notifying'[d].copy : /\ q.unread = inbox'[notifying'[d].id].unread
                                                      /\ q.status = inbox'[notifying'[d].id].status
    BY <1>2 DEF AloneIsFresh
  <2>1. notifying'[d] = notifying[d]
    BY <1>3, <1>4
  <2>2. /\ notifying[d].id \in DOMAIN inbox /\ inbox[notifying[d].id].of = notifying[d].of
        /\ \A q \in notifying[d].copy : /\ q.unread = inbox[notifying[d].id].unread
                                       /\ q.status = inbox[notifying[d].id].status
    BY <2>1 DEF InboxInv, AloneIsFresh
  <2>3. notifying[d].id # e.id
    BY <1>13, <2>1, <2>2
  <2>4. inbox'[notifying[d].id] = inbox[notifying[d].id]
    BY <1>5, <2>2, <2>3 DEF Saved
  <2> QED BY <1>7, <2>1, <2>2, <2>4
<1>e. \A j \in DOMAIN inbox : inbox[j].of \notin doubled =>
        Priority[inbox'[j].why] >= Priority[inbox[j].why]
  <2> SUFFICES ASSUME NEW j \in DOMAIN inbox, inbox[j].of \notin doubled
               PROVE  Priority[inbox'[j].why] >= Priority[inbox[j].why]
    OBVIOUS
  <2>1. CASE j # e.id
    BY <1>5, <1>d, <2>1 DEF Saved
  <2>2. CASE j = e.id
    <3>1. r.why = inbox[j].why
      BY <1>8, <2>2
    <3>2. inbox'[j].why = IF Priority[e.why] >= Priority[r.why] /\ e.why # r.why
                          THEN e.why ELSE inbox[j].why
      BY <1>5, <2>2 DEF Saved, Collapsed
    <3> QED BY <1>d, <3>1, <3>2
  <2> QED BY <2>1, <2>2
<1>16. AlwaysDelivered'
  <2>1. ASSUME NEW s \in pinged' \ doubled
        PROVE  following[s] # "ignored" /\ \E i \in DOMAIN inbox : Shows(i, s)'
    <3>1. CASE s \in pinged
      <4>1. following[s] # "ignored" /\ \E i \in DOMAIN inbox : Shows(i, s)
        BY <1>0, <2>1, <3>1, DeliveredIs DEF InboxInv
      <4>2. PICK i \in DOMAIN inbox : Shows(i, s)
        BY <4>1
      <4>3. inbox[i].of = s /\ inbox[i].unread /\ inbox[i].status # "done" /\ Priority[inbox[i].why] >= 5
        BY <4>2 DEF Shows
      <4>4. inbox'[i].unread /\ inbox'[i].status # "done" /\ inbox'[i].of = s
        BY <1>5, <1>7, <4>3 DEF Saved, Collapsed
      <4>5. inbox'[i].why \in Reasons
        BY <1>9, <1>7 DEF InboxTyped, Threaded
      <4>6. Priority[inbox'[i].why] >= Priority[inbox[i].why] /\ Priority[inbox'[i].why] \in Nat
        BY <1>e, <2>1, <4>3, <4>5, ReasonsAre
      <4>7. Priority[inbox'[i].why] >= 5
        BY <1>d, <4>3, <4>6
      <4>8. Shows(i, s)'
        BY <4>4, <4>7 DEF Shows
      <4> QED BY <4>1, <4>8
    <3>2. CASE s \notin pinged
      <4>1. s = e.of /\ e.why \in AlwaysDeliver /\ e.alone
        BY <1>6, <2>1, <3>2
      <4>2. following[s] # "ignored"
        BY <1>0, <1>1, <1>2, <4>1 DEF InboxInv, CallsFit
      <4>3. PICK i \in DOMAIN inbox : i = e.id /\ inbox[i].of = s
                                      /\ r.unread = inbox[i].unread /\ r.status = inbox[i].status
        BY <1>1, <1>2, <1>5, <2>1, <4>1 DEF InboxInv, AloneIsFresh
      <4>4. Collapsed(inbox'[i], e, r, inbox[i])
        BY <1>5, <4>3 DEF Saved
      <4>5. inbox'[i].unread /\ inbox'[i].status # "done" /\ inbox'[i].of = s
        <5>1. r.unread \in BOOLEAN
          BY DEF Threaded
        <5> QED BY <4>3, <4>4, <5>1 DEF Collapsed
      <4>6. Priority[e.why] >= 5 /\ r.why = inbox[i].why
        BY <1>8, <2>1, <4>1, <4>3, ReasonsAre
      <4>7. inbox'[i].why = IF Priority[e.why] >= Priority[r.why] /\ e.why # r.why
                            THEN e.why ELSE inbox[i].why
        BY <4>4 DEF Collapsed
      <4>8. Priority[inbox'[i].why] >= 5
        BY <1>d, <4>6, <4>7
      <4>9. Shows(i, s)'
        BY <4>5, <4>8 DEF Shows
      <4> QED BY <4>2, <4>9
    <3> QED BY <3>1, <3>2
  <2>2. \A s \in pinged' \ doubled' :
          following'[s] # "ignored" /\ \E i \in DOMAIN inbox' : Shows(i, s)'
    BY <1>2, <1>7, <2>1
  <2> QED BY <2>2, ReasonsAre DEF AlwaysDelivered, Surfaced, Threads, Shows
<1>17. CapInv'
  <2>1. \A d \in Notifiers : AddsPlain(d)' => AddsPlain(d)
    BY <1>3, <1>4 DEF AddsPlain
  <2>2. Plain' \subseteq Plain
    BY <1>7 DEF Plain
  <2> QED BY <1>0, <1>2, <2>1, <2>2, CapKeeps DEF InboxInv
<1>18. ReasonSticks
  BY <1>7, <1>e DEF ReasonSticks
<1> QED BY <1>9, <1>10, <1>11, <1>12, <1>14, <1>15, <1>16, <1>17, <1>18 DEF InboxInv

LEMMA InboxStutters ==
  ASSUME InboxInv, UNCHANGED notificationVars
  PROVE  InboxInv'
<1>1. InboxTyped' /\ UserActs({})
  BY DEF InboxInv, InboxTyped, UserActs, Muffled, notificationVars
<1> QED BY <1>1, UserKeeps

LEMMA InboxStep ==
  ASSUME InboxInv, NotificationsNext
  PROVE  InboxInv' /\ ReasonSticks
BY NotifyStopsStep, NotifyStartsStep, ResubscribesStep, LooksStep, CountsStep, AddsStep, CollapsesStep,
   SettingsStep, SweepsStep, TriageLoadsStep, TriageSavesStep, Zenon DEF NotificationsNext

LEMMA InboxInvInit == NotificationsInit => InboxInv
<1> SUFFICES ASSUME NotificationsInit PROVE InboxInv
  OBVIOUS
<1>1. /\ level = "mentions_and_direct" /\ following = [s \in Subjects |-> "none"]
      /\ inbox = <<>> /\ notifying = [c \in Notifiers |-> NoCall] /\ triaging = NoCall
      /\ pinged = {} /\ doubled = {} /\ flooded = FALSE
  BY DEF NotificationsInit
<1>2. DOMAIN inbox = {} /\ inbox \in [DOMAIN inbox -> Threaded]
  BY <1>1
<1>3. \A c \in Notifiers : notifying[c] = NoCall /\ notifying[c].at = "free"
  BY <1>1 DEF NoCall
<1>4. InboxTyped
  <2>1. IsFiniteSet(DOMAIN inbox)
    BY <1>2, FS_EmptySet
  <2> QED BY <1>1, <1>2, <1>3, <2>1 DEF InboxTyped, Levels
<1>5. CapInv
  <2>1. Plain = {} /\ \A c \in Notifiers : ~AddsPlain(c)
    BY <1>2, <1>3 DEF Plain, AddsPlain
  <2>2. Cardinality(Plain) = 0
    BY <2>1, FS_EmptySet
  <2> HIDE DEF Plain, AddsPlain
  <2> QED BY <2>1, <2>2, ReasonsAre DEF CapInv
<1>6. CallsFit /\ CallsApart /\ OneRow /\ RowsAreTheirs /\ AloneIsFresh /\ AlwaysDelivered
  BY <1>1, <1>2, <1>3 DEF CallsFit, CallsApart, OneRow, RowsAreTheirs, AloneIsFresh, AlwaysDelivered
<1> QED BY <1>4, <1>5, <1>6 DEF InboxInv

LEMMA InboxInvAlways == NotificationsSpec => []InboxInv
<1>1. InboxInv /\ [NotificationsNext]_notificationVars => InboxInv'
  BY InboxStep, InboxStutters
<1> QED BY <1>1, InboxInvInit, PTL DEF NotificationsSpec

LEMMA InboxHolding ==
  ASSUME InboxInv
  PROVE  OneThread /\ AlwaysDelivered /\ NewThreadCap
<1>0. InboxTyped
  BY DEF InboxInv
<1>1. OneThread
  <2> SUFFICES ASSUME NEW s \in Subjects \ doubled PROVE Cardinality(Threads(s)) <= 1
    BY DEF OneThread
  <2>1. Threads(s) \in SUBSET DOMAIN inbox /\ IsFiniteSet(DOMAIN inbox)
    BY <1>0 DEF Threads, InboxTyped
  <2>2. IsFiniteSet(Threads(s)) /\ \A i, j \in Threads(s) : i = j
    BY <2>1, FS_Subset DEF Threads, InboxInv, OneRow
  <2> QED BY <2>2, AtMostOne
<1>2. NewThreadCap
  <2>1. MaxNewPerHour = 0 \/ MaxNewPerHour > 0
    BY ReasonsAre
  <2> QED BY <2>1 DEF InboxInv, CapInv, NewThreadCap, Plain
<1> QED BY <1>1, <1>2 DEF InboxInv

\* For any number of subjects, calls and gestures: one thread per subject, an
\* alert that stays in sight, a reason that is never lost and a flood within the
\* cap, unless calls overlapped or a row came back under the id of a pruned one.
THEOREM InboxHoldsAlways == NotificationsSpec => InboxHolds
<1>1. InboxInv' => (OneThread /\ AlwaysDelivered /\ NewThreadCap)'
  <2> SUFFICES ASSUME InboxInv PROVE OneThread /\ AlwaysDelivered /\ NewThreadCap
    BY PTL
  <2> QED BY InboxHolding
<1>2. InboxInv /\ InboxInv' /\ [NotificationsNext]_notificationVars
        => [(OneThread /\ AlwaysDelivered /\ NewThreadCap)' /\ ReasonSticks]_notificationVars
  BY <1>1, InboxStep
<1>3. NotificationsSpec => [][NotificationsNext]_notificationVars
  BY PTL DEF NotificationsSpec
<1> QED BY <1>2, <1>3, InboxInvAlways, PTL DEF InboxHolds

\* The types of the inbox, and that only a high-signal event is at work on a
\* copy of a done thread.
THEOREM NotificationsTypesHold == NotificationsSpec => []NotificationsTypeOK
<1>1. InboxInv => NotificationsTypeOK
  <2> SUFFICES ASSUME InboxInv PROVE NotificationsTypeOK
    OBVIOUS
  <2>0. InboxTyped
    BY DEF InboxInv
  <2>1. \A i \in DOMAIN inbox : inbox[i].of \in Subjects /\ inbox[i].why \in Reasons
                                /\ inbox[i].status \in {"inbox", "saved", "done"}
    BY <2>0, RowType DEF ThreadStatus
  <2>2. \A c \in Notifiers : notifying[c].at = "save" =>
          \A r \in notifying[c].copy : r.status = "done" => notifying[c].why \in HighSignal
    BY DEF InboxInv, CallsFit
  <2> QED BY <2>0, <2>1, <2>2 DEF InboxTyped, NotificationsTypeOK
<1> QED BY <1>1, InboxInvAlways, PTL

(***************************************************************************)
(* Access.  A request nobody's change has overtaken (~shifted) still       *)
(* carries what it read (ReadsAreFresh, KeeperDecides) and stands within   *)
(* the role it was let in by (ActsInRole).  From the write on, saw and     *)
(* always frame the audience of the moment (SeersFramed), the one kept for *)
(* the push as well (AudienceKept).                                        *)
(***************************************************************************)
Stages == {"board", "role", "keeper", "act", "audience", "members", "push"}
Acts == [at : Stages, bot : Bots, op : AgentOps, owns : BOOLEAN,
         seen : {"team", "private"}, role : Roles \cup {"none"}, to : SUBSET People,
         shifted : BOOLEAN, flipped : BOOLEAN, saw : SUBSET People, always : SUBSET People]

AccessTyped ==
  /\ visibility \in {"team", "private"} /\ fallback \in Roles \cup {"none"}
  /\ sharedWith \subseteq Mates /\ grants \in [Bots -> Roles \cup {"none"}] /\ holder \subseteq Bots
  /\ acting = NoAct \/ acting \in Acts
ReadsAreFresh ==
  /\ acting.at \in {"board", "role", "keeper", "act"} /\ ~acting.shifted =>
       (acting.owns <=> acting.bot \in holder)
  /\ acting.at \in {"role", "keeper"} /\ ~acting.shifted =>
       acting.seen = visibility /\ acting.role = fallback
KeeperDecides ==
  acting.at = "keeper" /\ ~acting.shifted =>
    grants[acting.bot] = "none" /\ visibility = "private"
RoleOf(b) == IF grants[b] # "none" THEN grants[b] ELSE fallback
ActsInRole ==
  acting.at = "act" /\ ~acting.shifted =>
    /\ AgentCapability(RoleOf(acting.bot), acting.op, acting.owns)
    /\ grants[acting.bot] = "none" => Sees(Keeper[acting.bot])
SeersFramed ==
  acting.at \in {"audience", "members", "push"} =>
    acting.always \subseteq Seers /\ Seers \subseteq acting.saw
AudienceKept ==
  /\ acting.at = "members" /\ ~acting.flipped => visibility = "private"
  /\ DeltaReaches

AccessInv ==
  AccessTyped /\ ReadsAreFresh /\ KeeperDecides /\ ActsInRole /\ SeersFramed /\ AudienceKept

LEMMA AccessInvInit == AccessInit => AccessInv
BY DEF AccessInit, AccessInv, AccessTyped, ReadsAreFresh, KeeperDecides, ActsInRole, SeersFramed,
       AudienceKept, DeltaReaches, NoAct, Roles

LEMMA IdleShape == ASSUME AccessTyped PROVE acting.at # "idle" => acting \in Acts /\ acting # NoAct
BY DEF AccessTyped, NoAct

\* A change by people leaves a request with nothing but the two frames, which
\* follow who sees the board.
LEMMA ChangeKeeps ==
  ASSUME AccessInv, Shaken,
         visibility' \in {"team", "private"}, fallback' \in Roles \cup {"none"},
         sharedWith' \subseteq Mates, grants' \in [Bots -> Roles \cup {"none"}], holder' \subseteq Bots
  PROVE  AccessInv'
<1> DEFINE now == {u \in People : Sees(u)'}
<1>1. CASE acting = NoAct
  <2>1. acting' = NoAct /\ NoAct.at = "idle"
    BY <1>1 DEF Shaken, NoAct
  <2> QED BY <2>1 DEF AccessInv, AccessTyped, ReadsAreFresh, KeeperDecides, ActsInRole, SeersFramed,
                      AudienceKept, DeltaReaches
<1>2. CASE acting # NoAct
  <2>1. acting \in Acts
    BY <1>2 DEF AccessInv, AccessTyped
  <2>2. acting' = [acting EXCEPT !.shifted = TRUE, !.flipped = acting.flipped \/ visibility' # visibility,
                                 !.saw = acting.saw \cup now, !.always = acting.always \cap now]
    BY <1>2 DEF Shaken
  <2>3. Seers' = now
    BY DEF Seers, People
  <2> HIDE DEF now
  <2>4. acting' \in Acts
    <3>1. now \subseteq People
      BY DEF now
    <3> QED BY <2>1, <2>2, <3>1 DEF Acts
  <2>5. /\ acting'.at = acting.at /\ acting'.shifted /\ acting'.to = acting.to
        /\ acting'.flipped = (acting.flipped \/ visibility' # visibility)
        /\ acting'.saw = acting.saw \cup now /\ acting'.always = acting.always \cap now
    BY <2>1, <2>2 DEF Acts
  <2>6. AccessTyped' /\ ReadsAreFresh' /\ KeeperDecides' /\ ActsInRole'
    BY <2>4, <2>5 DEF AccessTyped, ReadsAreFresh, KeeperDecides, ActsInRole
  <2>7. SeersFramed'
    BY <2>3, <2>5 DEF SeersFramed
  <2>8. AudienceKept'
    BY <2>5 DEF AccessInv, AudienceKept, DeltaReaches
  <2> QED BY <2>6, <2>7, <2>8 DEF AccessInv
<1> QED BY <1>1, <1>2

\* What a request has read stays what the board says, and it is let in by its
\* role alone.
LEMMA ActStepKeeps ==
  ASSUME AccessInv,
         \/ \E b \in Bots, op \in AgentOps : ActLoadsCard(b, op)
         \/ ActLoadsBoard \/ ActChecksGrant \/ ActChecksKeeper
  PROVE  AccessInv'
<1> USE DEF AccessInv
<1>1. UNCHANGED <<visibility, fallback, sharedWith, grants, holder>>
  BY DEF ActLoadsCard, ActLoadsBoard, ActChecksGrant, ActChecksKeeper
<1>2. ASSUME acting' = NoAct PROVE AccessInv'
  BY <1>1, <1>2 DEF AccessTyped, ReadsAreFresh, KeeperDecides, ActsInRole, SeersFramed,
                    AudienceKept, DeltaReaches, NoAct
<1>3. ASSUME NEW b \in Bots, NEW op \in AgentOps, ActLoadsCard(b, op) PROVE AccessInv'
  <2>1. /\ acting' \in Acts /\ acting'.at = "board" /\ acting'.bot = b
        /\ acting'.owns = (b \in holder)
    BY <1>3 DEF ActLoadsCard, Acts, Stages, Roles
  <2> QED BY <1>1, <2>1 DEF AccessTyped, ReadsAreFresh, KeeperDecides, ActsInRole, SeersFramed,
                            AudienceKept, DeltaReaches
<1>4. ASSUME ActLoadsBoard PROVE AccessInv'
  <2>1. acting \in Acts
    BY <1>4, IdleShape DEF ActLoadsBoard
  <2>2. /\ acting' \in Acts /\ acting'.at = "role" /\ acting'.bot = acting.bot
        /\ acting'.owns = acting.owns /\ acting'.shifted = acting.shifted
        /\ acting'.seen = visibility /\ acting'.role = fallback
    BY <1>4, <2>1 DEF ActLoadsBoard, Acts, Stages, AccessTyped
  <2> QED BY <1>1, <1>4, <2>2 DEF ActLoadsBoard, AccessTyped, ReadsAreFresh, KeeperDecides,
                                  ActsInRole, SeersFramed, AudienceKept, DeltaReaches
<1>5. ASSUME NEW role, Allowed(role), acting \in Acts, acting.at \in {"role", "keeper"},
             ~acting.shifted => role = RoleOf(acting.bot)
                                /\ (grants[acting.bot] = "none" => role = "none" \/ Sees(Keeper[acting.bot]))
      PROVE  AccessInv'
  <2>1. CASE AgentCapability(role, acting.op, acting.owns)
    <3>1. /\ acting' \in Acts /\ acting'.at = "act" /\ acting'.bot = acting.bot
          /\ acting'.op = acting.op /\ acting'.owns = acting.owns /\ acting'.shifted = acting.shifted
      BY <1>5, <2>1 DEF Allowed, Acts, Stages
    <3>2. role # "none"
      BY <2>1 DEF AgentCapability
    <3>3. RoleOf(acting.bot)' = RoleOf(acting.bot) /\ Sees(Keeper[acting.bot])' = Sees(Keeper[acting.bot])
      BY <1>1, <3>1 DEF RoleOf, Sees
    <3>4. AccessTyped' /\ ReadsAreFresh' /\ KeeperDecides' /\ SeersFramed' /\ AudienceKept'
      BY <1>1, <1>5, <3>1 DEF AccessTyped, ReadsAreFresh, KeeperDecides, SeersFramed, AudienceKept, DeltaReaches
    <3>5. ActsInRole'
      BY <1>1, <1>5, <2>1, <3>1, <3>2, <3>3 DEF ActsInRole
    <3> QED BY <3>4, <3>5
  <2>2. CASE ~AgentCapability(role, acting.op, acting.owns)
    BY <1>2, <1>5, <2>2 DEF Allowed
  <2> QED BY <2>1, <2>2
<1>6. ASSUME ActChecksGrant PROVE AccessInv'
  <2>1. acting \in Acts /\ acting.at = "role"
    BY <1>6, IdleShape DEF ActChecksGrant
  <2>2. ~acting.shifted => acting.seen = visibility /\ acting.role = fallback
    BY <2>1 DEF ReadsAreFresh
  <2>3. CASE grants[acting.bot] # "none"
    <3>1. Allowed(grants[acting.bot])
      BY <1>6, <2>3 DEF ActChecksGrant
    <3> QED BY <1>5, <2>1, <2>3, <3>1 DEF RoleOf
  <2>4. CASE grants[acting.bot] = "none" /\ (acting.role = "none" \/ acting.seen = "team")
    <3>1. Allowed(acting.role)
      BY <1>6, <2>4 DEF ActChecksGrant
    <3>2. ~acting.shifted => acting.role = RoleOf(acting.bot)
                             /\ (acting.role = "none" \/ Sees(Keeper[acting.bot]))
      BY <2>2, <2>4 DEF RoleOf, Sees
    <3> QED BY <1>5, <2>1, <3>1, <3>2
  <2>5. CASE grants[acting.bot] = "none" /\ acting.role # "none" /\ acting.seen # "team"
    <3>1. /\ acting' \in Acts /\ acting'.at = "keeper" /\ acting'.bot = acting.bot
          /\ acting'.owns = acting.owns /\ acting'.shifted = acting.shifted
          /\ acting'.seen = acting.seen /\ acting'.role = acting.role
      BY <1>6, <2>1, <2>5 DEF ActChecksGrant, ActGoes, Acts, Stages
    <3> QED BY <1>1, <2>1, <2>2, <2>5, <3>1 DEF AccessTyped, ReadsAreFresh, KeeperDecides, ActsInRole,
                                                SeersFramed, AudienceKept, DeltaReaches
  <2> QED BY <2>3, <2>4, <2>5
<1>7. ASSUME ActChecksKeeper PROVE AccessInv'
  <2> DEFINE role == IF DefaultRoleApplies(acting.bot) THEN acting.role ELSE "none"
  <2>1. acting \in Acts /\ acting.at = "keeper" /\ Allowed(role)
    BY <1>7, IdleShape DEF ActChecksKeeper
  <2>2. CASE ~acting.shifted /\ ~DefaultRoleApplies(acting.bot)
    BY <1>2, <2>1, <2>2 DEF Allowed, AgentCapability
  <2>3. CASE acting.shifted \/ DefaultRoleApplies(acting.bot)
    <3>1. ~acting.shifted => role = fallback /\ grants[acting.bot] = "none" /\ Sees(Keeper[acting.bot])
      BY <2>1, <2>3 DEF ReadsAreFresh, KeeperDecides, DefaultRoleApplies, Sees
    <3> HIDE DEF role
    <3> QED BY <1>5, <2>1, <3>1 DEF RoleOf
  <2> QED BY <2>2, <2>3
<1> QED BY <1>3, <1>4, <1>6, <1>7

\* From the write to the push, the audience is framed by who saw the board.
LEMMA TellStepKeeps ==
  ASSUME AccessInv, Act \/ ActReadsBoard \/ ActReadsMembers \/ NotifyBoard
  PROVE  AccessInv'
<1> USE DEF AccessInv
<1>1. UNCHANGED <<visibility, fallback, sharedWith, grants, holder>>
  BY DEF Act, ActReadsBoard, ActReadsMembers, NotifyBoard
<1>2. Seers' = Seers /\ Seers \subseteq People
  BY <1>1 DEF Seers, Sees
<1>3. acting \in Acts
  BY IdleShape DEF Act, ActReadsBoard, ActReadsMembers, NotifyBoard
<1>4. ASSUME acting' = NoAct PROVE AccessInv'
  BY <1>1, <1>4 DEF AccessTyped, ReadsAreFresh, KeeperDecides, ActsInRole, SeersFramed,
                    AudienceKept, DeltaReaches, NoAct
<1>5. ASSUME acting' \in Acts, acting'.at = "audience", acting'.saw = Seers, acting'.always = Seers
      PROVE  AccessInv'
  BY <1>1, <1>2, <1>5 DEF AccessTyped, ReadsAreFresh, KeeperDecides, ActsInRole, SeersFramed,
                          AudienceKept, DeltaReaches
<1>6. ASSUME Act PROVE AccessInv'
  <2>1. CASE acting.op = "view"
    BY <1>4, <1>6, <2>1 DEF Act
  <2>2. CASE acting.op # "view"
    BY <1>2, <1>3, <1>5, <1>6, <2>2 DEF Act, Acts, Stages
  <2> QED BY <2>1, <2>2
<1>7. ASSUME acting' \in Acts, acting'.at \in {"members", "push"}, acting.at \in {"audience", "members"},
             acting'.saw = acting.saw, acting'.always = acting.always, acting'.flipped = acting.flipped,
             AudienceKept'
      PROVE  AccessInv'
  BY <1>1, <1>2, <1>7 DEF AccessTyped, ReadsAreFresh, KeeperDecides, ActsInRole, SeersFramed
<1>8. ASSUME ActReadsBoard PROVE AccessInv'
  <2>1. CASE visibility = "team"
    <3>1. /\ acting' \in Acts /\ acting'.at = "push" /\ acting'.to = People
          /\ acting'.saw = acting.saw /\ acting'.always = acting.always /\ acting'.flipped = acting.flipped
      BY <1>3, <1>8, <2>1 DEF ActReadsBoard, Acts, Stages
    <3>2. Seers = People /\ acting.at = "audience"
      BY <1>8, <2>1 DEF Seers, Sees, ActReadsBoard
    <3>3. AudienceKept'
      BY <1>2, <3>1, <3>2 DEF AudienceKept, DeltaReaches, SeersFramed
    <3> QED BY <1>7, <3>1, <3>2, <3>3
  <2>2. CASE visibility # "team"
    <3>1. /\ acting' \in Acts /\ acting'.at = "members" /\ acting.at = "audience"
          /\ acting'.saw = acting.saw /\ acting'.always = acting.always /\ acting'.flipped = acting.flipped
      BY <1>3, <1>8, <2>2 DEF ActReadsBoard, Acts, Stages
    <3>2. AudienceKept'
      BY <1>1, <2>2, <3>1 DEF AudienceKept, DeltaReaches, AccessTyped
    <3> QED BY <1>7, <3>1, <3>2
  <2> QED BY <2>1, <2>2
<1>9. ASSUME ActReadsMembers PROVE AccessInv'
  <2>1. sharedWith \cup {Owner} \subseteq Seers
    BY DEF Seers, Sees, People, AccessTyped
  <2>2. /\ acting' \in Acts /\ acting'.at = "push" /\ acting.at = "members" /\ acting'.to = sharedWith \cup {Owner}
        /\ acting'.saw = acting.saw /\ acting'.always = acting.always /\ acting'.flipped = acting.flipped
    BY <1>2, <1>3, <1>9, <2>1 DEF ActReadsMembers, Acts, Stages
  <2>3. ~acting.flipped => Seers = sharedWith \cup {Owner}
    BY <2>1, <2>2 DEF AudienceKept, Seers, Sees
  <2>4. AudienceKept'
    BY <2>1, <2>2, <2>3 DEF AudienceKept, DeltaReaches, SeersFramed
  <2> QED BY <1>7, <2>2, <2>4
<1>10. ASSUME NotifyBoard PROVE AccessInv'
  BY <1>4, <1>10 DEF NotifyBoard
<1> QED BY <1>6, <1>8, <1>9, <1>10

LEMMA AccessInvStep == AccessInv /\ [AccessNext]_accessVars => AccessInv'
<1> SUFFICES ASSUME AccessInv, [AccessNext]_accessVars PROVE AccessInv'
  OBVIOUS
<1>0. /\ visibility \in {"team", "private"} /\ fallback \in Roles \cup {"none"}
      /\ sharedWith \subseteq Mates /\ grants \in [Bots -> Roles \cup {"none"}] /\ holder \subseteq Bots
  BY DEF AccessInv, AccessTyped
<1>1. ASSUME NEW seen \in {"team", "private"}, NEW role \in Roles \cup {"none"}, UpdateBoard(seen, role)
      PROVE  AccessInv'
  BY <1>0, <1>1, ChangeKeeps DEF UpdateBoard, Change
<1>2. ASSUME NEW u \in Mates, ShareBoard(u) \/ UnshareBoard(u) PROVE AccessInv'
  BY <1>0, <1>2, ChangeKeeps DEF ShareBoard, UnshareBoard, Change
<1>3. ASSUME NEW u \in People, NEW b \in Bots, NEW role \in Roles \cup {"none"}, SetGrant(u, b, role)
      PROVE  AccessInv'
  BY <1>0, <1>3, ChangeKeeps DEF SetGrant, Change
<1>4. ASSUME NEW S \in SUBSET Bots, Assign(S) PROVE AccessInv'
  BY <1>0, <1>4, ChangeKeeps DEF Assign, Change
<1>5. CASE (\E b \in Bots, op \in AgentOps : ActLoadsCard(b, op))
           \/ ActLoadsBoard \/ ActChecksGrant \/ ActChecksKeeper
  BY <1>5, ActStepKeeps
<1>6. CASE Act \/ ActReadsBoard \/ ActReadsMembers \/ NotifyBoard
  BY <1>6, TellStepKeeps
<1>7. CASE UNCHANGED accessVars
  BY <1>7 DEF accessVars, AccessInv, AccessTyped, ReadsAreFresh, KeeperDecides, ActsInRole, RoleOf,
              SeersFramed, Seers, Sees, AudienceKept, DeltaReaches
<1> QED BY <1>1, <1>2, <1>3, <1>4, <1>5, <1>6, <1>7 DEF AccessNext

\* For any users, agents and changes: an agent acts within the role it has at
\* that moment, and its delta reaches those who saw the board throughout and
\* nobody who never did.
THEOREM AccessHoldsAlways == AccessSpec => []AccessHolds
<1>1. AccessInv => AccessHolds
  <2> SUFFICES ASSUME AccessInv PROVE AccessHolds
    OBVIOUS
  <2>1. AgentsKeepToRole
    <3> SUFFICES ASSUME acting.at = "act", ~acting.shifted
                 PROVE  LET b == acting.bot
                            editor == grants[b] = "editor" \/ (grants[b] = "none" /\ fallback = "editor")
                        IN /\ grants[b] = "none" => fallback # "none" /\ Sees(Keeper[b])
                           /\ acting.op = "move" /\ b \notin holder => editor
                           /\ acting.op \in {"create", "move"} => grants[b] # "viewer"
      BY DEF AgentsKeepToRole
    <3>1. /\ AgentCapability(RoleOf(acting.bot), acting.op, acting.owns)
          /\ grants[acting.bot] = "none" => Sees(Keeper[acting.bot])
          /\ acting.owns <=> acting.bot \in holder
      BY DEF AccessInv, ActsInRole, ReadsAreFresh
    <3> QED BY <3>1 DEF AgentCapability, RoleOf
  <2>2. DeltaReaches
    BY DEF AccessInv, AudienceKept
  <2> QED BY <2>1, <2>2 DEF AccessHolds
<1> QED BY <1>1, AccessInvInit, AccessInvStep, PTL DEF AccessSpec

(***************************************************************************)
(* Columns.  A board is seeded once (SeedOnce).  While no history says     *)
(* otherwise (Smooth), a bare board is being seeded and nobody chooses or  *)
(* deletes on it (BareIsSeeded); a ready board has at most one request     *)
(* that chooses the landing column, with no deletion beside it (OneChoice),*)
(* the flag a request has loaded is that of the column (FlagsAreFresh),    *)
(* and the landing column is one, or none while the choice is between its  *)
(* two statements (LandingIsOne).  While places are not tied, one request  *)
(* adds (OneAdds), behind every column (AddsBehind).                       *)
(***************************************************************************)
Choosing == {"clear", "mark"}
Dropping == {"count", "drop"}
ColumnRequests == [at : Choosing \cup Dropping, col : Nat, landing : BOOLEAN]

ServingTyped ==
  /\ DOMAIN serving = Clients
  /\ \A r \in Clients :
       /\ serving[r].at = "add" => serving[r].place \in Nat
       /\ serving[r].at \in Choosing \cup Dropping => serving[r] \in ColumnRequests
SeedOnce ==
  /\ \A r \in Clients : serving[r].at = "seed" =>
       board \in {"bare", "gone"} /\ \A q \in Clients : serving[q].at = "seed" => q = r
  /\ board = "absent" => columns = <<>> /\ \A r \in Clients : serving[r].at = "quiet"
ColumnsTyped == ColumnsTypeOK /\ DOMAIN slips = Slips /\ ServingTyped /\ SeedOnce

Smooth == ~(clashed \/ torn \/ remarked)
BareIsSeeded ==
  board = "bare" =>
    Landings = {} /\ AnyAt({"seed"}) /\ ~AnyAt(Choosing \cup Dropping)
OneChoice ==
  \A r \in Clients : serving[r].at \in Choosing =>
    Stands(serving[r].col) /\ \A q \in Clients : serving[q].at \in Choosing \cup Dropping => q = r
FlagsAreFresh ==
  \A r \in Clients : serving[r].at \in {"clear", "count", "drop"} =>
    /\ serving[r].landing <=> serving[r].col \in Landings
    /\ serving[r].at = "drop" => ~serving[r].landing
LandingIsOne == IF AnyAt({"mark"}) THEN Landings = {} ELSE \E k \in DOMAIN columns : Landings = {k}
LandingInv ==
  Smooth => BareIsSeeded /\ (board = "ready" => OneChoice /\ FlagsAreFresh /\ LandingIsOne)

OneAdds == \A r, q \in Clients : {serving[r].at, serving[q].at} \subseteq {"add", "seed"} => r = q
AddsBehind ==
  \A r \in Clients : serving[r].at = "add" => \A k \in DOMAIN columns : columns[k].place < serving[r].place
OrderInv == ColumnOrder /\ (~tied => OneAdds /\ AddsBehind)

ColumnsInv == ColumnsTyped /\ CardsHaveColumn /\ LandingInv /\ OrderInv

LEMMA ColumnConstants ==
  /\ DefaultColumns \in Seq(BOOLEAN) /\ Len(DefaultColumns) \in Nat
  /\ DOMAIN DefaultColumns = 1 .. Len(DefaultColumns)
  /\ MaxColumns \in Nat /\ MaxAsked \in Nat
BY ColumnsAssumption

LEMMA ColumnsFinite ==
  ASSUME ColumnsTypeOK
  PROVE  IsFiniteSet(DOMAIN columns) /\ DOMAIN columns \in SUBSET Nat
<1>1. 1 \in Int /\ MaxColumns \in Int
  BY ColumnConstants
<1>2. IsFiniteSet(1 .. MaxColumns)
  BY <1>1, FS_Interval, Zenon
<1>3. DOMAIN columns \in SUBSET (1 .. MaxColumns)
  BY DEF ColumnsTypeOK
<1>4. IsFiniteSet(DOMAIN columns)
  BY <1>2, <1>3, FS_Subset
<1> QED BY <1>3, <1>4

\* The greatest id is that of no column after the last.
LEMMA LastId ==
  ASSUME ColumnsTypeOK
  PROVE  LET last == Max({0} \cup DOMAIN columns)
         IN last \in Nat /\ \A k \in DOMAIN columns : k <= last
<1> DEFINE S == {0} \cup DOMAIN columns
<1>1. IsFiniteSet({0}) /\ IsFiniteSet(DOMAIN columns)
  BY ColumnsFinite, FS_Singleton
<1>2. IsFiniteSet(S)
  BY <1>1, FS_Union
<1>3. S \in SUBSET Nat /\ S # {}
  BY ColumnsFinite
<1> HIDE DEF S
<1>4. Max(S) \in S /\ \A y \in S : Max(S) >= y
  BY <1>2, <1>3, MaxIsGreatest
<1>5. \A k \in DOMAIN columns : k \in S
  BY DEF S
<1>6. Max(S) \in Nat /\ \A k \in DOMAIN columns : k <= Max(S)
  BY <1>3, <1>4, <1>5
<1> QED BY <1>6 DEF S

\* A new column comes behind every column.
LEMMA NextIsBehind ==
  ASSUME ColumnsTypeOK
  PROVE  NextPlace \in Nat /\ \A k \in DOMAIN columns : columns[k].place < NextPlace
<1> DEFINE P == {columns[k].place : k \in DOMAIN columns}
           f == [k \in DOMAIN columns |-> columns[k].place]
           S == {0} \cup P
<1>1. f \in Surjection(DOMAIN columns, P)
  BY DEF Surjection
<1>2. IsFiniteSet(DOMAIN columns)
  BY ColumnsFinite
<1>3. \A k \in DOMAIN columns : columns[k].place \in Nat
  BY DEF ColumnsTypeOK
<1>4. P \in SUBSET Nat /\ \A k \in DOMAIN columns : columns[k].place \in P
  BY <1>3
<1> HIDE DEF f, P
<1>5. IsFiniteSet(P)
  BY <1>1, <1>2, FS_Surjection
<1>6. IsFiniteSet(S)
  BY <1>5, FS_Singleton, FS_Union
<1>7. S \in SUBSET Nat /\ S # {} /\ \A k \in DOMAIN columns : columns[k].place \in S
  BY <1>4
<1> HIDE DEF S
<1>8. Max(S) \in S /\ \A y \in S : Max(S) >= y
  BY <1>6, <1>7, MaxIsGreatest
<1>9. Max(S) \in Nat /\ \A k \in DOMAIN columns : columns[k].place \in Nat /\ Max(S) >= columns[k].place
  BY <1>7, <1>8
<1>10. NextPlace = 1 + Max(S)
  BY DEF NextPlace, S, P
<1> QED BY <1>9, <1>10

LEMMA AskEffect ==
  ASSUME ServingTyped, NEW r \in Clients, NEW request, Asks(r, request)
  PROVE  /\ serving[r].at = "quiet" /\ DOMAIN serving' = Clients /\ serving'[r] = request
         /\ \A q \in Clients : q # r => serving'[q] = serving[q]
BY DEF ServingTyped, Asks, Quiet

LEMMA ReturnEffect ==
  ASSUME ServingTyped, NEW r \in Clients, Returns(r)
  PROVE  /\ DOMAIN serving' = Clients /\ serving'[r].at = "quiet"
         /\ \A q \in Clients : q # r => serving'[q] = serving[q]
BY DEF ServingTyped, Returns, Quiet

LEMMA ProceedEffect ==
  ASSUME ServingTyped, NEW r \in Clients, serving[r].at \in Choosing \cup Dropping,
         NEW stage \in Choosing \cup Dropping, Proceeds(r, stage)
  PROVE  /\ DOMAIN serving' = Clients /\ serving'[r] \in ColumnRequests /\ serving'[r].at = stage
         /\ serving'[r].col = serving[r].col /\ serving'[r].landing = serving[r].landing
         /\ \A q \in Clients : q # r => serving'[q] = serving[q]
<1>1. serving[r] \in ColumnRequests
  BY DEF ServingTyped
<1>2. /\ DOMAIN serving' = Clients /\ serving'[r] = [serving[r] EXCEPT !.at = stage]
      /\ \A q \in Clients : q # r => serving'[q] = serving[q]
  BY DEF ServingTyped, Proceeds
<1> QED BY <1>1, <1>2 DEF ColumnRequests

LEMMA DieEffect ==
  ASSUME HubDies
  PROVE  DOMAIN serving' = Clients /\ \A r \in Clients : serving'[r].at = "quiet"
BY DEF HubDies, Quiet

\* What a step does to its own request keeps the requests typed and the seeding one.
LEMMA ServingStep ==
  ASSUME ServingTyped, SeedOnce, NEW r \in Clients, UNCHANGED board, board # "absent",
         DOMAIN serving' = Clients, \A q \in Clients : q # r => serving'[q] = serving[q],
         serving'[r].at # "seed",
         serving'[r].at = "add" => serving'[r].place \in Nat,
         serving'[r].at \in Choosing \cup Dropping => serving'[r] \in ColumnRequests
  PROVE  ServingTyped' /\ SeedOnce'
<1>1. ServingTyped'
  BY DEF ServingTyped
<1>2. SeedOnce'
  BY DEF SeedOnce
<1> QED BY <1>1, <1>2

LEMMA AskKeeps ==
  ASSUME ServingTyped, SeedOnce, NEW r \in Clients, NEW request, Asks(r, request),
         UNCHANGED board, board # "absent", request.at # "seed",
         request.at = "add" => request.place \in Nat,
         request.at \in Choosing \cup Dropping => request \in ColumnRequests
  PROVE  ServingTyped' /\ SeedOnce'
<1>1. /\ DOMAIN serving' = Clients /\ serving'[r] = request
      /\ \A q \in Clients : q # r => serving'[q] = serving[q]
  BY AskEffect
<1> QED BY <1>1, ServingStep

LEMMA ReturnKeeps ==
  ASSUME ServingTyped, SeedOnce, NEW r \in Clients, Returns(r), UNCHANGED board, serving[r].at # "quiet"
  PROVE  ServingTyped' /\ SeedOnce'
<1>1. /\ DOMAIN serving' = Clients /\ serving'[r].at = "quiet"
      /\ \A q \in Clients : q # r => serving'[q] = serving[q]
  BY ReturnEffect
<1>2. board # "absent"
  BY DEF SeedOnce
<1> QED BY <1>1, <1>2, ServingStep DEF Choosing, Dropping

LEMMA ProceedKeeps ==
  ASSUME ServingTyped, SeedOnce, NEW r \in Clients, serving[r].at \in Choosing \cup Dropping,
         NEW stage \in Choosing \cup Dropping, Proceeds(r, stage), UNCHANGED board
  PROVE  ServingTyped' /\ SeedOnce'
<1>1. /\ DOMAIN serving' = Clients /\ serving'[r] \in ColumnRequests /\ serving'[r].at = stage
      /\ \A q \in Clients : q # r => serving'[q] = serving[q]
  BY ProceedEffect
<1>2. board # "absent" /\ stage # "seed" /\ stage # "add"
  BY DEF SeedOnce, Choosing, Dropping
<1> QED BY <1>1, <1>2, ServingStep

\* Every request keeps the types; ids grow within the bound.
LEMMA ColumnsTypedStep ==
  ASSUME ColumnsTyped, [ColumnsNext]_columnVars
  PROVE  ColumnsTyped'
<1> USE DEF ColumnsTyped
<1>1. ASSUME NEW r \in Clients, CreateBoard(r) PROVE ColumnsTyped'
  <2>1. Asks(r, [at |-> "seed"]) /\ board = "absent" /\ board' = "bare" /\ UNCHANGED <<columns, slips>>
    BY <1>1 DEF CreateBoard
  <2>2. ServingTyped' /\ SeedOnce'
    <3>1. /\ DOMAIN serving' = Clients /\ serving'[r] = [at |-> "seed"]
          /\ \A q \in Clients : q # r => serving'[q] = serving[q]
      BY <2>1, AskEffect
    <3>2. \A q \in Clients : serving[q].at = "quiet"
      BY <2>1 DEF SeedOnce
    <3>3. ServingTyped'
      BY <3>1 DEF ServingTyped, Choosing, Dropping
    <3> QED BY <2>1, <3>1, <3>2, <3>3 DEF SeedOnce
  <2> QED BY <2>1, <2>2 DEF ColumnsTypeOK
<1>2. ASSUME NEW r \in Clients, SeedColumns(r) PROVE ColumnsTyped'
  <2> DEFINE last == Max({0} \cup DOMAIN columns)
             added == (last + 1) .. (last + Len(DefaultColumns))
  <2>1. Returns(r) /\ serving[r].at = "seed" /\ UNCHANGED slips
    BY <1>2 DEF SeedColumns
  <2>2. ServingTyped' /\ \A q \in Clients : serving'[q].at # "seed"
    <3>1. /\ DOMAIN serving' = Clients /\ serving'[r].at = "quiet"
          /\ \A q \in Clients : q # r => serving'[q] = serving[q]
      BY <2>1, ReturnEffect
    <3>2. ServingTyped'
      BY <3>1 DEF ServingTyped, Choosing, Dropping
    <3>3. \A q \in Clients : serving[q].at = "seed" => q = r
      BY <2>1 DEF SeedOnce
    <3> QED BY <3>1, <3>2, <3>3
  <2>3. CASE board = "gone"
    BY <1>2, <2>1, <2>2, <2>3 DEF SeedColumns, ColumnsTypeOK, SeedOnce
  <2>4. CASE board # "gone"
    <3>1. last \in Nat /\ \A k \in DOMAIN columns : k <= last
      BY LastId
    <3>2. /\ board' = "ready" /\ last + Len(DefaultColumns) <= MaxColumns
          /\ columns' = [k \in DOMAIN columns \cup added |->
               IF Stands(k) THEN columns[k] ELSE [place |-> k - last, landing |-> DefaultColumns[k - last]]]
      BY <1>2, <2>4 DEF SeedColumns
    <3> HIDE DEF last
    <3>3. \A k \in added : k \in 1 .. MaxColumns /\ k - last \in Nat /\ k - last \in DOMAIN DefaultColumns
      BY <3>1, <3>2, ColumnConstants
    <3>4. \A i \in DOMAIN DefaultColumns : DefaultColumns[i] \in BOOLEAN
      BY ColumnConstants
    <3> HIDE DEF added
    <3>5. DOMAIN columns' \subseteq 1 .. MaxColumns
      BY <3>2, <3>3 DEF ColumnsTypeOK
    <3>6. \A k \in DOMAIN columns' : columns'[k] \in [place : Nat, landing : BOOLEAN]
      BY <3>2, <3>3, <3>4 DEF ColumnsTypeOK, Stands
    <3> QED BY <2>1, <2>2, <3>2, <3>5, <3>6 DEF ColumnsTypeOK, SeedOnce
  <2> QED BY <2>3, <2>4
<1>3. ASSUME NEW r \in Clients, AddColumnLooks(r) PROVE ColumnsTyped'
  <2>1. /\ Asks(r, [at |-> "add", place |-> NextPlace]) /\ board # "absent"
        /\ UNCHANGED <<board, columns, slips>>
    BY <1>3 DEF AddColumnLooks
  <2>2. ServingTyped' /\ SeedOnce'
    BY <2>1, AskKeeps, NextIsBehind DEF Choosing, Dropping
  <2> QED BY <2>1, <2>2 DEF ColumnsTypeOK
<1>4. ASSUME NEW r \in Clients, AddColumn(r) PROVE ColumnsTyped'
  <2> DEFINE id == 1 + Max({0} \cup DOMAIN columns)
  <2>1. /\ Returns(r) /\ serving[r].at = "add" /\ UNCHANGED <<board, slips>> /\ id <= MaxColumns
        /\ columns' = IF board = "gone" THEN columns
                      ELSE [k \in DOMAIN columns \cup {id} |->
                        IF Stands(k) THEN columns[k] ELSE [place |-> serving[r].place, landing |-> FALSE]]
    BY <1>4 DEF AddColumn
  <2>2. ServingTyped' /\ SeedOnce' /\ serving[r].place \in Nat
    BY <2>1, ReturnKeeps DEF ServingTyped
  <2>3. id \in 1 .. MaxColumns
    BY <2>1, LastId, ColumnConstants
  <2> HIDE DEF id
  <2>4. ColumnsTypeOK'
    BY <2>1, <2>2, <2>3 DEF ColumnsTypeOK, Stands
  <2> QED BY <2>1, <2>2, <2>4
<1>5. ASSUME NEW r \in Clients, NEW k \in DOMAIN columns, MarkLoads(r, k) \/ DropLoads(r, k)
      PROVE  ColumnsTyped'
  <2>1. PICK stage \in Choosing \cup Dropping : Asks(r, [at |-> stage, col |-> k, landing |-> columns[k].landing])
    BY <1>5 DEF MarkLoads, DropLoads, Choosing, Dropping
  <2>2. UNCHANGED <<board, columns, slips>> /\ columns # <<>> /\ k \in Nat
    BY <1>5 DEF MarkLoads, DropLoads, ColumnsTypeOK
  <2>3. [at |-> stage, col |-> k, landing |-> columns[k].landing] \in ColumnRequests
    BY <2>2 DEF ColumnRequests, ColumnsTypeOK
  <2>4. ServingTyped' /\ SeedOnce'
    <3>1. board # "absent"
      BY <2>2 DEF SeedOnce
    <3> QED BY <2>1, <2>2, <2>3, <3>1, AskKeeps DEF Choosing, Dropping
  <2> QED BY <2>2, <2>4 DEF ColumnsTypeOK
<1>6. ASSUME NEW r \in Clients, ClearLanding(r) PROVE ColumnsTyped'
  <2>1. /\ Proceeds(r, "mark") /\ serving[r].at = "clear" /\ UNCHANGED <<board, slips>>
        /\ columns' = [k \in DOMAIN columns |-> [columns[k] EXCEPT !.landing = FALSE]]
    BY <1>6 DEF ClearLanding
  <2>2. ServingTyped' /\ SeedOnce'
    BY <2>1, ProceedKeeps DEF Choosing, Dropping
  <2>3. ColumnsTypeOK'
    <3>1. columns = <<>> => columns' = <<>>
      BY <2>1
    <3> QED BY <2>1, <3>1 DEF ColumnsTypeOK
  <2> QED BY <2>1, <2>2, <2>3
<1>7. ASSUME NEW r \in Clients, Mark(r) PROVE ColumnsTyped'
  <2>1. /\ Returns(r) /\ serving[r].at = "mark" /\ UNCHANGED <<board, slips>>
        /\ columns' = IF Stands(serving[r].col) /\ ~serving[r].landing
                      THEN [columns EXCEPT ![serving[r].col].landing = TRUE] ELSE columns
    BY <1>7 DEF Mark
  <2>2. ServingTyped' /\ SeedOnce'
    BY <2>1, ReturnKeeps
  <2>3. CASE columns' = columns
    BY <2>1, <2>2, <2>3 DEF ColumnsTypeOK
  <2>4. CASE Stands(serving[r].col) /\ columns' = [columns EXCEPT ![serving[r].col].landing = TRUE]
    <3> DEFINE k == serving[r].col
    <3>1. /\ DOMAIN columns' = DOMAIN columns /\ columns'[k] = [columns[k] EXCEPT !.landing = TRUE]
          /\ \A j \in DOMAIN columns : j # k => columns'[j] = columns[j]
      BY <2>4 DEF Stands
    <3>2. board # "gone" /\ columns[k] \in [place : Nat, landing : BOOLEAN]
      BY <2>4 DEF ColumnsTypeOK, Stands
    <3> HIDE DEF k
    <3>3. columns'[k] \in [place : Nat, landing : BOOLEAN]
      BY <3>1, <3>2
    <3>4. ColumnsTypeOK'
      BY <2>1, <3>1, <3>2, <3>3 DEF ColumnsTypeOK
    <3> QED BY <2>1, <2>2, <3>4
  <2> QED BY <2>1, <2>3, <2>4
<1>8. ASSUME NEW r \in Clients, DropCounts(r) PROVE ColumnsTyped'
  <2>1. UNCHANGED <<board, columns, slips>> /\ serving[r].at = "count" /\ (Proceeds(r, "drop") \/ Returns(r))
    BY <1>8 DEF DropCounts
  <2>2. ServingTyped' /\ SeedOnce'
        <3>1. CASE Proceeds(r, "drop")
      BY <2>1, <3>1, ProceedKeeps DEF Choosing, Dropping
    <3>2. CASE Returns(r)
      BY <2>1, <3>2, ReturnKeeps
    <3> QED BY <2>1, <3>1, <3>2
  <2> QED BY <2>1, <2>2 DEF ColumnsTypeOK
<1>9. ASSUME NEW r \in Clients, Drop(r) PROVE ColumnsTyped'
  <2>1. /\ Returns(r) /\ serving[r].at = "drop" /\ UNCHANGED <<board, slips>>
        /\ columns' = IF Referenced(serving[r].col) THEN columns
                      ELSE [j \in DOMAIN columns \ {serving[r].col} |-> columns[j]]
    BY <1>9 DEF Drop
  <2>2. ServingTyped' /\ SeedOnce'
    BY <2>1, ReturnKeeps
  <2>3. ColumnsTypeOK'
    <3>1. columns = <<>> => columns' = <<>>
      BY <2>1
    <3> QED BY <2>1, <3>1 DEF ColumnsTypeOK
  <2> QED BY <2>1, <2>2, <2>3
<1>10. ASSUME NEW r \in Clients, NEW c \in Slips, NEW named, PlaceLooks(r, c, named) PROVE ColumnsTyped'
  <2>1. /\ Asks(r, [at |-> "put", card |-> c, col |-> Resolve(named), new |-> slips[c] = Nowhere])
        /\ columns # <<>> /\ UNCHANGED <<board, columns, slips>>
    BY <1>10 DEF PlaceLooks
  <2>2. ServingTyped' /\ SeedOnce'
    <3>1. board # "absent"
      BY <2>1 DEF SeedOnce
    <3> QED BY <2>1, <3>1, AskKeeps DEF Choosing, Dropping
  <2> QED BY <2>1, <2>2 DEF ColumnsTypeOK
<1>11. ASSUME NEW r \in Clients, PlaceCard(r) PROVE ColumnsTyped'
  <2>1. Returns(r) /\ serving[r].at = "put" /\ UNCHANGED <<board, columns>>
    BY <1>11 DEF PlaceCard
  <2>2. DOMAIN slips' = Slips
    BY <1>11 DEF PlaceCard
  <2>3. ServingTyped' /\ SeedOnce'
    BY <2>1, ReturnKeeps
  <2> QED BY <2>1, <2>2, <2>3 DEF ColumnsTypeOK
<1>12. CASE DeleteBoard
  BY <1>12 DEF DeleteBoard, Cleared, ColumnsTypeOK, ServingTyped, SeedOnce
<1>13. CASE HubDies
  <2>1. UNCHANGED <<board, columns, slips>>
    BY <1>13 DEF HubDies
  <2>2. ServingTyped' /\ SeedOnce'
    BY <1>13, <2>1, DieEffect DEF ServingTyped, SeedOnce, Choosing, Dropping
  <2> QED BY <2>1, <2>2 DEF ColumnsTypeOK
<1>14. CASE \E c \in Slips : RemoveCard(c)
  BY <1>14 DEF RemoveCard, ColumnsTypeOK, ServingTyped, SeedOnce
<1>15. CASE UNCHANGED columnVars
  BY <1>15 DEF columnVars, ColumnsTypeOK, ServingTyped, SeedOnce
<1> QED BY <1>1, <1>2, <1>3, <1>4, <1>5, <1>6, <1>7, <1>8, <1>9, <1>10, <1>11, <1>12, <1>13, <1>14,
           <1>15 DEF ColumnsNext

\* No column is dropped under a card, and no card is put where no column stands.
LEMMA CardsStep ==
  ASSUME ColumnsTyped, CardsHaveColumn, [ColumnsNext]_columnVars
  PROVE  CardsHaveColumn'
<1>1. ASSUME UNCHANGED slips, DOMAIN columns \subseteq DOMAIN columns' PROVE CardsHaveColumn'
  BY <1>1 DEF CardsHaveColumn, Stands
<1>2. ASSUME NEW r \in Clients, SeedColumns(r) PROVE CardsHaveColumn'
  BY <1>1, <1>2 DEF SeedColumns
<1>3. ASSUME NEW r \in Clients, AddColumn(r) PROVE CardsHaveColumn'
  BY <1>1, <1>3 DEF AddColumn
<1>4. ASSUME NEW r \in Clients, CreateBoard(r) \/ AddColumnLooks(r) \/ DropCounts(r) PROVE CardsHaveColumn'
  BY <1>1, <1>4 DEF CreateBoard, AddColumnLooks, DropCounts
<1>5. ASSUME NEW r \in Clients, NEW k \in DOMAIN columns, MarkLoads(r, k) \/ DropLoads(r, k)
      PROVE  CardsHaveColumn'
  BY <1>1, <1>5 DEF MarkLoads, DropLoads
<1>6. ASSUME NEW r \in Clients, ClearLanding(r) \/ Mark(r) PROVE CardsHaveColumn'
  BY <1>1, <1>6 DEF ClearLanding, Mark
<1>7. ASSUME NEW r \in Clients, Drop(r) PROVE CardsHaveColumn'
  <2>1. CASE Referenced(serving[r].col)
    BY <1>1, <1>7, <2>1 DEF Drop
  <2>2. CASE ~Referenced(serving[r].col)
    <3>1. UNCHANGED slips /\ DOMAIN columns' = DOMAIN columns \ {serving[r].col}
      BY <1>7, <2>2 DEF Drop
    <3> QED BY <2>2, <3>1 DEF CardsHaveColumn, Stands, Referenced, InUse
  <2> QED BY <2>1, <2>2
<1>8. ASSUME NEW r \in Clients, NEW c \in Slips, NEW named, PlaceLooks(r, c, named) PROVE CardsHaveColumn'
  BY <1>1, <1>8 DEF PlaceLooks
<1>9. ASSUME NEW r \in Clients, PlaceCard(r) PROVE CardsHaveColumn'
  <2>1. /\ DOMAIN slips = Slips /\ UNCHANGED columns
        /\ \/ slips' = slips
           \/ Stands(serving[r].col) /\ slips' = [slips EXCEPT ![serving[r].card] = serving[r].col]
    BY <1>9 DEF PlaceCard, ColumnsTyped
  <2> QED BY <2>1 DEF CardsHaveColumn, Stands
<1>10. CASE DeleteBoard
  BY <1>10 DEF DeleteBoard, Cleared, CardsHaveColumn
<1>11. CASE HubDies
  BY <1>1, <1>11 DEF HubDies
<1>12. ASSUME NEW c \in Slips, RemoveCard(c) PROVE CardsHaveColumn'
  BY <1>12 DEF RemoveCard, CardsHaveColumn, Stands, ColumnsTyped
<1>13. CASE UNCHANGED columnVars
  BY <1>1, <1>13 DEF columnVars
<1> QED BY <1>2, <1>3, <1>4, <1>5, <1>6, <1>7, <1>8, <1>9, <1>10, <1>11, <1>12, <1>13 DEF ColumnsNext

\* Places are given behind every column, one request at a time, or they are tied.
LEMMA OrderStep ==
  ASSUME ColumnsTyped, OrderInv, [ColumnsNext]_columnVars
  PROVE  OrderInv'
<1>0. ServingTyped /\ ColumnsTypeOK
  BY DEF ColumnsTyped
<1>1. ASSUME tied' PROVE OrderInv'
  BY <1>1 DEF OrderInv, ColumnOrder
<1>2. ASSUME tied' = tied, DOMAIN columns' \subseteq DOMAIN columns,
             \A k \in DOMAIN columns' : columns'[k].place = columns[k].place,
             \A q \in Clients : \/ serving'[q].at \notin {"add", "seed"}
                                \/ serving'[q].at = serving[q].at /\ serving'[q].place = serving[q].place
      PROVE  OrderInv'
  <2>1. ColumnOrder'
    BY <1>2 DEF OrderInv, ColumnOrder
  <2>2. ~tied => OneAdds'
    BY <1>2 DEF OrderInv, OneAdds
  <2>3. ~tied => AddsBehind'
    BY <1>2 DEF OrderInv, AddsBehind
  <2> QED BY <1>2, <2>1, <2>2, <2>3 DEF OrderInv
<1>3. ASSUME NEW r \in Clients, Returns(r)
      PROVE  \A q \in Clients : \/ serving'[q].at \notin {"add", "seed"}
                                \/ serving'[q].at = serving[q].at /\ serving'[q].place = serving[q].place
  BY <1>0, <1>3, ReturnEffect
<1>4. ASSUME NEW r \in Clients, NEW request, Asks(r, request), request.at \notin {"add", "seed"}
      PROVE  \A q \in Clients : \/ serving'[q].at \notin {"add", "seed"}
                                \/ serving'[q].at = serving[q].at /\ serving'[q].place = serving[q].place
  BY <1>0, <1>4, AskEffect
<1>5. ASSUME NEW r \in Clients, serving[r].at \in Choosing \cup Dropping,
             NEW stage \in Choosing \cup Dropping, Proceeds(r, stage)
      PROVE  \A q \in Clients : \/ serving'[q].at \notin {"add", "seed"}
                                \/ serving'[q].at = serving[q].at /\ serving'[q].place = serving[q].place
  <2>1. serving'[r].at = stage /\ \A q \in Clients : q # r => serving'[q] = serving[q]
    BY <1>0, <1>5, ProceedEffect
  <2> QED BY <2>1 DEF Choosing, Dropping
<1>6. ASSUME NEW r \in Clients, CreateBoard(r) PROVE OrderInv'
  <2>1. /\ Asks(r, [at |-> "seed"]) /\ columns' = columns /\ tied' = tied /\ columns = <<>>
        /\ \A q \in Clients : serving[q].at = "quiet"
    BY <1>6 DEF CreateBoard, ColumnsTyped, SeedOnce
  <2>2. serving'[r].at = "seed" /\ \A q \in Clients : q # r => serving'[q].at = "quiet"
    BY <1>0, <2>1, AskEffect
  <2> QED BY <2>1, <2>2 DEF OrderInv, ColumnOrder, OneAdds, AddsBehind
<1>7. ASSUME NEW r \in Clients, SeedColumns(r) PROVE OrderInv'
  <2> SUFFICES ASSUME ~tied' PROVE OrderInv'
    BY <1>1
  <2>1. ~tied /\ columns = <<>> /\ Returns(r) /\ serving[r].at = "seed"
    BY <1>7 DEF SeedColumns
  <2>2. \A q \in Clients : serving'[q].at \notin {"add", "seed"}
    <3>1. serving'[r].at = "quiet" /\ \A q \in Clients : q # r => serving'[q] = serving[q]
      BY <1>0, <2>1, ReturnEffect
    <3>2. \A q \in Clients : serving[q].at \in {"add", "seed"} => q = r
      BY <2>1 DEF OrderInv, OneAdds
    <3> QED BY <3>1, <3>2
  <2>3. ColumnOrder'
    <3>1. CASE board = "gone"
      BY <1>7, <2>1, <3>1 DEF SeedColumns, ColumnOrder
    <3>2. CASE board # "gone"
      <4> DEFINE last == Max({0} \cup DOMAIN columns)
                 added == (last + 1) .. (last + Len(DefaultColumns))
      <4>1. columns' = [k \in DOMAIN columns \cup added |->
              IF Stands(k) THEN columns[k] ELSE [place |-> k - last, landing |-> DefaultColumns[k - last]]]
        BY <1>7, <3>2 DEF SeedColumns
      <4>2. last \in Nat
        BY <1>0, LastId
      <4> HIDE DEF last
      <4>3. \A j, k \in added : j - last = k - last => j = k
        BY <4>2, ColumnConstants
      <4> HIDE DEF added
      <4>4. DOMAIN columns' = added /\ \A k \in added : columns'[k].place = k - last
        BY <2>1, <4>1 DEF Stands
      <4> QED BY <4>3, <4>4 DEF ColumnOrder
    <3> QED BY <3>1, <3>2
  <2> QED BY <2>2, <2>3 DEF OrderInv, OneAdds, AddsBehind
<1>8. ASSUME NEW r \in Clients, AddColumnLooks(r) PROVE OrderInv'
  <2> SUFFICES ASSUME ~tied' PROVE OrderInv'
    BY <1>1
  <2>1. /\ ~tied /\ Asks(r, [at |-> "add", place |-> NextPlace]) /\ columns' = columns
        /\ \A q \in Clients : serving[q].at \notin {"add", "seed"}
    BY <1>8 DEF AddColumnLooks, AnyAt
  <2>2. /\ serving'[r] = [at |-> "add", place |-> NextPlace]
        /\ \A q \in Clients : q # r => serving'[q] = serving[q]
    BY <1>0, <2>1, AskEffect
  <2>3. NextPlace \in Nat /\ \A k \in DOMAIN columns : columns[k].place < NextPlace
    BY <1>0, NextIsBehind
  <2>4. AddsBehind'
    BY <2>1, <2>2, <2>3 DEF AddsBehind
  <2>5. OneAdds'
    BY <2>1, <2>2 DEF OneAdds
  <2>6. ColumnOrder'
    BY <2>1 DEF OrderInv, ColumnOrder
  <2> QED BY <2>4, <2>5, <2>6 DEF OrderInv
<1>9. ASSUME NEW r \in Clients, AddColumn(r) PROVE OrderInv'
  <2> SUFFICES ASSUME ~tied' PROVE OrderInv'
    BY <1>1
  <2> DEFINE id == 1 + Max({0} \cup DOMAIN columns)
  <2>1. /\ ~tied /\ Returns(r) /\ serving[r].at = "add"
        /\ columns' = IF board = "gone" THEN columns
                      ELSE [k \in DOMAIN columns \cup {id} |->
                        IF Stands(k) THEN columns[k] ELSE [place |-> serving[r].place, landing |-> FALSE]]
    BY <1>9 DEF AddColumn
  <2> HIDE DEF id
  <2>2. \A q \in Clients : serving'[q].at \notin {"add", "seed"}
    <3>1. serving'[r].at = "quiet" /\ \A q \in Clients : q # r => serving'[q] = serving[q]
      BY <1>0, <2>1, ReturnEffect
    <3>2. \A q \in Clients : serving[q].at \in {"add", "seed"} => q = r
      BY <2>1 DEF OrderInv, OneAdds
    <3> QED BY <3>1, <3>2
  <2>3. ColumnOrder'
    <3>1. /\ \A k \in DOMAIN columns : columns[k].place \in Nat /\ columns[k].place < serving[r].place
          /\ serving[r].place \in Nat
          /\ \A j, k \in DOMAIN columns : columns[j].place = columns[k].place => j = k
      BY <1>0, <2>1 DEF OrderInv, AddsBehind, ColumnOrder, ColumnsTypeOK, ServingTyped
    <3>2. \A k \in DOMAIN columns : columns[k].place # serving[r].place
      BY <3>1
    <3> QED BY <2>1, <3>1, <3>2 DEF ColumnOrder, Stands
  <2> QED BY <2>2, <2>3 DEF OrderInv, OneAdds, AddsBehind
<1>10. ASSUME NEW r \in Clients, NEW k \in DOMAIN columns, MarkLoads(r, k) \/ DropLoads(r, k)
       PROVE  OrderInv'
  <2>1. PICK stage \in Choosing \cup Dropping : Asks(r, [at |-> stage, col |-> k, landing |-> columns[k].landing])
    BY <1>10 DEF MarkLoads, DropLoads, Choosing, Dropping
  <2>2. stage \notin {"add", "seed"}
    BY DEF Choosing, Dropping
  <2>3. columns' = columns /\ tied' = tied
    BY <1>10 DEF MarkLoads, DropLoads
  <2> QED BY <1>2, <1>4, <2>1, <2>2, <2>3
<1>11. ASSUME NEW r \in Clients, ClearLanding(r) PROVE OrderInv'
  <2>1. /\ Proceeds(r, "mark") /\ serving[r].at \in Choosing /\ tied' = tied
        /\ columns' = [k \in DOMAIN columns |-> [columns[k] EXCEPT !.landing = FALSE]]
    BY <1>11 DEF ClearLanding, Choosing
  <2>2. \A k \in DOMAIN columns : columns'[k].place = columns[k].place
    BY <1>0, <2>1 DEF ColumnsTypeOK
  <2> QED BY <1>2, <1>5, <2>1, <2>2 DEF Choosing
<1>12. ASSUME NEW r \in Clients, Mark(r) PROVE OrderInv'
  <2>1. /\ Returns(r) /\ tied' = tied /\ DOMAIN columns' = DOMAIN columns
        /\ \A k \in DOMAIN columns : \/ columns'[k] = columns[k]
                                     \/ columns'[k] = [columns[k] EXCEPT !.landing = TRUE]
    BY <1>12 DEF Mark
  <2>2. \A k \in DOMAIN columns : columns'[k].place = columns[k].place
    BY <1>0, <2>1 DEF ColumnsTypeOK
  <2> QED BY <1>2, <1>3, <2>1, <2>2
<1>13. ASSUME NEW r \in Clients, DropCounts(r) PROVE OrderInv'
  <2>1. columns' = columns /\ tied' = tied /\ serving[r].at = "count" /\ (Proceeds(r, "drop") \/ Returns(r))
    BY <1>13 DEF DropCounts
  <2>2. CASE Returns(r)
    BY <1>2, <1>3, <2>1, <2>2
  <2>3. CASE Proceeds(r, "drop")
    BY <1>2, <1>5, <2>1, <2>3 DEF Dropping
  <2> QED BY <2>1, <2>2, <2>3
<1>14. ASSUME NEW r \in Clients, Drop(r) PROVE OrderInv'
  BY <1>2, <1>3, <1>14 DEF Drop
<1>15. ASSUME NEW r \in Clients, NEW c \in Slips, NEW named, PlaceLooks(r, c, named) PROVE OrderInv'
  <2>1. /\ Asks(r, [at |-> "put", card |-> c, col |-> Resolve(named), new |-> slips[c] = Nowhere])
        /\ columns' = columns /\ tied' = tied
    BY <1>15 DEF PlaceLooks
  <2> QED BY <1>2, <1>4, <2>1
<1>16. ASSUME NEW r \in Clients, PlaceCard(r) PROVE OrderInv'
  BY <1>2, <1>3, <1>16 DEF PlaceCard
<1>17. CASE DeleteBoard
  BY <1>2, <1>17 DEF DeleteBoard, Cleared
<1>18. CASE HubDies
  <2>1. columns' = columns /\ tied' = tied /\ \A q \in Clients : serving'[q].at = "quiet"
    BY <1>18, DieEffect DEF HubDies
  <2> QED BY <1>2, <2>1
<1>19. CASE (\E c \in Slips : RemoveCard(c)) \/ UNCHANGED columnVars
  BY <1>2, <1>19 DEF RemoveCard, columnVars
<1> QED BY <1>6, <1>7, <1>8, <1>9, <1>10, <1>11, <1>12, <1>13, <1>14, <1>15, <1>16, <1>17, <1>18,
           <1>19 DEF ColumnsNext

\* Of the default columns one is the landing column.
LEMMA OneDefault == \E i \in DOMAIN DefaultColumns : \A j \in DOMAIN DefaultColumns : DefaultColumns[j] <=> j = i
<1> DEFINE D == {i \in DOMAIN DefaultColumns : DefaultColumns[i]}
<1>1. 1 \in Int /\ Len(DefaultColumns) \in Int
  BY ColumnConstants
<1>2. IsFiniteSet(1 .. Len(DefaultColumns))
  BY <1>1, FS_Interval, Zenon
<1>3. D \in SUBSET (1 .. Len(DefaultColumns))
  BY ColumnConstants
<1>4. Cardinality(D) = 1
  BY ColumnsAssumption
<1>5. IsFiniteSet(D)
  <2> HIDE DEF D
  <2> QED BY <1>2, <1>3, FS_Subset
<1>6. PICK i : D = {i}
  <2> HIDE DEF D
  <2> QED BY <1>4, <1>5, FS_Singleton
<1> QED BY <1>6

\* The landing column is chosen by one request at a time, and deleted by none.
LEMMA LandingStep ==
  ASSUME ColumnsTyped, LandingInv, [ColumnsNext]_columnVars
  PROVE  LandingInv'
<1>0. ServingTyped /\ ColumnsTypeOK /\ SeedOnce
  BY DEF ColumnsTyped
<1>1. ASSUME board' \notin {"bare", "ready"} PROVE LandingInv'
  BY <1>1 DEF LandingInv, BareIsSeeded
<1>2. ASSUME UNCHANGED board, Smooth' => Smooth, Landings' = Landings, DOMAIN columns \subseteq DOMAIN columns',
             \A q \in Clients : \/ serving'[q] = serving[q]
                                \/ {serving[q].at, serving'[q].at} \cap ({"seed"} \cup Choosing \cup Dropping) = {}
      PROVE  LandingInv'
  <2> SUFFICES ASSUME Smooth, Smooth' PROVE BareIsSeeded' /\ (board = "ready" => OneChoice' /\ FlagsAreFresh' /\ LandingIsOne')
    BY <1>2 DEF LandingInv
  <2>1. \A stage \in {"seed"} \cup Choosing \cup Dropping : \A q \in Clients :
          serving'[q].at = stage <=> serving[q].at = stage /\ serving'[q] = serving[q]
    BY <1>2
  <2>2. BareIsSeeded'
    BY <1>2, <2>1 DEF LandingInv, BareIsSeeded, AnyAt
  <2>3. ASSUME board = "ready" PROVE OneChoice'
    BY <1>2, <2>1, <2>3 DEF LandingInv, OneChoice, Stands
  <2>4. ASSUME board = "ready" PROVE FlagsAreFresh'
    BY <1>2, <2>1, <2>4 DEF LandingInv, FlagsAreFresh, Choosing, Dropping
  <2>5. ASSUME board = "ready" PROVE LandingIsOne'
    <3>0. \A q \in Clients : serving'[q].at = "mark" <=> serving[q].at = "mark"
      BY <1>2 DEF Choosing
    <3>1. AnyAt({"mark"})' <=> AnyAt({"mark"})
      BY <3>0 DEF AnyAt
    <3>2. LandingIsOne
      BY <2>5 DEF LandingInv
    <3> QED BY <1>2, <3>1, <3>2 DEF LandingIsOne
  <2> QED BY <2>2, <2>3, <2>4, <2>5
<1>3. ASSUME NEW r \in Clients, CreateBoard(r) PROVE LandingInv'
  <2>1. /\ Asks(r, [at |-> "seed"]) /\ columns' = <<>> /\ board' = "bare"
        /\ \A q \in Clients : serving[q].at = "quiet"
    BY <1>0, <1>3 DEF CreateBoard, SeedOnce
  <2>2. serving'[r].at = "seed" /\ \A q \in Clients : q # r => serving'[q].at = "quiet"
    BY <1>0, <2>1, AskEffect
  <2>3. Landings' = {}
    BY <2>1 DEF Landings
  <2>4. AnyAt({"seed"})' /\ ~AnyAt(Choosing \cup Dropping)'
    BY <2>2 DEF AnyAt, Choosing, Dropping
  <2> QED BY <2>1, <2>3, <2>4 DEF LandingInv, BareIsSeeded
<1>4. ASSUME NEW r \in Clients, SeedColumns(r) PROVE LandingInv'
  <2>1. /\ Returns(r) /\ serving[r].at = "seed" /\ board \in {"bare", "gone"}
        /\ board = "gone" => board' = "gone"
        /\ board = "bare" => board' = "ready"
        /\ UNCHANGED <<clashed, torn, remarked>>
    BY <1>0, <1>4 DEF SeedColumns, SeedOnce
  <2> SUFFICES ASSUME Smooth, board = "bare" PROVE OneChoice' /\ FlagsAreFresh' /\ LandingIsOne'
    BY <1>1, <2>1 DEF LandingInv, BareIsSeeded, Smooth
  <2>2. Landings = {} /\ \A q \in Clients : serving[q].at \notin Choosing \cup Dropping
    BY DEF LandingInv, BareIsSeeded, AnyAt
  <2>3. \A q \in Clients : serving'[q].at \notin Choosing \cup Dropping
    <3>1. serving'[r].at = "quiet" /\ \A q \in Clients : q # r => serving'[q] = serving[q]
      BY <1>0, <2>1, ReturnEffect
    <3> QED BY <2>2, <3>1 DEF Choosing, Dropping
  <2>4. \E k \in DOMAIN columns' : Landings' = {k}
    <3> DEFINE last == Max({0} \cup DOMAIN columns)
               added == (last + 1) .. (last + Len(DefaultColumns))
    <3>1. columns' = [k \in DOMAIN columns \cup added |->
            IF Stands(k) THEN columns[k] ELSE [place |-> k - last, landing |-> DefaultColumns[k - last]]]
      BY <1>4 DEF SeedColumns
    <3>2. last \in Nat /\ \A k \in DOMAIN columns : k <= last
      BY <1>0, LastId
    <3> HIDE DEF last
    <3>3. PICK i \in DOMAIN DefaultColumns : \A j \in DOMAIN DefaultColumns : DefaultColumns[j] <=> j = i
      BY OneDefault
    <3>4. /\ last + i \in added /\ DOMAIN columns \subseteq Nat
          /\ \A k \in added : k - last \in DOMAIN DefaultColumns /\ k \in Nat /\ ~(k <= last)
                              /\ (k - last = i <=> k = last + i)
      BY <3>2, ColumnConstants, ColumnsFinite, <1>0
    <3> HIDE DEF added
    <3>5. \A k \in added : ~Stands(k) /\ (columns'[k].landing <=> k = last + i)
      BY <3>1, <3>2, <3>3, <3>4 DEF Stands
    <3>6. \A k \in DOMAIN columns : ~columns'[k].landing
      BY <2>2, <3>1 DEF Landings, Stands
    <3>7. DOMAIN columns' = DOMAIN columns \cup added
      BY <3>1
    <3> QED BY <3>4, <3>5, <3>6, <3>7 DEF Landings
  <2>5. ~AnyAt({"mark"})'
    BY <2>3 DEF AnyAt, Choosing
  <2>6. OneChoice' /\ FlagsAreFresh'
    BY <2>3 DEF OneChoice, FlagsAreFresh, Choosing, Dropping
  <2> QED BY <2>4, <2>5, <2>6 DEF LandingIsOne
<1>5. ASSUME NEW r \in Clients, AddColumnLooks(r) PROVE LandingInv'
  <2>1. /\ Asks(r, [at |-> "add", place |-> NextPlace])
        /\ UNCHANGED <<board, columns, clashed, torn, remarked>>
    BY <1>5 DEF AddColumnLooks
  <2>2. /\ serving[r].at = "quiet" /\ serving'[r].at = "add"
        /\ \A q \in Clients : q # r => serving'[q] = serving[q]
    BY <1>0, <2>1, AskEffect
  <2> QED BY <1>2, <2>1, <2>2 DEF Smooth, Landings, Choosing, Dropping
<1>6. ASSUME NEW r \in Clients, AddColumn(r) PROVE LandingInv'
  <2> DEFINE id == 1 + Max({0} \cup DOMAIN columns)
  <2>1. /\ Returns(r) /\ serving[r].at = "add" /\ UNCHANGED <<board, clashed, torn, remarked>>
        /\ columns' = IF board = "gone" THEN columns
                      ELSE [k \in DOMAIN columns \cup {id} |->
                        IF Stands(k) THEN columns[k] ELSE [place |-> serving[r].place, landing |-> FALSE]]
    BY <1>6 DEF AddColumn
  <2>2. /\ serving'[r].at = "quiet"
        /\ \A q \in Clients : q # r => serving'[q] = serving[q]
    BY <1>0, <2>1, ReturnEffect
  <2> HIDE DEF id
  <2>3. Landings' = Landings /\ DOMAIN columns \subseteq DOMAIN columns'
    BY <2>1 DEF Landings, Stands
  <2> QED BY <1>2, <2>1, <2>2, <2>3 DEF Smooth, Choosing, Dropping
<1>7. ASSUME NEW r \in Clients, NEW k \in DOMAIN columns, MarkLoads(r, k) \/ DropLoads(r, k), Smooth'
      PROVE  /\ Smooth /\ board = "ready" /\ board' = "ready" /\ columns' = columns
             /\ \A q \in Clients : serving[q].at \notin Choosing
             /\ OneChoice /\ FlagsAreFresh /\ LandingIsOne
  <2>1. /\ Smooth /\ UNCHANGED <<board, columns>> /\ ~AnyAt({"seed", "clear", "mark"})
    <3>1. CASE DropLoads(r, k)
      BY <1>7, <3>1 DEF DropLoads, Smooth
    <3>2. CASE MarkLoads(r, k)
      <4>1. Smooth /\ UNCHANGED <<board, columns>> /\ ~AnyAt({"seed", "clear", "mark", "count", "drop"})
        BY <1>7, <3>2 DEF MarkLoads, Smooth
      <4> QED BY <4>1 DEF AnyAt
    <3> QED BY <1>7, <3>1, <3>2
  <2>2. board # "absent" /\ board # "gone"
    BY <1>0 DEF SeedOnce, ColumnsTypeOK
  <2>3. board = "ready"
    BY <1>0, <2>1, <2>2 DEF LandingInv, BareIsSeeded, AnyAt, ColumnsTypeOK
  <2> QED BY <2>1, <2>3 DEF AnyAt, Choosing, LandingInv
<1>8. ASSUME NEW r \in Clients, NEW k \in DOMAIN columns, MarkLoads(r, k) PROVE LandingInv'
  <2> SUFFICES ASSUME Smooth' PROVE board' = "ready" /\ OneChoice' /\ FlagsAreFresh' /\ LandingIsOne'
    BY DEF LandingInv, BareIsSeeded
  <2>1. /\ board' = "ready" /\ columns' = columns /\ LandingIsOne /\ FlagsAreFresh
    BY <1>7, <1>8
  <2>2. /\ Asks(r, [at |-> "clear", col |-> k, landing |-> columns[k].landing])
        /\ \A q \in Clients : serving[q].at \notin Choosing \cup Dropping
    BY <1>8 DEF MarkLoads, Smooth, AnyAt, Choosing, Dropping
  <2>3. /\ serving'[r] = [at |-> "clear", col |-> k, landing |-> columns[k].landing]
        /\ \A q \in Clients : q # r => serving'[q] = serving[q]
    BY <1>0, <2>2, AskEffect
  <2>4. Landings' = Landings /\ (columns[k].landing <=> k \in Landings)
    BY <2>1 DEF Landings
  <2>5. OneChoice'
    BY <2>1, <2>2, <2>3 DEF OneChoice, Stands, Choosing, Dropping
  <2>6. FlagsAreFresh'
    BY <2>2, <2>3, <2>4 DEF FlagsAreFresh, Choosing, Dropping
  <2>7. ~AnyAt({"mark"})' /\ ~AnyAt({"mark"})
    BY <2>2, <2>3 DEF AnyAt, Choosing
  <2> QED BY <2>1, <2>4, <2>5, <2>6, <2>7 DEF LandingIsOne
<1>9. ASSUME NEW r \in Clients, NEW k \in DOMAIN columns, DropLoads(r, k) PROVE LandingInv'
  <2> SUFFICES ASSUME Smooth' PROVE board' = "ready" /\ OneChoice' /\ FlagsAreFresh' /\ LandingIsOne'
    BY DEF LandingInv, BareIsSeeded
  <2>1. /\ board' = "ready" /\ columns' = columns /\ LandingIsOne /\ FlagsAreFresh
        /\ \A q \in Clients : serving[q].at \notin Choosing
    BY <1>7, <1>9
  <2>2. Asks(r, [at |-> "count", col |-> k, landing |-> columns[k].landing])
    BY <1>9 DEF DropLoads
  <2>3. /\ serving'[r] = [at |-> "count", col |-> k, landing |-> columns[k].landing]
        /\ \A q \in Clients : q # r => serving'[q] = serving[q]
    BY <1>0, <2>2, AskEffect
  <2>4. Landings' = Landings /\ (columns[k].landing <=> k \in Landings)
    BY <2>1 DEF Landings
  <2>5. OneChoice'
    BY <2>1, <2>3 DEF OneChoice, Choosing
  <2>6. FlagsAreFresh'
    BY <2>1, <2>3, <2>4 DEF FlagsAreFresh
  <2>7. ~AnyAt({"mark"})' /\ ~AnyAt({"mark"})
    BY <2>1, <2>3 DEF AnyAt, Choosing
  <2> QED BY <2>1, <2>4, <2>5, <2>6, <2>7 DEF LandingIsOne
<1>10. ASSUME NEW r \in Clients, serving[r].at \in Choosing \cup Dropping, UNCHANGED board, Smooth' => Smooth,
              Smooth /\ Smooth' /\ board = "ready" /\ OneChoice /\ FlagsAreFresh /\ LandingIsOne =>
                OneChoice' /\ FlagsAreFresh' /\ LandingIsOne'
       PROVE  LandingInv'
  <2>1. board # "absent"
    BY <1>0, <1>10 DEF SeedOnce, Choosing, Dropping
  <2>2. Smooth => board # "bare"
    BY <1>10 DEF LandingInv, BareIsSeeded, AnyAt
  <2> QED BY <1>10, <2>1, <2>2 DEF LandingInv, BareIsSeeded
<1>11. ASSUME NEW r \in Clients, ClearLanding(r) PROVE LandingInv'
  <2>1. /\ Proceeds(r, "mark") /\ serving[r].at = "clear" /\ UNCHANGED <<board, clashed, torn, remarked>>
        /\ columns' = [k \in DOMAIN columns |-> [columns[k] EXCEPT !.landing = FALSE]]
    BY <1>11 DEF ClearLanding
  <2>2. /\ serving'[r].at = "mark" /\ serving'[r].col = serving[r].col
        /\ \A q \in Clients : q # r => serving'[q] = serving[q]
    BY <1>0, <2>1, ProceedEffect DEF Choosing
  <2>3. ASSUME OneChoice PROVE OneChoice' /\ FlagsAreFresh' /\ LandingIsOne'
    <3>1. Stands(serving[r].col) /\ \A q \in Clients : q # r => serving'[q].at \notin Choosing \cup Dropping
      BY <2>1, <2>2, <2>3 DEF OneChoice, Choosing
    <3>2. Landings' = {}
      BY <1>0, <2>1 DEF Landings, ColumnsTypeOK
    <3>3. AnyAt({"mark"})'
      BY <2>2 DEF AnyAt
    <3>4. OneChoice'
      BY <2>1, <2>2, <3>1 DEF OneChoice, Stands
    <3>5. FlagsAreFresh'
      BY <2>2, <3>1 DEF FlagsAreFresh, Choosing, Dropping
    <3> QED BY <3>2, <3>3, <3>4, <3>5 DEF LandingIsOne
  <2> QED BY <1>10, <2>1, <2>3 DEF Smooth, Choosing
<1>12. ASSUME NEW r \in Clients, Mark(r) PROVE LandingInv'
  <2> DEFINE k == serving[r].col
  <2>1. /\ Returns(r) /\ serving[r].at = "mark" /\ UNCHANGED <<board, clashed, torn>>
        /\ remarked' = (remarked \/ serving[r].landing)
        /\ columns' = IF Stands(k) /\ ~serving[r].landing THEN [columns EXCEPT ![k].landing = TRUE] ELSE columns
    BY <1>12 DEF Mark
  <2>2. serving'[r].at = "quiet" /\ \A q \in Clients : q # r => serving'[q] = serving[q]
    BY <1>0, <2>1, ReturnEffect
  <2>3. Smooth' => Smooth /\ ~serving[r].landing
    BY <2>1 DEF Smooth
  <2>4. ASSUME ~serving[r].landing, OneChoice, LandingIsOne PROVE OneChoice' /\ FlagsAreFresh' /\ LandingIsOne'
    <3>1. Stands(k) /\ \A q \in Clients : serving'[q].at \notin Choosing \cup Dropping
      BY <2>1, <2>2, <2>4 DEF OneChoice, Choosing, Dropping
    <3>2. Landings = {}
      BY <2>1, <2>4 DEF LandingIsOne, AnyAt
    <3>3. /\ DOMAIN columns' = DOMAIN columns /\ columns'[k] = [columns[k] EXCEPT !.landing = TRUE]
          /\ \A j \in DOMAIN columns : j # k => columns'[j] = columns[j]
          /\ k \in DOMAIN columns
      BY <2>1, <2>4, <3>1 DEF Stands
    <3> HIDE DEF k
    <3>4. columns'[k].landing
      BY <1>0, <3>3 DEF ColumnsTypeOK
    <3>5. Landings' = {k}
      BY <3>2, <3>3, <3>4 DEF Landings
    <3>6. ~AnyAt({"mark"})'
      BY <3>1 DEF AnyAt, Choosing
    <3>7. OneChoice' /\ FlagsAreFresh'
      BY <3>1 DEF OneChoice, FlagsAreFresh, Choosing, Dropping
    <3> QED BY <3>3, <3>5, <3>6, <3>7 DEF LandingIsOne
  <2> QED BY <1>10, <2>1, <2>3, <2>4 DEF Choosing
<1>13. ASSUME NEW r \in Clients, serving[r].at \in Dropping, Smooth' => Smooth, UNCHANGED board,
              FlagsAreFresh => Landings' = Landings,
              \A q \in Clients : q # r => serving'[q] = serving[q],
              \/ serving'[r].at = "quiet"
              \/ /\ serving'[r].at = "drop" /\ ~serving'[r].landing
                 /\ serving'[r].col = serving[r].col /\ serving'[r].landing = serving[r].landing
       PROVE  LandingInv'
  <2>1. ASSUME OneChoice, FlagsAreFresh, LandingIsOne PROVE OneChoice' /\ FlagsAreFresh' /\ LandingIsOne'
    <3>1. Landings' = Landings /\ \A q \in Clients : serving[q].at \notin Choosing /\ serving'[q].at \notin Choosing
      BY <1>13, <2>1 DEF OneChoice, Choosing, Dropping
    <3>2. OneChoice'
      BY <3>1 DEF OneChoice
    <3>3. serving[r].landing <=> serving[r].col \in Landings
      BY <1>13, <2>1 DEF FlagsAreFresh, Dropping
    <3>4. FlagsAreFresh'
      BY <1>13, <2>1, <3>1, <3>3 DEF FlagsAreFresh
    <3>5. ~AnyAt({"mark"}) /\ ~AnyAt({"mark"})'
      BY <3>1 DEF AnyAt, Choosing
    <3>6. \E k \in DOMAIN columns : Landings = {k}
      BY <2>1, <3>5 DEF LandingIsOne
    <3>7. \E k \in DOMAIN columns' : Landings' = {k}
      BY <3>1, <3>6 DEF Landings
    <3> QED BY <3>2, <3>4, <3>5, <3>7 DEF LandingIsOne
  <2> QED BY <1>10, <1>13, <2>1
<1>14. ASSUME NEW r \in Clients, DropCounts(r) PROVE LandingInv'
  <2>1. /\ UNCHANGED <<board, columns, clashed, torn, remarked>> /\ serving[r].at = "count"
        /\ IF Deletable(r) THEN Proceeds(r, "drop") ELSE Returns(r)
    BY <1>14 DEF DropCounts
  <2>2. Landings' = Landings /\ (Smooth' <=> Smooth)
    BY <2>1 DEF Landings, Smooth
  <2>3. CASE Deletable(r)
    <3>1. Proceeds(r, "drop") /\ ~serving[r].landing
      BY <2>1, <2>3 DEF Deletable
    <3>2. /\ serving'[r].at = "drop" /\ serving'[r].col = serving[r].col
          /\ serving'[r].landing = serving[r].landing
          /\ \A q \in Clients : q # r => serving'[q] = serving[q]
      BY <1>0, <2>1, <3>1, ProceedEffect DEF Dropping
    <3> QED BY <1>13, <2>1, <2>2, <3>1, <3>2 DEF Dropping
  <2>4. CASE ~Deletable(r)
    <3>1. serving'[r].at = "quiet" /\ \A q \in Clients : q # r => serving'[q] = serving[q]
      BY <1>0, <2>1, <2>4, ReturnEffect
    <3> QED BY <1>13, <2>1, <2>2, <3>1 DEF Dropping
  <2> QED BY <2>3, <2>4
<1>15. ASSUME NEW r \in Clients, Drop(r) PROVE LandingInv'
  <2>1. /\ UNCHANGED <<board, clashed, torn, remarked>> /\ serving[r].at = "drop" /\ Returns(r)
        /\ columns' = IF Referenced(serving[r].col) THEN columns
                      ELSE [j \in DOMAIN columns \ {serving[r].col} |-> columns[j]]
    BY <1>15 DEF Drop
  <2>2. serving'[r].at = "quiet" /\ \A q \in Clients : q # r => serving'[q] = serving[q]
    BY <1>0, <2>1, ReturnEffect
  <2>3. ASSUME FlagsAreFresh PROVE Landings' = Landings
    <3>1. serving[r].col \notin Landings
      BY <2>1, <2>3 DEF FlagsAreFresh
    <3>2. CASE columns' = columns
      BY <3>2 DEF Landings
    <3>3. CASE columns' = [j \in DOMAIN columns \ {serving[r].col} |-> columns[j]]
      BY <3>1, <3>3 DEF Landings
    <3> QED BY <2>1, <3>2, <3>3
  <2> QED BY <1>13, <2>1, <2>2, <2>3 DEF Smooth, Dropping
<1>16. ASSUME NEW r \in Clients, NEW c \in Slips, NEW named, PlaceLooks(r, c, named) PROVE LandingInv'
  <2>1. /\ Asks(r, [at |-> "put", card |-> c, col |-> Resolve(named), new |-> slips[c] = Nowhere])
        /\ UNCHANGED <<board, columns, clashed, torn, remarked>>
    BY <1>16 DEF PlaceLooks
  <2>2. /\ serving[r].at = "quiet" /\ serving'[r].at = "put"
        /\ \A q \in Clients : q # r => serving'[q] = serving[q]
    BY <1>0, <2>1, AskEffect
  <2> QED BY <1>2, <2>1, <2>2 DEF Smooth, Landings, Choosing, Dropping
<1>17. ASSUME NEW r \in Clients, PlaceCard(r) PROVE LandingInv'
  <2>1. Returns(r) /\ serving[r].at = "put" /\ UNCHANGED <<board, columns, clashed, torn, remarked>>
    BY <1>17 DEF PlaceCard
  <2>2. serving'[r].at = "quiet" /\ \A q \in Clients : q # r => serving'[q] = serving[q]
    BY <1>0, <2>1, ReturnEffect
  <2> QED BY <1>2, <2>1, <2>2 DEF Smooth, Landings, Choosing, Dropping
<1>18. CASE DeleteBoard
  BY <1>1, <1>18 DEF DeleteBoard
<1>19. CASE HubDies
  <2>1. /\ UNCHANGED <<board, columns, clashed, remarked>> /\ torn' = (torn \/ AnyAt({"mark", "seed"}))
        /\ \A q \in Clients : serving'[q].at = "quiet"
    BY <1>19, DieEffect DEF HubDies
  <2> SUFFICES ASSUME Smooth'
               PROVE  BareIsSeeded' /\ (board' = "ready" => OneChoice' /\ FlagsAreFresh' /\ LandingIsOne')
    BY DEF LandingInv
  <2>2. Smooth /\ ~AnyAt({"mark", "seed"})
    BY <2>1 DEF Smooth
  <2>3. board' # "bare"
    BY <2>1, <2>2 DEF LandingInv, BareIsSeeded, AnyAt
  <2>4. OneChoice' /\ FlagsAreFresh' /\ ~AnyAt({"mark"})'
    BY <2>1 DEF OneChoice, FlagsAreFresh, AnyAt, Choosing
  <2>5. ~AnyAt({"mark"})
    BY <2>2 DEF AnyAt
  <2>6. board = "ready" => LandingIsOne'
    BY <2>1, <2>2, <2>4, <2>5 DEF LandingInv, LandingIsOne, Landings
  <2> QED BY <2>1, <2>3, <2>4, <2>6 DEF BareIsSeeded
<1>20. CASE (\E c \in Slips : RemoveCard(c)) \/ UNCHANGED columnVars
  <2>1. UNCHANGED <<board, columns, serving, clashed, torn, remarked>>
    BY <1>20 DEF RemoveCard, columnVars
  <2> QED BY <1>2, <2>1 DEF Smooth, Landings
<1> QED BY <1>3, <1>4, <1>5, <1>6, <1>8, <1>9, <1>11, <1>12, <1>14, <1>15, <1>16, <1>17, <1>18, <1>19,
           <1>20 DEF ColumnsNext

LEMMA ColumnsInvInit == ColumnsInit => ColumnsInv
<1> SUFFICES ASSUME ColumnsInit PROVE ColumnsInv
  OBVIOUS
<1>1. /\ board = "absent" /\ columns = <<>> /\ slips = [c \in Slips |-> Nowhere]
      /\ DOMAIN serving = Clients /\ \A r \in Clients : serving[r].at = "quiet"
  BY DEF ColumnsInit, Quiet
<1>2. ColumnsTyped
  BY <1>1 DEF ColumnsTyped, ColumnsTypeOK, ServingTyped, SeedOnce, Choosing, Dropping
<1>3. CardsHaveColumn
  BY <1>1 DEF CardsHaveColumn
<1>4. LandingInv
  BY <1>1 DEF LandingInv, BareIsSeeded
<1>5. OrderInv
  BY <1>1 DEF OrderInv, ColumnOrder, OneAdds, AddsBehind
<1> QED BY <1>2, <1>3, <1>4, <1>5 DEF ColumnsInv

LEMMA ColumnsInvStep == ColumnsInv /\ [ColumnsNext]_columnVars => ColumnsInv'
BY ColumnsTypedStep, CardsStep, LandingStep, OrderStep DEF ColumnsInv

\* For any requests, cards and default columns: the types hold, and nothing is
\* left of a deleted board.
THEOREM ColumnsTypesHold == ColumnsSpec => []ColumnsTypeOK
<1>1. ColumnsInv => ColumnsTypeOK
  BY DEF ColumnsInv, ColumnsTyped
<1> QED BY <1>1, ColumnsInvInit, ColumnsInvStep, PTL DEF ColumnsSpec

\* For any requests, cards and default columns: cards keep a column, a ready
\* board has one landing column while nothing overlapped, and places an order.
THEOREM ColumnsHoldAlways == ColumnsSpec => []ColumnsHold
<1>1. ColumnsInv => ColumnsHold
  <2> SUFFICES ASSUME ColumnsInv PROVE OneLanding
    BY DEF ColumnsInv, OrderInv, ColumnsHold
  <2> SUFFICES ASSUME board = "ready", ~AnyAt({"mark"}), Smooth PROVE Cardinality(Landings) = 1
    BY DEF OneLanding, Chosen, Smooth
  <2>1. PICK k : Landings = {k}
    BY DEF ColumnsInv, LandingInv, LandingIsOne
  <2> QED BY <2>1, FS_Singleton
<1> QED BY <1>1, ColumnsInvInit, ColumnsInvStep, PTL DEF ColumnsSpec

(***************************************************************************)
(* Ranks.  Whatever was created, moved, re-spread or removed, the ranks of *)
(* a column show its cards as intended.                                    *)
(***************************************************************************)
\* The rank for a gap of an ascending column is above what is on its left and
\* below what is on its right.
LEMMA RankInGap ==
  ASSUME NEW s \in Seq(Rank), Ascending(s), NEW k \in 0..Len(s)
  PROVE  /\ RankIn(s, k) \in Rank
         /\ \A j \in 1..k : Less(s[j], RankIn(s, k))
         /\ \A j \in (k + 1)..Len(s) : Less(RankIn(s, k), s[j])
<1> DEFINE lo == Lower(s, k)
           hi == Upper(s, k)
           r  == RankIn(s, k)
<1>1. Len(s) \in Nat /\ k \in Nat /\ k <= Len(s) /\ DOMAIN s = 1..Len(s)
  OBVIOUS
<1>n. Len(s) \in Nat /\ k \in Nat /\ k <= Len(s)
  OBVIOUS
<1>a. \A j \in 1..Len(s) : s[j] \in Rank
  OBVIOUS
<1>b. \A i, j \in 1..Len(s) : i < j => Less(s[i], s[j])
  BY <1>1 DEF Ascending
<1>c. k # 0 => k \in 1..Len(s) /\ lo = s[k] /\ lo \in Rank
  BY <1>1, <1>a DEF Lower
<1>d. k # Len(s) => k + 1 \in 1..Len(s) /\ hi = s[k + 1] /\ hi \in Rank
  <2>1. k # Len(s) => k + 1 \in 1..Len(s)
    BY <1>n
  <2> QED BY <2>1, <1>a DEF Upper
<1>e. (k = 0 => lo = Open) /\ (k = Len(s) => hi = Open)
  BY DEF Lower, Upper
<1>2. lo \in Rank \cup {Open} /\ hi \in Rank \cup {Open}
  BY <1>c, <1>d, <1>e
<1>3. hi # Open => Less(lo, hi)
  <2>1. CASE k # 0 /\ k # Len(s)
    <3>1. k < k + 1
      BY <1>1
    <3> QED BY <2>1, <3>1, <1>b, <1>c, <1>d
  <2>2. CASE k = 0 /\ k # Len(s)
    <3>1. hi \in Rank /\ lo = <<>>
      BY <2>2, <1>d, <1>e DEF Open
    <3>2. 1 \in DOMAIN hi /\ 1 \notin DOMAIN lo
      BY <3>1 DEF Rank
    <3>3. \A m \in 1..(1 - 1) : m \in DOMAIN lo /\ lo[m] = hi[m]
      OBVIOUS
    <3> QED BY <3>2, <3>3 DEF Less
  <2> QED BY <2>1, <2>2, <1>e
<1>4. r \in Rank /\ Less(lo, r) /\ (hi # Open => Less(r, hi))
  BY <1>2, <1>3, RankBetweenIsBetween DEF RankIn
<1> HIDE DEF lo, hi, r
<1>5. ASSUME NEW j \in 1..k
      PROVE  Less(s[j], r)
  <2>0. k # 0 /\ j \in 1..Len(s) /\ j <= k
    BY <1>1
  <2>1. CASE j = k
    BY <2>0, <2>1, <1>4, <1>c
  <2>2. CASE j # k
    <3>1. j < k
      BY <2>0, <2>2, <1>1
    <3>2. Less(s[j], s[k]) /\ s[j] \in Rank /\ s[k] \in Rank /\ lo = s[k]
      BY <2>0, <3>1, <1>a, <1>b, <1>c
    <3> QED BY <3>2, <1>4, RankIsString, LessTransitive
  <2> QED BY <2>1, <2>2
<1>6. ASSUME NEW j \in (k + 1)..Len(s)
      PROVE  Less(r, s[j])
  <2>0. k # Len(s) /\ j \in 1..Len(s) /\ k + 1 <= j
    BY <1>n
  <2>1. hi = s[k + 1] /\ hi \in Rank /\ hi # Open
    BY <2>0, <1>d DEF Rank, Open
  <2>2. CASE j = k + 1
    BY <2>2, <2>1, <1>4
  <2>3. CASE j # k + 1
    <3>1. k + 1 < j
      BY <2>0, <2>3, <1>n
    <3>2. Less(s[k + 1], s[j]) /\ s[j] \in Rank
      BY <3>1, <2>0, <1>a, <1>b, <1>d
    <3> QED BY <3>2, <2>1, <1>4, RankIsString, LessTransitive
  <2> QED BY <2>2, <2>3
<1> QED BY <1>4, <1>5, <1>6 DEF r

\* An append is an insertion behind the last card.
LEMMA AppendIsInsert ==
  ASSUME NEW s \in Seq(Rank), NEW r \in Rank
  PROVE  Append(s, r) = InsertBehind(s, Len(s), r)
<1> DEFINE t == InsertBehind(s, Len(s), r)
<1>1. /\ Append(s, r) \in Seq(Rank) /\ Len(Append(s, r)) = Len(s) + 1
      /\ \A j \in 1..Len(s) : Append(s, r)[j] = s[j]
      /\ Append(s, r)[Len(s) + 1] = r
  OBVIOUS
<1>2. /\ t \in Seq(Rank) /\ Len(t) = Len(s) + 1
      /\ \A j \in 1..Len(s) : t[j] = s[j]
      /\ t[Len(s) + 1] = r
  <2>1. Len(s) \in Nat /\ \A j \in 1..Len(s) : s[j] \in Rank
    OBVIOUS
  <2>2. t = [j \in 1..(Len(s) + 1) |-> IF j <= Len(s) THEN s[j] ELSE r]
    <3>1. \A j \in 1..(Len(s) + 1) : j <= Len(s) \/ j = Len(s) + 1
      BY <2>1
    <3> QED BY <3>1 DEF InsertBehind
  <2>3. \A j \in 1..(Len(s) + 1) : j <= Len(s) => j \in 1..Len(s)
    BY <2>1
  <2> HIDE DEF t
  <2>4. t \in [1..(Len(s) + 1) -> Rank]
    BY <2>1, <2>2, <2>3
  <2> QED BY <2>1, <2>2, <2>4
<1> HIDE DEF t
<1>3. DOMAIN Append(s, r) = DOMAIN t /\ \A j \in DOMAIN t : Append(s, r)[j] = t[j]
  <2>1. \A j \in 1..(Len(s) + 1) : j \in 1..Len(s) \/ j = Len(s) + 1
    OBVIOUS
  <2> QED BY <1>1, <1>2, <2>1
<1>4. Append(s, r) = t
  BY <1>1, <1>2, <1>3
<1> QED BY <1>4 DEF t

\* A card put into a gap leaves the column ascending, one card longer.
LEMMA InsertAscends ==
  ASSUME NEW s \in Seq(Rank), Ascending(s), NEW k \in 0..Len(s)
  PROVE  /\ InsertBehind(s, k, RankIn(s, k)) \in Seq(Rank)
         /\ Len(InsertBehind(s, k, RankIn(s, k))) = Len(s) + 1
         /\ Ascending(InsertBehind(s, k, RankIn(s, k)))
<1> DEFINE r == RankIn(s, k)
           t == InsertBehind(s, k, r)
<1>1. Len(s) \in Nat /\ k \in Nat /\ DOMAIN s = 1..Len(s) /\ \A j \in DOMAIN s : s[j] \in Rank
  OBVIOUS
<1>2. /\ r \in Rank
      /\ \A j \in 1..k : Less(s[j], r)
      /\ \A j \in (k + 1)..Len(s) : Less(r, s[j])
  BY RankInGap
<1> HIDE DEF r
<1>3. \A j \in 1..(Len(s) + 1) : /\ j <= k => j \in DOMAIN s
                                 /\ j > k + 1 => j - 1 \in DOMAIN s
  BY <1>1
<1>4. t \in [1..(Len(s) + 1) -> Rank]
  BY <1>1, <1>2, <1>3 DEF InsertBehind
<1>5. t \in Seq(Rank) /\ Len(t) = Len(s) + 1 /\ DOMAIN t = 1..(Len(s) + 1)
  BY <1>1, <1>4
<1>6. \A j \in 1..(Len(s) + 1) : /\ j <= k => t[j] = s[j]
                                 /\ j = k + 1 => t[j] = r
                                 /\ j > k + 1 => t[j] = s[j - 1]
  BY <1>1 DEF InsertBehind
<1> HIDE DEF t
<1>7. ASSUME NEW i \in DOMAIN t, NEW j \in DOMAIN t, i < j
      PROVE  Less(t[i], t[j])
  <2>0. i \in 1..(Len(s) + 1) /\ j \in 1..(Len(s) + 1) /\ i \in Nat /\ j \in Nat
    BY <1>1, <1>5
  <2>1. CASE j <= k
    <3>1. t[i] = s[i] /\ t[j] = s[j] /\ i \in DOMAIN s /\ j \in DOMAIN s
      BY <2>0, <2>1, <1>1, <1>3, <1>6, <1>7
    <3> QED BY <3>1, <1>7 DEF Ascending
  <2>2. CASE j = k + 1
    <3>1. t[i] = s[i] /\ t[j] = r /\ i \in 1..k
      BY <2>0, <2>2, <1>1, <1>6, <1>7
    <3> QED BY <3>1, <1>2
  <2>3. CASE j > k + 1 /\ i <= k
    <3>1. t[i] = s[i] /\ t[j] = s[j - 1] /\ i \in DOMAIN s /\ j - 1 \in DOMAIN s /\ i < j - 1
      BY <2>0, <2>3, <1>1, <1>3, <1>6
    <3> QED BY <3>1 DEF Ascending
  <2>4. CASE j > k + 1 /\ i = k + 1
    <3>1. t[i] = r /\ t[j] = s[j - 1] /\ j - 1 \in (k + 1)..Len(s)
      BY <2>0, <2>4, <1>1, <1>3, <1>6
    <3> QED BY <3>1, <1>2
  <2>5. CASE j > k + 1 /\ i > k + 1
    <3>1. /\ t[i] = s[i - 1] /\ t[j] = s[j - 1]
          /\ i - 1 \in DOMAIN s /\ j - 1 \in DOMAIN s /\ i - 1 < j - 1
      BY <2>0, <2>5, <1>1, <1>3, <1>6, <1>7
    <3> QED BY <3>1 DEF Ascending
  <2> QED BY <2>0, <2>1, <2>2, <2>3, <2>4, <2>5, <1>1
<1> QED BY <1>5, <1>7 DEF Ascending, t, r

\* A column without one of its cards is ascending.
LEMMA WithoutAscends ==
  ASSUME NEW s \in Seq(Rank), Ascending(s), NEW i \in DOMAIN s
  PROVE  /\ Without(s, i) \in Seq(Rank)
         /\ Len(Without(s, i)) = Len(s) - 1
         /\ Ascending(Without(s, i))
<1> DEFINE t == Without(s, i)
           was(j) == IF j < i THEN j ELSE j + 1
<1>1. /\ Len(s) \in Nat \ {0} /\ i \in Nat /\ DOMAIN s = 1..Len(s)
      /\ \A j \in DOMAIN s : s[j] \in Rank
  OBVIOUS
<1>2. \A j \in 1..(Len(s) - 1) : t[j] = s[was(j)] /\ was(j) \in DOMAIN s
  BY <1>1 DEF Without
<1>3. t \in [1..(Len(s) - 1) -> Rank]
  BY <1>1, <1>2 DEF Without
<1>4. t \in Seq(Rank) /\ Len(t) = Len(s) - 1 /\ DOMAIN t = 1..(Len(s) - 1)
  <2>1. Len(s) - 1 \in Nat
    BY <1>1
  <2> HIDE DEF t
  <2> QED BY <1>3, <2>1
<1> HIDE DEF t
<1>5. ASSUME NEW j \in DOMAIN t, NEW k \in DOMAIN t, j < k
      PROVE  Less(t[j], t[k])
  <2>1. was(j) < was(k)
    BY <1>1, <1>4, <1>5
  <2> QED BY <2>1, <1>2, <1>4 DEF Ascending
<1> QED BY <1>4, <1>5 DEF Ascending, t

\* A move, within the column or into it, leaves the column ascending.
LEMMA MovedAscends ==
  ASSUME NEW s \in Seq(Rank), Ascending(s), NEW i \in 0..Len(s), NEW k \in 0..Len(s)
  PROVE  Moved(s, i, k) \in Seq(Rank) /\ Ascending(Moved(s, i, k))
         /\ Len(Moved(s, i, k)) = IF i = 0 THEN Len(s) + 1 ELSE Len(s)
<1> DEFINE t == InsertBehind(s, k, RankIn(s, k))
<1>1. t \in Seq(Rank) /\ Len(t) = Len(s) + 1 /\ Ascending(t)
  BY InsertAscends
<1> HIDE DEF t
<1>2. Moved(s, i, k) = IF i = 0 THEN t ELSE IF i <= k THEN Without(t, i) ELSE Without(t, i + 1)
  BY DEF Moved, t
<1>3. i # 0 => i \in DOMAIN t /\ i + 1 \in DOMAIN t
  BY <1>1
<1>4. Len(s) \in Nat
  OBVIOUS
<1> QED BY <1>1, <1>2, <1>3, <1>4, WithoutAscends

-----------------------------------------------------------------------------
(* The invariant of a column, and of the ranks that are to replace its own *)

IInv == TypeOK /\ Ascending(column) /\ Ascending(spread)

\* An empty column is in order.
LEMMA InitColumn == Init => IInv
<1> SUFFICES ASSUME Init PROVE IInv
  OBVIOUS
<1>1. <<>> \in Seq(Rank) /\ Len(<<>>) = 0 /\ DOMAIN <<>> = {}
  OBVIOUS
<1> QED BY <1>1 DEF Init, IInv, TypeOK, Ascending, NoGap

\* Every step leaves the column, and the ranks in reserve, in order.
LEMMA NextColumn == IInv /\ [Next]_vars => IInv'
<1> SUFFICES ASSUME IInv, [Next]_vars PROVE IInv'
  OBVIOUS
<1>0. /\ TypeOK /\ Ascending(column) /\ Ascending(spread)
      /\ column \in Seq(Rank) /\ spread \in Seq(Rank)
      /\ Len(column) \in Nat /\ Len(spread) \in Nat /\ Len(spread) <= Len(column)
  BY DEF IInv, TypeOK
<1>1. CASE Create
  <2>1. column' = Append(column, RankIn(column, Len(column))) /\ UNCHANGED <<spread, gap>>
    BY <1>1 DEF Create
  <2>2. Append(column, RankIn(column, Len(column)))
          = InsertBehind(column, Len(column), RankIn(column, Len(column)))
    BY <1>0, RankInGap, AppendIsInsert
  <2>3. column' \in Seq(Rank) /\ Len(column') = Len(column) + 1 /\ Ascending(column')
    BY <1>0, <2>1, <2>2, InsertAscends
  <2> QED BY <1>0, <2>1, <2>3 DEF IInv, TypeOK, Ascending
<1>2. ASSUME NEW i \in 0..Len(column), NEW k \in 0..Len(column), Move(i, k)
      PROVE  IInv'
  <2>1. column' = Moved(column, i, k) /\ UNCHANGED <<spread, gap>>
    BY <1>2 DEF Move
  <2>2. column' \in Seq(Rank) /\ Len(column') >= Len(column) /\ Ascending(column')
    BY <1>0, <2>1, MovedAscends
  <2> QED BY <1>0, <2>1, <2>2 DEF IInv, TypeOK, Ascending
<1>3. ASSUME NEW i \in 0..Len(column), NEW k \in 0..Len(column), MoveMustWait(i, k)
      PROVE  IInv'
  BY <1>0, <1>3 DEF MoveMustWait, IInv, TypeOK, Ascending
<1>4. CASE Spread
  <2>1. /\ spread' = Append(spread, RankIn(spread, Len(spread)))
        /\ UNCHANGED <<column, gap>> /\ gap.waiting /\ Len(spread) < Len(column)
    BY <1>4 DEF Spread
  <2>2. Append(spread, RankIn(spread, Len(spread)))
          = InsertBehind(spread, Len(spread), RankIn(spread, Len(spread)))
    BY <1>0, RankInGap, AppendIsInsert
  <2>3. spread' \in Seq(Rank) /\ Len(spread') = Len(spread) + 1 /\ Ascending(spread')
    BY <1>0, <2>1, <2>2, InsertAscends
  <2> QED BY <1>0, <2>1, <2>3 DEF IInv, TypeOK, Ascending
<1>5. CASE MoveRebalanced
  <2>1. /\ column' = Moved(spread, gap.card, gap.behind)
        /\ spread' = <<>> /\ gap' = NoGap /\ Len(spread) = Len(column)
    BY <1>5 DEF MoveRebalanced
  <2>2. gap.card \in 0..Len(spread) /\ gap.behind \in 0..Len(spread)
    BY <1>0, <2>1 DEF TypeOK
  <2>3. column' \in Seq(Rank) /\ Ascending(column')
    BY <1>0, <2>1, <2>2, MovedAscends
  <2>4. spread' \in Seq(Rank) /\ Len(spread') = 0 /\ Ascending(spread')
    BY <2>1 DEF Ascending
  <2> QED BY <2>1, <2>3, <2>4 DEF IInv, TypeOK, Ascending, NoGap
<1>6. ASSUME NEW i \in DOMAIN column, Leave(i)
      PROVE  IInv'
  <2>1. column' = Without(column, i) /\ UNCHANGED <<spread, gap>> /\ ~gap.waiting
    BY <1>6 DEF Leave
  <2>2. column' \in Seq(Rank) /\ Ascending(column')
    BY <1>0, <2>1, WithoutAscends
  <2>3. spread = <<>> /\ gap = NoGap
    BY <1>0, <2>1 DEF TypeOK
  <2> QED BY <1>0, <2>1, <2>2, <2>3 DEF IInv, TypeOK, Ascending, NoGap
<1>7. CASE UNCHANGED vars
  BY <1>0, <1>7 DEF vars, IInv, TypeOK, Ascending
<1> QED BY <1>1, <1>2, <1>3, <1>4, <1>5, <1>6, <1>7 DEF Next

\* Whatever was created, moved, reordered, removed and re-spread: the ranks of a
\* column are ranks, strictly ascending in the order its users intend.
THEOREM ShownAsIntendedAlways == Spec => [](TypeOK /\ ShownAsIntended)
<1>1. IInv => TypeOK /\ ShownAsIntended
  BY DEF IInv, ShownAsIntended
<1> QED BY <1>1, InitColumn, NextColumn, PTL DEF Spec

(***************************************************************************)
(* The services together.                                                  *)
(***************************************************************************)

\* The types of the parts whose invariant has them as a conjunct.
LEMMA TypesOfParts ==
  /\ ApprovalsSpec => []ApprovalsTypeOK
  /\ DelegationsSpec => []DelegationsTypeOK
  /\ AccessSpec => []AccessTypeOK
  /\ Spec => [](TypeOK /\ ShownAsIntended)
<1>1. ApprovalsInv => ApprovalsTypeOK
  BY DEF ApprovalsInv
<1>2. DelegationsInv => DelegationsTypeOK
  BY DEF DelegationsInv
<1>3. AccessInv => AccessTypeOK
  BY DEF AccessInv, AccessTyped, AccessTypeOK, Acts, Stages
<1>4. ApprovalsInv /\ [ApprovalsNext]_approvalVars => ApprovalsInv'
  BY ApprovalsStep
<1>5. ApprovalsSpec => []ApprovalsTypeOK
  BY <1>1, <1>4, ApprovalsInvInit, PTL DEF ApprovalsSpec
<1>6. DelegationsSpec => []DelegationsTypeOK
  BY <1>2, DelegationsInvInit, DelegationsInvStep, PTL DEF DelegationsSpec
<1>7. AccessSpec => []AccessTypeOK
  BY <1>3, AccessInvInit, AccessInvStep, PTL DEF AccessSpec
<1> QED BY <1>5, <1>6, <1>7, ShownAsIntendedAlways

-----------------------------------------------------------------------------
(* The cron arithmetic.  A day of the calendar is a day of a month of a year *)
(* and the other way round; a date that is not 29 February, or a weekday of  *)
(* a month, comes again within a year, or on the very day and 366 days later.*)

Years == Nat \ {0}

\* The year after y starts 365 or 366 days after it.
LEMMA YearGrows ==
  ASSUME NEW y \in Years
  PROVE  YearStart(y) \in Int /\ YearStart(y + 1) = YearStart(y) + (IF IsLeap(y) THEN 366 ELSE 365)
<1>1. PICK p \in Nat : p = y - 1 BY DEF Years
<1>2. DaysBeforeYear(y) = 365 * p + p \div 4 - p \div 100 + p \div 400
  BY <1>1 DEF DaysBeforeYear
<1>3. DaysBeforeYear(y + 1) = 365 * (p + 1) + (p + 1) \div 4 - (p + 1) \div 100 + (p + 1) \div 400
  BY <1>1 DEF DaysBeforeYear, Years
<1>4. IsLeap(y) <=> (p + 1) % 4 = 0 /\ ((p + 1) % 100 # 0 \/ (p + 1) % 400 = 0)
  BY <1>1 DEF IsLeap, Years
<1>5. (p + 1) \div 4 = p \div 4 + (IF (p + 1) % 4 = 0 THEN 1 ELSE 0) OBVIOUS
<1>6. (p + 1) \div 100 = p \div 100 + (IF (p + 1) % 100 = 0 THEN 1 ELSE 0) OBVIOUS
<1>7. (p + 1) \div 400 = p \div 400 + (IF (p + 1) % 400 = 0 THEN 1 ELSE 0) OBVIOUS
<1>8. (p + 1) % 400 = 0 => (p + 1) % 100 = 0 OBVIOUS
<1>9. (p + 1) % 100 = 0 => (p + 1) % 4 = 0 OBVIOUS
<1>10. DaysBeforeYear(FirstYear) \in Int BY DEF DaysBeforeYear, FirstYear
<1> QED BY <1>2, <1>3, <1>4, <1>5, <1>6, <1>7, <1>8, <1>9, <1>10 DEF YearStart

\* Years follow one another.
LEMMA YearsInOrder ==
  ASSUME NEW y \in Years, NEW z \in Years, y < z
  PROVE  YearStart(y + 1) <= YearStart(z)
<1> DEFINE T == {i \in Nat : YearStart(y + 1) <= YearStart(y + 1 + i)}
<1>0. y + 1 \in Years BY DEF Years
<1>1. 0 \in T BY <1>0, YearGrows DEF Years
<1>2. ASSUME NEW i \in Nat, i \in T PROVE i + 1 \in T
  <2>1. PICK w \in Years : w = y + 1 + i BY DEF Years
  <2>2. y + 1 + (i + 1) = w + 1 BY <2>1 DEF Years
  <2>3. YearStart(w) <= YearStart(w + 1) /\ YearStart(w) \in Int /\ YearStart(w + 1) \in Int
    BY <2>1, YearGrows, <1>0 DEF Years
  <2>4. YearStart(y + 1) \in Int BY <1>0, YearGrows
  <2> QED BY <1>2, <2>1, <2>2, <2>3, <2>4
<1> HIDE DEF T
<1>3. \A i \in Nat : i \in T BY <1>1, <1>2, SetInduction
<1>4. PICK i \in Nat : z = y + 1 + i
  <2>1. z - y - 1 \in Nat /\ z = y + 1 + (z - y - 1) BY DEF Years
  <2> QED BY <2>1
<1> QED BY <1>3, <1>4 DEF T

\* Lengths of months
Length(y, m) == (IF m = 12 THEN YearStart(y + 1) ELSE MonthStart(y, m + 1)) - MonthStart(y, m)

\* The table of datetime, entry by entry.
LEMMA MonthTable ==
  /\ DaysBeforeMonth[1] = 0 /\ DaysBeforeMonth[2] = 31 /\ DaysBeforeMonth[3] = 59
  /\ DaysBeforeMonth[4] = 90 /\ DaysBeforeMonth[5] = 120 /\ DaysBeforeMonth[6] = 151
  /\ DaysBeforeMonth[7] = 181 /\ DaysBeforeMonth[8] = 212 /\ DaysBeforeMonth[9] = 243
  /\ DaysBeforeMonth[10] = 273 /\ DaysBeforeMonth[11] = 304 /\ DaysBeforeMonth[12] = 334
BY DEF DaysBeforeMonth

\* The months, one by one.
LEMMA Twelve == \A m \in 1..12 : \/ m = 1 \/ m = 2 \/ m = 3 \/ m = 4 \/ m = 5 \/ m = 6
                                 \/ m = 7 \/ m = 8 \/ m = 9 \/ m = 10 \/ m = 11 \/ m = 12
OBVIOUS

\* The length of a month depends on the year for February alone.
LEMMA MonthLengths ==
  ASSUME NEW y \in Years, NEW m \in 1..12
  PROVE  /\ MonthStart(y, m) \in Int /\ Length(y, m) \in 28..31
         /\ Length(y, m) = IF m = 2 THEN (IF IsLeap(y) THEN 29 ELSE 28)
                           ELSE IF m \in {4, 6, 9, 11} THEN 30 ELSE 31
<1>1. YearStart(y) \in Int /\ YearStart(y + 1) = YearStart(y) + (IF IsLeap(y) THEN 366 ELSE 365)
  BY YearGrows
<1> QED BY <1>1, MonthTable, Twelve DEF MonthStart, Length

\* Months follow one another within their year.
LEMMA MonthsInOrder ==
  ASSUME NEW y \in Years, NEW m \in 1..12
  PROVE  /\ YearStart(y) <= MonthStart(y, m) /\ MonthStart(y, m) + Length(y, m) <= YearStart(y + 1)
         /\ \A k \in 1..12 : m < k => MonthStart(y, m) + Length(y, m) <= MonthStart(y, k)
<1>1. YearStart(y) \in Int /\ YearStart(y + 1) = YearStart(y) + (IF IsLeap(y) THEN 366 ELSE 365)
  BY YearGrows
<1>2. YearStart(y) <= MonthStart(y, m) /\ MonthStart(y, m) + Length(y, m) <= YearStart(y + 1)
  BY <1>1, MonthTable, Twelve, MonthLengths DEF MonthStart
<1>3. ASSUME NEW k \in 1..12, m < k PROVE MonthStart(y, m) + Length(y, m) <= MonthStart(y, k)
  <2>1. MonthStart(y, m) = YearStart(y) + DaysBeforeMonth[m] + (IF m > 2 /\ IsLeap(y) THEN 1 ELSE 0)
        /\ MonthStart(y, k) = YearStart(y) + DaysBeforeMonth[k] + (IF k > 2 /\ IsLeap(y) THEN 1 ELSE 0)
    BY DEF MonthStart
  <2>2. MonthStart(y, m) \in Int /\ MonthStart(y, k) \in Int BY MonthLengths
  <2> QED BY <1>1, <1>3, <2>1, <2>2, MonthTable, Twelve, MonthLengths
<1> QED BY <1>2, <1>3

\* The years of the calendar.
Shown == {y \in Years : FirstYear <= y /\ y <= LastYear}

\* The k-th of month m of a year shown is the day the calendar says it is.
LEMMA DateIs ==
  ASSUME NEW y \in Shown, NEW m \in 1..12, NEW k \in 1..Length(y, m),
         NEW e, e = MonthStart(y, m) + k - 1
  PROVE  /\ e \in DOMAIN Calendar /\ YearStart(y) <= e /\ e < YearStart(y + 1)
         /\ Calendar[e].month = m /\ Calendar[e].day = k /\ Calendar[e].dow = e % 7
         /\ k \in 1..31 /\ e % 7 \in 0..6
<1>1. /\ y \in Years /\ y \in Nat /\ FirstYear <= y /\ y <= LastYear /\ LastYear \in Nat /\ FirstYear \in Nat
      /\ LastYear \in Years /\ FirstYear \in Years
  BY CronAssumption DEF Shown, Years, FirstYear
<1>2. /\ MonthStart(y, m) \in Int /\ Length(y, m) \in 28..31 /\ k \in 1..31
      /\ YearStart(y) <= MonthStart(y, m) /\ MonthStart(y, m) + Length(y, m) <= YearStart(y + 1)
      /\ \A j \in 1..12 : m < j => MonthStart(y, m) + Length(y, m) <= MonthStart(y, j)
  BY <1>1, MonthLengths, MonthsInOrder
<1>3. \A z \in Years : YearStart(z) \in Int /\ YearStart(z + 1) \in Int /\ YearStart(z) <= YearStart(z + 1)
  <2> SUFFICES ASSUME NEW z \in Years
               PROVE  YearStart(z) \in Int /\ YearStart(z + 1) \in Int /\ YearStart(z) <= YearStart(z + 1)
    OBVIOUS
  <2>1. z + 1 \in Years BY DEF Years
  <2> QED BY <2>1, YearGrows
<1>4. e \in Int /\ YearStart(y) <= e /\ e < YearStart(y + 1) BY <1>1, <1>2, <1>3
<1>5. 0 <= YearStart(y) /\ YearStart(y + 1) <= YearStart(LastYear + 1)
  <2>1. YearStart(FirstYear) = 0
    <3>1. DaysBeforeYear(FirstYear) \in Int BY DEF DaysBeforeYear, FirstYear
    <3> QED BY <3>1 DEF YearStart
  <2>2. FirstYear < y => YearStart(FirstYear + 1) <= YearStart(y) BY <1>1, YearsInOrder
  <2>3. y < LastYear => YearStart(y + 1) <= YearStart(LastYear) BY <1>1, YearsInOrder
  <2>4. FirstYear = y \/ FirstYear < y BY <1>1
  <2>5. LastYear = y \/ y < LastYear BY <1>1
  <2>6. 0 <= YearStart(y) BY <2>1, <2>2, <2>4, <1>1, <1>3
  <2>7. YearStart(y + 1) <= YearStart(LastYear + 1) BY <2>3, <2>5, <1>1, <1>3
  <2> QED BY <2>6, <2>7
<1>6. e \in 0..(YearStart(LastYear + 1) - 1) BY <1>1, <1>3, <1>4, <1>5
<1> DEFINE Is(z) == YearStart(z) <= e /\ e < YearStart(z + 1)
           year == CHOOSE z \in FirstYear .. LastYear : Is(z)
<1>7. year = y
  <2>1. y \in FirstYear .. LastYear /\ Is(y) BY <1>1, <1>4
  <2>2. year \in FirstYear .. LastYear /\ Is(year) BY <2>1, Zenon
  <2>3. year \in Years BY <2>2, <1>1 DEF Years
  <2> HIDE DEF year
  <2>4. year < y => YearStart(year + 1) <= YearStart(y) BY <1>1, <2>3, YearsInOrder
  <2>5. y < year => YearStart(y + 1) <= YearStart(year) BY <1>1, <2>3, YearsInOrder
  <2>6. ~(year < y) /\ ~(y < year) BY <1>1, <1>3, <1>4, <2>2, <2>3, <2>4, <2>5
  <2> QED BY <1>1, <2>3, <2>6 DEF Years
<1> DEFINE S == {j \in 1..12 : MonthStart(y, j) <= e}
<1>8. Max(S) = m
  <2>1. m \in S BY <1>2
  <2>2. \A j \in S : m >= j
    <3> SUFFICES ASSUME NEW j \in 1..12, MonthStart(y, j) <= e, m < j PROVE FALSE OBVIOUS
    <3>1. MonthStart(y, m) + Length(y, m) <= MonthStart(y, j) /\ MonthStart(y, j) \in Int
      BY <1>2, <1>1, MonthLengths
    <3> QED BY <3>1, <1>2
  <2>3. \A j \in S : j \in Nat OBVIOUS
  <2>4. m \in Nat OBVIOUS
  <2> HIDE DEF S
  <2>5. \A x \in S : (\A j \in S : x >= j) => x = m BY <2>1, <2>2, <2>3, <2>4
  <2> QED BY <2>1, <2>2, <2>5 DEF Max
<1>9. Date(e) = [month |-> m, day |-> e - MonthStart(y, m) + 1, dow |-> e % 7]
  <2>1. Date(e) = LET yy == year
                      mm == Max({j \in 1 .. 12 : MonthStart(yy, j) <= e})
                  IN [month |-> mm, day |-> e - MonthStart(yy, mm) + 1, dow |-> e % 7]
    BY Zenon DEF Date
  <2> HIDE DEF year
  <2> QED BY <1>7, <1>8, <2>1
<1>10. Calendar[e] = Date(e) /\ e \in DOMAIN Calendar BY <1>6 DEF Calendar
<1>11. e - MonthStart(y, m) + 1 = k BY <1>2
<1>12. e % 7 \in 0..6 BY <1>4
<1> QED BY <1>2, <1>4, <1>9, <1>10, <1>11, <1>12

\* Every day of the calendar is the k-th of a month of a year.
LEMMA EachDay ==
  ASSUME NEW n \in DOMAIN Calendar
  PROVE  \E y \in Shown, m \in 1..12 : \E k \in 1..Length(y, m) : n = MonthStart(y, m) + k - 1
<1>1. /\ LastYear \in Nat /\ FirstYear \in Years /\ FirstYear \in Nat /\ FirstYear > 1 /\ LastYear + 1 \in Years
  BY CronAssumption DEF Years, FirstYear
<1>2. n \in 0..(YearStart(LastYear + 1) - 1) BY DEF Calendar
<1>3. \A z \in Years : YearStart(z) \in Int /\ YearStart(z + 1) \in Int /\ YearStart(z) <= YearStart(z + 1)
  <2> SUFFICES ASSUME NEW z \in Years
               PROVE  YearStart(z) \in Int /\ YearStart(z + 1) \in Int /\ YearStart(z) <= YearStart(z + 1)
    OBVIOUS
  <2>1. z + 1 \in Years BY DEF Years
  <2> QED BY <2>1, YearGrows
<1>4. YearStart(FirstYear) = 0
  <2>1. DaysBeforeYear(FirstYear) \in Int BY DEF DaysBeforeYear, FirstYear
  <2> QED BY <2>1 DEF YearStart
<1>5. n \in Nat /\ n < YearStart(LastYear + 1) BY <1>1, <1>2, <1>3
<1>6. FirstYear <= LastYear
  <2> SUFFICES ASSUME LastYear + 1 <= FirstYear PROVE FALSE BY <1>1
  <2>1. LastYear + 1 < FirstYear => YearStart(LastYear + 1 + 1) <= YearStart(FirstYear)
    BY <1>1, YearsInOrder
  <2>2. YearStart(LastYear + 1) <= YearStart(LastYear + 1 + 1) /\ YearStart(LastYear + 1 + 1) \in Int
    BY <1>1, <1>3
  <2>3. LastYear + 1 = FirstYear \/ LastYear + 1 < FirstYear BY <1>1
  <2>4. YearStart(LastYear + 1) <= 0
    <3>1. CASE LastYear + 1 = FirstYear BY <3>1, <1>4
    <3>2. CASE LastYear + 1 < FirstYear BY <3>2, <2>1, <2>2, <1>1, <1>3, <1>4
    <3> QED BY <2>3, <3>1, <3>2
  <2> QED BY <1>1, <1>3, <1>5, <2>4
<1> DEFINE T == {z \in Nat : FirstYear <= z /\ n < YearStart(z + 1)}
<1>7. LastYear \in T /\ T \subseteq Nat BY <1>1, <1>5, <1>6
<1>8. PICK y \in T : \A z \in T : y <= z
  <2> HIDE DEF T
  <2> QED BY <1>7, LeastNumber
<1>9. y \in Nat /\ FirstYear <= y /\ n < YearStart(y + 1) /\ y <= LastYear /\ y \in Years
  BY <1>1, <1>7, <1>8 DEF Years
<1>10. YearStart(y) <= n
  <2>1. CASE y = FirstYear BY <2>1, <1>4, <1>5
  <2>2. CASE y # FirstYear
    <3>1. y - 1 \in Nat /\ FirstYear <= y - 1 /\ y - 1 \notin T /\ (y - 1) + 1 = y BY <1>1, <1>8, <1>9, <2>2
    <3>2. ~(n < YearStart(y)) BY <3>1
    <3> QED BY <3>2, <1>3, <1>5, <1>9
  <2> QED BY <2>1, <2>2
<1>11. y \in Shown BY <1>9 DEF Shown
<1> HIDE DEF T
<1> DEFINE LastDay(j) == MonthStart(y, j) + Length(y, j)
           U == {j \in Nat : j \in 1..12 /\ n < LastDay(j)}
<1>12. 12 \in U
  <2>1. Length(y, 12) = YearStart(y + 1) - MonthStart(y, 12) BY DEF Length
  <2>2. MonthStart(y, 12) \in Int /\ YearStart(y + 1) \in Int BY <1>9, <1>3, MonthLengths
  <2>3. LastDay(12) = YearStart(y + 1) BY <2>1, <2>2
  <2> QED BY <2>3, <1>9
<1>13. PICK m \in U : \A j \in U : m <= j
  <2>1. U \subseteq Nat OBVIOUS
  <2> HIDE DEF U
  <2> QED BY <1>12, <2>1, LeastNumber
<1>14. m \in 1..12 /\ n < LastDay(m) OBVIOUS
<1>15. MonthStart(y, m) <= n
  <2>1. CASE m = 1
    <3>1. MonthStart(y, 1) = YearStart(y) BY <1>3, <1>9, MonthTable DEF MonthStart
    <3> QED BY <2>1, <3>1, <1>10
  <2>2. CASE m # 1
    <3>1. m - 1 \in 1..12 /\ m - 1 \in Nat /\ m - 1 < m /\ m - 1 # 12 /\ (m - 1) + 1 = m BY <1>14, <2>2
    <3>2. m - 1 \notin U BY <1>13, <1>14, <3>1
    <3>3. ~(n < LastDay(m - 1)) BY <3>1, <3>2
    <3>4. Length(y, m - 1) = MonthStart(y, m) - MonthStart(y, m - 1) BY <3>1 DEF Length
    <3>5. MonthStart(y, m) \in Int /\ MonthStart(y, m - 1) \in Int BY <1>9, <1>14, <3>1, MonthLengths
    <3>6. LastDay(m - 1) = MonthStart(y, m) BY <3>4, <3>5
    <3> QED BY <3>3, <3>5, <3>6, <1>5
  <2> QED BY <2>1, <2>2
<1> DEFINE k == n - MonthStart(y, m) + 1
<1>16. MonthStart(y, m) \in Int /\ Length(y, m) \in 28..31 BY <1>9, <1>14, MonthLengths
<1>17. k \in 1..Length(y, m) BY <1>5, <1>14, <1>15, <1>16
<1>18. n = MonthStart(y, m) + k - 1 BY <1>5, <1>16
<1> QED BY <1>11, <1>14, <1>17, <1>18

\* Days that match by their date, and days that match by their weekday.
ByDate(spec, m, k) ==
  \A e \in DOMAIN Calendar :
    Calendar[e].month = m /\ Calendar[e].day = k => DayMatches(spec, Calendar[e])
ByWeekday(spec, m, w) ==
  \A e \in DOMAIN Calendar :
    Calendar[e].month = m /\ Calendar[e].dow = w => DayMatches(spec, Calendar[e])

Ordinary(date) == ~(date.month = 2 /\ date.day = 29)
Comes(spec, d) ==
  \E e \in (d + 1)..(d + 365) : e \in DOMAIN Calendar /\ DayMatches(spec, Calendar[e])
ComesBack(spec, d) ==
  /\ d \in DOMAIN Calendar /\ DayMatches(spec, Calendar[d])
  /\ d + 366 \in DOMAIN Calendar /\ DayMatches(spec, Calendar[d + 366])

\* What a date of the calendar is made of.
LEMMA DayTypes ==
  ASSUME NEW e \in DOMAIN Calendar
  PROVE  Calendar[e].month \in 1..12 /\ Calendar[e].day \in 1..31 /\ Calendar[e].dow \in 0..6
         /\ Calendar[e].dow = e % 7
<1>1. PICK y \in Shown, m \in 1..12 : \E k \in 1..Length(y, m) : e = MonthStart(y, m) + k - 1
  BY EachDay
<1>2. PICK k \in 1..Length(y, m) : e = MonthStart(y, m) + k - 1 BY <1>1
<1>3. /\ Calendar[e].month = m /\ Calendar[e].day = k /\ Calendar[e].dow = e % 7
      /\ k \in 1..31 /\ e % 7 \in 0..6
  BY <1>1, <1>2, DateIs
<1>4. m \in 1..12 BY <1>1
<1> QED BY <1>3, <1>4

\* A match is one of the date or one of the weekday.
LEMMA DateOrWeekday ==
  ASSUME NEW spec, NEW n \in DOMAIN Calendar, DayMatches(spec, Calendar[n])
  PROVE  \/ ByDate(spec, Calendar[n].month, Calendar[n].day)
         \/ ByWeekday(spec, Calendar[n].month, Calendar[n].dow)
<1>1. ASSUME NEW e \in DOMAIN Calendar
      PROVE  /\ spec.dow = Star => Calendar[e].dow \in ParseField(spec.dow, 0, 6)
             /\ spec.dom = Star => Calendar[e].day \in ParseField(spec.dom, 1, 31)
  BY DayTypes DEF ParseField
<1>2. ASSUME NEW e \in DOMAIN Calendar
      PROVE  DayMatches(spec, Calendar[e]) <=>
               /\ Calendar[e].month \in ParseField(spec.mon, 1, 12)
               /\ IF spec.dom # Star /\ spec.dow # Star
                  THEN \/ Calendar[e].day \in ParseField(spec.dom, 1, 31)
                       \/ Calendar[e].dow \in ParseField(spec.dow, 0, 6)
                  ELSE /\ Calendar[e].day \in ParseField(spec.dom, 1, 31)
                       /\ Calendar[e].dow \in ParseField(spec.dow, 0, 6)
  BY DEF DayMatches
<1>3. CASE spec.dow = Star \/ (spec.dom # Star /\ Calendar[n].day \in ParseField(spec.dom, 1, 31))
  BY <1>1, <1>2, <1>3 DEF ByDate
<1>4. CASE spec.dow # Star /\ ~(spec.dom # Star /\ Calendar[n].day \in ParseField(spec.dom, 1, 31))
  BY <1>1, <1>2, <1>4 DEF ByWeekday
<1> QED BY <1>3, <1>4

\* The year of a day from which two more are shown.
LEMMA YearOf ==
  ASSUME NEW d \in Nat, d < YearStart(LastYear - 1), NEW n \in DOMAIN Calendar
  PROVE  \E y \in Shown : /\ y + 1 \in Shown /\ YearStart(y) <= d /\ d < YearStart(y + 1)
                          /\ d + 366 \in DOMAIN Calendar /\ d \in DOMAIN Calendar
<1>1. n \in 0..(YearStart(LastYear + 1) - 1) BY DEF Calendar
<1>2. PICK x \in Shown : TRUE BY EachDay
<1>3. /\ LastYear - 1 \in Years /\ LastYear \in Years /\ LastYear + 1 \in Years
      /\ LastYear \in Nat /\ (LastYear - 1) + 1 = LastYear
  BY <1>2, CronAssumption DEF Shown, Years, FirstYear
<1>4. /\ YearStart(LastYear - 1) \in Int /\ YearStart(LastYear) \in Int /\ YearStart(LastYear + 1) \in Int
      /\ YearStart(LastYear - 1) + 365 <= YearStart(LastYear)
      /\ YearStart(LastYear) + 365 <= YearStart(LastYear + 1)
  BY <1>3, YearGrows
<1>5. d \in 0..(YearStart(LastYear + 1) - 1) /\ d + 366 \in 0..(YearStart(LastYear + 1) - 1)
  BY <1>4
<1>6. d \in DOMAIN Calendar /\ d + 366 \in DOMAIN Calendar BY <1>5 DEF Calendar
<1>7. PICK y \in Shown : YearStart(y) <= d /\ d < YearStart(y + 1)
  <2>1. PICK y \in Shown, m \in 1..12 : \E k \in 1..Length(y, m) : d = MonthStart(y, m) + k - 1
    BY <1>6, EachDay
  <2>2. PICK k \in 1..Length(y, m) : d = MonthStart(y, m) + k - 1 BY <2>1
  <2> QED BY <2>1, <2>2, DateIs
<1>8. y \in Years /\ y \in Nat /\ FirstYear <= y /\ y <= LastYear BY DEF Shown, Years
<1>9. y < LastYear - 1
  <2>1. LastYear - 1 < y => YearStart((LastYear - 1) + 1) <= YearStart(y) BY <1>3, <1>8, YearsInOrder
  <2>2. YearStart(y) \in Int BY <1>8, YearGrows
  <2>3. ~(LastYear - 1 < y) BY <1>3, <1>4, <1>7, <2>1, <2>2
  <2>4. y # LastYear - 1 BY <1>4, <1>7
  <2> QED BY <1>3, <1>8, <2>3, <2>4
<1>10. y + 1 \in Shown BY <1>3, <1>8, <1>9 DEF Shown, Years, FirstYear
<1> QED BY <1>6, <1>7, <1>10

\* A date that is not 29 February comes again within a year of any day; if not within
\* 365 days, it is that day, and it comes on the 366th.
LEMMA DateComes ==
  ASSUME NEW spec, NEW n \in DOMAIN Calendar, NEW d \in Nat, d < YearStart(LastYear - 1),
         ByDate(spec, Calendar[n].month, Calendar[n].day),
         Ordinary(Calendar[n])
  PROVE  Comes(spec, d) \/ ComesBack(spec, d)
<1> USE DEF Comes, ComesBack, Ordinary
<1>1. PICK x \in Shown, m \in 1..12 : \E k \in 1..Length(x, m) : n = MonthStart(x, m) + k - 1
  BY EachDay
<1>2. PICK k \in 1..Length(x, m) : n = MonthStart(x, m) + k - 1 BY <1>1
<1>3. Calendar[n].month = m /\ Calendar[n].day = k BY <1>1, <1>2, DateIs
<1>4. PICK y \in Shown : /\ y + 1 \in Shown /\ YearStart(y) <= d /\ d < YearStart(y + 1)
                         /\ d + 366 \in DOMAIN Calendar
  BY YearOf
<1>5. x \in Years /\ y \in Years /\ y + 1 \in Years BY <1>1, <1>4 DEF Shown
<1>6. \A z \in Years : k \in 1..Length(z, m)
  <2> SUFFICES ASSUME NEW z \in Years PROVE k \in 1..Length(z, m) OBVIOUS
  <2>1. /\ Length(z, m) = IF m = 2 THEN (IF IsLeap(z) THEN 29 ELSE 28)
                          ELSE IF m \in {4, 6, 9, 11} THEN 30 ELSE 31
        /\ Length(x, m) = IF m = 2 THEN (IF IsLeap(x) THEN 29 ELSE 28)
                          ELSE IF m \in {4, 6, 9, 11} THEN 30 ELSE 31
        /\ Length(z, m) \in 28..31 /\ Length(x, m) \in 28..31
    BY <1>1, <1>5, MonthLengths
  <2>2. m = 2 => k # 29 BY <1>3
  <2> QED BY <1>2, <2>1, <2>2
<1> DEFINE e == MonthStart(y, m) + k - 1
           f == MonthStart(y + 1, m) + k - 1
<1>7. /\ e \in DOMAIN Calendar /\ YearStart(y) <= e /\ e < YearStart(y + 1)
      /\ DayMatches(spec, Calendar[e])
  <2>1. k \in 1..Length(y, m) BY <1>5, <1>6
  <2>2. e \in DOMAIN Calendar /\ Calendar[e].month = m /\ Calendar[e].day = k
        /\ YearStart(y) <= e /\ e < YearStart(y + 1)
    BY <1>1, <1>4, <2>1, DateIs
  <2> HIDE DEF e
  <2> QED BY <1>3, <2>2 DEF ByDate
<1>8. /\ f \in DOMAIN Calendar /\ YearStart(y + 1) <= f /\ DayMatches(spec, Calendar[f])
  <2>1. k \in 1..Length(y + 1, m) BY <1>5, <1>6
  <2>2. f \in DOMAIN Calendar /\ Calendar[f].month = m /\ Calendar[f].day = k /\ YearStart(y + 1) <= f
    BY <1>1, <1>4, <2>1, DateIs
  <2> HIDE DEF f
  <2> QED BY <1>3, <2>2 DEF ByDate
<1>9. YearStart(y) \in Int /\ YearStart(y + 1) = YearStart(y) + (IF IsLeap(y) THEN 366 ELSE 365)
  BY <1>5, YearGrows
<1>10. e \in Int /\ f \in Int /\ (f = e + 365 \/ f = e + 366)
  <2>1. MonthStart(y, m) = YearStart(y) + DaysBeforeMonth[m] + (IF m > 2 /\ IsLeap(y) THEN 1 ELSE 0)
        /\ MonthStart(y + 1, m) = YearStart(y + 1) + DaysBeforeMonth[m]
                                  + (IF m > 2 /\ IsLeap(y + 1) THEN 1 ELSE 0)
    BY DEF MonthStart
  <2>2. DaysBeforeMonth[m] \in Int BY <1>1, Twelve, MonthTable
  <2>3. k \in Int BY <1>2, <1>1, <1>5, MonthLengths
  <2> QED BY <1>1, <1>9, <2>1, <2>2, <2>3
<1> HIDE DEF e, f
<1>11. CASE e > d
  <2>1. e \in (d + 1)..(d + 365) BY <1>4, <1>7, <1>9, <1>10, <1>11
  <2> QED BY <1>7, <2>1
<1>12. CASE e < d
  <2>1. f \in (d + 1)..(d + 365) BY <1>4, <1>8, <1>9, <1>10, <1>12
  <2> QED BY <1>8, <2>1
<1>13. CASE e = d
  <2>1. CASE f = e + 365
    <3>1. f \in (d + 1)..(d + 365) BY <1>13, <2>1
    <3> QED BY <1>8, <3>1
  <2>2. CASE f = e + 366 BY <1>7, <1>8, <1>13, <2>2
  <2> QED BY <1>10, <2>1, <2>2
<1> QED BY <1>10, <1>11, <1>12, <1>13

\* Seven days in a row have every weekday.
LEMMA SevenDays ==
  ASSUME NEW s \in Nat, NEW w \in 0..6
  PROVE  \E i \in 0..6 : (s + i) % 7 = w
<1>1. PICK r \in 0..6, q \in Nat : s = 7 * q + r
  <2>1. s % 7 \in 0..6 /\ s \div 7 \in Nat /\ s = 7 * (s \div 7) + (s % 7) OBVIOUS
  <2> QED BY <2>1
<1>2. PICK i \in 0..6 : r + i = w \/ r + i = w + 7
  <2>1. (w - r) \in 0..6 \/ (w - r + 7) \in 0..6 OBVIOUS
  <2> QED BY <2>1
<1>3. s + i = 7 * q + w \/ s + i = 7 * (q + 1) + w BY <1>1, <1>2
<1>4. \A p \in Nat : (7 * p + w) % 7 = w OBVIOUS
<1> QED BY <1>3, <1>4

\* So has a week of one month.
LEMMA WeekHas ==
  ASSUME NEW spec, NEW y \in Shown, NEW m \in 1..12, NEW w \in 0..6, ByWeekday(spec, m, w),
         NEW s \in Nat, MonthStart(y, m) <= s, s + 7 <= MonthStart(y, m) + 28
  PROVE  \E e \in s..(s + 6) : e \in DOMAIN Calendar /\ DayMatches(spec, Calendar[e])
<1>1. PICK i \in 0..6 : (s + i) % 7 = w BY SevenDays
<1>2. y \in Years BY DEF Shown
<1>3. MonthStart(y, m) \in Int /\ Length(y, m) \in 28..31 BY <1>2, MonthLengths
<1>4. PICK k : k = s + i - MonthStart(y, m) + 1 OBVIOUS
<1>5. k \in 1..Length(y, m) /\ s + i = MonthStart(y, m) + k - 1 BY <1>3, <1>4
<1>6. s + i \in DOMAIN Calendar /\ Calendar[s + i].month = m /\ Calendar[s + i].dow = w
  BY <1>1, <1>5, DateIs
<1>7. s + i \in s..(s + 6) OBVIOUS
<1> QED BY <1>6, <1>7 DEF ByWeekday

\* A weekday of a month comes again within 365 days.
LEMMA WeekdayComes ==
  ASSUME NEW spec, NEW n \in DOMAIN Calendar, NEW d \in Nat, d < YearStart(LastYear - 1),
         ByWeekday(spec, Calendar[n].month, Calendar[n].dow)
  PROVE  Comes(spec, d)
<1> USE DEF Comes
<1>1. PICK m \in 1..12, w \in 0..6 : m = Calendar[n].month /\ w = Calendar[n].dow BY DayTypes
<1>2. PICK y \in Shown : y + 1 \in Shown /\ YearStart(y) <= d /\ d < YearStart(y + 1) BY YearOf
<1>3. y \in Years /\ y + 1 \in Years BY <1>2 DEF Shown
<1>4. YearStart(y) \in Int /\ YearStart(y + 1) = YearStart(y) + (IF IsLeap(y) THEN 366 ELSE 365)
  BY <1>3, YearGrows
<1> DEFINE s == MonthStart(y, m)
           t == MonthStart(y + 1, m)
<1>5. /\ s \in Int /\ YearStart(y) <= s /\ s + 28 <= YearStart(y + 1) /\ t \in Int /\ YearStart(y + 1) <= t
      /\ (t = s + 365 \/ t = s + 366)
  <2>1. MonthStart(y, m) = YearStart(y) + DaysBeforeMonth[m] + (IF m > 2 /\ IsLeap(y) THEN 1 ELSE 0)
        /\ MonthStart(y + 1, m) = YearStart(y + 1) + DaysBeforeMonth[m]
                                  + (IF m > 2 /\ IsLeap(y + 1) THEN 1 ELSE 0)
    BY DEF MonthStart
  <2>0. DaysBeforeMonth[m] \in Int BY <1>1, Twelve, MonthTable
  <2>3. s \in Int /\ t \in Int /\ (t = s + 365 \/ t = s + 366) BY <1>1, <1>4, <2>0, <2>1
  <2>4. YearStart(y) <= s /\ s + Length(y, m) <= YearStart(y + 1) /\ Length(y, m) \in 28..31
    BY <1>1, <1>3, MonthsInOrder, MonthLengths
  <2>5. YearStart(y + 1) <= t BY <1>1, <1>3, MonthsInOrder
  <2> HIDE DEF s, t
  <2> QED BY <1>4, <2>3, <2>4, <2>5
<1> HIDE DEF s, t
<1>6. CASE d < s
  <2>1. s \in Nat /\ s + 7 <= s + 28 BY <1>5, <1>6
  <2>2. PICK e \in s..(s + 6) : e \in DOMAIN Calendar /\ DayMatches(spec, Calendar[e])
    BY <1>1, <1>2, <2>1, WeekHas DEF s
  <2>3. e \in (d + 1)..(d + 365) BY <1>2, <1>4, <1>5, <1>6, <2>1
  <2> QED BY <2>2, <2>3
<1>7. CASE s <= d /\ d < s + 21
  <2>1. d + 1 \in Nat /\ s <= d + 1 /\ (d + 1) + 7 <= s + 28 BY <1>5, <1>7
  <2>2. PICK e \in (d + 1)..((d + 1) + 6) : e \in DOMAIN Calendar /\ DayMatches(spec, Calendar[e])
    BY <1>1, <1>2, <2>1, WeekHas DEF s
  <2>3. e \in (d + 1)..(d + 365) OBVIOUS
  <2> QED BY <2>2, <2>3
<1>8. CASE s + 21 <= d
  <2>1. t \in Nat /\ t + 7 <= t + 28 BY <1>2, <1>4, <1>5
  <2>0. PICK z \in Shown : z = y + 1 BY <1>2
  <2>2. PICK e \in t..(t + 6) : e \in DOMAIN Calendar /\ DayMatches(spec, Calendar[e])
    <3>1. MonthStart(z, m) = t BY <2>0 DEF t
    <3>2. MonthStart(z, m) <= t /\ t + 7 <= MonthStart(z, m) + 28 /\ t \in Nat BY <2>1, <3>1
    <3>3. ByWeekday(spec, m, w) BY <1>1
    <3> QED BY <1>1, <2>0, <3>2, <3>3, WeekHas
  <2>3. e \in (d + 1)..(d + 365) BY <1>2, <1>4, <1>5, <1>8, <2>1
  <2> QED BY <2>2, <2>3
<1> QED BY <1>5, <1>6, <1>7, <1>8

\* A valid field of the hours lets one through.
LEMMA AnHour ==
  ASSUME NEW field \in Fields, NEW H \in Nat \ {0}, ValidField(field, 0, H - 1)
  PROVE  \E h \in 0..(H - 1) : h \in ParseField(field, 0, H - 1)
<1>1. CASE field = Star
  <2>1. 0 \in 0..(H - 1) OBVIOUS
  <2> QED BY <1>1, <2>1 DEF ParseField
<1>2. CASE field # Star
  <2>1. field \in SUBSET [from : Nat, to : Nat, step : Nat] BY <1>2 DEF Fields
  <2>2. /\ field # {}
        /\ \A p \in field : p.step >= 1 /\ 0 <= p.from /\ p.from <= p.to /\ p.to <= H - 1
    BY <1>2 DEF ValidField
  <2>3. PICK p \in field : TRUE BY <2>2
  <2>4. PICK u \in Nat, v \in Nat, w \in Nat : u = p.from /\ v = p.to /\ w = p.step BY <2>1, <2>3
  <2>5. w >= 1 /\ u <= v /\ v <= H - 1 BY <2>2, <2>3, <2>4
  <2>6. u \in 0..(H - 1) /\ u \in u..v /\ u - u = 0 /\ 0 % w = 0 BY <2>5
  <2>7. u \in {n \in p.from .. p.to : (n - p.from) % p.step = 0} BY <2>4, <2>6
  <2>8. u \in ParseField(field, 0, H - 1) BY <1>2, <2>3, <2>7 DEF ParseField
  <2> QED BY <2>6, <2>8
<1> QED BY <1>1, <1>2

\* An hour of a day.
LEMMA HourOfDay ==
  ASSUME NEW H \in Nat \ {0}, NEW e \in Nat, NEW h \in 0..(H - 1)
  PROVE  /\ e * H \in Nat /\ (e * H + h) \div H = e /\ (e * H + h) % H = h
<1>1. e * H \in Nat OBVIOUS
<1> QED BY <1>1

\* The day and the hour of an instant.
LEMMA DayOfHour ==
  ASSUME NEW H \in Nat \ {0}, NEW t \in Nat
  PROVE  /\ t \div H \in Nat /\ t % H \in 0..(H - 1) /\ t = (t \div H) * H + (t % H)
OBVIOUS

\* Days ahead, counted in hours.
LEMMA Wait ==
  ASSUME NEW H \in Nat \ {0}, NEW d \in Nat, NEW e \in (d + 1)..(d + 365)
  PROVE  d * H + H <= e * H /\ e * H <= d * H + 365 * H
<1>1. PICK i \in 1..365 : e = d + i
  <2>1. e - d \in 1..365 /\ e = d + (e - d) OBVIOUS
  <2> QED BY <2>1
<1>2. e * H = d * H + i * H BY <1>1
<1>3. H <= i * H /\ i * H <= 365 * H OBVIOUS
<1>4. d * H \in Nat /\ i * H \in Nat OBVIOUS
<1> QED BY <1>2, <1>3, <1>4

\* The schedule of a yearly expression has a next run.
LEMMA NextExists ==
  ASSUME NEW spec \in Yearly, NEW t \in Nat, t \div HoursPerDay < YearStart(LastYear - 1)
  PROVE  CronNext(spec, t) \in Nat
<1>1. PICK H \in Nat \ {0} : H = HoursPerDay BY CronAssumption
<1>2. PICK n \in DOMAIN Calendar : DayMatches(spec, Calendar[n])
                                  /\ ~(Calendar[n].month = 2 /\ Calendar[n].day = 29)
  BY DEF Yearly
<1>3. spec.hour \in Fields /\ ValidField(spec.hour, 0, H - 1)
  BY <1>1, CronAssumption DEF Yearly, ValidCron
<1>4. PICK h \in 0..(H - 1) : h \in ParseField(spec.hour, 0, H - 1) BY <1>3, AnHour
<1>5. PICK d \in Nat, r \in 0..(H - 1) : d = t \div H /\ t = d * H + r BY DayOfHour
<1>6. d < YearStart(LastYear - 1) BY <1>1, <1>5
<1> DEFINE hits == {u \in (t + 1) .. (t + 1 + Horizon) : InstantMatches(spec, u)}
<1>7. Horizon = 366 * H /\ 366 * H \in Nat BY <1>1 DEF Horizon
<1>8. ASSUME NEW e \in Nat, e \in DOMAIN Calendar, DayMatches(spec, Calendar[e]),
             t < e * H + h, e * H + h <= t + 1 + 366 * H
      PROVE  e * H + h \in hits
  <2>1. e * H \in Nat /\ (e * H + h) \div H = e /\ (e * H + h) % H = h BY HourOfDay
  <2>2. InstantMatches(spec, e * H + h) BY <1>1, <1>4, <1>8, <2>1 DEF InstantMatches
  <2>3. PICK u \in Nat : u = e * H + h BY <2>1
  <2>4. u \in (t + 1)..(t + 1 + 366 * H) BY <1>7, <1>8, <2>3
  <2> QED BY <1>7, <2>2, <2>3, <2>4
<1>9. ASSUME NEW e \in (d + 1)..(d + 365), e \in DOMAIN Calendar, DayMatches(spec, Calendar[e])
      PROVE  e * H + h \in hits
  <2>1. d * H + H <= e * H /\ e * H <= d * H + 365 * H BY Wait
  <2>2. e \in Nat /\ d * H \in Nat /\ e * H \in Nat OBVIOUS
  <2>3. t < e * H + h /\ e * H + h <= t + 1 + 366 * H BY <1>5, <2>1, <2>2
  <2> HIDE DEF hits
  <2> QED BY <1>8, <1>9, <2>2, <2>3
<1>10. ASSUME d \in DOMAIN Calendar, DayMatches(spec, Calendar[d]),
              d + 366 \in DOMAIN Calendar, DayMatches(spec, Calendar[d + 366])
       PROVE  hits # {}
  <2>1. d * H \in Nat /\ (d + 366) * H = d * H + 366 * H /\ d + 366 \in Nat OBVIOUS
  <2>2. CASE h > r
    <3>1. t < d * H + h /\ d * H + h <= t + 1 + 366 * H BY <1>5, <2>1, <2>2
    <3> HIDE DEF hits
    <3> QED BY <1>8, <1>10, <3>1
  <2>3. CASE h <= r
    <3>1. t < (d + 366) * H + h /\ (d + 366) * H + h <= t + 1 + 366 * H BY <1>5, <2>1, <2>3
    <3> HIDE DEF hits
    <3> QED BY <1>8, <1>10, <2>1, <3>1
  <2> QED BY <2>2, <2>3
<1>11. hits # {}
  <2> HIDE DEF hits
  <2>1. CASE ByDate(spec, Calendar[n].month, Calendar[n].day)
    <3>1. Ordinary(Calendar[n]) BY <1>2 DEF Ordinary
    <3>2. Comes(spec, d) \/ ComesBack(spec, d) BY <1>2, <1>5, <1>6, <2>1, <3>1, DateComes
    <3>3. CASE Comes(spec, d) BY <1>9, <3>3 DEF Comes
    <3>4. CASE ComesBack(spec, d) BY <1>10, <3>4 DEF ComesBack
    <3> QED BY <3>2, <3>3, <3>4
  <2>2. CASE ByWeekday(spec, Calendar[n].month, Calendar[n].dow)
    <3>1. Comes(spec, d) BY <1>2, <1>5, <1>6, <2>2, WeekdayComes
    <3> QED BY <1>9, <3>1 DEF Comes
  <2> QED BY <1>2, <2>1, <2>2, DateOrWeekday
<1>12. hits \subseteq Nat BY <1>7
<1>13. CronNext(spec, t) = Min(hits)
  <2>1. CronNext(spec, t) = IF hits = {} THEN Never ELSE Min(hits) BY DEF CronNext
  <2> HIDE DEF hits
  <2> QED BY <1>11, <2>1
<1> HIDE DEF hits
<1>14. PICK u \in hits : \A v \in hits : u <= v BY <1>11, <1>12, LeastNumber
<1>15. Min(hits) \in hits BY <1>14 DEF Min
<1> QED BY <1>12, <1>13, <1>15

\* A schedule holds the time of its last run, or none; a yearly one holds a time.
CronInv == (at = Never \/ at \in Nat) /\ YearlyCronFires

\* The invariant holds at first, and every claimed run keeps it.
LEMMA CronStarts == ASSUME CronInit PROVE CronInv
<1>1. PICK d \in StartDays, h \in 0..(HoursPerDay - 1) : at = d * HoursPerDay + h BY DEF CronInit
<1>2. d \in Nat /\ HoursPerDay \in Nat BY CronAssumption
<1>3. d * HoursPerDay \in Nat BY <1>2
<1>4. at \in Nat BY <1>1, <1>2, <1>3
<1>5. at # Never BY <1>4 DEF Never
<1> QED BY <1>4, <1>5 DEF CronInv, YearlyCronFires

\* A claimed run keeps the invariant: the next one lies within the horizon.
LEMMA CronSteps ==
  ASSUME CronInv, [CronRuns]_cronVars
  PROVE  CronInv'
<1>1. CASE CronRuns
  <2>1. /\ at \in Nat /\ at \div HoursPerDay < YearStart(LastYear - 1)
        /\ at' = CronNext(cron, at) /\ cron' = cron
    BY <1>1 DEF CronRuns, CronInv
  <2>2. cron \in Yearly => at' \in Nat BY <2>1, NextExists
  <2>3. at' = Never \/ at' \in Nat
    <3> DEFINE hits == {t \in (at + 1) .. (at + 1 + Horizon) : InstantMatches(cron, t)}
    <3>1. CronNext(cron, at) = IF hits = {} THEN Never ELSE Min(hits) BY DEF CronNext
    <3>2. HoursPerDay \in Nat /\ 366 * HoursPerDay \in Nat BY CronAssumption
    <3>3. hits \subseteq Nat BY <2>1, <3>2 DEF Horizon
    <3> HIDE DEF hits
    <3>4. CASE hits = {} BY <2>1, <3>1, <3>4
    <3>5. CASE hits # {}
      <4>1. PICK u \in hits : \A v \in hits : u <= v BY <3>3, <3>5, LeastNumber
      <4>2. Min(hits) \in hits BY <4>1 DEF Min
      <4> QED BY <2>1, <3>1, <3>3, <3>5, <4>2
    <3> QED BY <3>4, <3>5
  <2>4. Yearly' = Yearly OBVIOUS
  <2>5. at' \in Nat => at' # Never BY DEF Never
  <2> QED BY <2>1, <2>2, <2>3, <2>5 DEF CronInv, YearlyCronFires
<1>2. CASE UNCHANGED cronVars BY <1>2 DEF cronVars, CronInv, YearlyCronFires
<1> QED BY <1>1, <1>2

\* A schedule with a day that every year has never ends, whatever its fields are:
\* from any instant, over leap years and the end of February, _cron_next finds the
\* next run within its horizon of 366 days.
THEOREM YearlyCronFiresAlways == CronBehaviour => []YearlyCronFires
<1>1. CronInv => YearlyCronFires BY DEF CronInv
<1> QED BY <1>1, CronStarts, CronSteps, PTL DEF CronBehaviour

-----------------------------------------------------------------------------
\* Each part takes its own steps or none.
LEMMA WorkSteps ==
  ASSUME [part' = part /\ WorkNext]_workVars
  PROVE  /\ [ApprovalsNext]_approvalVars /\ [DelegationsNext]_delegationVars
         /\ [SchedulerNext]_scheduleVars /\ [DirectoryNext]_directoryVars
         /\ [NotificationsNext]_notificationVars /\ [Next]_vars
         /\ [ColumnsNext]_columnVars /\ [AccessNext]_accessVars /\ [CronRuns]_cronVars
<1> USE DEF WorkNext, Approving, Delegating, Scheduling, CronRunning, Naming, Presetting,
            Notifying, Ranking, Arranging, Granting, workVars, officeVars, boardVars
<1>1. [ApprovalsNext]_approvalVars
  BY Zenon
<1>2. [DelegationsNext]_delegationVars
  BY Zenon
<1>3. [SchedulerNext]_scheduleVars
  BY Zenon
<1>4. [DirectoryNext]_directoryVars
  BY Zenon DEF DirectoryNext
<1>5. [NotificationsNext]_notificationVars
  BY Zenon
<1>6. [Next]_vars
  BY Zenon
<1>7. [ColumnsNext]_columnVars
  BY Zenon
<1>8. [AccessNext]_accessVars
  BY Zenon
<1>9. [CronRuns]_cronVars
  BY Zenon
<1> QED BY <1>1, <1>2, <1>3, <1>4, <1>5, <1>6, <1>7, <1>8, <1>9, Zenon

\* What is proved of a part alone holds of the services together.
LEMMA WorkIsItsParts ==
  WorkSpec => /\ ApprovalsSpec /\ DelegationsSpec /\ SchedulerSpec /\ DirectorySpec
              /\ NotificationsSpec /\ Spec /\ ColumnsSpec /\ AccessSpec /\ CronBehaviour
<1>0. WorkInit => /\ ApprovalsInit /\ DelegationsInit /\ SchedulerInit /\ DirectoryInit
                  /\ NotificationsInit /\ Init /\ ColumnsInit /\ AccessInit
                  /\ CronInit
  BY DEF WorkInit
<1>1. [part' = part /\ WorkNext]_workVars
        => /\ [ApprovalsNext]_approvalVars /\ [DelegationsNext]_delegationVars
           /\ [SchedulerNext]_scheduleVars /\ [DirectoryNext]_directoryVars
           /\ [NotificationsNext]_notificationVars /\ [Next]_vars
           /\ [ColumnsNext]_columnVars /\ [AccessNext]_accessVars /\ [CronRuns]_cronVars
  BY WorkSteps
<1>2. WorkSpec => ApprovalsSpec /\ DelegationsSpec
  BY <1>0, <1>1, PTL DEF WorkSpec, ApprovalsSpec, DelegationsSpec
<1>3. WorkSpec => SchedulerSpec /\ DirectorySpec
  BY <1>0, <1>1, PTL DEF WorkSpec, SchedulerSpec, DirectorySpec
<1>4. WorkSpec => NotificationsSpec /\ Spec
  BY <1>0, <1>1, PTL DEF WorkSpec, NotificationsSpec, Spec
<1>5. WorkSpec => ColumnsSpec /\ AccessSpec
  BY <1>0, <1>1, PTL DEF WorkSpec, ColumnsSpec, AccessSpec
<1>6. WorkSpec => CronBehaviour
  BY <1>0, <1>1, PTL DEF WorkSpec, CronBehaviour
<1> QED BY <1>2, <1>3, <1>4, <1>5, <1>6, PTL

\* Every variable of every service has its type.
THEOREM WorkTypesHold == WorkSpec => []WorkTypeOK
BY WorkIsItsParts, TypesOfParts, SchedulerTypesHold, DirectoryTypesHold,
   NotificationsTypesHold, ColumnsTypesHold, PTL DEF WorkTypeOK

\* Whatever the requests of the services interleave, and for every value of the
\* constants: approvals, delegations, schedules, cron, the directory, the inbox, and the
\* boards keep what they promise.
THEOREM WorkIsSafe ==
  WorkSpec => /\ [](DelegationsHold /\ ShownAsIntended /\ ColumnsHold /\ AccessHolds
                    /\ YearlyCronFires)
              /\ ApprovalsHold /\ SchedulesHold /\ DirectoryHolds /\ InboxHolds
BY WorkIsItsParts, DelegationsHoldAlways, ShownAsIntendedAlways, ColumnsHoldAlways,
   AccessHoldsAlways, ApprovalsHoldAlways, SchedulesHoldAlways, DirectoryHoldsAlways,
   InboxHoldsAlways, YearlyCronFiresAlways, PTL
=============================================================================
