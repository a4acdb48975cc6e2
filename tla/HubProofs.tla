------------------------------ MODULE HubProofs ------------------------------
(***************************************************************************)
(* Proofs about three parts of the hub that share no state: the limiters,  *)
(* the accounts and the control of one agent.                              *)
(***************************************************************************)
EXTENDS MCHub, FiniteSetTheorems, SequenceTheorems, TLAPS

(***************************************************************************)
(* The limiters.  The deque is the tail of the grants of the window        *)
(* limiter, and what was dropped from it is older than a window            *)
(* (DequeIsTail); what a bucket granted since any moment and what it holds *)
(* now are together within its burst and the rate since then (Credit).     *)
(***************************************************************************)

\* The moments of a sequence that lie between two moments.
Within(s, from, to) == {i \in DOMAIN s : s[i] \in from .. to}
Ascending(s) == \A i, j \in DOMAIN s : i <= j => s[i] <= s[j]

DequeIsTail ==
  LET calls == granted["window"]
      gone == Len(calls) - Len(events)
  IN  /\ gone \in Nat /\ Len(events) <= MaxEvents
      /\ \A i \in DOMAIN events : events[i] = calls[i + gone]
      /\ \A i \in 1 .. gone : calls[i] + Window < clock

Credit ==
  \A from \in 0 .. clock :
    60 * Granted("bucket", from, clock) + Refilled <= Capacity + (clock - from) * RatePerMinute

LimitInv ==
  /\ LimitTypeOK
  /\ clock <= MaxClock /\ refilled <= clock
  /\ \A l \in Limiters : Ascending(granted[l]) /\ \A i \in DOMAIN granted[l] : granted[l][i] <= clock
  /\ DequeIsTail /\ WindowIsExact
  /\ Credit /\ BucketIsBounded

\* The constants one by one.
LEMMA LimitConstants ==
  /\ MaxEvents \in Nat \ {0} /\ Window \in Nat \ {0} /\ RatePerMinute \in Nat \ {0}
  /\ MaxClock \in Nat \ {0} /\ Capacity \in Nat /\ Capacity >= 60
BY RateLimitAssumption DEF RateLimitAssumption, Capacity

\* The moments within a stretch are counted, and one more call adds at most itself.
LEMMA WithinGrows ==
  ASSUME NEW s \in Seq(Nat), NEW t \in Nat, NEW from \in Int, NEW to \in Int
  PROVE  /\ IsFiniteSet(Within(s, from, to)) /\ Cardinality(Within(s, from, to)) \in Nat
         /\ t \in from .. to =>
              Cardinality(Within(Append(s, t), from, to)) = Cardinality(Within(s, from, to)) + 1
         /\ t \notin from .. to => Within(Append(s, t), from, to) = Within(s, from, to)
<1>1. /\ DOMAIN s = 1 .. Len(s) /\ Len(s) \in Nat
      /\ DOMAIN Append(s, t) = 1 .. (Len(s) + 1)
      /\ \A i \in 1 .. Len(s) : Append(s, t)[i] = s[i]
      /\ Append(s, t)[Len(s) + 1] = t
  OBVIOUS
<1>2. Within(s, from, to) \subseteq 1 .. Len(s)
  BY <1>1 DEF Within
<1>3. IsFiniteSet(Within(s, from, to))
  <2>1. IsFiniteSet(1 .. Len(s))
    BY <1>1, FS_Interval
  <2> QED BY <2>1, <1>2, FS_Subset
<1>4. Cardinality(Within(s, from, to)) \in Nat
  BY <1>3, FS_CardinalityType
<1>5. ASSUME t \in from .. to
      PROVE  Cardinality(Within(Append(s, t), from, to)) = Cardinality(Within(s, from, to)) + 1
  <2>1. Within(Append(s, t), from, to) = Within(s, from, to) \cup {Len(s) + 1}
    BY <1>1, <1>5 DEF Within
  <2>2. Len(s) + 1 \notin Within(s, from, to)
    BY <1>1, <1>2
  <2> QED BY <2>1, <2>2, <1>3, FS_AddElement
<1>6. ASSUME t \notin from .. to
      PROVE  Within(Append(s, t), from, to) = Within(s, from, to)
  BY <1>1, <1>6 DEF Within
<1> QED BY <1>3, <1>4, <1>5, <1>6

\* Nothing lies beyond the last moment.
LEMMA NothingBeyond ==
  ASSUME NEW s \in Seq(Nat), NEW last \in Nat, NEW from \in Int, NEW to \in Int, last < from,
         \A i \in DOMAIN s : s[i] <= last
  PROVE  Cardinality(Within(s, from, to)) = 0
<1>1. \A i \in DOMAIN s : s[i] \in Nat
  OBVIOUS
<1>2. Within(s, from, to) = {}
  BY <1>1 DEF Within
<1> QED BY <1>2, FS_EmptySet

\* The stretch may end at the last moment.
LEMMA NothingLater ==
  ASSUME NEW s \in Seq(Nat), NEW last \in Nat, NEW from \in Int, NEW to \in Int, last <= to,
         \A i \in DOMAIN s : s[i] <= last
  PROVE  Within(s, from, to) = Within(s, from, last)
<1>1. \A i \in DOMAIN s : s[i] \in Nat
  OBVIOUS
<1> QED BY <1>1 DEF Within

\* The loop leaves exactly the events that are no older than a window.
LEMMA RemainingIsKept ==
  ASSUME LimitInv
  PROVE  \E k \in 0 .. Len(events) :
           /\ Remaining \in Seq(Nat) /\ Len(Remaining) = Len(events) - k
           /\ \A i \in 1 .. Len(Remaining) : Remaining[i] = events[i + k]
           /\ \A i \in 1 .. k : events[i] + Window < clock
           /\ \A i \in (k + 1) .. Len(events) : clock <= events[i] + Window
<1> DEFINE n == Len(events)
           k == Cardinality(Dropped)
           calls == granted["window"]
           gone == Len(calls) - n
<1>1. /\ events \in Seq(Nat) /\ n \in Nat /\ DOMAIN events = 1 .. n /\ clock \in Nat
      /\ \A i \in 1 .. n : events[i] \in Nat
      /\ Window \in Nat /\ calls \in Seq(Nat)
  BY LimitConstants DEF LimitInv, LimitTypeOK, Limiters
<1>2. \A i, j \in 1 .. n : i <= j => events[i] <= events[j]
  <2>1. gone \in Nat /\ \A i \in 1 .. n : events[i] = calls[i + gone]
    BY <1>1 DEF LimitInv, DequeIsTail
  <2>2. \A i \in 1 .. n : i + gone \in DOMAIN calls /\ i + gone \in Int
    BY <1>1, <2>1
  <2>3. Ascending(calls)
    BY DEF LimitInv, Limiters
  <2>4. ASSUME NEW i \in 1 .. n, NEW j \in 1 .. n, i <= j
        PROVE  events[i] <= events[j]
    <3>1. i + gone <= j + gone
      BY <2>1, <2>4, <1>1
    <3>2. calls[i + gone] <= calls[j + gone]
      BY <3>1, <2>2, <2>3 DEF Ascending
    <3> QED BY <3>2, <2>1
  <2> QED BY <2>4
<1>3. Dropped \in SUBSET (1 .. n)
  BY <1>1 DEF Dropped
<1>4. IsFiniteSet(Dropped)
  <2>1. IsFiniteSet(1 .. n)
    BY <1>1, FS_Interval
  <2> QED BY <2>1, <1>3, FS_Subset
<1>5. k \in Nat
  BY <1>4, FS_CardinalityType
<1>6. Dropped \subseteq 1 .. k
  <2> SUFFICES ASSUME NEW i \in Dropped PROVE i \in 1 .. k
    OBVIOUS
  <2>1. i \in 1 .. n
    BY <1>3
  <2>2. 1 .. i \in SUBSET Dropped
    BY <2>1, <1>1 DEF Dropped
  <2>3. Cardinality(1 .. i) = i
    <3>1. 1 \in Int /\ i \in Int /\ i >= 1
      BY <2>1
    <3>2. Cardinality(1 .. i) = IF 1 > i THEN 0 ELSE i - 1 + 1
      BY <3>1, FS_Interval
    <3> QED BY <3>1, <3>2
  <2>4. Cardinality(1 .. i) <= k
    BY <1>4, <2>2, FS_Subset
  <2> QED BY <2>1, <2>3, <2>4, <1>5
<1>7. IsFiniteSet(1 .. k) /\ Cardinality(1 .. k) = k
  <2>1. IsFiniteSet(1 .. k) /\ Cardinality(1 .. k) = IF 1 > k THEN 0 ELSE k - 1 + 1
    BY <1>5, FS_Interval
  <2> QED BY <2>1, <1>5
<1>8. Dropped = 1 .. k
  BY <1>6, <1>7, FS_Subset
<1>9. k <= n
  BY <1>8, <1>3, <1>1, <1>5
<1>10. \A i \in 1 .. n : i <= k <=> ~Kept(events[i])
  <2>1. \A i \in 1 .. k : ~Kept(events[i])
    <3>1. \A i \in 1 .. k : i \in Dropped /\ i \in 1 .. i
      BY <1>8, <1>5
    <3> QED BY <3>1 DEF Dropped
  <2>2. ASSUME NEW i \in 1 .. n, ~Kept(events[i])
        PROVE  i <= k
    <3>1. \A j \in 1 .. i : ~Kept(events[j])
      BY <2>2, <1>1, <1>2 DEF Kept
    <3>2. i \in Dropped
      BY <3>1, <1>1 DEF Dropped
    <3> QED BY <3>2, <1>8, <1>5
  <2> QED BY <2>1, <2>2, <1>5
<1>11. /\ Remaining \in Seq(Nat) /\ Len(Remaining) = n - k
       /\ \A i \in 1 .. Len(Remaining) : Remaining[i] = events[i + k]
  <2>1. \A i \in (k + 1) .. n : events[i] \in Nat
    BY <1>1, <1>5
  <2>2. k + 1 \in Int /\ n \in Int
    BY <1>1, <1>5
  <2>3. /\ Remaining \in Seq(Nat)
        /\ Len(Remaining) = IF k + 1 <= n THEN n - (k + 1) + 1 ELSE 0
        /\ \A i \in 1 .. (n - (k + 1) + 1) : Remaining[i] = events[k + 1 + i - 1]
    BY <2>1, <2>2, SubSeqProperties DEF Remaining
  <2>4. Len(Remaining) = n - k /\ n - (k + 1) + 1 = n - k
    BY <2>3, <1>1, <1>5, <1>9
  <2>5. \A i \in 1 .. (n - k) : k + 1 + i - 1 = i + k
    BY <1>1, <1>5
  <2> QED BY <2>3, <2>4, <2>5
<1>12. k \in 0 .. Len(events)
  BY <1>1, <1>5, <1>9
<1>13. /\ \A i \in 1 .. k : events[i] + Window < clock
       /\ \A i \in (k + 1) .. Len(events) : clock <= events[i] + Window
  <2>1. ASSUME NEW i \in 1 .. n
        PROVE  Kept(events[i]) <=> clock <= events[i] + Window
    BY <1>1 DEF Kept
  <2>2. ASSUME NEW i \in 1 .. k
        PROVE  events[i] + Window < clock
    <3>1. i \in 1 .. n /\ i <= k
      BY <1>1, <1>5, <1>9
    <3> QED BY <3>1, <2>1, <1>10, <1>1
  <2>3. ASSUME NEW i \in (k + 1) .. n
        PROVE  clock <= events[i] + Window
    <3>1. i \in 1 .. n /\ ~(i <= k)
      BY <1>1, <1>5
    <3> QED BY <3>1, <2>1, <1>10
  <2> QED BY <2>2, <2>3
<1> QED BY <1>11, <1>12, <1>13, Zenon

-----------------------------------------------------------------------------
(* The window *)

\* What the tail of the deque says of the calls that are still in reach.
LEMMA Reach ==
  ASSUME LimitInv
  PROVE  LET calls == granted["window"]
             lost == Len(calls) - Len(Remaining)
         IN  /\ calls \in Seq(Nat) /\ Remaining \in Seq(Nat) /\ lost \in Nat
             /\ Len(Remaining) <= MaxEvents
             /\ \A i \in DOMAIN Remaining : Remaining[i] = calls[i + lost]
             /\ \A i \in 1 .. lost : calls[i] + Window < clock
             /\ \A i \in (lost + 1) .. Len(calls) : clock <= calls[i] + Window
<1> DEFINE calls == granted["window"]
           gone == Len(calls) - Len(events)
           lost == Len(calls) - Len(Remaining)
<1>1. PICK k \in 0 .. Len(events) :
           /\ Remaining \in Seq(Nat) /\ Len(Remaining) = Len(events) - k
           /\ \A i \in 1 .. Len(Remaining) : Remaining[i] = events[i + k]
           /\ \A i \in 1 .. k : events[i] + Window < clock
           /\ \A i \in (k + 1) .. Len(events) : clock <= events[i] + Window
  BY RemainingIsKept
<1>2. /\ calls \in Seq(Nat) /\ events \in Seq(Nat) /\ Len(events) \in Nat /\ Len(calls) \in Nat
      /\ clock \in Nat /\ Window \in Nat /\ MaxEvents \in Nat
  BY LimitConstants DEF LimitInv, LimitTypeOK, Limiters
<1>3. /\ gone \in Nat /\ Len(events) <= MaxEvents
      /\ \A i \in 1 .. Len(events) : events[i] = calls[i + gone]
      /\ \A i \in 1 .. gone : calls[i] + Window < clock
  <2>1. DequeIsTail /\ DOMAIN events = 1 .. Len(events)
    BY <1>2 DEF LimitInv
  <2> QED BY <2>1 DEF DequeIsTail
<1>4. /\ lost = gone + k /\ lost \in Nat /\ Len(Remaining) <= MaxEvents
      /\ gone \in Nat /\ k \in Nat /\ k <= Len(events) /\ Len(events) \in Nat /\ Len(calls) \in Nat
      /\ Len(Remaining) = Len(events) - k /\ Len(calls) = Len(events) + gone
  BY <1>1, <1>2, <1>3
<1> HIDE DEF calls, gone, lost
<1>5. ASSUME NEW i \in 1 .. Len(Remaining)
      PROVE  Remaining[i] = calls[i + lost]
  <2>1. i + k \in 1 .. Len(events) /\ i + k + gone = i + lost
    BY <1>4
  <2> QED BY <2>1, <1>1, <1>3
<1>6. ASSUME NEW i \in 1 .. lost
      PROVE  calls[i] + Window < clock
  <2>1. CASE i \in 1 .. gone
    BY <2>1, <1>3
  <2>2. CASE i \notin 1 .. gone
    <3>1. i - gone \in 1 .. k /\ i - gone \in 1 .. Len(events) /\ (i - gone) + gone = i
      BY <2>2, <1>4
    <3> QED BY <3>1, <1>1, <1>3
  <2> QED BY <2>1, <2>2
<1>7. ASSUME NEW i \in (lost + 1) .. Len(calls)
      PROVE  clock <= calls[i] + Window
  <2>1. /\ i - gone \in (k + 1) .. Len(events) /\ i - gone \in 1 .. Len(events)
        /\ (i - gone) + gone = i
    BY <1>4
  <2> QED BY <2>1, <1>1, <1>3
<1>8. DOMAIN Remaining = 1 .. Len(Remaining)
  BY <1>1
<1> QED BY <1>1, <1>2, <1>4, <1>5, <1>6, <1>7, <1>8 DEF calls, lost

\* A grant leaves at most MaxEvents in the window that ends with it.
LEMMA WindowGrants ==
  ASSUME LimitInv, Len(Remaining) < MaxEvents, Grant("window"), NEW t \in 0 .. clock,
         clock <= t + Window
  PROVE  Granted("window", t, t + Window)' <= MaxEvents
<1> DEFINE calls == granted["window"]
           lost == Len(calls) - Len(Remaining)
<1>1. /\ calls \in Seq(Nat) /\ lost \in Nat /\ Len(Remaining) \in Nat /\ Len(calls) \in Nat
      /\ \A i \in 1 .. lost : calls[i] + Window < clock
  BY Reach
<1>2. /\ clock \in Nat /\ Window \in Nat /\ MaxEvents \in Nat
      /\ granted'["window"] = Append(calls, clock)
  BY LimitConstants DEF LimitInv, LimitTypeOK, Limiters, Grant
<1>0. Len(calls) = lost + Len(Remaining)
  BY <1>1
<1> HIDE DEF calls, lost
<1>3. Within(calls, t, t + Window) \in SUBSET ((lost + 1) .. Len(calls))
  <2> SUFFICES ASSUME NEW i \in DOMAIN calls, calls[i] \in t .. t + Window, i <= lost
               PROVE  FALSE
    BY <1>1 DEF Within
  <2>1. i \in 1 .. lost /\ calls[i] \in Nat
    BY <1>1
  <2> QED BY <2>1, <1>1, <1>2
<1>4. Cardinality(Within(calls, t, t + Window)) <= Len(Remaining)
  <2>1. /\ IsFiniteSet((lost + 1) .. Len(calls))
        /\ Cardinality((lost + 1) .. Len(calls)) =
             IF lost + 1 > Len(calls) THEN 0 ELSE Len(calls) - (lost + 1) + 1
    <3>1. lost + 1 \in Int /\ Len(calls) \in Int
      BY <1>1
    <3> QED BY <3>1, FS_Interval, Zenon
  <2>2. Cardinality((lost + 1) .. Len(calls)) = Len(Remaining)
    BY <2>1, <1>0, <1>1
  <2>3. Cardinality(Within(calls, t, t + Window)) <= Cardinality((lost + 1) .. Len(calls))
    BY <2>1, <1>3, FS_Subset
  <2> QED BY <2>2, <2>3
<1>5. clock \in t .. t + Window /\ t \in Int /\ t + Window \in Int
  BY <1>2
<1>6. /\ Cardinality(Within(Append(calls, clock), t, t + Window))
           = Cardinality(Within(calls, t, t + Window)) + 1
      /\ Cardinality(Within(calls, t, t + Window)) \in Nat
  BY <1>1, <1>2, <1>5, WithinGrows
<1>7. Granted("window", t, t + Window)' = Cardinality(Within(Append(calls, clock), t, t + Window))
  BY <1>2 DEF Granted, Within
<1> QED BY <1>0, <1>1, <1>2, <1>4, <1>6, <1>7

\* A refusal finds the window that ends with it full.
LEMMA WindowRefuses ==
  ASSUME LimitInv, Len(Remaining) >= MaxEvents
  PROVE  Granted("window", IF clock > Window THEN clock - Window ELSE 0, clock) >= MaxEvents
<1> DEFINE calls == granted["window"]
           lost == Len(calls) - Len(Remaining)
           from == IF clock > Window THEN clock - Window ELSE 0
<1>1. /\ calls \in Seq(Nat) /\ lost \in Nat /\ Len(Remaining) \in Nat /\ Len(calls) \in Nat
      /\ \A i \in (lost + 1) .. Len(calls) : clock <= calls[i] + Window
  BY Reach
<1>2. /\ clock \in Nat /\ Window \in Nat /\ MaxEvents \in Nat
      /\ \A i \in DOMAIN calls : calls[i] <= clock
  BY LimitConstants DEF LimitInv, LimitTypeOK, Limiters
<1>0. Len(calls) = lost + Len(Remaining)
  BY <1>1
<1>3. from \in Int /\ clock \in Int /\ from <= clock /\ clock - Window <= from
      /\ from >= 0 /\ (from = 0 \/ from = clock - Window)
  BY <1>2
<1>9. Granted("window", from, clock) = Cardinality(Within(calls, from, clock))
  BY DEF Granted, Within
<1> HIDE DEF calls, lost, from
<1>4. (lost + 1) .. Len(calls) \in SUBSET Within(calls, from, clock)
  <2> SUFFICES ASSUME NEW i \in (lost + 1) .. Len(calls)
               PROVE  i \in Within(calls, from, clock)
    OBVIOUS
  <2>1. i \in DOMAIN calls /\ calls[i] \in Nat
    BY <1>1
  <2>2. calls[i] \in from .. clock
    BY <2>1, <1>1, <1>2, <1>3
  <2> QED BY <2>1, <2>2 DEF Within
<1>5. IsFiniteSet(Within(calls, from, clock)) /\ Cardinality(Within(calls, from, clock)) \in Nat
  BY <1>1, <1>2, <1>3, WithinGrows
<1>6. Cardinality((lost + 1) .. Len(calls)) <= Cardinality(Within(calls, from, clock))
  BY <1>4, <1>5, FS_Subset
<1>7. Cardinality((lost + 1) .. Len(calls)) = Len(Remaining)
  <2>1. Cardinality((lost + 1) .. Len(calls)) =
             IF lost + 1 > Len(calls) THEN 0 ELSE Len(calls) - (lost + 1) + 1
    <3>1. lost + 1 \in Int /\ Len(calls) \in Int
      BY <1>1
    <3> QED BY <3>1, FS_Interval, Zenon
  <2> QED BY <2>1, <1>0, <1>1
<1> QED BY <1>1, <1>2, <1>5, <1>6, <1>7, <1>9 DEF from

-----------------------------------------------------------------------------
(* The steps *)

\* What each limiter granted is counted; a grant adds one to the stretches that
\* reach the present and to no other limiter.
LEMMA GrantCounts ==
  ASSUME LimitInv, NEW l \in Limiters, NEW from \in Int, NEW to \in Int
  PROVE  /\ Granted(l, from, to) \in Nat
         /\ Grant(l) /\ clock \in from .. to => Granted(l, from, to)' = Granted(l, from, to) + 1
         /\ Grant(l) /\ clock \notin from .. to => Granted(l, from, to)' = Granted(l, from, to)
         /\ \A k \in Limiters \ {l} : Grant(k) => Granted(l, from, to)' = Granted(l, from, to)
<1>1. granted[l] \in Seq(Nat) /\ clock \in Nat
  BY DEF LimitInv, LimitTypeOK
<1>2. Granted(l, from, to) = Cardinality(Within(granted[l], from, to))
  BY DEF Granted, Within
<1>3. ASSUME Grant(l)
      PROVE  Granted(l, from, to)' = Cardinality(Within(Append(granted[l], clock), from, to))
  <2>1. granted'[l] = Append(granted[l], clock)
    BY <1>3 DEF Grant, LimitInv, LimitTypeOK
  <2> QED BY <2>1 DEF Granted, Within
<1>4. ASSUME NEW k \in Limiters \ {l}, Grant(k)
      PROVE  Granted(l, from, to)' = Granted(l, from, to)
  <2>1. granted'[l] = granted[l]
    BY <1>4 DEF Grant, LimitInv, LimitTypeOK
  <2> QED BY <2>1 DEF Granted
<1>5. /\ Cardinality(Within(granted[l], from, to)) \in Nat
      /\ clock \in from .. to =>
              Cardinality(Within(Append(granted[l], clock), from, to))
                = Cardinality(Within(granted[l], from, to)) + 1
      /\ clock \notin from .. to =>
              Within(Append(granted[l], clock), from, to) = Within(granted[l], from, to)
  BY <1>1, WithinGrows
<1> QED BY <1>2, <1>3, <1>4, <1>5

\* The calls of a limiter stay in the order of time, and have their type.
LEMMA GrantedInOrder ==
  ASSUME LimitInv, NEW l \in Limiters, Grant(l) \/ Refuse(l), clock' = clock
  PROVE  /\ granted' \in [Limiters -> Seq(Nat)] /\ refused' \in [Limiters -> SUBSET (0 .. MaxClock)]
         /\ (\A k \in Limiters : Ascending(granted[k]) /\ \A i \in DOMAIN granted[k] : granted[k][i] <= clock)'
<1>1. /\ granted \in [Limiters -> Seq(Nat)] /\ refused \in [Limiters -> SUBSET (0 .. MaxClock)]
      /\ clock \in Nat /\ clock \in 0 .. MaxClock
      /\ \A k \in Limiters : Ascending(granted[k]) /\ \A i \in DOMAIN granted[k] : granted[k][i] <= clock
  BY LimitConstants DEF LimitInv, LimitTypeOK
<1>2. CASE Refuse(l)
  BY <1>1, <1>2 DEF Refuse, Ascending
<1>3. CASE Grant(l)
  <2>1. /\ granted' = [granted EXCEPT ![l] = Append(granted[l], clock)] /\ refused' = refused
        /\ granted[l] \in Seq(Nat)
    BY <1>1, <1>3 DEF Grant
  <2>2. /\ Append(granted[l], clock) \in Seq(Nat)
        /\ DOMAIN granted[l] = 1 .. Len(granted[l]) /\ Len(granted[l]) \in Nat
        /\ DOMAIN Append(granted[l], clock) = 1 .. (Len(granted[l]) + 1)
        /\ \A i \in 1 .. Len(granted[l]) : Append(granted[l], clock)[i] = granted[l][i]
        /\ Append(granted[l], clock)[Len(granted[l]) + 1] = clock
    BY <2>1, <1>1
  <2>3. \A i \in DOMAIN Append(granted[l], clock) : Append(granted[l], clock)[i] <= clock
    BY <2>2, <1>1
  <2>4. Ascending(Append(granted[l], clock))
    <3> SUFFICES ASSUME NEW i \in 1 .. (Len(granted[l]) + 1), NEW j \in 1 .. (Len(granted[l]) + 1), i <= j
                 PROVE  Append(granted[l], clock)[i] <= Append(granted[l], clock)[j]
      BY <2>2 DEF Ascending
    <3>1. CASE j = Len(granted[l]) + 1
      BY <3>1, <2>2, <2>3
    <3>2. CASE j # Len(granted[l]) + 1
      <4>1. PICK n \in Nat : n = Len(granted[l])
        BY <2>2
      <4>2. i \in 1 .. (n + 1) /\ j \in 1 .. (n + 1) /\ j # n + 1
        BY <3>2, <4>1
      <4>3. i \in 1 .. n /\ j \in 1 .. n
        BY <4>2
      <4>4. i \in 1 .. Len(granted[l]) /\ j \in 1 .. Len(granted[l])
        BY <4>1, <4>3
      <4>5. granted[l][i] <= granted[l][j]
        BY <4>4, <1>1, <2>2 DEF Ascending
      <4> QED BY <4>4, <4>5, <2>2
    <3> QED BY <3>1, <3>2
  <2>5. ASSUME NEW k \in Limiters
        PROVE  Ascending(granted'[k]) /\ \A i \in DOMAIN granted'[k] : granted'[k][i] <= clock
    <3>1. CASE k = l
      <4>1. granted'[k] = Append(granted[l], clock)
        BY <3>1, <2>1, <1>1
      <4> QED BY <4>1, <2>3, <2>4
    <3>2. CASE k # l
      <4>1. granted'[k] = granted[k]
        BY <3>2, <2>1, <1>1
      <4> QED BY <4>1, <1>1
    <3> QED BY <3>1, <3>2
  <2>6. (\A k \in Limiters : Ascending(granted[k]) /\ \A i \in DOMAIN granted[k] : granted[k][i] <= clock)'
    BY <2>5 DEF Ascending
  <2>7. granted' \in [Limiters -> Seq(Nat)]
    BY <2>1, <2>2, <1>1
  <2> QED BY <2>1, <2>6, <2>7, <1>1
<1> QED BY <1>2, <1>3

\* SlidingWindowLimiter.allow keeps what the window limiter promises.
LEMMA AllowWindowKeepsExact ==
  ASSUME LimitInv, AllowWindow
  PROVE  WindowIsExact'
<1>1. /\ clock' = clock /\ clock \in Nat /\ Window \in Nat /\ MaxEvents \in Nat /\ "window" \in Limiters
      /\ refused \in [Limiters -> SUBSET (0 .. MaxClock)] /\ MaxClock \in Nat
      /\ WindowIsExact /\ Len(Remaining) \in Nat
  <2>1. Len(Remaining) \in Nat
    BY Reach
  <2> QED BY <2>1, LimitConstants DEF AllowWindow, LimitInv, LimitTypeOK, Limiters
<1>2. \A t \in refused["window"] : t \in Nat
  BY <1>1
<1>3. CASE Len(Remaining) >= MaxEvents
  <2>1. /\ \A f, u : Granted("window", f, u)' = Granted("window", f, u)
        /\ refused'["window"] = refused["window"] \cup {clock}
    BY <1>1, <1>3 DEF AllowWindow, Refuse, Granted
  <2>2. Granted("window", IF clock > Window THEN clock - Window ELSE 0, clock) >= MaxEvents
    BY <1>3, WindowRefuses
  <2> QED BY <1>1, <2>1, <2>2 DEF WindowIsExact
<1>4. CASE ~(Len(Remaining) >= MaxEvents)
  <2>1. Grant("window") /\ refused' = refused /\ Len(Remaining) < MaxEvents
    BY <1>1, <1>4 DEF AllowWindow, Grant
  <2>2. ASSUME NEW t \in 0 .. clock
        PROVE  Granted("window", t, t + Window)' <= MaxEvents
    <3>1. CASE clock <= t + Window
      BY <3>1, <2>1, WindowGrants
    <3>2. CASE ~(clock <= t + Window)
      <4>1. clock \notin t .. t + Window /\ t \in Int /\ t + Window \in Int
        BY <3>2, <1>1
      <4>2. Granted("window", t, t + Window)' = Granted("window", t, t + Window)
        BY <4>1, <2>1, <1>1, GrantCounts
      <4> QED BY <4>2, <1>1 DEF WindowIsExact
    <3> QED BY <3>1, <3>2
  <2>3. ASSUME NEW t \in refused["window"]
        PROVE  Granted("window", IF t > Window THEN t - Window ELSE 0, t)' >= MaxEvents
    <3> DEFINE from == IF t > Window THEN t - Window ELSE 0
    <3>1. t \in Int /\ from \in Int
      BY <1>1, <1>2
    <3>2. Granted("window", from, t) >= MaxEvents
      BY <1>1 DEF WindowIsExact
    <3> HIDE DEF from
    <3>3. /\ Granted("window", from, t) \in Nat
          /\ \/ Granted("window", from, t)' = Granted("window", from, t)
             \/ Granted("window", from, t)' = Granted("window", from, t) + 1
      BY <3>1, <2>1, <1>1, GrantCounts
    <3>4. Granted("window", from, t)' >= MaxEvents
      BY <3>2, <3>3, <1>1
    <3> QED BY <3>4 DEF from
  <2> QED BY <1>1, <2>1, <2>2, <2>3 DEF WindowIsExact
<1> QED BY <1>3, <1>4

\* SlidingWindowLimiter.allow keeps the deque the tail of the calls.
LEMMA AllowWindowKeepsTail ==
  ASSUME LimitInv, AllowWindow
  PROVE  DequeIsTail' /\ events' \in Seq(Nat)
<1> DEFINE calls == granted["window"]
           lost == Len(calls) - Len(Remaining)
<1>1. /\ calls \in Seq(Nat) /\ Remaining \in Seq(Nat) /\ lost \in Nat
      /\ Len(calls) \in Nat /\ Len(Remaining) \in Nat /\ Len(calls) = lost + Len(Remaining)
      /\ Len(Remaining) <= MaxEvents
      /\ \A i \in 1 .. Len(Remaining) : Remaining[i] = calls[i + lost]
      /\ \A i \in 1 .. lost : calls[i] + Window < clock
  BY Reach
<1>2. /\ clock' = clock /\ clock \in Nat /\ MaxEvents \in Nat /\ "window" \in Limiters
      /\ granted \in [Limiters -> Seq(Nat)]
  BY LimitConstants DEF AllowWindow, LimitInv, LimitTypeOK, Limiters
<1> HIDE DEF lost
<1>3. CASE Len(Remaining) >= MaxEvents
  <2>1. events' = Remaining /\ granted' = granted
    BY <1>3 DEF AllowWindow, Refuse
  <2>2. Len(calls) - Len(Remaining) = lost /\ DOMAIN Remaining = 1 .. Len(Remaining)
    BY <1>1
  <2> QED BY <2>1, <2>2, <1>1, <1>2 DEF DequeIsTail
<1>4. CASE ~(Len(Remaining) >= MaxEvents)
  <2>1. events' = Append(Remaining, clock) /\ granted'["window"] = Append(calls, clock)
    BY <1>2, <1>4 DEF AllowWindow, Grant
  <2>2. /\ Append(Remaining, clock) \in Seq(Nat)
        /\ DOMAIN Append(Remaining, clock) = 1 .. (Len(Remaining) + 1)
        /\ Len(Append(Remaining, clock)) = Len(Remaining) + 1
        /\ \A i \in 1 .. Len(Remaining) : Append(Remaining, clock)[i] = Remaining[i]
        /\ Append(Remaining, clock)[Len(Remaining) + 1] = clock
    BY <1>1, <1>2
  <2>3. /\ Len(Append(calls, clock)) = Len(calls) + 1
        /\ \A i \in 1 .. Len(calls) : Append(calls, clock)[i] = calls[i]
        /\ Append(calls, clock)[Len(calls) + 1] = clock
    <3>1. calls \in Seq(Nat) /\ clock \in Nat
      BY <1>1, <1>2
    <3> QED BY <3>1, AppendProperties
  <2> HIDE DEF calls
  <2>4. /\ Len(Append(calls, clock)) - Len(Append(Remaining, clock)) = lost
        /\ Len(Append(Remaining, clock)) <= MaxEvents
    BY <1>1, <1>2, <1>4, <2>2, <2>3
  <2>5. ASSUME NEW i \in 1 .. (Len(Remaining) + 1)
        PROVE  Append(Remaining, clock)[i] = Append(calls, clock)[i + lost]
    <3>1. CASE i = Len(Remaining) + 1
      BY <3>1, <1>1, <2>2, <2>3
    <3>2. CASE i # Len(Remaining) + 1
      <4>1. i \in 1 .. Len(Remaining) /\ i + lost \in 1 .. Len(calls)
        BY <3>2, <1>1
      <4> QED BY <4>1, <1>1, <2>2, <2>3
    <3> QED BY <3>1, <3>2
  <2>6. ASSUME NEW i \in 1 .. lost
        PROVE  Append(calls, clock)[i] + Window < clock
    <3>1. i \in 1 .. Len(calls)
      BY <1>1
    <3> QED BY <3>1, <1>1, <2>3
  <2> QED BY <1>1, <1>2, <2>1, <2>2, <2>4, <2>5, <2>6 DEF DequeIsTail
<1> QED BY <1>3, <1>4

\* No time adds nothing.
LEMMA NoTime ==
  ASSUME NEW t, t = 0
  PROVE  t * RatePerMinute = 0
<1>1. RatePerMinute \in Int
  BY LimitConstants
<1>2. 0 * RatePerMinute = 0
  BY <1>1
<1> QED BY <1>2

\* The bucket never holds more than its burst.
LEMMA RefilledType ==
  ASSUME LimitInv
  PROVE  Refilled \in 0 .. Capacity
<1>1. /\ tokens \in 0 .. Capacity /\ Capacity \in Nat /\ RatePerMinute \in Nat
      /\ clock - refilled \in Nat
  BY LimitConstants DEF LimitInv, LimitTypeOK
<1>2. (clock - refilled) * RatePerMinute \in Nat
  BY <1>1
<1> QED BY <1>1, <1>2 DEF Refilled

\* TokenBucket.allow keeps what the bucket promises.
LEMMA AllowBucketKeeps ==
  ASSUME LimitInv, AllowBucket
  PROVE  Credit' /\ BucketIsBounded' /\ tokens' \in 0 .. Capacity
<1>1. /\ clock \in Nat /\ clock' = clock /\ refilled' = clock /\ "bucket" \in Limiters
      /\ Capacity \in Nat /\ RatePerMinute \in Nat
  BY LimitConstants DEF LimitInv, LimitTypeOK, AllowBucket, Limiters
<1>2. Refilled \in 0 .. Capacity
  BY RefilledType
<1>3. /\ Refilled >= 60 => Grant("bucket") /\ tokens' = Refilled - 60
      /\ ~(Refilled >= 60) => Refuse("bucket") /\ tokens' = Refilled
  BY DEF AllowBucket
<1>10. ~(Refilled >= 60) => granted' = granted /\ clock' = clock
  BY <1>1, <1>3 DEF Refuse
<1>4. tokens' \in 0 .. Capacity
  BY <1>1, <1>2, <1>3
<1>5. Refilled' = tokens'
  <2>1. (clock' - refilled') * RatePerMinute = 0
    <3>1. clock' - refilled' = 0
      BY <1>1
    <3> QED BY <3>1, NoTime, Zenon
  <2>2. Refilled' = IF tokens' + (clock' - refilled') * RatePerMinute > Capacity THEN Capacity
                    ELSE tokens' + (clock' - refilled') * RatePerMinute
    BY DEF Refilled, Capacity
  <2>3. tokens' + 0 = tokens' /\ ~(tokens' > Capacity)
    <3>1. tokens' \in Int /\ Capacity \in Int /\ tokens' <= Capacity
      BY <1>1, <1>4
    <3>2. \A n \in Int : n + 0 = n
      OBVIOUS
    <3>3. ~(tokens' > Capacity)
      BY <3>1
    <3> QED BY <3>1, <3>2, <3>3, Zenon
  <2>4. tokens' + (clock' - refilled') * RatePerMinute = tokens'
    BY <2>1, <2>3, Zenon
  <2> QED BY <2>2, <2>3, <2>4, Zenon
<1>6. ASSUME NEW from \in 0 .. clock
      PROVE  60 * Granted("bucket", from, clock)' + Refilled' <= Capacity + (clock - from) * RatePerMinute
  <2>1. 60 * Granted("bucket", from, clock) + Refilled <= Capacity + (clock - from) * RatePerMinute
    BY DEF LimitInv, Credit
  <2>2. (clock - from) * RatePerMinute \in Nat
    <3>1. clock - from \in Nat
      BY <1>1
    <3> QED BY <3>1, <1>1
  <2>3. Granted("bucket", from, clock) \in Nat
    BY <1>1, GrantCounts
  <2>4. CASE Refilled >= 60
    <3>1. Granted("bucket", from, clock)' = Granted("bucket", from, clock) + 1
      BY <2>4, <1>1, <1>3, GrantCounts
    <3>2. Refilled' = Refilled - 60
      BY <2>4, <1>3, <1>5
    <3> QED BY <3>1, <3>2, <2>1, <2>2, <2>3, <1>1, <1>2
  <2>5. CASE ~(Refilled >= 60)
    <3>1. Granted("bucket", from, clock)' = Granted("bucket", from, clock)
      BY <2>5, <1>10 DEF Granted
    <3>2. Refilled' = Refilled
      BY <2>5, <1>3, <1>5
    <3> QED BY <3>1, <3>2, <2>1
  <2> QED BY <2>4, <2>5
<1>7. Credit'
  BY <1>1, <1>6 DEF Credit, Capacity
<1>8. ASSUME NEW from \in 0 .. clock, NEW to \in from .. clock
      PROVE  60 * Granted("bucket", from, to)' <= Capacity + (to - from) * RatePerMinute
  <2>1. CASE to = clock
    <3>1. /\ 60 * Granted("bucket", from, clock)' + Refilled' <= Capacity + (clock - from) * RatePerMinute
          /\ Refilled' \in Nat
      BY <1>6, <1>5, <1>4
    <3>2. (clock - from) * RatePerMinute \in Nat
      <4>1. clock - from \in Nat
        BY <1>1
      <4> QED BY <4>1, <1>1
    <3>3. Granted("bucket", from, clock) \in Nat /\ Granted("bucket", from, clock)' \in Nat
      <4>1. Granted("bucket", from, clock) \in Nat /\ clock \in from .. clock
        BY <1>1, GrantCounts
      <4>2. \/ Granted("bucket", from, clock)' = Granted("bucket", from, clock)
            \/ Granted("bucket", from, clock)' = Granted("bucket", from, clock) + 1
        <5>1. CASE Refilled >= 60
          BY <5>1, <4>1, <1>1, <1>3, GrantCounts
        <5>2. CASE ~(Refilled >= 60)
          BY <5>2, <1>10 DEF Granted
        <5> QED BY <5>1, <5>2
      <4> QED BY <4>1, <4>2
    <3> QED BY <3>1, <3>2, <3>3, <2>1, <1>1
  <2>2. CASE to # clock
    <3>1. clock \notin from .. to /\ from \in Int /\ to \in Int
      BY <2>2, <1>1
    <3>2. Granted("bucket", from, to)' = Granted("bucket", from, to)
      <4>1. CASE Refilled >= 60
        BY <4>1, <3>1, <1>1, <1>3, GrantCounts
      <4>2. CASE ~(Refilled >= 60)
        BY <4>2, <1>10 DEF Granted
      <4> QED BY <4>1, <4>2
    <3> QED BY <3>2 DEF LimitInv, BucketIsBounded
  <2> QED BY <2>1, <2>2
<1>9. BucketIsBounded'
  BY <1>1, <1>8 DEF BucketIsBounded, Capacity
<1> QED BY <1>4, <1>7, <1>9

\* A second adds the rate to the bucket, up to its burst.
LEMMA RefilledGrows ==
  ASSUME LimitInv, Advance
  PROVE  Refilled' \in 0 .. Capacity /\ Refilled' <= Refilled + RatePerMinute
<1>1. /\ tokens \in 0 .. Capacity /\ Capacity \in Nat /\ RatePerMinute \in Nat
      /\ clock - refilled \in Nat /\ clock' = clock + 1 /\ refilled' = refilled /\ tokens' = tokens
      /\ clock \in Nat /\ refilled \in Nat
  BY LimitConstants DEF LimitInv, LimitTypeOK, Advance
<1>2. (clock - refilled) * RatePerMinute \in Nat
  BY <1>1
<1>3. (clock' - refilled') * RatePerMinute = (clock - refilled) * RatePerMinute + RatePerMinute
  <2>1. clock' - refilled' = (clock - refilled) + 1
    BY <1>1
  <2>2. ((clock - refilled) + 1) * RatePerMinute = (clock - refilled) * RatePerMinute + RatePerMinute
    BY <1>1
  <2> QED BY <2>1, <2>2
<1>4. Refilled' = IF tokens + (clock' - refilled') * RatePerMinute > Capacity THEN Capacity
                  ELSE tokens + (clock' - refilled') * RatePerMinute
  BY <1>1 DEF Refilled, Capacity
<1> QED BY <1>1, <1>2, <1>3, <1>4 DEF Refilled

\* The clock keeps what both limiters promise.
LEMMA AdvanceKeeps ==
  ASSUME LimitInv, Advance
  PROVE  DequeIsTail' /\ WindowIsExact' /\ Credit' /\ BucketIsBounded'
<1>1. /\ clock \in Nat /\ clock' = clock + 1 /\ MaxEvents \in Nat /\ Window \in Nat
      /\ Capacity \in Nat /\ RatePerMinute \in Nat /\ events' = events
      /\ granted' = granted /\ refused' = refused /\ Limiters = {"window", "bucket"}
      /\ \A l \in Limiters : granted[l] \in Seq(Nat) /\ \A i \in DOMAIN granted[l] : granted[l][i] <= clock
  BY LimitConstants DEF LimitInv, LimitTypeOK, Advance, Limiters
<1>2. \A l, f, u : Granted(l, f, u)' = Granted(l, f, u)
  BY <1>1 DEF Granted
<1>3. \A l, f, u : Granted(l, f, u) = Cardinality(Within(granted[l], f, u))
  BY DEF Granted, Within
<1>4. ASSUME NEW l \in Limiters, NEW u \in Int
      PROVE  Granted(l, clock + 1, u) = 0
  <2>1. clock + 1 \in Int /\ clock < clock + 1
    BY <1>1
  <2>2. Cardinality(Within(granted[l], clock + 1, u)) = 0
    BY <1>1, <2>1, NothingBeyond
  <2> QED BY <2>2, <1>3
<1>5. DequeIsTail'
  <2>1. DequeIsTail /\ \A i \in DOMAIN granted["window"] : granted["window"][i] \in Nat
    BY <1>1 DEF LimitInv
  <2>2. ASSUME NEW i \in 1 .. (Len(granted["window"]) - Len(events))
        PROVE  granted["window"][i] + Window < clock + 1
    <3>1. granted["window"][i] + Window < clock
      BY <2>1 DEF DequeIsTail
    <3>2. i \in DOMAIN granted["window"]
      <4>1. events \in Seq(Nat) /\ granted["window"] \in Seq(Nat)
        BY <1>1 DEF LimitInv, LimitTypeOK
      <4> QED BY <4>1
    <3> QED BY <3>1, <3>2, <2>1, <1>1
  <2> QED BY <2>1, <2>2, <1>1 DEF DequeIsTail
<1>6. WindowIsExact'
  <2>1. WindowIsExact
    BY DEF LimitInv
  <2>2. ASSUME NEW t \in 0 .. (clock + 1)
        PROVE  Granted("window", t, t + Window) <= MaxEvents
    <3>1. CASE t \in 0 .. clock
      BY <3>1, <2>1 DEF WindowIsExact
    <3>2. CASE t \notin 0 .. clock
      <4>1. t = clock + 1 /\ t + Window \in Int /\ "window" \in Limiters
        BY <3>2, <1>1
      <4>2. Granted("window", clock + 1, t + Window) = 0
        BY <4>1, <1>4
      <4> QED BY <4>1, <4>2, <1>1
    <3> QED BY <3>1, <3>2
  <2> QED BY <2>1, <2>2, <1>1, <1>2 DEF WindowIsExact
<1>7. ASSUME NEW from \in 0 .. (clock + 1)
      PROVE  /\ Granted("bucket", from, clock + 1) \in Nat
             /\ 60 * Granted("bucket", from, clock + 1) + Refilled'
                  <= Capacity + (clock + 1 - from) * RatePerMinute
  <2>1. Refilled' \in 0 .. Capacity /\ Refilled' <= Refilled + RatePerMinute /\ Refilled \in 0 .. Capacity
    BY RefilledGrows, RefilledType
  <2>2. CASE from \in 0 .. clock
    <3>1. 60 * Granted("bucket", from, clock) + Refilled <= Capacity + (clock - from) * RatePerMinute
      BY <2>2 DEF LimitInv, Credit
    <3>2. Granted("bucket", from, clock + 1) = Granted("bucket", from, clock)
      <4>1. clock <= clock + 1 /\ clock + 1 \in Int /\ from \in Int
        BY <1>1
      <4>2. Within(granted["bucket"], from, clock + 1) = Within(granted["bucket"], from, clock)
        BY <4>1, <1>1, NothingLater
      <4> QED BY <4>2, <1>3
    <3>3. Granted("bucket", from, clock) \in Nat
      BY <1>1, GrantCounts
    <3>4. /\ (clock - from) * RatePerMinute \in Nat
          /\ (clock + 1 - from) * RatePerMinute = (clock - from) * RatePerMinute + RatePerMinute
      <4>1. clock - from \in Nat /\ clock + 1 - from = (clock - from) + 1
        BY <2>2, <1>1
      <4>2. ((clock - from) + 1) * RatePerMinute = (clock - from) * RatePerMinute + RatePerMinute
        BY <4>1, <1>1
      <4>3. (clock - from) * RatePerMinute \in Nat
        BY <4>1, <1>1
      <4> QED BY <4>1, <4>2, <4>3
    <3> QED BY <3>1, <3>2, <3>3, <3>4, <2>1, <1>1
  <2>3. CASE from \notin 0 .. clock
    <3>1. from = clock + 1 /\ clock + 1 \in Int /\ "bucket" \in Limiters
      BY <2>3, <1>1
    <3>2. Granted("bucket", clock + 1, clock + 1) = 0
      BY <3>1, <1>4
    <3>3. (clock + 1 - from) * RatePerMinute = 0
      <4>1. clock + 1 - from = 0
        BY <3>1, <1>1
      <4> QED BY <4>1, NoTime, Zenon
    <3>4. 60 * Granted("bucket", from, clock + 1) = 0 /\ Granted("bucket", from, clock + 1) \in Nat
      BY <3>1, <3>2
    <3>5. 0 + Refilled' <= Capacity + 0
      <4>1. Refilled' \in Int /\ Capacity \in Int /\ Refilled' <= Capacity
        BY <2>1, <1>1
      <4>2. \A n \in Int : n + 0 = n /\ 0 + n = n
        OBVIOUS
      <4> QED BY <4>1, <4>2, Zenon
    <3> QED BY <3>3, <3>4, <3>5, Zenon
  <2> QED BY <2>2, <2>3
<1>8. Credit'
  BY <1>1, <1>2, <1>7 DEF Credit, Capacity
<1>9. ASSUME NEW from \in 0 .. (clock + 1), NEW to \in from .. (clock + 1)
      PROVE  60 * Granted("bucket", from, to) <= Capacity + (to - from) * RatePerMinute
  <2>1. CASE to = clock + 1
    <3>1. (clock + 1 - from) * RatePerMinute \in Nat
      <4>1. clock + 1 - from \in Nat
        BY <1>1
      <4> QED BY <4>1, <1>1
    <3>2. Refilled' \in Nat
      BY RefilledGrows
    <3> QED BY <3>1, <3>2, <2>1, <1>7, <1>1
  <2>2. CASE to # clock + 1
    <3>1. from \in 0 .. clock /\ to \in from .. clock
      BY <2>2, <1>1
    <3> QED BY <3>1 DEF LimitInv, BucketIsBounded
  <2> QED BY <2>1, <2>2
<1>10. BucketIsBounded'
  BY <1>1, <1>2, <1>9 DEF BucketIsBounded, Capacity
<1> QED BY <1>5, <1>6, <1>8, <1>10

\* Every step of the limiters keeps the invariant.
LEMMA LimitInvStep == LimitInv /\ [LimitNext]_limitVars => LimitInv'
<1> SUFFICES ASSUME LimitInv, [LimitNext]_limitVars PROVE LimitInv'
  OBVIOUS
<1>1. LimitTypeOK /\ clock \in Nat /\ MaxClock \in Nat
  BY LimitConstants DEF LimitInv, LimitTypeOK
<1>2. CASE AllowWindow
  <2>1. UNCHANGED <<clock, tokens, refilled>> /\ (Grant("window") \/ Refuse("window"))
    BY <1>2 DEF AllowWindow
  <2>2. DequeIsTail' /\ events' \in Seq(Nat) /\ WindowIsExact'
    BY <1>2, AllowWindowKeepsTail, AllowWindowKeepsExact
  <2>3. "window" \in Limiters /\ "bucket" \in Limiters /\ "bucket" \in Limiters \ {"window"}
    BY DEF Limiters
  <2>4. /\ granted' \in [Limiters -> Seq(Nat)] /\ refused' \in [Limiters -> SUBSET (0 .. MaxClock)]
        /\ (\A k \in Limiters : Ascending(granted[k]) /\ \A i \in DOMAIN granted[k] : granted[k][i] <= clock)'
    BY <2>1, <2>3, GrantedInOrder
  <2>5. granted'["bucket"] = granted["bucket"]
    BY <2>1, <2>3, <1>1 DEF Grant, Refuse, LimitTypeOK
  <2>6. \A f, u : Granted("bucket", f, u)' = Granted("bucket", f, u)
    BY <2>5 DEF Granted
  <2>7. Refilled' = Refilled
    BY <2>1 DEF Refilled, Capacity
  <2>8. Credit' /\ BucketIsBounded'
    BY <2>1, <2>6, <2>7 DEF LimitInv, Credit, BucketIsBounded, Capacity
  <2>9. LimitTypeOK'
    BY <2>1, <2>2, <2>4, <1>1 DEF LimitTypeOK, Capacity
  <2> QED BY <2>1, <2>2, <2>4, <2>8, <2>9 DEF LimitInv
<1>3. CASE AllowBucket
  <2>1. /\ UNCHANGED <<clock, events>> /\ refilled' = clock /\ (Grant("bucket") \/ Refuse("bucket"))
    BY <1>3 DEF AllowBucket
  <2>2. Credit' /\ BucketIsBounded' /\ tokens' \in 0 .. Capacity
    BY <1>3, AllowBucketKeeps
  <2>3. "window" \in Limiters /\ "bucket" \in Limiters
    BY DEF Limiters
  <2>4. /\ granted' \in [Limiters -> Seq(Nat)] /\ refused' \in [Limiters -> SUBSET (0 .. MaxClock)]
        /\ (\A k \in Limiters : Ascending(granted[k]) /\ \A i \in DOMAIN granted[k] : granted[k][i] <= clock)'
    BY <2>1, <2>3, GrantedInOrder
  <2>5. granted'["window"] = granted["window"] /\ refused'["window"] = refused["window"]
    BY <2>1, <2>3, <1>1 DEF Grant, Refuse, LimitTypeOK
  <2>6. \A f, u : Granted("window", f, u)' = Granted("window", f, u)
    BY <2>5 DEF Granted
  <2>7. DequeIsTail' /\ WindowIsExact'
    BY <2>1, <2>5, <2>6 DEF LimitInv, DequeIsTail, WindowIsExact
  <2>8. LimitTypeOK'
    BY <2>1, <2>2, <2>4, <1>1 DEF LimitTypeOK, Capacity
  <2>9. clock' <= MaxClock /\ refilled' <= clock'
    BY <2>1, <1>1 DEF LimitInv
  <2> QED BY <2>2, <2>4, <2>7, <2>8, <2>9 DEF LimitInv
<1>4. CASE Advance
  <2>1. /\ clock' = clock + 1 /\ clock < MaxClock
        /\ UNCHANGED <<events, tokens, refilled, granted, refused>>
    BY <1>4 DEF Advance
  <2>2. DequeIsTail' /\ WindowIsExact' /\ Credit' /\ BucketIsBounded'
    BY <1>4, AdvanceKeeps
  <2>3. LimitTypeOK'
    BY <2>1, <1>1 DEF LimitTypeOK, Capacity
  <2>4. \A l \in Limiters : \A i \in DOMAIN granted[l] : granted[l][i] <= clock + 1
    <3> SUFFICES ASSUME NEW l \in Limiters, NEW i \in DOMAIN granted[l] PROVE granted[l][i] <= clock + 1
      OBVIOUS
    <3>1. granted[l] \in Seq(Nat) /\ granted[l][i] <= clock
      BY <1>1 DEF LimitInv, LimitTypeOK
    <3>2. granted[l][i] \in Nat
      BY <3>1
    <3> QED BY <3>1, <3>2, <1>1
  <2>5. (\A l \in Limiters : Ascending(granted[l]) /\ \A i \in DOMAIN granted[l] : granted[l][i] <= clock)'
    BY <2>1, <2>4 DEF LimitInv, Ascending
  <2>6. clock' <= MaxClock /\ refilled' <= clock'
    BY <2>1, <1>1 DEF LimitInv, LimitTypeOK
  <2> QED BY <2>2, <2>3, <2>5, <2>6 DEF LimitInv
<1>5. CASE UNCHANGED limitVars
  <2>1. /\ clock' = clock /\ events' = events /\ tokens' = tokens /\ refilled' = refilled
        /\ granted' = granted /\ refused' = refused
    BY <1>5 DEF limitVars
  <2>2. \A l, f, u : Granted(l, f, u)' = Granted(l, f, u)
    BY <2>1 DEF Granted
  <2>3. Refilled' = Refilled
    BY <2>1 DEF Refilled, Capacity
  <2>4. LimitTypeOK' /\ DequeIsTail' /\ clock' <= MaxClock /\ refilled' <= clock'
    BY <2>1 DEF LimitInv, LimitTypeOK, DequeIsTail, Capacity
  <2>5. WindowIsExact' /\ Credit' /\ BucketIsBounded'
    BY <2>1, <2>2, <2>3 DEF LimitInv, WindowIsExact, Credit, BucketIsBounded, Capacity
  <2>6. (\A l \in Limiters : Ascending(granted[l]) /\ \A i \in DOMAIN granted[l] : granted[l][i] <= clock)'
    BY <2>1 DEF LimitInv, Ascending
  <2> QED BY <2>4, <2>5, <2>6 DEF LimitInv
<1> QED BY <1>2, <1>3, <1>4, <1>5 DEF LimitNext

\* A new limiter has granted nothing, and its bucket is full.
LEMMA LimitInvInit == LimitInit => LimitInv
<1> SUFFICES ASSUME LimitInit PROVE LimitInv
  OBVIOUS
<1>1. /\ clock = 0 /\ events = <<>> /\ tokens = Capacity /\ refilled = 0
      /\ granted["window"] = <<>> /\ granted["bucket"] = <<>>
      /\ refused["window"] = {} /\ refused["bucket"] = {}
  BY DEF LimitInit, Limiters
<1>2. LimitTypeOK
  BY LimitConstants DEF LimitInit, LimitTypeOK
<1>3. \A l \in Limiters : granted[l] = <<>>
  BY DEF LimitInit
<1>4. \A l \in Limiters : \A f, u : Granted(l, f, u) = 0
  <2> SUFFICES ASSUME NEW l \in Limiters, NEW f, NEW u PROVE Granted(l, f, u) = 0
    OBVIOUS
  <2>1. {i \in DOMAIN granted[l] : granted[l][i] \in f .. u} = {}
    BY <1>3
  <2> QED BY <2>1, FS_EmptySet DEF Granted
<1>5. Refilled = Capacity
  <2>1. clock - refilled = 0
    BY <1>1
  <2>2. (clock - refilled) * RatePerMinute = 0
    BY <2>1, NoTime
  <2> QED BY <1>1, <2>2, LimitConstants DEF Refilled
<1>6. DequeIsTail
  BY <1>1, LimitConstants DEF DequeIsTail
<1>7. WindowIsExact
  BY <1>1, <1>4, LimitConstants DEF WindowIsExact, Limiters
<1>8. Credit /\ BucketIsBounded
  BY <1>1, <1>4, <1>5, LimitConstants DEF Credit, BucketIsBounded, Limiters
<1> QED BY <1>1, <1>2, <1>3, <1>6, <1>7, <1>8, LimitConstants DEF LimitInv, Ascending

\* Neither limiter grants more than it says in any stretch of time, and the
\* window limiter refuses only what it must, for every rate, window and length
\* of silence.
THEOREM LimitsHoldAlways == LimitSpec => []LimitsHold
<1>1. LimitInv => LimitsHold
  BY DEF LimitInv, LimitsHold
<1> QED BY <1>1, LimitInvInit, LimitInvStep, PTL DEF LimitSpec

(***************************************************************************)
(* Accounts.  A request in progress fits its operation and stage           *)
(* (RequestsFit), and two of one family in progress have raced             *)
(* (RacesAreSeen), so that in a family that never raced what a request has *)
(* read still holds when it writes.  Each promise is strengthened by what  *)
(* the one request of its family relies on in its stage: SetupInv and      *)
(* RoleInv for the administrators, GuestInv for the invites, TokenInv and  *)
(* UseInv for the reset tokens, CountInv for the failed logins.            *)
(***************************************************************************)
Races == {Family[op] : op \in DOMAIN Family}
SeenSpace == [via : Seq(Nat), wrong : Seq(Nat), uses : Seq(Nat), raced : SUBSET Races,
              crashed : BOOLEAN, requests : Nat]
Fits(q) ==
  \/ q.op = "setup" /\ q.at = "write" /\ q.arg \in Emails
  \/ /\ q.op = "register" /\ q.id \in DOMAIN invites
     /\ \/ q.at = "write" /\ q.arg \in Emails
        \/ q.at = "mark" /\ q.new \in DOMAIN users /\ seen.via[q.new] = q.id
  \/ /\ q.op = "role" /\ q.id \in DOMAIN users /\ q.arg \in {"admin", "member"}
     /\ \/ q.at = "load" /\ (q.row = Idle \/ (q.row \in User /\ q.row.role = "admin"))
        \/ q.at = "check" /\ q.row \in User /\ q.row.role = "admin" /\ q.arg = "member"
        \/ q.at = "write" /\ q.row \in User /\ q.row.role # q.arg
  \/ q.op = "issue" /\ q.at \in {"retire", "write"} /\ q.id \in DOMAIN users
  \/ /\ q.op = "reset" /\ q.id \in DOMAIN resets
     /\ q.at \in {"load", "mark", "retire"} \/ (q.at = "write" /\ q.row \in User)
  \/ /\ q.op \in {"login", "change"} /\ q.at = "write" /\ q.id \in DOMAIN users /\ q.row \in User
     /\ q.op = "login" => q.arg \in {"right", "wrong"}
RequestsFit == \A r \in Requests : req[r] # Idle => Fits(req[r])
TablesFit ==
  /\ Len(seen.via) = Len(users) /\ Len(seen.wrong) = Len(users) /\ Len(seen.uses) = Len(resets)
  /\ \A t \in DOMAIN resets : resets[t].user \in DOMAIN users
  /\ invites # <<>> => users # <<>>
  /\ now # 0
AccountsTyped == AccountsTypeOK /\ seen \in SeenSpace /\ TablesFit /\ RequestsFit

Of(r, family) == req[r] # Idle /\ Family[req[r].op] = family
RacesAreSeen ==
  \A r, q \in Requests, family \in Races : Of(r, family) /\ Of(q, family) => r = q \/ family \in seen.raced

SetupInv ==
  "setup" \notin seen.raced =>
    /\ \A r \in Requests : Of(r, "setup") => DOMAIN users = {}
    /\ \A u, v \in DOMAIN users : seen.via[u] = 0 /\ seen.via[v] = 0 => u = v
RoleInv ==
  "role" \notin seen.raced =>
    /\ users # <<>> => Admins # {}
    /\ \A r \in Requests : Step(r, "role", "write") /\ req[r].arg = "member"
         => \E a \in Admins : a # req[r].id
GuestInv ==
  /\ \A u \in DOMAIN users : seen.via[u] = 0 \/ seen.via[u] \in DOMAIN invites
  /\ InviteNamesGuest
  /\ "register" \notin seen.raced /\ ~seen.crashed =>
       /\ \A u, v \in DOMAIN users : seen.via[u] = seen.via[v] /\ seen.via[u] # 0 => u = v
       /\ \A u \in DOMAIN users, i \in DOMAIN invites : seen.via[u] = i /\ invites[i].usedBy = 0
            => \E r \in Requests : Step(r, "register", "mark") /\ req[r].id = i
       /\ \A r \in Requests : Step(r, "register", "write") => invites[req[r].id].usedBy = 0
TokenInv ==
  "issue" \notin seen.raced =>
    /\ \A t, s \in DOMAIN resets : ~resets[t].used /\ ~resets[s].used /\ resets[t].user = resets[s].user => t = s
    /\ \A r \in Requests : Step(r, "issue", "write") => Unused(req[r].id) = {}
UseInv ==
  "password" \notin seen.raced =>
    /\ \A t \in DOMAIN resets : seen.uses[t] <= 1 /\ (seen.uses[t] # 0 => resets[t].used)
    /\ \A r \in Requests : Step(r, "reset", "load") \/ Step(r, "reset", "write")
         => seen.uses[req[r].id] = 0
\* Whose account a request about a password is for.
Target(q) == IF q.op = "reset" THEN resets[q.id].user ELSE q.id
CountInv ==
  "password" \notin seen.raced =>
    /\ \A u \in DOMAIN users :
         /\ users[u].failed = seen.wrong[u]
         /\ users[u].locked # 0 <=> users[u].failed >= MaxAttempts
    /\ \A r \in Requests : Of(r, "password") /\ req[r].at = "write" =>
         /\ req[r].row.failed = users[Target(req[r])].failed
         /\ req[r].row.locked = users[Target(req[r])].locked

LEMMA AccountConstants ==
  /\ MaxAttempts \in Nat \ {0} /\ MaxLock \in Nat \ {0} /\ Life \in Nat \ {0} /\ LockBase \in Nat \ {0}
  /\ MaxUsers \in Nat /\ MaxInvites \in Nat /\ MaxResets \in Nat /\ MaxRequests \in Nat /\ MaxNow \in Nat
BY AccountsAssumption

LEMMA FamilyIs ==
  /\ DOMAIN Family = {"setup", "register", "role", "issue", "reset", "login", "change"}
  /\ Family["setup"] = "setup" /\ Family["register"] = "register" /\ Family["role"] = "role"
  /\ Family["issue"] = "issue" /\ Family["reset"] = "password" /\ Family["login"] = "password"
  /\ Family["change"] = "password"
  /\ Races = {"setup", "register", "role", "issue", "password"}
BY DEF Family, Races

LEMMA SeqPut ==
  ASSUME NEW S, NEW s \in Seq(S), NEW i \in DOMAIN s, NEW e \in S
  PROVE  LET t == [s EXCEPT ![i] = e]
         IN  /\ t \in Seq(S) /\ DOMAIN t = DOMAIN s /\ Len(t) = Len(s)
             /\ t[i] = e /\ \A j \in DOMAIN s : j # i => t[j] = s[j]
<1>1. i \in 1 .. Len(s)
  OBVIOUS
<1>2. /\ [s EXCEPT ![i] = e] \in Seq(S) /\ Len([s EXCEPT ![i] = e]) = Len(s)
  BY <1>1, ExceptSeq
<1> QED BY <1>2

LEMMA SeqAdd ==
  ASSUME NEW S, NEW s \in Seq(S), NEW e \in S
  PROVE  LET t == Append(s, e)   n == Len(s) + 1
         IN  /\ t \in Seq(S) /\ DOMAIN t = DOMAIN s \cup {n} /\ Len(t) = n
             /\ t[n] = e /\ \A j \in DOMAIN s : t[j] = s[j]
             /\ n \in Nat \ {0} /\ n \notin DOMAIN s
<1>1. Len(s) \in Nat /\ DOMAIN s = 1 .. Len(s)
  OBVIOUS
<1>2. 1 .. (Len(s) + 1) = (1 .. Len(s)) \cup {Len(s) + 1}
  BY <1>1
<1> QED BY <1>1, <1>2

LEMMA RetireIs ==
  ASSUME NEW table \in Seq(Reset), NEW u
  PROVE  LET new == Retire(u, table)
         IN  /\ new \in Seq(Reset) /\ DOMAIN new = DOMAIN table /\ Len(new) = Len(table)
             /\ \A t \in DOMAIN table :
                  /\ new[t].user = table[t].user /\ new[t].expires = table[t].expires
                  /\ new[t].used <=> table[t].used \/ table[t].user = u
<1> DEFINE new == Retire(u, table)   n == Len(table)
<1>1. n \in Nat /\ DOMAIN table = 1 .. n /\ \A t \in 1 .. n : table[t] \in Reset
  OBVIOUS
<1>2. /\ DOMAIN new = 1 .. n
      /\ new = [t \in 1 .. n |-> [table[t] EXCEPT !.used = table[t].used \/ table[t].user = u]]
  BY <1>1 DEF Retire
<1> HIDE DEF new
<1>3. \A t \in 1 .. n : /\ new[t] \in Reset
                        /\ new[t].user = table[t].user /\ new[t].expires = table[t].expires
                        /\ new[t].used <=> table[t].used \/ table[t].user = u
  <2> SUFFICES ASSUME NEW t \in 1 .. n
               PROVE  /\ new[t] \in Reset
                      /\ new[t].user = table[t].user /\ new[t].expires = table[t].expires
                      /\ new[t].used <=> table[t].used \/ table[t].user = u
    OBVIOUS
  <2> DEFINE b == table[t].used \/ table[t].user = u
  <2>1. table[t] \in Reset /\ new[t] = [table[t] EXCEPT !.used = b] /\ b \in BOOLEAN
    BY <1>1, <1>2 DEF Reset
  <2>2. b <=> table[t].used \/ table[t].user = u
    OBVIOUS
  <2> HIDE DEF b
  <2>3. new[t] \in Reset /\ new[t].user = table[t].user /\ new[t].expires = table[t].expires /\ new[t].used = b
    BY <2>1 DEF Reset
  <2> QED BY <2>2, <2>3
<1>4. new \in [1 .. n -> Reset]
  BY <1>2, <1>3
<1> HIDE DEF n
<1>5. new \in Seq(Reset) /\ Len(new) = n
  BY <1>1, <1>4, SeqDef
<1> QED BY <1>1, <1>2, <1>3, <1>5 DEF new, n

LEMMA SaveIs ==
  ASSUME NEW u, users[u] \in User, NEW loaded \in User, NEW changed \in User
  PROVE  LET saved == Save(u, loaded, changed)
         IN  /\ saved \in User
             /\ saved.email = IF changed.email # loaded.email THEN changed.email ELSE users[u].email
             /\ saved.role = IF changed.role # loaded.role THEN changed.role ELSE users[u].role
             /\ saved.failed = IF changed.failed # loaded.failed THEN changed.failed ELSE users[u].failed
             /\ saved.locked = IF changed.locked # loaded.locked THEN changed.locked ELSE users[u].locked
<1>1. DOMAIN changed = {"email", "role", "failed", "locked"}
  BY DEF User
<1>2. Save(u, loaded, changed) = [c \in {"email", "role", "failed", "locked"} |->
        IF changed[c] # loaded[c] THEN changed[c] ELSE users[u][c]]
  BY <1>1 DEF Save
<1>3. Save(u, loaded, changed) \in User
  BY <1>2 DEF User
<1> QED BY <1>2, <1>3

LEMMA ClearIs ==
  ASSUME NEW rec \in User
  PROVE  /\ Clear(rec) \in User /\ Clear(rec).email = rec.email /\ Clear(rec).role = rec.role
         /\ Clear(rec).failed = 0 /\ Clear(rec).locked = 0
BY DEF Clear, User

LEMMA FailedIs ==
  ASSUME NEW rec \in User, now \in Nat
  PROVE  /\ Failed(rec) \in User /\ Failed(rec).email = rec.email /\ Failed(rec).role = rec.role
         /\ Failed(rec).failed = rec.failed + 1
         /\ rec.failed + 1 < MaxAttempts => Failed(rec).locked = rec.locked
         /\ rec.failed + 1 >= MaxAttempts => Failed(rec).locked \in now + 1 .. now + MaxLock
<1>1. rec.failed \in Nat /\ rec.locked \in Nat /\ rec.failed + 1 \in Nat
  BY DEF User
<1>2. LockSecs(rec.failed + 1) \in 1 .. MaxLock
  BY AccountConstants DEF LockSecs
<1>3. /\ now + LockSecs(rec.failed + 1) \in Nat
      /\ now + LockSecs(rec.failed + 1) \in now + 1 .. now + MaxLock
  BY <1>2, AccountConstants
<1> DEFINE late == rec.failed + 1 >= MaxAttempts
           lock == IF late THEN now + LockSecs(rec.failed + 1) ELSE rec.locked
<1>4. Failed(rec) = [rec EXCEPT !.failed = rec.failed + 1, !.locked = lock]
  BY DEF Failed
<1>5. lock \in Nat /\ (~late => lock = rec.locked) /\ (late => lock \in now + 1 .. now + MaxLock)
  BY <1>1, <1>3
<1>6. rec.failed + 1 < MaxAttempts => ~late
  BY <1>1, AccountConstants
<1> HIDE DEF lock
<1>7. /\ Failed(rec) \in User /\ Failed(rec).email = rec.email /\ Failed(rec).role = rec.role
      /\ Failed(rec).failed = rec.failed + 1 /\ Failed(rec).locked = lock
  BY <1>1, <1>4, <1>5 DEF User
<1> QED BY <1>5, <1>6, <1>7

LEMMA RequestType ==
  ASSUME AccountsTypeOK, RequestsFit, NEW r \in Requests
  PROVE  /\ req[r] = Idle \/ (req[r] \in Work /\ req[r] # Idle /\ Fits(req[r]))
         /\ req[r].op \in DOMAIN Family => req[r] # Idle
BY FamilyIs DEF AccountsTypeOK, RequestsFit, Idle

\* A request that has started; whom it races with is remembered.
LEMMA StartEffect ==
  ASSUME AccountsTypeOK, seen \in SeenSpace, NEW r \in Requests, NEW q \in Work, q.new = 0,
         Start(r, q.op, q.at, q.id, q.arg, q.row)
  PROVE  /\ UNCHANGED <<users, invites, resets, now>> /\ req[r] = Idle
         /\ req' = [req EXCEPT ![r] = q] /\ req'[r] = q
         /\ \A p \in Requests : p # r => req'[p] = req[p]
         /\ seen' \in SeenSpace
         /\ seen'.via = seen.via /\ seen'.wrong = seen.wrong /\ seen'.uses = seen.uses
         /\ seen'.crashed = seen.crashed /\ seen.raced \subseteq seen'.raced
         /\ \A p \in Requests : Of(p, Family[q.op]) => Family[q.op] \in seen'.raced
<1> DEFINE R == {Family[req[o].op] : o \in {p \in Requests : req[p] # Idle /\ Family[req[p].op] = Family[q.op]}}
<1>0. q.op \in DOMAIN Family /\ q = [op |-> q.op, at |-> q.at, id |-> q.id, new |-> 0, arg |-> q.arg, row |-> q.row]
  BY DEF Work
<1>1. R \subseteq Races
  BY <1>0 DEF Races
<1>2. /\ seen' = [seen EXCEPT !.requests = seen.requests + 1, !.raced = seen.raced \cup R]
      /\ UNCHANGED <<users, invites, resets, now>> /\ req[r] = Idle
      /\ req' = [req EXCEPT ![r] = q]
  BY <1>0 DEF Start
<1>3. \A p \in Requests : Of(p, Family[q.op]) => Family[q.op] \in R
  BY DEF Of
<1> HIDE DEF R
<1>4. /\ seen' \in SeenSpace /\ seen'.via = seen.via /\ seen'.wrong = seen.wrong /\ seen'.uses = seen.uses
      /\ seen'.crashed = seen.crashed /\ seen'.raced = seen.raced \cup R
  <2> DEFINE n == seen.requests + 1   all == seen.raced \cup R
  <2>1. n \in Nat /\ all \in SUBSET Races
    BY <1>1 DEF SeenSpace
  <2>2. seen' = [seen EXCEPT !.requests = n, !.raced = all]
    BY <1>2
  <2> HIDE DEF n, all
  <2>3. /\ seen' \in SeenSpace /\ seen'.via = seen.via /\ seen'.wrong = seen.wrong /\ seen'.uses = seen.uses
        /\ seen'.crashed = seen.crashed /\ seen'.raced = all
    BY <2>1, <2>2 DEF SeenSpace
  <2> QED BY <2>3 DEF all
<1>5. DOMAIN req = Requests
  BY DEF AccountsTypeOK
<1> QED BY <1>2, <1>3, <1>4, <1>5

\* What a step of one request does to the requests keeps them fitting.
LEMMA OthersFit ==
  ASSUME AccountsTyped, NEW r \in Requests, NEW q \in Work \cup {Idle}, req' = [req EXCEPT ![r] = q],
         DOMAIN users \subseteq DOMAIN users', DOMAIN invites \subseteq DOMAIN invites',
         DOMAIN resets \subseteq DOMAIN resets', \A u \in DOMAIN users : seen'.via[u] = seen.via[u],
         q = Idle \/ Fits(q)'
  PROVE  req' \in [Requests -> Work \cup {Idle}] /\ RequestsFit'
<1>1. /\ req' \in [Requests -> Work \cup {Idle}] /\ req'[r] = q
      /\ \A p \in Requests : p # r => req'[p] = req[p]
  BY DEF AccountsTyped, AccountsTypeOK
<1>2. ASSUME NEW p \in Requests, p # r, req[p] # Idle PROVE Fits(req[p])'
  <2>1. Fits(req[p]) /\ req'[p] = req[p]
    BY <1>1, <1>2 DEF AccountsTyped, RequestsFit
  <2> QED BY <2>1 DEF Fits
<1> QED BY <1>1, <1>2 DEF RequestsFit

Starts(r) ==
  \/ SetupStart(r) \/ RegisterStart(r) \/ SetRoleStart(r) \/ IssueStart(r) \/ ResetStart(r)
  \/ LoginStart(r) \/ ChangeStart(r)

\* Every request starts with what its operation needs.
LEMMA StartFits ==
  ASSUME AccountsTyped, NEW r \in Requests, Starts(r)
  PROVE  \E q \in Work : Fits(q) /\ q.new = 0 /\ Start(r, q.op, q.at, q.id, q.arg, q.row)
<1> DEFINE q(op, at, id, arg, rec) ==
             [op |-> op, at |-> at, id |-> id, new |-> 0, arg |-> arg, row |-> rec]
<1>1. /\ DOMAIN users \subseteq Nat /\ DOMAIN invites \subseteq Nat /\ DOMAIN resets \subseteq Nat
      /\ \A u \in DOMAIN users : users[u] \in User
  BY DEF AccountsTyped, AccountsTypeOK
<1>2. CASE SetupStart(r)
  <2>1. PICK e \in Emails : Start(r, "setup", "write", 0, e, Idle)
    BY <1>2 DEF SetupStart
  <2>2. q("setup", "write", 0, e, Idle) \in Work /\ Fits(q("setup", "write", 0, e, Idle))
    BY FamilyIs DEF Work, Fits
  <2> QED BY <2>1, <2>2
<1>3. CASE RegisterStart(r)
  <2>1. PICK i \in DOMAIN invites, e \in Emails : Start(r, "register", "write", i, e, Idle)
    BY <1>3 DEF RegisterStart
  <2>2. q("register", "write", i, e, Idle) \in Work /\ Fits(q("register", "write", i, e, Idle))
    BY <1>1, FamilyIs DEF Work, Fits
  <2> QED BY <2>1, <2>2
<1>4. CASE SetRoleStart(r)
  <2>1. PICK u \in DOMAIN users, t \in DOMAIN users, ro \in {"admin", "member"} :
          IsAdmin(u) /\ Start(r, "role", "load", t, ro, IF t = u THEN users[u] ELSE Idle)
    BY <1>4 DEF SetRoleStart
  <2> DEFINE rec == IF t = u THEN users[u] ELSE Idle
  <2>2. rec = Idle \/ (rec \in User /\ rec.role = "admin")
    BY <1>1, <2>1 DEF IsAdmin
  <2> HIDE DEF rec
  <2>3. q("role", "load", t, ro, rec) \in Work /\ Fits(q("role", "load", t, ro, rec))
    BY <1>1, <2>2, FamilyIs DEF Work, Fits
  <2> QED BY <2>1, <2>3 DEF rec
<1>5. CASE IssueStart(r)
  <2>1. PICK t \in DOMAIN users : Start(r, "issue", "retire", t, "none", Idle)
    BY <1>5 DEF IssueStart
  <2>2. q("issue", "retire", t, "none", Idle) \in Work /\ Fits(q("issue", "retire", t, "none", Idle))
    BY <1>1, FamilyIs DEF Work, Fits
  <2> QED BY <2>1, <2>2
<1>6. CASE ResetStart(r)
  <2>1. PICK t \in DOMAIN resets : Start(r, "reset", "load", t, "none", Idle)
    BY <1>6 DEF ResetStart
  <2>2. q("reset", "load", t, "none", Idle) \in Work /\ Fits(q("reset", "load", t, "none", Idle))
    BY <1>1, FamilyIs DEF Work, Fits
  <2> QED BY <2>1, <2>2
<1>7. CASE LoginStart(r)
  <2>1. PICK u \in DOMAIN users, verdict \in {"right", "wrong"} : Start(r, "login", "write", u, verdict, users[u])
    BY <1>7 DEF LoginStart
  <2>2. q("login", "write", u, verdict, users[u]) \in Work /\ Fits(q("login", "write", u, verdict, users[u]))
    BY <1>1, FamilyIs DEF Work, Fits
  <2> QED BY <2>1, <2>2
<1>8. CASE ChangeStart(r)
  <2>1. PICK u \in DOMAIN users : Start(r, "change", "write", u, "none", users[u])
    BY <1>8 DEF ChangeStart
  <2>2. q("change", "write", u, "none", users[u]) \in Work /\ Fits(q("change", "write", u, "none", users[u]))
    BY <1>1, FamilyIs DEF Work, Fits
  <2> QED BY <2>1, <2>2
<1> QED BY <1>2, <1>3, <1>4, <1>5, <1>6, <1>7, <1>8 DEF Starts

\* A step that writes no table and no memory keeps the types when its request fits.
LEMMA RequestKeeps ==
  ASSUME AccountsTyped, NEW r \in Requests, NEW q \in Work \cup {Idle}, req' = [req EXCEPT ![r] = q],
         UNCHANGED <<users, invites, resets, now>>, seen' \in SeenSpace,
         seen'.via = seen.via, seen'.wrong = seen.wrong, seen'.uses = seen.uses, q = Idle \/ Fits(q)
  PROVE  AccountsTyped'
<1>1. q = Idle \/ Fits(q)'
  BY DEF Fits
<1>2. req' \in [Requests -> Work \cup {Idle}] /\ RequestsFit'
  BY <1>1, OthersFit
<1>3. TablesFit'
  BY DEF AccountsTyped, TablesFit
<1>4. AccountsTypeOK'
  BY <1>2 DEF AccountsTyped, AccountsTypeOK, SeenSpace, Races
<1> QED BY <1>2, <1>3, <1>4 DEF AccountsTyped

\* The stages that only read.
LEMMA ReadStepTyped ==
  ASSUME AccountsTyped, NEW r \in Requests,
         Starts(r) \/ SetRoleLoad(r) \/ SetRoleCheck(r) \/ ResetLoad(r)
  PROVE  AccountsTyped'
<1>0. AccountsTypeOK /\ seen \in SeenSpace /\ RequestsFit /\ TablesFit
  BY DEF AccountsTyped
<1>1. CASE Starts(r)
  <2>1. PICK q \in Work : Fits(q) /\ q.new = 0 /\ Start(r, q.op, q.at, q.id, q.arg, q.row)
    BY <1>1, StartFits
  <2>2. /\ UNCHANGED <<users, invites, resets, now>> /\ req' = [req EXCEPT ![r] = q] /\ seen' \in SeenSpace
        /\ seen'.via = seen.via /\ seen'.wrong = seen.wrong /\ seen'.uses = seen.uses
    BY <1>0, <2>1, StartEffect
  <2> QED BY <2>1, <2>2, RequestKeeps
<1>2. ASSUME UNCHANGED <<users, invites, resets, now, seen>>, Done(r) PROVE AccountsTyped'
  BY <1>0, <1>2, RequestKeeps DEF Done
<1>3. CASE SetRoleLoad(r)
  <2> DEFINE rec == IF req[r].row = Idle THEN users[req[r].id] ELSE req[r].row
             q == [req[r] EXCEPT !.row = rec, !.at = IF rec.role = "admin" THEN "check" ELSE "write"]
  <2>1. /\ req[r] \in Work /\ req[r].op = "role" /\ req[r].at = "load" /\ Fits(req[r])
        /\ UNCHANGED <<users, invites, resets, now, seen>>
    BY <1>0, <1>3, RequestType DEF SetRoleLoad, Step
  <2>2. rec \in User /\ req[r].arg \in {"admin", "member"} /\ req[r].id \in DOMAIN users
    BY <1>0, <2>1 DEF Fits, AccountsTypeOK
  <2>3. CASE rec.role = req[r].arg
    BY <1>2, <1>3, <2>1, <2>3 DEF SetRoleLoad
  <2>4. CASE rec.role # req[r].arg
    <3>1. req' = [req EXCEPT ![r] = q]
      BY <1>0, <1>3, <2>4 DEF SetRoleLoad, AccountsTypeOK
    <3>2. rec.role \in {"admin", "member"}
      BY <2>2 DEF User
    <3> HIDE DEF rec
    <3>3. q \in Work
      BY <2>1, <2>2 DEF Work
    <3>4. /\ q.op = "role" /\ q.id = req[r].id /\ q.arg = req[r].arg /\ q.row = rec
          /\ q.at = IF rec.role = "admin" THEN "check" ELSE "write"
      BY <2>1, <2>2 DEF Work
    <3> HIDE DEF q
    <3>5. Fits(q)
      <4>1. CASE rec.role = "admin"
        BY <2>2, <2>4, <3>4, <4>1 DEF Fits
      <4>2. CASE rec.role = "member"
        BY <2>2, <2>4, <3>4, <4>2 DEF Fits
      <4> QED BY <3>2, <4>1, <4>2
    <3> QED BY <1>0, <2>1, <3>1, <3>3, <3>5, RequestKeeps
  <2> QED BY <2>3, <2>4
<1>4. CASE SetRoleCheck(r)
  <2> DEFINE q == [req[r] EXCEPT !.at = "write"]
  <2>1. /\ req[r] \in Work /\ req[r].op = "role" /\ req[r].at = "check" /\ Fits(req[r])
        /\ UNCHANGED <<users, invites, resets, now, seen>>
    BY <1>0, <1>4, RequestType DEF SetRoleCheck, Step
  <2>2. CASE Done(r)
    BY <1>2, <2>1, <2>2
  <2>3. CASE Goto(r, "write")
    <3>1. req' = [req EXCEPT ![r] = q]
      BY <1>0, <2>3 DEF Goto, AccountsTypeOK
    <3>2. q \in Work
      BY <2>1 DEF Work
    <3>3. /\ q.op = "role" /\ q.at = "write" /\ q.id = req[r].id /\ q.arg = req[r].arg
          /\ q.row = req[r].row
      BY <2>1 DEF Work
    <3>4. /\ req[r].id \in DOMAIN users /\ req[r].row \in User /\ req[r].row.role = "admin"
          /\ req[r].arg = "member"
      BY <2>1 DEF Fits
    <3> HIDE DEF q
    <3>5. Fits(q)
      BY <3>3, <3>4 DEF Fits
    <3> QED BY <1>0, <2>1, <3>1, <3>2, <3>5, RequestKeeps
  <2> QED BY <1>4, <2>2, <2>3 DEF SetRoleCheck
<1>5. CASE ResetLoad(r)
  <2> DEFINE rec == users[resets[req[r].id].user]
             q == [req[r] EXCEPT !.at = "write", !.row = rec]
  <2>1. /\ req[r] \in Work /\ req[r].op = "reset" /\ req[r].at = "load" /\ Fits(req[r])
        /\ UNCHANGED <<users, invites, resets, now, seen>>
    BY <1>0, <1>5, RequestType DEF ResetLoad, Step
  <2>2. rec \in User
    BY <1>0, <2>1 DEF Fits, TablesFit, AccountsTypeOK
  <2>3. req' = [req EXCEPT ![r] = q]
    BY <1>0, <1>5 DEF ResetLoad, AccountsTypeOK
  <2> HIDE DEF rec
  <2>4. q \in Work
    BY <2>1, <2>2 DEF Work
  <2>5. Fits(q)
    BY <2>1, <2>2 DEF Fits, Work
  <2> HIDE DEF q
  <2> QED BY <1>0, <2>1, <2>3, <2>4, <2>5, RequestKeeps
<1> QED BY <1>1, <1>3, <1>4, <1>5

\* A rec that is saved is one of the table's kind, and its lock within the bound.
LEMMA UserPut ==
  ASSUME AccountsTypeOK, NEW u \in DOMAIN users, NEW rec \in User, rec.locked <= now + MaxLock,
         users' = [users EXCEPT ![u] = rec], now' = now
  PROVE  /\ users' \in Seq(User) /\ DOMAIN users' = DOMAIN users /\ Len(users') = Len(users)
         /\ users'[u] = rec /\ \A v \in DOMAIN users : v # u => users'[v] = users[v]
         /\ \A v \in DOMAIN users' : users'[v].locked <= now' + MaxLock
<1>1. users \in Seq(User)
  BY DEF AccountsTypeOK
<1>2. /\ users' \in Seq(User) /\ DOMAIN users' = DOMAIN users /\ Len(users') = Len(users)
      /\ users'[u] = rec /\ \A v \in DOMAIN users : v # u => users'[v] = users[v]
  BY <1>1, SeqPut
<1> QED BY <1>2 DEF AccountsTypeOK

\* A rec saved by a log-in, a reset or a change of password keeps address and role.
LEMMA SavedRow ==
  ASSUME AccountsTypeOK, NEW u \in DOMAIN users, NEW loaded \in User, NEW changed \in User,
         changed.email = loaded.email, changed.role = loaded.role,
         changed.locked = loaded.locked \/ changed.locked <= now + MaxLock
  PROVE  LET saved == Save(u, loaded, changed)
         IN  /\ saved \in User /\ saved.locked <= now + MaxLock
             /\ saved.email = users[u].email /\ saved.role = users[u].role
<1> DEFINE saved == Save(u, loaded, changed)
<1>1. users[u] \in User /\ users[u].locked <= now + MaxLock
  BY DEF AccountsTypeOK
<1>2. /\ saved \in User
      /\ saved.email = users[u].email /\ saved.role = users[u].role
      /\ saved.locked = IF changed.locked # loaded.locked THEN changed.locked ELSE users[u].locked
  BY <1>1, SaveIs
<1> HIDE DEF saved
<1>3. saved.locked <= now + MaxLock
  BY <1>1, <1>2
<1> QED BY <1>2, <1>3 DEF saved

LEMMA RoleRow ==
  ASSUME AccountsTypeOK, NEW u \in DOMAIN users, NEW loaded \in User, NEW ro \in {"admin", "member"},
         loaded.role # ro
  PROVE  LET saved == Save(u, loaded, [loaded EXCEPT !.role = ro])
         IN  /\ saved \in User /\ saved.role = ro /\ saved.locked <= now + MaxLock
             /\ saved.failed = users[u].failed /\ saved.locked = users[u].locked
<1> DEFINE changed == [loaded EXCEPT !.role = ro]
           saved == Save(u, loaded, changed)
<1>1. users[u] \in User /\ users[u].locked <= now + MaxLock
  BY DEF AccountsTypeOK
<1>2. /\ changed \in User /\ changed.role = ro /\ changed.email = loaded.email
      /\ changed.failed = loaded.failed /\ changed.locked = loaded.locked
  BY DEF User
<1> HIDE DEF changed
<1>3. /\ saved \in User /\ saved.role = ro
      /\ saved.failed = users[u].failed /\ saved.locked = users[u].locked
  BY <1>1, <1>2, SaveIs
<1> HIDE DEF saved
<1> QED BY <1>1, <1>3 DEF saved, changed

\* A step that ends or moves on a request leaves the others alone.
LEMMA Moved ==
  ASSUME AccountsTypeOK, NEW r \in Requests, NEW q, req' = [req EXCEPT ![r] = q]
  PROVE  req'[r] = q /\ \A p \in Requests : p # r => req'[p] = req[p]
BY DEF AccountsTypeOK

LEMMA AddUserIs ==
  ASSUME AccountsTyped, NEW rec \in User, rec.locked = 0, NEW via \in Nat, AddUser(rec, via)
  PROVE  LET n == Len(users) + 1
         IN  /\ users' \in Seq(User) /\ DOMAIN users' = DOMAIN users \cup {n} /\ n \notin DOMAIN users
             /\ n \in Nat \ {0}
             /\ users'[n] = rec /\ \A u \in DOMAIN users : users'[u] = users[u]
             /\ seen' \in SeenSpace /\ Len(users') = n /\ Len(seen'.via) = n /\ Len(seen'.wrong) = n
             /\ seen'.via[n] = via /\ \A u \in DOMAIN users : seen'.via[u] = seen.via[u]
             /\ seen'.wrong[n] = 0 /\ \A u \in DOMAIN users : seen'.wrong[u] = seen.wrong[u]
             /\ seen'.uses = seen.uses /\ seen'.raced = seen.raced /\ seen'.crashed = seen.crashed
<1> DEFINE n == Len(users) + 1
           vias == Append(seen.via, via)
           wrongs == Append(seen.wrong, 0)
<1>1. /\ users \in Seq(User) /\ seen \in SeenSpace /\ seen.via \in Seq(Nat) /\ seen.wrong \in Seq(Nat)
      /\ Len(seen.via) = Len(users) /\ Len(seen.wrong) = Len(users)
      /\ DOMAIN seen.via = DOMAIN users /\ DOMAIN seen.wrong = DOMAIN users
  BY DEF AccountsTyped, AccountsTypeOK, TablesFit
<1>2. /\ users' = Append(users, rec) /\ seen' = [seen EXCEPT !.via = vias, !.wrong = wrongs]
  BY DEF AddUser
<1>3. /\ users' \in Seq(User) /\ DOMAIN users' = DOMAIN users \cup {n} /\ n \notin DOMAIN users
      /\ users'[n] = rec /\ \A u \in DOMAIN users : users'[u] = users[u]
      /\ Len(users') = n /\ n \in Nat \ {0}
  BY <1>1, <1>2, SeqAdd
<1>4. /\ vias \in Seq(Nat) /\ Len(vias) = n
      /\ vias[n] = via /\ \A u \in DOMAIN users : vias[u] = seen.via[u]
  BY <1>1, SeqAdd
<1>5. 0 \in Nat
  OBVIOUS
<1>6. /\ wrongs \in Seq(Nat) /\ Len(wrongs) = n
      /\ wrongs[n] = 0 /\ \A u \in DOMAIN users : wrongs[u] = seen.wrong[u]
  BY <1>1, <1>5, SeqAdd
<1> HIDE DEF vias, wrongs, n
<1>7. /\ seen' \in SeenSpace /\ seen'.via = vias /\ seen'.wrong = wrongs
      /\ seen'.uses = seen.uses /\ seen'.raced = seen.raced /\ seen'.crashed = seen.crashed
  BY <1>1, <1>2, <1>4, <1>6 DEF SeenSpace
<1> QED BY <1>3, <1>4, <1>6, <1>7 DEF n

\* The set-up and the registration, when the account is made.
LEMMA AccountAdded ==
  ASSUME AccountsTyped, NEW r \in Requests, NEW ro \in {"admin", "member"}, NEW e \in Emails,
         NEW via \in Nat, AddUser(NewUser(e, ro), via), UNCHANGED <<invites, resets, now>>,
         NEW q \in Work \cup {Idle}, req' = [req EXCEPT ![r] = q], q = Idle \/ Fits(q)'
  PROVE  /\ AccountsTyped'
         /\ LET n == Len(users) + 1
            IN  /\ DOMAIN users' = DOMAIN users \cup {n} /\ n \notin DOMAIN users /\ n \in Nat \ {0}
                /\ users'[n].role = ro /\ users'[n].failed = 0 /\ users'[n].locked = 0
                /\ \A u \in DOMAIN users : users'[u] = users[u]
                /\ seen'.via[n] = via /\ \A u \in DOMAIN users : seen'.via[u] = seen.via[u]
                /\ seen'.wrong[n] = 0 /\ \A u \in DOMAIN users : seen'.wrong[u] = seen.wrong[u]
                /\ seen'.uses = seen.uses /\ seen'.raced = seen.raced /\ seen'.crashed = seen.crashed
<1> DEFINE rec == NewUser(e, ro)   n == Len(users) + 1
<1>1. rec \in User /\ rec.role = ro /\ rec.failed = 0 /\ rec.locked = 0
  BY DEF NewUser, User
<1> HIDE DEF rec
<1>2. /\ users' \in Seq(User) /\ DOMAIN users' = DOMAIN users \cup {n} /\ n \notin DOMAIN users
      /\ n \in Nat \ {0}
      /\ users'[n] = rec /\ \A u \in DOMAIN users : users'[u] = users[u]
      /\ seen' \in SeenSpace /\ Len(users') = n /\ Len(seen'.via) = n /\ Len(seen'.wrong) = n
      /\ seen'.via[n] = via /\ \A u \in DOMAIN users : seen'.via[u] = seen.via[u]
      /\ seen'.wrong[n] = 0 /\ \A u \in DOMAIN users : seen'.wrong[u] = seen.wrong[u]
      /\ seen'.uses = seen.uses /\ seen'.raced = seen.raced /\ seen'.crashed = seen.crashed
  BY <1>1, AddUserIs DEF rec
<1> HIDE DEF n
<1>3. req' \in [Requests -> Work \cup {Idle}] /\ RequestsFit'
  BY <1>2, OthersFit
<1>4. TablesFit'
  <2>1. users' # <<>>
    BY <1>2
  <2> QED BY <1>2, <2>1 DEF AccountsTyped, TablesFit
<1>5. \A u \in DOMAIN users' : users'[u].locked <= now' + MaxLock
  BY <1>1, <1>2, AccountConstants DEF AccountsTyped, AccountsTypeOK
<1>6. AccountsTypeOK'
  BY <1>2, <1>3, <1>5 DEF AccountsTyped, AccountsTypeOK, SeenSpace, Races
<1> QED BY <1>1, <1>2, <1>3, <1>4, <1>6 DEF n, AccountsTyped

\* A step that ends the request of r.
LEMMA Ended ==
  ASSUME AccountsTyped, NEW r \in Requests, Done(r),
         DOMAIN users \subseteq DOMAIN users', DOMAIN invites \subseteq DOMAIN invites',
         DOMAIN resets \subseteq DOMAIN resets', \A u \in DOMAIN users : seen'.via[u] = seen.via[u]
  PROVE  /\ req' \in [Requests -> Work \cup {Idle}] /\ RequestsFit'
         /\ req'[r] = Idle /\ \A p \in Requests : p # r => req'[p] = req[p]
BY OthersFit, Moved DEF Done, AccountsTyped

\* The set-up that finds a free address adds an administrator without an invite.
LEMMA SetupIs ==
  ASSUME AccountsTyped, NEW r \in Requests, SetupAdmin(r)
  PROVE  /\ AccountsTyped' /\ UNCHANGED <<invites, resets, now>>
         /\ req[r].op = "setup" /\ req[r] # Idle /\ req'[r] = Idle
         /\ \A p \in Requests : p # r => req'[p] = req[p]
         /\ \/ UNCHANGED <<users, seen>>
            \/ LET n == Len(users) + 1
               IN  /\ DOMAIN users' = DOMAIN users \cup {n} /\ n \notin DOMAIN users /\ n \in Nat \ {0}
                   /\ users'[n].role = "admin" /\ users'[n].failed = 0 /\ users'[n].locked = 0
                   /\ \A u \in DOMAIN users : users'[u] = users[u]
                   /\ seen'.via[n] = 0 /\ \A u \in DOMAIN users : seen'.via[u] = seen.via[u]
                   /\ seen'.wrong[n] = 0 /\ \A u \in DOMAIN users : seen'.wrong[u] = seen.wrong[u]
                   /\ seen'.uses = seen.uses /\ seen'.raced = seen.raced /\ seen'.crashed = seen.crashed
<1> DEFINE n == Len(users) + 1
<1>1. /\ req[r] \in Work /\ req[r] # Idle /\ Fits(req[r]) /\ req[r].op = "setup"
      /\ UNCHANGED <<invites, resets, now>> /\ Done(r)
  BY RequestType DEF SetupAdmin, Step, AccountsTyped
<1>2. req[r].arg \in Emails
  BY <1>1 DEF Fits
<1>3. req' = [req EXCEPT ![r] = Idle]
  BY <1>1 DEF Done
<1>4. req'[r] = Idle /\ \A p \in Requests : p # r => req'[p] = req[p]
  BY <1>3, Moved DEF AccountsTyped
<1>5. CASE UNCHANGED <<users, seen>>
  BY <1>1, <1>3, <1>4, <1>5, RequestKeeps DEF AccountsTyped
<1>6. CASE AddUser(NewUser(req[r].arg, "admin"), 0)
  <2>1. PICK ro \in {"admin", "member"}, via \in Nat, q \in Work \cup {Idle} : ro = "admin" /\ via = 0 /\ q = Idle
    OBVIOUS
  <2>2. AddUser(NewUser(req[r].arg, ro), via) /\ req' = [req EXCEPT ![r] = q]
    BY <1>3, <1>6, <2>1
  <2>3. /\ AccountsTyped'
        /\ DOMAIN users' = DOMAIN users \cup {n} /\ n \notin DOMAIN users /\ n \in Nat \ {0}
        /\ users'[n].role = ro /\ users'[n].failed = 0 /\ users'[n].locked = 0
        /\ \A u \in DOMAIN users : users'[u] = users[u]
        /\ seen'.via[n] = via /\ \A u \in DOMAIN users : seen'.via[u] = seen.via[u]
        /\ seen'.wrong[n] = 0 /\ \A u \in DOMAIN users : seen'.wrong[u] = seen.wrong[u]
        /\ seen'.uses = seen.uses /\ seen'.raced = seen.raced /\ seen'.crashed = seen.crashed
    BY <1>1, <1>2, <2>1, <2>2, AccountAdded
  <2> QED BY <1>1, <1>4, <2>1, <2>3
<1> QED BY <1>5, <1>6 DEF SetupAdmin

\* The registration adds the account of the address and goes on to the mark.
LEMMA RegisterIs ==
  ASSUME AccountsTyped, NEW r \in Requests, RegisterAdd(r)
  PROVE  /\ AccountsTyped'
         /\ \/ UNCHANGED <<users, seen, invites, resets, now>> /\ Done(r)
            \/ LET n == Len(users) + 1
               IN  /\ AddUser(NewUser(req[r].arg, "member"), req[r].id) /\ req[r].arg \in Emails
                   /\ UNCHANGED <<invites, resets, now>>
                   /\ req'[r].op = "register" /\ req'[r].at = "mark" /\ req'[r].id = req[r].id
                   /\ req'[r].new = n /\ req'[r] # Idle
                   /\ \A p \in Requests : p # r => req'[p] = req[p]
                   /\ DOMAIN users' = DOMAIN users \cup {n} /\ n \notin DOMAIN users /\ n \in Nat \ {0}
                   /\ users'[n].role = "member" /\ users'[n].failed = 0 /\ users'[n].locked = 0
                   /\ \A u \in DOMAIN users : users'[u] = users[u]
                   /\ seen'.via[n] = req[r].id /\ \A u \in DOMAIN users : seen'.via[u] = seen.via[u]
                   /\ seen'.wrong[n] = 0 /\ \A u \in DOMAIN users : seen'.wrong[u] = seen.wrong[u]
                   /\ seen'.uses = seen.uses /\ seen'.raced = seen.raced /\ seen'.crashed = seen.crashed
<1> DEFINE n == Len(users) + 1
<1>1. /\ req[r] \in Work /\ Fits(req[r]) /\ req[r].op = "register" /\ req[r].at = "write"
      /\ UNCHANGED <<invites, resets, now>>
  BY RequestType DEF RegisterAdd, Step, AccountsTyped
<1>2. req[r].arg \in Emails /\ req[r].id \in DOMAIN invites
  BY <1>1 DEF Fits
<1>3. CASE UNCHANGED <<users, seen>> /\ Done(r)
  <2>1. AccountsTyped'
    BY <1>1, <1>3, RequestKeeps DEF Done, AccountsTyped
  <2> QED BY <1>1, <1>3, <2>1
<1>4. CASE AddUser(NewUser(req[r].arg, "member"), req[r].id) /\ req' = [req EXCEPT ![r].at = "mark", ![r].new = n]
  <2>1. NewUser(req[r].arg, "member") \in User /\ NewUser(req[r].arg, "member").locked = 0 /\ req[r].id \in Nat
    BY <1>1, <1>2 DEF NewUser, User, Work
  <2>2. DOMAIN users' = DOMAIN users \cup {n} /\ n \in Nat /\ seen'.via[n] = req[r].id
    BY <1>4, <2>1, AddUserIs
  <2> HIDE DEF n
  <2>0. PICK q \in Work : q = [req[r] EXCEPT !.at = "mark", !.new = n]
    BY <1>1, <2>2 DEF Work
  <2>3. /\ q.op = "register" /\ q.at = "mark" /\ q.id = req[r].id /\ q.new = n
    BY <1>1, <2>0 DEF Work
  <2>9. req' = [req EXCEPT ![r] = q]
    BY <1>4, <2>0 DEF AccountsTyped, AccountsTypeOK, n
  <2>4. Fits(q)'
    BY <1>1, <1>2, <2>2, <2>3 DEF Fits
  <2>5. /\ AccountsTyped'
        /\ DOMAIN users' = DOMAIN users \cup {n} /\ n \notin DOMAIN users /\ n \in Nat \ {0}
        /\ users'[n].role = "member" /\ users'[n].failed = 0 /\ users'[n].locked = 0
        /\ \A u \in DOMAIN users : users'[u] = users[u]
        /\ seen'.via[n] = req[r].id /\ \A u \in DOMAIN users : seen'.via[u] = seen.via[u]
        /\ seen'.wrong[n] = 0 /\ \A u \in DOMAIN users : seen'.wrong[u] = seen.wrong[u]
        /\ seen'.uses = seen.uses /\ seen'.raced = seen.raced /\ seen'.crashed = seen.crashed
    BY <1>1, <1>2, <1>4, <2>9, <2>1, <2>4, AccountAdded DEF n
  <2>6. req'[r] = q /\ \A p \in Requests : p # r => req'[p] = req[p]
    BY <2>9, Moved DEF AccountsTyped
  <2>7. q # Idle
    BY <2>3 DEF Idle
  <2> QED BY <1>1, <1>2, <1>4, <2>3, <2>5, <2>6, <2>7 DEF n
<1> QED BY <1>3, <1>4 DEF RegisterAdd

LEMMA MarkIs ==
  ASSUME AccountsTyped, NEW r \in Requests, RegisterMark(r)
  PROVE  /\ AccountsTyped' /\ UNCHANGED <<users, resets, now, seen>>
         /\ req[r].id \in DOMAIN invites /\ req[r].new \in DOMAIN users /\ req[r].new # 0
         /\ seen.via[req[r].new] = req[r].id
         /\ DOMAIN invites' = DOMAIN invites
         /\ invites'[req[r].id].usedBy = req[r].new
         /\ \A i \in DOMAIN invites : i # req[r].id => invites'[i] = invites[i]
         /\ req'[r] = Idle /\ \A p \in Requests : p # r => req'[p] = req[p]
<1> DEFINE i == req[r].id
           rec == [invites[i] EXCEPT !.usedBy = req[r].new]
<1>1. /\ req[r] \in Work /\ Fits(req[r]) /\ req[r].op = "register" /\ req[r].at = "mark"
      /\ UNCHANGED <<users, resets, now, seen>> /\ Done(r) /\ invites' = [invites EXCEPT ![i] = rec]
  BY RequestType DEF RegisterMark, Step, AccountsTyped
<1>2. /\ i \in DOMAIN invites /\ req[r].new \in DOMAIN users /\ seen.via[req[r].new] = i
  BY <1>1 DEF Fits
<1>3. invites \in Seq(Invite) /\ users \in Seq(User)
  BY DEF AccountsTyped, AccountsTypeOK
<1>4. invites[i] \in Invite /\ req[r].new \in Nat \ {0}
  BY <1>2, <1>3
<1>5. rec \in Invite /\ rec.usedBy = req[r].new
  BY <1>4 DEF Invite
<1> HIDE DEF rec, i
<1>6. /\ invites' \in Seq(Invite) /\ DOMAIN invites' = DOMAIN invites /\ Len(invites') = Len(invites)
      /\ invites'[i] = rec /\ \A j \in DOMAIN invites : j # i => invites'[j] = invites[j]
  BY <1>1, <1>2, <1>3, <1>5, SeqPut
<1>7. /\ req' \in [Requests -> Work \cup {Idle}] /\ RequestsFit'
      /\ req'[r] = Idle /\ \A p \in Requests : p # r => req'[p] = req[p]
  BY <1>1, <1>6, Ended
<1>8. users # <<>>
  BY <1>2, <1>3
<1>9. AccountsTypeOK' /\ TablesFit' /\ (seen \in SeenSpace)'
  BY <1>1, <1>6, <1>7, <1>8 DEF AccountsTyped, AccountsTypeOK, TablesFit
<1> QED BY <1>1, <1>2, <1>4, <1>5, <1>6, <1>7, <1>9 DEF AccountsTyped, i

LEMMA RoleIs ==
  ASSUME AccountsTyped, NEW r \in Requests, SetRoleWrite(r)
  PROVE  LET u == req[r].id
         IN  /\ AccountsTyped' /\ UNCHANGED <<invites, resets, now, seen>>
             /\ u \in DOMAIN users /\ DOMAIN users' = DOMAIN users
             /\ users'[u].role = req[r].arg
             /\ users'[u].failed = users[u].failed /\ users'[u].locked = users[u].locked
             /\ \A v \in DOMAIN users : v # u => users'[v] = users[v]
             /\ req'[r] = Idle /\ \A p \in Requests : p # r => req'[p] = req[p]
<1> DEFINE u == req[r].id
           saved == Save(u, req[r].row, [req[r].row EXCEPT !.role = req[r].arg])
<1>1. /\ req[r] \in Work /\ Fits(req[r]) /\ req[r].op = "role" /\ req[r].at = "write"
      /\ UNCHANGED <<invites, resets, now, seen>> /\ Done(r) /\ users' = [users EXCEPT ![u] = saved]
  BY RequestType DEF SetRoleWrite, Step, AccountsTyped
<1>2. /\ u \in DOMAIN users /\ req[r].arg \in {"admin", "member"} /\ req[r].row \in User
      /\ req[r].row.role # req[r].arg
  BY <1>1 DEF Fits
<1>3. AccountsTypeOK
  BY DEF AccountsTyped
<1>4. /\ saved \in User /\ saved.role = req[r].arg /\ saved.locked <= now + MaxLock
      /\ saved.failed = users[u].failed /\ saved.locked = users[u].locked
  BY <1>2, <1>3, RoleRow
<1> HIDE DEF saved, u
<1>5. /\ users' \in Seq(User) /\ DOMAIN users' = DOMAIN users /\ Len(users') = Len(users)
      /\ users'[u] = saved /\ \A v \in DOMAIN users : v # u => users'[v] = users[v]
      /\ \A v \in DOMAIN users' : users'[v].locked <= now' + MaxLock
  BY <1>1, <1>2, <1>3, <1>4, UserPut
<1>6. /\ req' \in [Requests -> Work \cup {Idle}] /\ RequestsFit'
      /\ req'[r] = Idle /\ \A p \in Requests : p # r => req'[p] = req[p]
  BY <1>1, <1>5, Ended
<1>7. users' # <<>>
  BY <1>2, <1>5
<1>8. AccountsTypeOK' /\ TablesFit' /\ (seen \in SeenSpace)'
  BY <1>1, <1>5, <1>6, <1>7 DEF AccountsTyped, AccountsTypeOK, TablesFit
<1> QED BY <1>1, <1>2, <1>4, <1>5, <1>6, <1>8 DEF AccountsTyped, u

\* A step that writes the table of tokens and goes on with its request.
LEMMA TokensTyped ==
  ASSUME AccountsTyped, NEW r \in Requests, NEW q \in Work \cup {Idle}, req' = [req EXCEPT ![r] = q],
         UNCHANGED <<users, invites, now, seen>>, q = Idle \/ Fits(q)',
         resets' \in Seq(Reset), DOMAIN resets' = DOMAIN resets, Len(resets') = Len(resets),
         \A t \in DOMAIN resets : resets'[t].user = resets[t].user
  PROVE  /\ AccountsTyped'
         /\ req'[r] = q /\ \A p \in Requests : p # r => req'[p] = req[p]
<1>1. req' \in [Requests -> Work \cup {Idle}] /\ RequestsFit'
  BY OthersFit
<1>2. TablesFit'
  BY DEF AccountsTyped, TablesFit
<1>3. AccountsTypeOK' /\ (seen \in SeenSpace)'
  BY <1>1 DEF AccountsTyped, AccountsTypeOK
<1>4. req'[r] = q /\ \A p \in Requests : p # r => req'[p] = req[p]
  BY Moved DEF AccountsTyped
<1> QED BY <1>1, <1>2, <1>3, <1>4 DEF AccountsTyped

LEMMA IssueRetireIs ==
  ASSUME AccountsTyped, NEW r \in Requests, IssueRetire(r)
  PROVE  LET u == req[r].id
         IN  /\ AccountsTyped' /\ UNCHANGED <<users, invites, now, seen>>
             /\ Step(r, "issue", "retire")
             /\ req'[r] = [req[r] EXCEPT !.at = "write"] /\ req'[r].op = "issue" /\ req'[r].id = u
             /\ \A p \in Requests : p # r => req'[p] = req[p]
             /\ DOMAIN resets' = DOMAIN resets
             /\ \A t \in DOMAIN resets :
                  /\ resets'[t].user = resets[t].user
                  /\ resets'[t].used <=> resets[t].used \/ resets[t].user = u
<1>1. /\ req[r] \in Work /\ Fits(req[r]) /\ req[r].op = "issue" /\ req[r].at = "retire"
      /\ UNCHANGED <<users, invites, now, seen>> /\ Goto(r, "write") /\ resets' = Retire(req[r].id, resets)
      /\ req[r].id \in DOMAIN users
  <2>1. req[r] \in Work /\ Fits(req[r]) /\ req[r].op = "issue" /\ req[r].at = "retire"
    BY RequestType DEF IssueRetire, Step, AccountsTyped
  <2> QED BY <2>1 DEF IssueRetire, Fits
<1>2. resets \in Seq(Reset)
  BY DEF AccountsTyped, AccountsTypeOK
<1>3. /\ resets' \in Seq(Reset) /\ DOMAIN resets' = DOMAIN resets /\ Len(resets') = Len(resets)
      /\ \A t \in DOMAIN resets :
           /\ resets'[t].user = resets[t].user
           /\ resets'[t].used <=> resets[t].used \/ resets[t].user = req[r].id
  BY <1>1, <1>2, RetireIs
<1>4. PICK q \in Work : q = [req[r] EXCEPT !.at = "write"]
  BY <1>1 DEF Work
<1>5. q.op = "issue" /\ q.at = "write" /\ q.id = req[r].id
  BY <1>1, <1>4 DEF Work
<1>6. req' = [req EXCEPT ![r] = q] /\ Fits(q)'
  BY <1>1, <1>4, <1>5 DEF Goto, Fits, AccountsTyped, AccountsTypeOK
<1>7. AccountsTyped' /\ req'[r] = q /\ \A p \in Requests : p # r => req'[p] = req[p]
  BY <1>1, <1>3, <1>6, TokensTyped
<1> QED BY <1>1, <1>3, <1>4, <1>5, <1>7 DEF IssueRetire

LEMMA IssueAddIs ==
  ASSUME AccountsTyped, NEW r \in Requests, IssueAdd(r)
  PROVE  LET n == Len(resets) + 1
         IN  /\ AccountsTyped' /\ UNCHANGED <<users, invites, now>> /\ Step(r, "issue", "write")
             /\ req'[r] = Idle /\ \A p \in Requests : p # r => req'[p] = req[p]
             /\ DOMAIN resets' = DOMAIN resets \cup {n} /\ n \notin DOMAIN resets
             /\ resets'[n].user = req[r].id /\ ~resets'[n].used
             /\ \A t \in DOMAIN resets : resets'[t] = resets[t]
             /\ seen'.uses[n] = 0 /\ \A t \in DOMAIN resets : seen'.uses[t] = seen.uses[t]
             /\ seen'.via = seen.via /\ seen'.wrong = seen.wrong
             /\ seen'.raced = seen.raced /\ seen'.crashed = seen.crashed
<1> DEFINE n == Len(resets) + 1
           rec == [user |-> req[r].id, expires |-> now + Life, used |-> FALSE]
           all == Append(seen.uses, 0)
<1>1. /\ req[r] \in Work /\ Fits(req[r]) /\ req[r].op = "issue" /\ req[r].at = "write"
      /\ UNCHANGED <<users, invites, now>> /\ Done(r)
      /\ resets' = Append(resets, rec) /\ seen' = [seen EXCEPT !.uses = all]
  BY RequestType DEF IssueAdd, Step, AccountsTyped
<1>2. /\ resets \in Seq(Reset) /\ users \in Seq(User) /\ now \in Nat /\ seen.uses \in Seq(Nat)
      /\ DOMAIN seen.uses = DOMAIN resets /\ Len(seen.uses) = Len(resets) /\ seen \in SeenSpace
  BY DEF AccountsTyped, AccountsTypeOK, TablesFit
<1>3. req[r].id \in DOMAIN users /\ req[r].id \in Nat \ {0} /\ now + Life \in Nat /\ 0 \in Nat
  <2>1. req[r].id \in DOMAIN users
    BY <1>1 DEF Fits
  <2> QED BY <1>2, <2>1, AccountConstants
<1>4. rec \in Reset /\ rec.user = req[r].id /\ ~rec.used
  BY <1>3 DEF Reset
<1> HIDE DEF rec
<1>5. /\ resets' \in Seq(Reset) /\ DOMAIN resets' = DOMAIN resets \cup {n} /\ n \notin DOMAIN resets
      /\ Len(resets') = n /\ resets'[n] = rec /\ \A t \in DOMAIN resets : resets'[t] = resets[t]
  BY <1>1, <1>2, <1>4, SeqAdd
<1>6. /\ all \in Seq(Nat) /\ Len(all) = n /\ all[n] = 0 /\ \A t \in DOMAIN resets : all[t] = seen.uses[t]
  BY <1>2, <1>3, SeqAdd
<1> HIDE DEF all, n
<1>7. /\ seen' \in SeenSpace /\ seen'.uses = all /\ seen'.via = seen.via /\ seen'.wrong = seen.wrong
      /\ seen'.raced = seen.raced /\ seen'.crashed = seen.crashed
  BY <1>1, <1>2, <1>6 DEF SeenSpace
<1>8. /\ req' \in [Requests -> Work \cup {Idle}] /\ RequestsFit'
      /\ req'[r] = Idle /\ \A p \in Requests : p # r => req'[p] = req[p]
  BY <1>1, <1>5, <1>7, Ended
<1>9. TablesFit'
  BY <1>1, <1>3, <1>4, <1>5, <1>6, <1>7 DEF AccountsTyped, TablesFit
<1>10. AccountsTypeOK'
  BY <1>1, <1>5, <1>7, <1>8 DEF AccountsTyped, AccountsTypeOK, SeenSpace, Races
<1> QED BY <1>1, <1>4, <1>5, <1>6, <1>7, <1>8, <1>9, <1>10 DEF AccountsTyped, n, IssueAdd

\* Tokens may be used up, and that is all that happens to them.
TokensKept ==
  /\ resets' \in Seq(Reset) /\ DOMAIN resets' = DOMAIN resets /\ Len(resets') = Len(resets)
  /\ \A t \in DOMAIN resets :
       resets'[t].user = resets[t].user /\ (resets[t].used => resets'[t].used)

LEMMA MarkKeepsTokens ==
  ASSUME resets \in Seq(Reset), NEW t \in DOMAIN resets, resets' = [resets EXCEPT ![t].used = TRUE]
  PROVE  TokensKept /\ resets'[t].used
<1> DEFINE rec == [resets[t] EXCEPT !.used = TRUE]
<1>1. resets[t] \in Reset /\ resets' = [resets EXCEPT ![t] = rec]
  OBVIOUS
<1>2. rec \in Reset /\ rec.used /\ rec.user = resets[t].user
  BY <1>1 DEF Reset
<1> HIDE DEF rec
<1>3. /\ resets' \in Seq(Reset) /\ DOMAIN resets' = DOMAIN resets /\ Len(resets') = Len(resets)
      /\ resets'[t] = rec /\ \A s \in DOMAIN resets : s # t => resets'[s] = resets[s]
  <2> DEFINE new == [resets EXCEPT ![t] = rec]
  <2>1. /\ new \in Seq(Reset) /\ DOMAIN new = DOMAIN resets /\ Len(new) = Len(resets)
        /\ new[t] = rec /\ \A s \in DOMAIN resets : s # t => new[s] = resets[s]
    BY <1>2, SeqPut
  <2>2. resets' = new
    BY <1>1
  <2> HIDE DEF new
  <2> QED BY <2>1, <2>2
<1>4. resets'[t].used /\ resets'[t].user = resets[t].user
  BY <1>2, <1>3
<1>5. ASSUME NEW s \in DOMAIN resets
      PROVE  resets'[s].user = resets[s].user /\ (resets[s].used => resets'[s].used)
  BY <1>3, <1>4, <1>5
<1> QED BY <1>3, <1>4, <1>5 DEF TokensKept

LEMMA ResetRetireIs ==
  ASSUME AccountsTyped, NEW r \in Requests, ResetRetire(r)
  PROVE  /\ AccountsTyped' /\ UNCHANGED <<users, invites, now, seen>> /\ Step(r, "reset", "retire")
         /\ req'[r] = Idle /\ \A p \in Requests : p # r => req'[p] = req[p]
         /\ DOMAIN resets' = DOMAIN resets
         /\ \A t \in DOMAIN resets :
              /\ resets'[t].user = resets[t].user
              /\ resets[t].used => resets'[t].used
<1>1. /\ UNCHANGED <<users, invites, now, seen>> /\ req' = [req EXCEPT ![r] = Idle]
      /\ resets' = Retire(resets[req[r].id].user, resets)
  BY DEF ResetRetire, Done
<1>2. resets \in Seq(Reset)
  BY DEF AccountsTyped, AccountsTypeOK
<1>3. /\ resets' \in Seq(Reset) /\ DOMAIN resets' = DOMAIN resets /\ Len(resets') = Len(resets)
      /\ \A t \in DOMAIN resets :
           /\ resets'[t].user = resets[t].user
           /\ resets[t].used => resets'[t].used
  BY <1>1, <1>2, RetireIs
<1>4. AccountsTyped' /\ req'[r] = Idle /\ \A p \in Requests : p # r => req'[p] = req[p]
  BY <1>1, <1>3, TokensTyped
<1> QED BY <1>1, <1>3, <1>4 DEF ResetRetire

PasswordWrite(r) == ResetWrite(r) \/ LoginSave(r) \/ ChangeWrite(r)

LEMMA SeqBump ==
  ASSUME NEW s \in Seq(Nat), NEW i \in DOMAIN s, NEW n \in Nat
  PROVE  /\ [s EXCEPT ![i] = n] \in Seq(Nat) /\ Len([s EXCEPT ![i] = n]) = Len(s)
         /\ [s EXCEPT ![i] = n][i] = n
         /\ \A j \in DOMAIN s : j # i => [s EXCEPT ![i] = n][j] = s[j]
BY SeqPut

Wrong(q) == q.op = "login" /\ q.arg # "right"
Changed(q) == IF Wrong(q) THEN Failed(q.row) ELSE Clear(q.row)

\* A log-in, a reset and a change of password save what they changed of the rec
\* they loaded, and the memory of wrong passwords follows.
LEMMA PasswordIs ==
  ASSUME AccountsTyped, NEW r \in Requests, PasswordWrite(r)
  PROVE  LET u == Target(req[r])   q == req[r]
         IN  /\ q \in Work /\ u \in DOMAIN users /\ q.row \in User /\ Of(r, "password") /\ q.at = "write"
             /\ q.op \in {"reset", "login", "change"} /\ (ResetWrite(r) <=> q.op = "reset")
             /\ users' = [users EXCEPT ![u] = Save(u, q.row, Changed(q))]
             /\ UNCHANGED <<invites, now>> /\ TokensKept
             /\ q.op = "reset" => resets'[q.id].used
             /\ seen' \in SeenSpace /\ Len(seen'.wrong) = Len(seen.wrong)
             /\ seen'.via = seen.via /\ seen'.raced = seen.raced /\ seen'.crashed = seen.crashed
             /\ \A v \in DOMAIN users : v # u => seen'.wrong[v] = seen.wrong[v]
             /\ seen'.wrong[u] = IF Wrong(q) THEN seen.wrong[u] + 1 ELSE 0
             /\ Len(seen'.uses) = Len(seen.uses)
             /\ q.op = "reset" => /\ q.id \in DOMAIN resets /\ seen'.uses[q.id] = seen.uses[q.id] + 1
                                  /\ \A t \in DOMAIN resets : t # q.id => seen'.uses[t] = seen.uses[t]
             /\ q.op # "reset" => seen'.uses = seen.uses /\ Done(r)
<1> DEFINE u == Target(req[r])   rec == req[r].row   t == req[r].id   op == req[r].op
<1>0. /\ seen \in SeenSpace /\ seen.wrong \in Seq(Nat) /\ seen.uses \in Seq(Nat)
      /\ DOMAIN seen.wrong = DOMAIN users /\ DOMAIN seen.uses = DOMAIN resets
      /\ \A s \in DOMAIN resets : resets[s].user \in DOMAIN users
      /\ \A v \in DOMAIN users : users[v] \in User /\ seen.wrong[v] \in Nat
      /\ \A s \in DOMAIN resets : seen.uses[s] \in Nat
      /\ now \in Nat /\ resets \in Seq(Reset)
  <2>1. /\ seen \in SeenSpace /\ seen.wrong \in Seq(Nat) /\ seen.uses \in Seq(Nat) /\ users \in Seq(User)
        /\ now \in Nat /\ resets \in Seq(Reset)
        /\ Len(seen.wrong) = Len(users) /\ Len(seen.uses) = Len(resets)
        /\ \A s \in DOMAIN resets : resets[s].user \in DOMAIN users
    BY DEF AccountsTyped, AccountsTypeOK, TablesFit
  <2>2. DOMAIN seen.wrong = DOMAIN users /\ DOMAIN seen.uses = DOMAIN resets
    BY <2>1
  <2>3. \A v \in DOMAIN users : users[v] \in User /\ seen.wrong[v] \in Nat
    BY <2>1, <2>2
  <2>4. \A s \in DOMAIN resets : seen.uses[s] \in Nat
    BY <2>1, <2>2
  <2> QED BY <2>1, <2>2, <2>3, <2>4
<1>1. /\ req[r] \in Work /\ Fits(req[r]) /\ req[r] # Idle /\ req[r].at = "write"
      /\ \/ op = "reset" /\ ResetWrite(r)
         \/ op = "login" /\ LoginSave(r) /\ ~ResetWrite(r)
         \/ op = "change" /\ ChangeWrite(r) /\ ~ResetWrite(r)
  BY RequestType DEF PasswordWrite, ResetWrite, LoginSave, ChangeWrite, Step, AccountsTyped
<1>2. u \in DOMAIN users /\ rec \in User /\ Of(r, "password")
  BY <1>0, <1>1, FamilyIs DEF Fits, Target, Of
<1> DEFINE n == IF Wrong(req[r]) THEN seen.wrong[u] + 1 ELSE 0
           w == [seen.wrong EXCEPT ![u] = n]
           used == [seen.uses EXCEPT ![t] = seen.uses[t] + 1]
<1>3. n \in Nat
  BY <1>0, <1>2
<1>4. /\ w \in Seq(Nat) /\ Len(w) = Len(seen.wrong) /\ w[u] = n
      /\ \A v \in DOMAIN users : v # u => w[v] = seen.wrong[v]
  <2> HIDE DEF n, u
  <2> QED BY <1>0, <1>2, <1>3, SeqBump
<1>5. CASE op = "reset"
  <2>1. t \in DOMAIN resets /\ u = resets[t].user /\ ResetWrite(r) /\ ~Wrong(req[r])
    BY <1>1, <1>5 DEF Fits, Target, Wrong
  <2>2. seen.uses[t] + 1 \in Nat
    BY <1>0, <2>1
  <2>3. /\ used \in Seq(Nat) /\ Len(used) = Len(seen.uses) /\ used[t] = seen.uses[t] + 1
        /\ \A s \in DOMAIN resets : s # t => used[s] = seen.uses[s]
    BY <1>0, <2>1, <2>2, SeqBump
  <2>4. /\ users' = [users EXCEPT ![u] = Save(u, rec, Clear(rec))] /\ UNCHANGED <<invites, now>>
        /\ seen' = [seen EXCEPT !.wrong[u] = 0, !.uses[t] = @ + 1]
        /\ resets' = [resets EXCEPT ![t].used = TRUE]
    BY <2>1 DEF ResetWrite
  <2>8. TokensKept /\ resets'[t].used
    BY <1>0, <2>1, <2>4, MarkKeepsTokens
  <2>5. seen' = [seen EXCEPT !.wrong = w, !.uses = used] /\ n = 0
    BY <1>0, <2>1, <2>4 DEF SeenSpace
  <2>6. Changed(req[r]) = Clear(rec)
    BY <2>1 DEF Changed
  <2> HIDE DEF w, n, used, u, rec, t
  <2>7. /\ seen' \in SeenSpace /\ seen'.wrong = w /\ seen'.uses = used
        /\ seen'.via = seen.via /\ seen'.raced = seen.raced /\ seen'.crashed = seen.crashed
    BY <1>0, <1>4, <2>3, <2>5 DEF SeenSpace
  <2> QED BY <1>1, <1>2, <1>4, <1>5, <2>1, <2>3, <2>4, <2>5, <2>6, <2>7, <2>8 DEF u, rec, t
<1>6. CASE op # "reset"
  <2>1. u = t /\ ~ResetWrite(r) /\ op \in {"login", "change"}
    BY <1>1, <1>6 DEF Target
  <2>2. /\ users' = [users EXCEPT ![u] = Save(u, rec, Changed(req[r]))]
        /\ UNCHANGED <<invites, resets, now>> /\ seen' = [seen EXCEPT !.wrong = w] /\ Done(r)
    <3>1. CASE op = "login"
      BY <1>0, <1>1, <2>1, <3>1 DEF LoginSave, Changed, Wrong, SeenSpace
    <3>2. CASE op = "change"
      BY <1>0, <1>1, <2>1, <3>2 DEF ChangeWrite, Changed, Wrong, SeenSpace
    <3> QED BY <2>1, <3>1, <3>2
  <2>4. TokensKept
    BY <1>0, <2>2 DEF TokensKept
  <2> HIDE DEF w, u, rec, t
  <2>3. /\ seen' \in SeenSpace /\ seen'.wrong = w /\ seen'.uses = seen.uses
        /\ seen'.via = seen.via /\ seen'.raced = seen.raced /\ seen'.crashed = seen.crashed
    BY <1>0, <1>4, <2>2 DEF SeenSpace
  <2> QED BY <1>1, <1>2, <1>4, <1>6, <2>1, <2>2, <2>3, <2>4 DEF u, rec, t
<1> QED BY <1>5, <1>6

LEMMA PasswordTyped ==
  ASSUME AccountsTyped, NEW r \in Requests, PasswordWrite(r)
  PROVE  LET u == Target(req[r])
         IN  /\ AccountsTyped' /\ u \in DOMAIN users
             /\ DOMAIN users' = DOMAIN users
             /\ users'[u] = Save(u, req[r].row, Changed(req[r])) /\ users'[u].role = users[u].role
             /\ \A v \in DOMAIN users : v # u => users'[v] = users[v]
             /\ \A p \in Requests : p # r => req'[p] = req[p]
             /\ req[r].op # "reset" => req'[r] = Idle
             /\ req[r].op = "reset" =>
                  /\ req'[r] # Idle /\ req'[r].op = "reset" /\ req'[r].at = "retire" /\ req'[r].id = req[r].id
<1> DEFINE u == Target(req[r])   rec == req[r].row   changed == Changed(req[r])
           saved == Save(u, rec, changed)
<1>1. /\ req[r] \in Work /\ u \in DOMAIN users /\ rec \in User /\ req[r].at = "write"
      /\ ResetWrite(r) <=> req[r].op = "reset"
      /\ users' = [users EXCEPT ![u] = saved]
      /\ UNCHANGED <<invites, now>> /\ TokensKept
      /\ seen' \in SeenSpace /\ Len(seen'.wrong) = Len(seen.wrong)
      /\ seen'.via = seen.via /\ Len(seen'.uses) = Len(seen.uses)
      /\ req[r].op = "reset" => req[r].id \in DOMAIN resets
      /\ req[r].op # "reset" => Done(r)
  BY PasswordIs
<1>2. AccountsTypeOK /\ now \in Nat
  BY DEF AccountsTyped, AccountsTypeOK
<1>3. /\ changed \in User /\ changed.email = rec.email /\ changed.role = rec.role
      /\ changed.locked = rec.locked \/ changed.locked <= now + MaxLock
  <2>1. /\ Clear(rec) \in User /\ Clear(rec).email = rec.email /\ Clear(rec).role = rec.role
        /\ Clear(rec).locked = 0 /\ Failed(rec) \in User /\ Failed(rec).email = rec.email
        /\ Failed(rec).role = rec.role
        /\ Failed(rec).failed = rec.failed + 1
        /\ rec.failed + 1 < MaxAttempts => Failed(rec).locked = rec.locked
        /\ rec.failed + 1 >= MaxAttempts => Failed(rec).locked \in now + 1 .. now + MaxLock
    BY <1>1, <1>2, ClearIs, FailedIs
  <2>2. rec.failed \in Nat
    BY <1>1 DEF User
  <2>3. 0 <= now + MaxLock
    BY <1>2, AccountConstants
  <2>4. Failed(rec).locked = rec.locked \/ Failed(rec).locked <= now + MaxLock
    BY <1>2, <2>1, <2>2, AccountConstants
  <2> QED BY <2>1, <2>3, <2>4 DEF Changed
<1> HIDE DEF changed
<1>4. saved \in User /\ saved.locked <= now + MaxLock /\ saved.role = users[u].role
  <2> HIDE DEF u, rec
  <2> QED BY <1>1, <1>2, <1>3, SavedRow
<1> HIDE DEF saved
<1>5. /\ users' \in Seq(User) /\ DOMAIN users' = DOMAIN users /\ Len(users') = Len(users)
      /\ users'[u] = saved /\ \A v \in DOMAIN users : v # u => users'[v] = users[v]
      /\ \A v \in DOMAIN users' : users'[v].locked <= now' + MaxLock
  <2> HIDE DEF u, rec
  <2> QED BY <1>1, <1>2, <1>4, UserPut
<1>6. PICK q \in Work \cup {Idle} :
        /\ req' = [req EXCEPT ![r] = q] /\ (q = Idle \/ Fits(q)')
        /\ req[r].op # "reset" => q = Idle
        /\ req[r].op = "reset" => q # Idle /\ q.op = "reset" /\ q.at = "retire" /\ q.id = req[r].id
  <2>1. CASE req[r].op = "reset"
    <3>1. Goto(r, "retire")
      BY <1>1, <2>1 DEF ResetWrite
    <3>2. PICK q \in Work : q = [req[r] EXCEPT !.at = "retire"]
      BY <1>1 DEF Work
    <3>3. q.op = "reset" /\ q.at = "retire" /\ q.id = req[r].id /\ q # Idle
      BY <1>1, <2>1, <3>2 DEF Work, Idle
    <3>4. req' = [req EXCEPT ![r] = q]
      BY <1>2, <3>1, <3>2 DEF Goto, AccountsTypeOK
    <3>5. Fits(q)'
      BY <1>1, <2>1, <3>3 DEF Fits, TokensKept
    <3> QED BY <2>1, <3>3, <3>4, <3>5
  <2>2. CASE req[r].op # "reset"
    BY <1>1, <2>2 DEF Done
  <2> QED BY <2>1, <2>2
<1>7. req' \in [Requests -> Work \cup {Idle}] /\ RequestsFit'
  BY <1>1, <1>5, <1>6, OthersFit DEF TokensKept
<1>8. req'[r] = q /\ \A p \in Requests : p # r => req'[p] = req[p]
  BY <1>2, <1>6, Moved
<1>9. TablesFit'
  <2>1. users # <<>> => users' # <<>>
    BY <1>2, <1>5 DEF AccountsTypeOK
  <2> QED BY <1>1, <1>5, <2>1 DEF AccountsTyped, TablesFit, TokensKept
<1>10. AccountsTypeOK'
  BY <1>1, <1>2, <1>5, <1>7 DEF AccountsTypeOK, SeenSpace, Races, TokensKept
<1> QED BY <1>1, <1>4, <1>5, <1>6, <1>7, <1>8, <1>9, <1>10 DEF AccountsTyped, u, saved, changed, rec

LEMMA InviteIs ==
  ASSUME AccountsTyped, NEW u \in DOMAIN users, CreateInvite(u)
  PROVE  LET n == Len(invites) + 1
         IN  /\ AccountsTyped' /\ UNCHANGED <<users, resets, now, req, seen>>
             /\ DOMAIN invites' = DOMAIN invites \cup {n} /\ n \notin DOMAIN invites
             /\ n \in Nat \ {0} /\ invites'[n].usedBy = 0
             /\ \A i \in DOMAIN invites : invites'[i] = invites[i]
<1> DEFINE n == Len(invites) + 1   rec == [expires |-> now + Life, usedBy |-> 0]
<1>1. /\ invites \in Seq(Invite) /\ now \in Nat /\ users \in Seq(User)
      /\ UNCHANGED <<users, resets, now, req, seen>> /\ invites' = Append(invites, rec)
  BY DEF AccountsTyped, AccountsTypeOK, CreateInvite
<1>2. rec \in Invite /\ rec.usedBy = 0
  BY <1>1, AccountConstants DEF Invite
<1> HIDE DEF rec
<1>3. /\ invites' \in Seq(Invite) /\ DOMAIN invites' = DOMAIN invites \cup {n} /\ n \notin DOMAIN invites
      /\ n \in Nat \ {0} /\ invites'[n] = rec /\ \A i \in DOMAIN invites : invites'[i] = invites[i]
  BY <1>1, <1>2, SeqAdd
<1>4. users # <<>>
  BY <1>1
<1>5. RequestsFit'
  <2> SUFFICES ASSUME NEW p \in Requests, req[p] # Idle PROVE Fits(req[p])'
    BY <1>1 DEF RequestsFit
  <2>1. Fits(req[p])
    BY DEF AccountsTyped, RequestsFit
  <2> HIDE DEF n
  <2> QED BY <1>1, <1>3, <2>1 DEF Fits
<1>6. AccountsTypeOK' /\ TablesFit' /\ (seen \in SeenSpace)'
  BY <1>1, <1>3, <1>4 DEF AccountsTyped, AccountsTypeOK, TablesFit
<1> QED BY <1>1, <1>2, <1>3, <1>5, <1>6 DEF AccountsTyped

LEMMA QuietTyped ==
  ASSUME AccountsTyped, Tick \/ HubCrash \/ UNCHANGED accountVars
  PROVE  AccountsTyped'
<1>0. /\ AccountsTypeOK /\ seen \in SeenSpace /\ TablesFit /\ RequestsFit /\ now \in Nat
      /\ users \in Seq(User) /\ \A u \in DOMAIN users : users[u].locked \in Nat
  <2>1. AccountsTypeOK /\ seen \in SeenSpace /\ TablesFit /\ RequestsFit /\ now \in Nat /\ users \in Seq(User)
    BY DEF AccountsTyped, AccountsTypeOK
  <2>2. \A u \in DOMAIN users : users[u] \in User
    BY <2>1
  <2>3. \A u \in DOMAIN users : users[u].locked \in Nat
    BY <2>2 DEF User
  <2> QED BY <2>1, <2>3
<1>1. CASE Tick
  <2>1. now' = now + 1 /\ UNCHANGED <<users, invites, resets, req, seen>>
    BY <1>1 DEF Tick
  <2>2. now' \in Nat /\ now' # 0 /\ \A u \in DOMAIN users : users[u].locked <= now' + MaxLock
    BY <1>0, <2>1, AccountConstants DEF AccountsTypeOK
  <2>3. RequestsFit' /\ TablesFit'
    BY <1>0, <2>1, <2>2 DEF RequestsFit, Fits, TablesFit
  <2>4. AccountsTypeOK'
    BY <1>0, <2>1, <2>2 DEF AccountsTypeOK
  <2> QED BY <1>0, <2>1, <2>3, <2>4 DEF AccountsTyped
<1>2. CASE HubCrash
  <2>1. /\ UNCHANGED <<users, invites, resets, now>> /\ req' = [p \in Requests |-> Idle]
        /\ seen' = [seen EXCEPT !.crashed = TRUE]
    BY <1>2 DEF HubCrash
  <2>2. /\ seen' \in SeenSpace /\ seen'.via = seen.via /\ seen'.wrong = seen.wrong
        /\ seen'.uses = seen.uses
    BY <1>0, <2>1 DEF SeenSpace
  <2>3. RequestsFit' /\ TablesFit'
    BY <1>0, <2>1, <2>2 DEF RequestsFit, TablesFit
  <2>4. AccountsTypeOK'
    BY <1>0, <2>1, <2>2 DEF AccountsTypeOK, SeenSpace, Races
  <2> QED BY <2>2, <2>3, <2>4 DEF AccountsTyped
<1>3. CASE UNCHANGED accountVars
  BY <1>0, <1>3 DEF AccountsTyped, AccountsTypeOK, TablesFit, RequestsFit, Fits, accountVars
<1> QED BY <1>1, <1>2, <1>3

\* The steps of the accounts, grouped by what they write.
Reads(r) == SetRoleLoad(r) \/ SetRoleCheck(r) \/ ResetLoad(r)
StepOf(r) ==
  \/ Starts(r) \/ Reads(r) \/ SetupAdmin(r) \/ RegisterAdd(r) \/ RegisterMark(r) \/ SetRoleWrite(r)
  \/ IssueRetire(r) \/ IssueAdd(r) \/ PasswordWrite(r) \/ ResetRetire(r)

LEMMA AccountSteps ==
  ASSUME [AccountsNext]_accountVars
  PROVE  \/ \E r \in Requests : StepOf(r)
         \/ \E u \in DOMAIN users : CreateInvite(u)
         \/ Tick \/ HubCrash \/ UNCHANGED accountVars
BY DEF AccountsNext, StepOf, Starts, Reads, PasswordWrite

LEMMA AccountsTypedStep ==
  ASSUME AccountsTyped, [AccountsNext]_accountVars
  PROVE  AccountsTyped'
<1>1. ASSUME NEW r \in Requests, StepOf(r) PROVE AccountsTyped'
  BY <1>1, ReadStepTyped, SetupIs, RegisterIs, MarkIs, RoleIs, IssueRetireIs, IssueAddIs,
     PasswordTyped, ResetRetireIs DEF StepOf, Reads
<1> QED BY <1>1, AccountSteps, InviteIs, QuietTyped

LEMMA AccountsTypedInit == AccountsInit => AccountsTyped
<1> SUFFICES ASSUME AccountsInit PROVE AccountsTyped
  OBVIOUS
<1>1. /\ users = <<>> /\ invites = <<>> /\ resets = <<>> /\ now = 1
      /\ req = [r \in Requests |-> Idle]
      /\ seen.via = <<>> /\ seen.wrong = <<>> /\ seen.uses = <<>> /\ seen.raced = {}
      /\ seen.crashed = FALSE /\ seen.requests = 0 /\ seen \in SeenSpace
  BY DEF AccountsInit, SeenSpace
<1>2. users \in Seq(User) /\ invites \in Seq(Invite) /\ resets \in Seq(Reset)
  BY <1>1
<1>3. seen.via \in Seq(Nat) /\ seen.wrong \in Seq(Nat) /\ seen.uses \in Seq(Nat)
  BY <1>1
<1>4. req \in [Requests -> Work \cup {Idle}] /\ now \in Nat /\ DOMAIN users = {}
  BY <1>1
<1>6. seen.raced \subseteq {Family[op] : op \in DOMAIN Family} /\ seen.crashed \in BOOLEAN
  BY <1>1, Zenon DEF SeenSpace
<1>7. seen.requests \in Nat /\ \A u \in DOMAIN users : users[u].locked <= now + MaxLock
  BY <1>1, <1>4
<1>5. AccountsTypeOK
  BY <1>2, <1>3, <1>4, <1>6, <1>7, Zenon DEF AccountsTypeOK
<1> QED BY <1>1, <1>4, <1>5 DEF AccountsTyped, TablesFit, RequestsFit

\* Every variable keeps its type and no lock reaches further than MaxLock ahead,
\* whatever the requests interleave and wherever the hub dies.
THEOREM AccountsTypesHold == AccountsSpec => []AccountsTypeOK
<1>1. AccountsTyped => AccountsTypeOK
  BY DEF AccountsTyped
<1> QED BY <1>1, AccountsTypedInit, AccountsTypedStep, PTL DEF AccountsSpec

LEMMA FiniteAdmins ==
  ASSUME AccountsTypeOK
  PROVE  IsFiniteSet(Admins)
<1>1. users \in Seq(User)
  BY DEF AccountsTypeOK
<1>2. Len(users) \in Nat /\ 1 \in Nat /\ DOMAIN users = 1 .. Len(users)
  BY <1>1
<1>3. IsFiniteSet(1 .. Len(users))
  BY <1>2, FS_Interval
<1>4. Admins \in SUBSET (1 .. Len(users))
  BY <1>2 DEF Admins
<1> QED BY <1>3, <1>4, FS_Subset

\* A request that only reads ends or goes on as itself.
LEMMA ReadIs ==
  ASSUME AccountsTyped, NEW r \in Requests, Reads(r)
  PROVE  /\ UNCHANGED <<users, invites, resets, now, seen>> /\ req[r] # Idle
         /\ \A p \in Requests : p # r => req'[p] = req[p]
         /\ \/ req'[r] = Idle
            \/ /\ req'[r] # Idle /\ req'[r].op = req[r].op /\ req'[r].id = req[r].id
               /\ req'[r].arg = req[r].arg
               /\ \/ SetRoleLoad(r) /\ req[r].op = "role" /\ (req[r].arg = "admin" \/ req'[r].at = "check")
                  \/ SetRoleCheck(r) /\ req[r].op = "role" /\ Cardinality(Admins) > 1
                  \/ /\ ResetLoad(r) /\ req[r].op = "reset" /\ req[r].at = "load" /\ req'[r].at = "write"
                     /\ req'[r].row = users[resets[req[r].id].user]
<1>0. /\ req[r] \in Work /\ Fits(req[r]) /\ req[r] # Idle /\ UNCHANGED <<users, invites, resets, now, seen>>
      /\ req \in [Requests -> Work \cup {Idle}]
  BY RequestType DEF Reads, SetRoleLoad, SetRoleCheck, ResetLoad, Step, AccountsTyped, AccountsTypeOK
<1>1. CASE Done(r)
  BY <1>0, <1>1 DEF Done
<1>2. \A q : q.op \in DOMAIN Family => q # Idle
  BY FamilyIs DEF Idle
<1>3. req[r].op \in DOMAIN Family /\ Cardinality(Admins) \in Nat
  <2>1. IsFiniteSet(Admins)
    BY FiniteAdmins DEF AccountsTyped
  <2> QED BY <1>0, <2>1, FS_CardinalityType DEF Work
<1>4. CASE SetRoleLoad(r) /\ ~Done(r)
  <2> DEFINE rec == IF req[r].row = Idle THEN users[req[r].id] ELSE req[r].row
             at == IF rec.role = "admin" THEN "check" ELSE "write"
             q == [req[r] EXCEPT !.row = rec, !.at = at]
  <2>1. /\ req' = [req EXCEPT ![r] = q] /\ req[r].op = "role" /\ req[r].at = "load"
        /\ rec.role # req[r].arg
    BY <1>0, <1>4 DEF SetRoleLoad, Step
  <2>2. req[r].arg = "admin" \/ at = "check"
    <3>1. req[r].id \in DOMAIN users /\ (req[r].row = Idle \/ req[r].row \in User) /\ req[r].arg \in {"admin", "member"}
      BY <1>0, <2>1 DEF Fits
    <3>2. rec \in User
      BY <3>1 DEF AccountsTyped, AccountsTypeOK
    <3>3. rec.role \in {"admin", "member"}
      BY <3>2 DEF User
    <3> QED BY <2>1, <3>1, <3>3
  <2> HIDE DEF rec, at
  <2>3. q.op = req[r].op /\ q.id = req[r].id /\ q.arg = req[r].arg /\ q.at = at
    BY <1>0 DEF Work
  <2> HIDE DEF q
  <2>4. req'[r] = q /\ \A p \in Requests : p # r => req'[p] = req[p]
    BY <1>0, <2>1
  <2>5. q # Idle
    BY <1>2, <1>3, <2>3
  <2> QED BY <1>0, <1>4, <2>1, <2>2, <2>3, <2>4, <2>5
<1>5. CASE SetRoleCheck(r) /\ ~Done(r)
  <2>1. Cardinality(Admins) > 1 /\ req' = [req EXCEPT ![r].at = "write"] /\ req[r].op = "role"
    BY <1>3, <1>5 DEF SetRoleCheck, Goto, Step
  <2>2. /\ req'[r].op = req[r].op /\ req'[r].id = req[r].id /\ req'[r].arg = req[r].arg
        /\ \A p \in Requests : p # r => req'[p] = req[p]
    BY <1>0, <2>1 DEF Work
  <2>3. req'[r] # Idle
    BY <1>2, <1>3, <2>2
  <2> QED BY <1>0, <1>5, <2>1, <2>2, <2>3
<1>6. CASE ResetLoad(r)
  <2> DEFINE rec == users[resets[req[r].id].user]
             q == [req[r] EXCEPT !.at = "write", !.row = rec]
  <2>1. /\ req' = [req EXCEPT ![r] = q] /\ req[r].op = "reset" /\ req[r].at = "load"
    BY <1>0, <1>6 DEF ResetLoad, Step
  <2> HIDE DEF rec
  <2>2. q.op = req[r].op /\ q.id = req[r].id /\ q.arg = req[r].arg /\ q.at = "write" /\ q.row = rec
    BY <1>0 DEF Work
  <2> HIDE DEF q
  <2>3. req'[r] = q /\ \A p \in Requests : p # r => req'[p] = req[p]
    BY <1>0, <2>1
  <2>4. q # Idle
    BY <1>2, <1>3, <2>2
  <2> QED BY <1>0, <1>6, <2>1, <2>2, <2>3, <2>4 DEF rec
<1> QED BY <1>1, <1>4, <1>5, <1>6 DEF Reads

\* A request that has started goes on as itself until it ends, and no race begins.
LEMMA Onwards ==
  ASSUME AccountsTyped, NEW r \in Requests, StepOf(r), ~Starts(r)
  PROVE  /\ seen'.raced = seen.raced /\ seen'.crashed = seen.crashed
         /\ \A p \in Requests : p # r => req'[p] = req[p]
         /\ req[r] # Idle
         /\ req'[r] # Idle => req'[r].op = req[r].op /\ req'[r].id = req[r].id
<1>0. AccountsTypeOK /\ seen \in SeenSpace /\ req[r] # Idle
  BY RequestType DEF AccountsTyped, StepOf, Reads, SetRoleLoad, SetRoleCheck, ResetLoad, SetupAdmin, RegisterAdd,
     RegisterMark, SetRoleWrite, IssueRetire, IssueAdd, PasswordWrite, ResetWrite, LoginSave, ChangeWrite,
     ResetRetire, Step
<1>1. CASE SetupAdmin(r)
  <2>1. Done(r) /\ seen'.raced = seen.raced /\ seen'.crashed = seen.crashed
    BY <1>0, <1>1 DEF SetupAdmin, AddUser, SeenSpace
  <2> QED BY <1>0, <2>1, Moved DEF Done
<1>2. CASE RegisterAdd(r)
  <2>1. CASE UNCHANGED seen /\ Done(r)
    BY <1>0, <2>1, Moved DEF Done
  <2> QED BY <1>0, <1>2, <2>1, RegisterIs DEF RegisterAdd, Step
<1>3. CASE Reads(r)
  BY <1>0, <1>3, ReadIs
<1>4. CASE RegisterMark(r)
  BY <1>0, <1>4, MarkIs
<1>5. CASE SetRoleWrite(r)
  BY <1>0, <1>5, RoleIs
<1>6. CASE IssueRetire(r)
  BY <1>0, <1>6, IssueRetireIs DEF Step
<1>7. CASE IssueAdd(r)
  BY <1>0, <1>7, IssueAddIs
<1>8. CASE PasswordWrite(r)
  BY <1>0, <1>8, PasswordIs, PasswordTyped
<1>10. CASE ResetRetire(r)
  BY <1>0, <1>10, ResetRetireIs
<1> QED BY <1>1, <1>2, <1>3, <1>4, <1>5, <1>6, <1>7, <1>8, <1>10 DEF StepOf

\* A start is the only step that adds a request; what raced is remembered.
LEMMA Begins ==
  ASSUME AccountsTyped, NEW r \in Requests, Starts(r)
  PROVE  \E q \in Work :
         /\ Fits(q) /\ Start(r, q.op, q.at, q.id, q.arg, q.row)
         /\ UNCHANGED <<users, invites, resets, now>> /\ req[r] = Idle
         /\ req'[r] = q /\ req'[r] # Idle /\ \A p \in Requests : p # r => req'[p] = req[p]
         /\ seen'.via = seen.via /\ seen'.wrong = seen.wrong /\ seen'.uses = seen.uses
         /\ seen'.crashed = seen.crashed /\ seen.raced \subseteq seen'.raced
         /\ \A p \in Requests : Of(p, Family[q.op]) => Family[q.op] \in seen'.raced
<1>0. AccountsTypeOK /\ seen \in SeenSpace
  BY DEF AccountsTyped
<1>1. PICK q \in Work : Fits(q) /\ q.new = 0 /\ Start(r, q.op, q.at, q.id, q.arg, q.row)
  BY StartFits
<1>2. /\ UNCHANGED <<users, invites, resets, now>> /\ req[r] = Idle
      /\ req'[r] = q /\ \A p \in Requests : p # r => req'[p] = req[p]
      /\ seen'.via = seen.via /\ seen'.wrong = seen.wrong /\ seen'.uses = seen.uses
      /\ seen'.crashed = seen.crashed /\ seen.raced \subseteq seen'.raced
      /\ \A p \in Requests : Of(p, Family[q.op]) => Family[q.op] \in seen'.raced
  BY <1>0, <1>1, StartEffect
<1>3. q # Idle
  BY <1>1, FamilyIs DEF Work, Idle
<1> QED BY <1>1, <1>2, <1>3

LEMMA RacesStep ==
  ASSUME AccountsTyped, RacesAreSeen, [AccountsNext]_accountVars
  PROVE  RacesAreSeen'
<1>1. ASSUME NEW r \in Requests, Starts(r) PROVE RacesAreSeen'
  <2>1. PICK q \in Work :
         /\ req'[r] = q /\ req'[r] # Idle /\ \A p \in Requests : p # r => req'[p] = req[p]
         /\ seen.raced \subseteq seen'.raced
         /\ \A p \in Requests : Of(p, Family[q.op]) => Family[q.op] \in seen'.raced
    BY <1>1, Begins
  <2>2. ASSUME NEW p \in Requests, p # r, NEW family, Of(p, family)' PROVE Of(p, family)
    BY <2>1, <2>2 DEF Of
  <2>3. ASSUME NEW p \in Requests, p # r, NEW family, Of(p, family)', Of(r, family)'
        PROVE  family \in seen'.raced
    BY <2>1, <2>2, <2>3 DEF Of
  <2>4. ASSUME NEW p \in Requests, NEW s \in Requests, NEW family \in Races, Of(p, family)', Of(s, family)', p # s
        PROVE  family \in seen'.raced
    <3>1. CASE p = r
      BY <2>3, <2>4, <3>1
    <3>2. CASE s = r
      BY <2>3, <2>4, <3>2
    <3>3. CASE p # r /\ s # r
      BY <2>1, <2>2, <2>4, <3>3 DEF RacesAreSeen
    <3> QED BY <3>1, <3>2, <3>3
  <2> QED BY <2>4 DEF RacesAreSeen, Of
<1>2. ASSUME seen'.raced = seen.raced, \A p \in Requests, family \in Races : Of(p, family)' => Of(p, family)
      PROVE  RacesAreSeen'
  BY <1>2, Zenon DEF RacesAreSeen
<1>3. ASSUME NEW r \in Requests, StepOf(r), ~Starts(r) PROVE RacesAreSeen'
  <2>1. /\ seen'.raced = seen.raced
        /\ \A p \in Requests : p # r => req'[p] = req[p]
        /\ req[r] # Idle
        /\ req'[r] # Idle => req'[r].op = req[r].op
    BY <1>3, Onwards
  <2>2. \A p \in Requests, family \in Races : Of(p, family)' => Of(p, family)
    BY <2>1 DEF Of
  <2> QED BY <1>2, <2>1, <2>2
<1>4. CASE (\E u \in DOMAIN users : CreateInvite(u)) \/ Tick \/ UNCHANGED accountVars
  BY <1>2, <1>4 DEF CreateInvite, Tick, accountVars, Of
<1>5. CASE HubCrash
  <2>1. /\ \A p \in Requests : req'[p] = Idle
        /\ seen' = [seen EXCEPT !.crashed = TRUE]
    BY <1>5 DEF HubCrash
  <2>2. seen'.raced = seen.raced
    BY <2>1 DEF AccountsTyped, SeenSpace
  <2> QED BY <1>2, <2>1, <2>2 DEF Of
<1> QED BY <1>1, <1>3, <1>4, <1>5, AccountSteps

\* Two requests of a family that has not raced are one.
LEMMA OneOfFamily ==
  ASSUME RacesAreSeen, NEW family \in Races, family \notin seen.raced,
         NEW r \in Requests, NEW p \in Requests, Of(r, family), Of(p, family)
  PROVE  r = p
BY DEF RacesAreSeen

\* Where there is an invite there is an account.
LEMMA InvitedOrMade ==
  ASSUME AccountsTyped, NEW i \in DOMAIN invites
  PROVE  i # 0 /\ DOMAIN users # {} /\ users # <<>>
<1>1. invites \in Seq(Invite) /\ users \in Seq(User) /\ (invites # <<>> => users # <<>>)
  BY DEF AccountsTyped, AccountsTypeOK, TablesFit
<1>2. DOMAIN invites = 1 .. Len(invites) /\ Len(invites) \in Nat /\ invites # <<>>
  BY <1>1
<1>3. Len(users) # 0 /\ DOMAIN users = 1 .. Len(users) /\ Len(users) \in Nat
  BY <1>1, <1>2, EmptySeq
<1>4. 1 \in 1 .. Len(users)
  BY <1>3
<1>5. i \in Nat /\ i # 0
  BY <1>2
<1> QED BY <1>1, <1>2, <1>3, <1>4, <1>5

LEMMA StartOp ==
  ASSUME AccountsTypeOK, NEW r \in Requests, NEW op, NEW at, NEW id, NEW arg, NEW rec,
         Start(r, op, at, id, arg, rec)
  PROVE  /\ req'[r].op = op /\ req'[r].at = at /\ req'[r].id = id /\ req'[r].arg = arg /\ req'[r].row = rec
BY DEF Start, AccountsTypeOK

\* How each kind of request starts.
LEMMA StartIs ==
  ASSUME AccountsTypeOK, NEW r \in Requests, Starts(r)
  PROVE  \/ req'[r].op = "setup" /\ users = <<>>
         \/ req'[r].op = "register" /\ req'[r].at = "write" /\ req'[r].id \in DOMAIN invites
            /\ invites[req'[r].id].usedBy = 0
         \/ req'[r].op = "role" /\ req'[r].at = "load"
         \/ req'[r].op = "issue" /\ req'[r].at = "retire"
         \/ req'[r].op = "reset" /\ req'[r].at = "load" /\ req'[r].id \in DOMAIN resets
            /\ ~resets[req'[r].id].used
         \/ req'[r].op \in {"login", "change"} /\ req'[r].at = "write" /\ req'[r].id \in DOMAIN users
            /\ req'[r].row = users[req'[r].id]
BY StartOp DEF Starts, SetupStart, RegisterStart, SetRoleStart, IssueStart, ResetStart, LoginStart, ChangeStart

LEMMA SetupStep ==
  ASSUME AccountsTyped, RacesAreSeen, RacesAreSeen', SetupInv, [AccountsNext]_accountVars
  PROVE  SetupInv'
<1>1. ASSUME DOMAIN users' = DOMAIN users, seen'.via = seen.via, seen.raced \subseteq seen'.raced,
             "setup" \notin seen'.raced =>
               \A p \in Requests : Of(p, "setup")' => Of(p, "setup") \/ DOMAIN users = {}
      PROVE  SetupInv'
  BY <1>1, Zenon DEF SetupInv
<1>2. ASSUME NEW r \in Requests, Starts(r) PROVE SetupInv'
  <2>1. /\ UNCHANGED users /\ req'[r] # Idle /\ \A p \in Requests : p # r => req'[p] = req[p]
        /\ seen'.via = seen.via /\ seen.raced \subseteq seen'.raced
    BY <1>2, Begins
  <2>2. ASSUME NEW p \in Requests, Of(p, "setup")' PROVE Of(p, "setup") \/ DOMAIN users = {}
    <3>1. CASE p # r
      BY <2>1, <2>2, <3>1 DEF Of
    <3>2. CASE p = r
      <4>1. req'[r].op = "setup" \/ req'[r].op \in {"register", "role", "issue", "reset", "login", "change"}
        BY <1>2, StartIs DEF AccountsTyped
      <4>2. req'[r].op = "setup"
        BY <2>2, <3>2, <4>1, FamilyIs DEF Of
      <4> QED BY <1>2, <4>2, StartIs DEF AccountsTyped
    <3> QED BY <3>1, <3>2
  <2> QED BY <1>1, <2>1, <2>2
<1>3. ASSUME NEW r \in Requests, StepOf(r), ~Starts(r) PROVE SetupInv'
  <2>1. /\ seen'.raced = seen.raced
        /\ \A p \in Requests : p # r => req'[p] = req[p]
        /\ req[r] # Idle
        /\ req'[r] # Idle => req'[r].op = req[r].op
    BY <1>3, Onwards
  <2>2. \A p \in Requests : Of(p, "setup")' => Of(p, "setup")
    BY <2>1 DEF Of
  <2>3. ASSUME DOMAIN users' = DOMAIN users, seen'.via = seen.via PROVE SetupInv'
    BY <1>1, <2>1, <2>2, <2>3
  <2>4. CASE SetupAdmin(r)
    <3>2. Of(r, "setup") /\ req'[r] = Idle
      BY <2>4, SetupIs, FamilyIs DEF Of
    <3>3. CASE ~UNCHANGED <<users, seen>>
      <4> DEFINE n == Len(users) + 1
      <4>1. /\ DOMAIN users' = DOMAIN users \cup {n}
            /\ \A u \in DOMAIN users : seen'.via[u] = seen.via[u]
        BY <2>4, <3>3, SetupIs
      <4>2. SUFFICES ASSUME "setup" \notin seen'.raced PROVE SetupInv'
        BY DEF SetupInv
      <4>3. DOMAIN users = {}
        BY <2>1, <3>2, <4>2 DEF SetupInv
      <4>4. \A p \in Requests : ~Of(p, "setup")'
        <5>1. ASSUME NEW p \in Requests, Of(p, "setup")' PROVE FALSE
          <6>1. p # r /\ Of(p, "setup")
            BY <2>2, <3>2, <5>1 DEF Of
          <6> QED BY <2>1, <3>2, <4>2, <6>1, FamilyIs, OneOfFamily
        <5> QED BY <5>1
      <4> HIDE DEF n
      <4> QED BY <4>1, <4>3, <4>4, Zenon DEF SetupInv
    <3>4. CASE UNCHANGED <<users, seen>>
      BY <2>3, <3>4
    <3> QED BY <3>3, <3>4
  <2>5. CASE RegisterAdd(r)
    <3>1. CASE UNCHANGED <<users, seen>>
      BY <2>3, <3>1
    <3>2. CASE ~UNCHANGED <<users, seen>>
      <4> DEFINE n == Len(users) + 1
      <4>1. /\ DOMAIN users' = DOMAIN users \cup {n}
            /\ seen'.via[n] = req[r].id /\ \A u \in DOMAIN users : seen'.via[u] = seen.via[u]
        BY <2>5, <3>2, RegisterIs
      <4>2. req[r] \in Work /\ Fits(req[r]) /\ req[r].op = "register"
        BY <2>5, RequestType DEF RegisterAdd, Step, AccountsTyped
      <4>3. req[r].id \in DOMAIN invites
        BY <4>2 DEF Fits
      <4>4. req[r].id # 0 /\ DOMAIN users # {}
        BY <4>3, InvitedOrMade
      <4> HIDE DEF n
      <4>5. \A p \in Requests : Of(p, "setup")' /\ "setup" \notin seen.raced => DOMAIN users = {}
        BY <2>2 DEF SetupInv
      <4>6. SUFFICES ASSUME "setup" \notin seen'.raced PROVE SetupInv'
        BY DEF SetupInv
      <4>7. \A p \in Requests : ~Of(p, "setup")'
        BY <2>1, <4>4, <4>5, <4>6
      <4>8. \A u, v \in DOMAIN users : seen.via[u] = 0 /\ seen.via[v] = 0 => u = v
        BY <2>1, <4>6 DEF SetupInv
      <4>9. \A u, v \in DOMAIN users' : seen'.via[u] = 0 /\ seen'.via[v] = 0 => u = v
        BY <4>1, <4>4, <4>8
      <4> QED BY <4>7, <4>9, Zenon DEF SetupInv
    <3> QED BY <3>1, <3>2
  <2>6. CASE Reads(r)
    BY <2>3, <2>6, ReadIs
  <2>7. CASE SetRoleWrite(r)
    BY <2>3, <2>7, RoleIs
  <2>8. CASE PasswordWrite(r)
    BY <2>3, <2>8, PasswordIs, PasswordTyped
  <2>9. CASE RegisterMark(r)
    BY <2>3, <2>9 DEF RegisterMark
  <2>10. CASE IssueRetire(r) \/ ResetRetire(r)
    BY <2>3, <2>10 DEF IssueRetire, ResetRetire
  <2>11. CASE IssueAdd(r)
    BY <2>3, <2>11, IssueAddIs
  <2> QED BY <1>3, <2>4, <2>5, <2>6, <2>7, <2>8, <2>9, <2>10, <2>11 DEF StepOf
<1>4. CASE (\E u \in DOMAIN users : CreateInvite(u)) \/ Tick \/ UNCHANGED accountVars
  BY <1>1, <1>4 DEF CreateInvite, Tick, accountVars, Of
<1>5. CASE HubCrash
  <2>1. /\ \A p \in Requests : req'[p] = Idle
        /\ UNCHANGED users /\ seen' = [seen EXCEPT !.crashed = TRUE]
    BY <1>5 DEF HubCrash
  <2>2. seen'.raced = seen.raced /\ seen'.via = seen.via
    BY <2>1 DEF AccountsTyped, SeenSpace
  <2> QED BY <1>1, <2>1, <2>2 DEF Of
<1> QED BY <1>2, <1>3, <1>4, <1>5, AccountSteps

Demoting(p) == Step(p, "role", "write") /\ req[p].arg = "member"

\* A set all of whose members are one has at most one.
LEMMA AtMostOne ==
  ASSUME NEW S, \A u, v \in S : u = v, Cardinality(S) > 1
  PROVE  FALSE
<1>1. CASE S = {}
  <2>1. Cardinality(S) = 0
    BY <1>1, FS_EmptySet
  <2> QED BY <2>1
<1>2. CASE S # {}
  <2>1. PICK u \in S : S = {u}
    BY <1>2
  <2>2. Cardinality(S) = 1
    BY <2>1, FS_Singleton
  <2> QED BY <2>2
<1> QED BY <1>1, <1>2

\* More than one administrator: one besides any given account.
LEMMA AnotherAdmin ==
  ASSUME Cardinality(Admins) > 1, NEW u
  PROVE  \E a \in Admins : a # u
<1> SUFFICES ASSUME \A a \in Admins : a = u PROVE FALSE
  OBVIOUS
<1>1. \A a, b \in Admins : a = b
  OBVIOUS
<1> QED BY <1>1, AtMostOne

LEMMA RoleStep ==
  ASSUME AccountsTyped, RacesAreSeen, RoleInv, [AccountsNext]_accountVars
  PROVE  RoleInv'
<1>1. ASSUME seen.raced \subseteq seen'.raced, Admins \subseteq Admins', users' = <<>> \/ users # <<>> \/ Admins' # {},
             "role" \notin seen'.raced => \A p \in Requests :
               Demoting(p)' => (Demoting(p) /\ req'[p].id = req[p].id) \/ \E a \in Admins : a # req'[p].id
      PROVE  RoleInv'
  BY <1>1 DEF RoleInv, Demoting
<1>2. ASSUME NEW r \in Requests, Starts(r) PROVE RoleInv'
  <2>1. /\ UNCHANGED users /\ req'[r] # Idle /\ \A p \in Requests : p # r => req'[p] = req[p]
        /\ seen.raced \subseteq seen'.raced
    BY <1>2, Begins
  <2>2. ASSUME NEW p \in Requests, Demoting(p)' PROVE Demoting(p) /\ req'[p].id = req[p].id
    <3>1. CASE p # r
      BY <2>1, <2>2, <3>1 DEF Demoting, Step
    <3>2. CASE p = r
      <4>1. req'[r].op # "role" \/ req'[r].at = "load"
        BY <1>2, StartIs DEF AccountsTyped
      <4> QED BY <2>2, <3>2, <4>1 DEF Demoting, Step
    <3> QED BY <3>1, <3>2
  <2>3. Admins' = Admins
    BY <2>1 DEF Admins
  <2> QED BY <1>1, <2>1, <2>2, <2>3
<1>3. ASSUME NEW r \in Requests, StepOf(r), ~Starts(r) PROVE RoleInv'
  <2>1. /\ seen'.raced = seen.raced
        /\ \A p \in Requests : p # r => req'[p] = req[p]
        /\ req[r] # Idle
        /\ req'[r] # Idle => req'[r].op = req[r].op /\ req'[r].id = req[r].id
    BY <1>3, Onwards
  <2>2. ASSUME req[r].op # "role", Admins \subseteq Admins', users' = <<>> \/ users # <<>> \/ Admins' # {}
        PROVE  RoleInv'
    <3>1. \A p \in Requests : Demoting(p)' => Demoting(p) /\ req'[p].id = req[p].id
      BY <2>1, <2>2 DEF Demoting, Step
    <3> QED BY <1>1, <2>1, <2>2, <3>1
  <2>3. CASE SetupAdmin(r) \/ RegisterAdd(r)
    <3>0. /\ req[r] \in Work /\ Fits(req[r]) /\ req[r].op \in {"setup", "register"}
          /\ UNCHANGED <<invites, resets, now>>
      BY <2>3, RequestType DEF SetupAdmin, RegisterAdd, Step, AccountsTyped
    <3>1. CASE UNCHANGED users
      <4>1. Admins' = Admins
        BY <3>1 DEF Admins
      <4> QED BY <2>2, <3>0, <3>1, <4>1
    <3>2. CASE SetupAdmin(r) /\ ~UNCHANGED users
      <4> DEFINE n == Len(users) + 1
      <4>2. /\ DOMAIN users' = DOMAIN users \cup {n} /\ users'[n].role = "admin"
            /\ \A u \in DOMAIN users : users'[u] = users[u]
        BY <3>2, SetupIs
      <4> HIDE DEF n
      <4>3. n \in Admins' /\ Admins \subseteq Admins'
        BY <4>2 DEF Admins
      <4> QED BY <2>2, <3>0, <4>3
    <3>3. CASE RegisterAdd(r) /\ ~UNCHANGED users
      <4>1. req[r].op = "register"
        BY <3>3 DEF RegisterAdd, Step
      <4>2. req[r].id \in DOMAIN invites
        BY <3>0, <4>1 DEF Fits
      <4>3. users # <<>>
        BY <4>2, InvitedOrMade
      <4>4. DOMAIN users \subseteq DOMAIN users' /\ \A u \in DOMAIN users : users'[u] = users[u]
        BY <3>3, RegisterIs
      <4>5. Admins \subseteq Admins'
        BY <4>4 DEF Admins
      <4> QED BY <2>2, <3>0, <4>3, <4>5
    <3> QED BY <2>3, <3>1, <3>2, <3>3
  <2>4. CASE Reads(r)
    <3>0. UNCHANGED users
      BY <2>4, ReadIs
    <3>1. UNCHANGED users /\ Admins' = Admins
      BY <3>0 DEF Admins
    <3>2. ASSUME NEW p \in Requests, Demoting(p)'
          PROVE  (Demoting(p) /\ req'[p].id = req[p].id) \/ \E a \in Admins : a # req'[p].id
      <4>1. CASE p # r
        BY <2>1, <3>2, <4>1 DEF Demoting, Step
      <4>2. CASE p = r
        <5>1. req'[r] # Idle /\ req'[r].op = "role" /\ req'[r].at = "write" /\ req'[r].arg = "member"
          BY <3>2, <4>2 DEF Demoting, Step
        <5>2. Cardinality(Admins) > 1
          BY <2>4, <5>1, ReadIs
        <5> QED BY <4>2, <5>2, AnotherAdmin
      <4> QED BY <4>1, <4>2
    <3> QED BY <1>1, <2>1, <3>1, <3>2
  <2>5. CASE SetRoleWrite(r)
    <3> DEFINE u == req[r].id
    <3>1. /\ u \in DOMAIN users /\ DOMAIN users' = DOMAIN users /\ users'[u].role = req[r].arg
          /\ \A v \in DOMAIN users : v # u => users'[v] = users[v]
          /\ req'[r] = Idle
      BY <2>5, RoleIs
    <3>2. /\ req[r].op = "role" /\ req[r].at = "write" /\ req[r].arg \in {"admin", "member"} /\ Of(r, "role")
      <4>1. req[r].op = "role" /\ req[r].at = "write" /\ Fits(req[r])
        BY <2>5, RequestType DEF SetRoleWrite, Step, AccountsTyped
      <4>2. req[r].arg \in {"admin", "member"}
        BY <4>1 DEF Fits
      <4> QED BY <2>1, <4>1, <4>2, FamilyIs DEF Of
    <3> SUFFICES ASSUME "role" \notin seen'.raced PROVE RoleInv'
      BY DEF RoleInv
    <3>3. Admins' # {}
      <4>1. CASE req[r].arg = "admin"
        BY <3>1, <4>1 DEF Admins
      <4>2. CASE req[r].arg = "member"
        <5>1. PICK a \in Admins : a # u
          BY <2>1, <3>2, <4>2 DEF RoleInv, Step
        <5> QED BY <3>1, <5>1 DEF Admins
      <4> QED BY <3>2, <4>1, <4>2
    <3>4. \A p \in Requests : ~Demoting(p)'
      <4> SUFFICES ASSUME NEW p \in Requests, Demoting(p)' PROVE FALSE
        OBVIOUS
      <4>1. p # r /\ req'[p] = req[p]
        BY <2>1, <3>1 DEF Demoting, Step
      <4>2. Of(p, "role")
        BY <4>1, FamilyIs DEF Demoting, Step, Of
      <4> QED BY <2>1, <3>2, <4>1, <4>2, FamilyIs, OneOfFamily
    <3> QED BY <3>3, <3>4, Zenon DEF RoleInv, Demoting
  <2>6. CASE PasswordWrite(r)
    <3> DEFINE u == Target(req[r])
    <3>1. /\ DOMAIN users' = DOMAIN users /\ u \in DOMAIN users /\ users'[u].role = users[u].role
          /\ \A v \in DOMAIN users : v # u => users'[v] = users[v]
      BY <2>6, PasswordTyped
    <3>2. req[r].op # "role" /\ users # <<>>
      <4>1. req[r].op \in {"reset", "login", "change"}
        BY <2>6, PasswordIs
      <4>2. users # <<>>
        BY <3>1
      <4> QED BY <4>1, <4>2
    <3> HIDE DEF u
    <3>3. Admins' = Admins
      BY <3>1 DEF Admins
    <3> QED BY <2>2, <3>2, <3>3
  <2>7. CASE RegisterMark(r) \/ IssueRetire(r) \/ IssueAdd(r) \/ ResetRetire(r)
    <3>1. UNCHANGED users /\ req[r].op # "role"
      BY <2>7 DEF RegisterMark, IssueRetire, IssueAdd, ResetRetire, Step
    <3>2. Admins' = Admins
      BY <3>1 DEF Admins
    <3> QED BY <2>2, <3>1, <3>2
  <2> QED BY <1>3, <2>3, <2>4, <2>5, <2>6, <2>7 DEF StepOf
<1>4. CASE (\E u \in DOMAIN users : CreateInvite(u)) \/ Tick \/ UNCHANGED accountVars
  <2>1. UNCHANGED <<users, req, seen>>
    BY <1>4 DEF CreateInvite, Tick, accountVars
  <2>2. Admins' = Admins
    BY <2>1 DEF Admins
  <2> QED BY <1>1, <2>1, <2>2 DEF Demoting, Step
<1>5. CASE HubCrash
  <2>1. /\ \A p \in Requests : req'[p] = Idle
        /\ UNCHANGED users /\ seen' = [seen EXCEPT !.crashed = TRUE]
    BY <1>5 DEF HubCrash
  <2>2. seen'.raced = seen.raced /\ Admins' = Admins
    BY <2>1 DEF AccountsTyped, SeenSpace, Admins
  <2> QED BY <1>1, <2>1, <2>2 DEF Demoting, Step
<1> QED BY <1>2, <1>3, <1>4, <1>5, AccountSteps

\* The promise about administrators, for every number of accounts, requests and
\* interleavings: set_role loses the last one only when two role changes overlap,
\* and only overlapping set-ups make two accounts without an invite.
THEOREM AdminsHoldAlways == AccountsSpec => []AdminsHold
<1> DEFINE IInv == AccountsTyped /\ RacesAreSeen /\ SetupInv /\ RoleInv
<1>1. AccountsInit => IInv
  <2> SUFFICES ASSUME AccountsInit PROVE IInv
    OBVIOUS
  <2>1. AccountsTyped
    BY AccountsTypedInit
  <2>2. users = <<>> /\ DOMAIN users = {} /\ \A r \in Requests : req[r] = Idle
    BY DEF AccountsInit
  <2> QED BY <2>1, <2>2 DEF RacesAreSeen, SetupInv, RoleInv, Of, Step
<1>2. IInv /\ [AccountsNext]_accountVars => IInv'
  <2> SUFFICES ASSUME IInv, [AccountsNext]_accountVars PROVE IInv'
    OBVIOUS
  <2>1. AccountsTyped'
    BY AccountsTypedStep
  <2>2. RacesAreSeen'
    BY RacesStep
  <2> QED BY <2>1, <2>2, SetupStep, RoleStep
<1>3. IInv => AdminsHold
  <2> SUFFICES ASSUME IInv PROVE AdminsHold
    OBVIOUS
  <2>1. LastAdminKept
    BY DEF LastAdminKept, RoleInv
  <2>2. OneSetup
    <3> DEFINE Founders == {u \in DOMAIN users : seen.via[u] = 0}
    <3> SUFFICES ASSUME "setup" \notin seen.raced, Cardinality(Founders) > 1 PROVE FALSE
      BY DEF OneSetup
    <3>1. \A u, v \in Founders : u = v
      BY DEF SetupInv
    <3> HIDE DEF Founders
    <3> QED BY <3>1, AtMostOne
  <2> QED BY <2>1, <2>2 DEF AdminsHold
<1> QED BY <1>1, <1>2, <1>3, PTL DEF AccountsSpec

LEMMA RegisterId ==
  ASSUME AccountsTyped, NEW p \in Requests, NEW at, Step(p, "register", at)
  PROVE  req[p].id \in DOMAIN invites /\ req[p].id # 0 /\ Of(p, "register")
<1>1. Fits(req[p]) /\ req[p].op = "register" /\ req[p] # Idle
  BY DEF AccountsTyped, RequestsFit, Step
<1>2. req[p].id \in DOMAIN invites
  BY <1>1 DEF Fits
<1> QED BY <1>1, <1>2, InvitedOrMade, FamilyIs DEF Of

LEMMA GuestFrame ==
  ASSUME AccountsTyped, GuestInv, seen.raced \subseteq seen'.raced, seen'.crashed = seen.crashed,
         DOMAIN users \subseteq DOMAIN users', \A u \in DOMAIN users : seen'.via[u] = seen.via[u],
         \A u \in DOMAIN users' : u \notin DOMAIN users => seen'.via[u] = 0,
         DOMAIN invites \subseteq DOMAIN invites', \A i \in DOMAIN invites : invites'[i] = invites[i],
         \A i \in DOMAIN invites' : i \notin DOMAIN invites => invites'[i].usedBy = 0 /\ i # 0,
         \A p \in Requests : Step(p, "register", "mark")
           => Step(p, "register", "mark")' /\ req'[p].id = req[p].id,
         \A p \in Requests : Step(p, "register", "write")'
           => \/ req'[p].id \in DOMAIN invites /\ invites[req'[p].id].usedBy = 0
              \/ Step(p, "register", "write") /\ req'[p].id = req[p].id
  PROVE  GuestInv'
<1>1. \A u \in DOMAIN users' : seen'.via[u] = 0 \/ seen'.via[u] \in DOMAIN invites'
  BY DEF GuestInv
<1>2. InviteNamesGuest'
  BY DEF GuestInv, InviteNamesGuest
<1>3. ASSUME "register" \notin seen'.raced, ~seen'.crashed
      PROVE  /\ \A u, v \in DOMAIN users' : seen'.via[u] = seen'.via[v] /\ seen'.via[u] # 0 => u = v
             /\ \A u \in DOMAIN users', i \in DOMAIN invites' : seen'.via[u] = i /\ invites'[i].usedBy = 0
                  => \E p \in Requests : Step(p, "register", "mark")' /\ req'[p].id = i
             /\ \A p \in Requests : Step(p, "register", "write")' => invites'[req'[p].id].usedBy = 0
  <2>1. "register" \notin seen.raced /\ ~seen.crashed
    BY <1>3
  <2>2. \A u, v \in DOMAIN users' : seen'.via[u] = seen'.via[v] /\ seen'.via[u] # 0 => u = v
    BY <2>1 DEF GuestInv
  <2>3. ASSUME NEW u \in DOMAIN users', NEW i \in DOMAIN invites', seen'.via[u] = i, invites'[i].usedBy = 0
        PROVE  \E p \in Requests : Step(p, "register", "mark")' /\ req'[p].id = i
    <3>1. i # 0
      BY InvitedOrMade
    <3>2. u \in DOMAIN users /\ seen.via[u] = i
      BY <2>3, <3>1
    <3>3. i \in DOMAIN invites /\ invites[i].usedBy = 0
      BY <2>3, <3>1, <3>2 DEF GuestInv
    <3>4. PICK p \in Requests : Step(p, "register", "mark") /\ req[p].id = i
      BY <2>1, <3>2, <3>3 DEF GuestInv
    <3> QED BY <3>4
  <2>4. ASSUME NEW p \in Requests, Step(p, "register", "write")' PROVE invites'[req'[p].id].usedBy = 0
    <3>1. CASE Step(p, "register", "write") /\ req'[p].id = req[p].id
      <4>1. req[p].id \in DOMAIN invites
        BY <3>1, RegisterId
      <4>2. invites[req[p].id].usedBy = 0
        BY <2>1, <3>1 DEF GuestInv
      <4> QED BY <3>1, <4>1, <4>2
    <3> QED BY <2>4, <3>1
  <2> QED BY <2>2, <2>3, <2>4
<1> QED BY <1>1, <1>2, <1>3, Zenon DEF GuestInv

LEMMA RegisterAddStep ==
  ASSUME AccountsTyped, RacesAreSeen, GuestInv, NEW r \in Requests, RegisterAdd(r), ~UNCHANGED <<users, seen>>
  PROVE  GuestInv'
<1> DEFINE n == Len(users) + 1   i == req[r].id
<1>1. /\ UNCHANGED <<invites, resets, now>>
      /\ req'[r].op = "register" /\ req'[r].at = "mark" /\ req'[r].id = i /\ req'[r] # Idle
      /\ \A p \in Requests : p # r => req'[p] = req[p]
      /\ DOMAIN users' = DOMAIN users \cup {n} /\ n \notin DOMAIN users
      /\ seen'.via[n] = i /\ \A u \in DOMAIN users : seen'.via[u] = seen.via[u]
      /\ seen'.raced = seen.raced /\ seen'.crashed = seen.crashed
  BY RegisterIs
<1> HIDE DEF n
<1>2. Step(r, "register", "write") /\ i \in DOMAIN invites /\ i # 0 /\ Of(r, "register")
  BY RegisterId DEF RegisterAdd
<1>3. ~Step(r, "register", "mark")
  BY <1>2 DEF Step
<1> HIDE DEF i
<1>4. \A u \in DOMAIN users' : seen'.via[u] = 0 \/ seen'.via[u] \in DOMAIN invites'
  BY <1>1, <1>2 DEF GuestInv
<1>5. InviteNamesGuest'
  BY <1>1 DEF GuestInv, InviteNamesGuest
<1>6. ASSUME "register" \notin seen'.raced, ~seen'.crashed
      PROVE  /\ \A u, v \in DOMAIN users' : seen'.via[u] = seen'.via[v] /\ seen'.via[u] # 0 => u = v
             /\ \A u \in DOMAIN users', j \in DOMAIN invites' : seen'.via[u] = j /\ invites'[j].usedBy = 0
                  => \E p \in Requests : Step(p, "register", "mark")' /\ req'[p].id = j
             /\ \A p \in Requests : Step(p, "register", "write")' => invites'[req'[p].id].usedBy = 0
  <2>1. "register" \notin seen.raced /\ ~seen.crashed
    BY <1>1, <1>6
  <2>2. \A p \in Requests, at \in {"write", "mark"} : Step(p, "register", at) => p = r
    BY <1>2, <2>1, RegisterId, FamilyIs, OneOfFamily
  <2>3. ~\E p \in Requests : Step(p, "register", "mark")
    BY <1>3, <2>2
  <2>4. invites[i].usedBy = 0
    BY <1>2, <2>1 DEF GuestInv, i
  <2>5. \A u \in DOMAIN users : seen.via[u] # i
    BY <1>2, <2>1, <2>3, <2>4 DEF GuestInv
  <2>6. \A u, v \in DOMAIN users : seen.via[u] = seen.via[v] /\ seen.via[u] # 0 => u = v
    BY <2>1 DEF GuestInv
  <2>7. \A u, v \in DOMAIN users' : seen'.via[u] = seen'.via[v] /\ seen'.via[u] # 0 => u = v
    BY <1>1, <2>5, <2>6
  <2>8. ASSUME NEW u \in DOMAIN users', NEW j \in DOMAIN invites', seen'.via[u] = j, invites'[j].usedBy = 0
        PROVE  \E p \in Requests : Step(p, "register", "mark")' /\ req'[p].id = j
    <3>1. CASE u = n
      <4>1. Step(r, "register", "mark")' /\ req'[r].id = j
        BY <1>1, <2>8, <3>1 DEF Step
      <4> QED BY <4>1
    <3>2. CASE u # n
      <4>1. \E p \in Requests : Step(p, "register", "mark") /\ req[p].id = j
        BY <1>1, <2>1, <2>8, <3>2 DEF GuestInv
      <4> QED BY <2>3, <4>1
    <3> QED BY <3>1, <3>2
  <2>9. \A p \in Requests : ~Step(p, "register", "write")'
    BY <1>1, <2>2 DEF Step
  <2> QED BY <2>7, <2>8, <2>9
<1> QED BY <1>4, <1>5, <1>6, Zenon DEF GuestInv

LEMMA RegisterMarkStep ==
  ASSUME AccountsTyped, RacesAreSeen, GuestInv, NEW r \in Requests, RegisterMark(r)
  PROVE  GuestInv'
<1> DEFINE i == req[r].id
<1>1. /\ UNCHANGED <<users, resets, now, seen>>
      /\ i \in DOMAIN invites /\ req[r].new \in DOMAIN users /\ req[r].new # 0
      /\ seen.via[req[r].new] = i
      /\ DOMAIN invites' = DOMAIN invites
      /\ invites'[i].usedBy = req[r].new
      /\ \A j \in DOMAIN invites : j # i => invites'[j] = invites[j]
      /\ req'[r] = Idle /\ \A p \in Requests : p # r => req'[p] = req[p]
  BY MarkIs
<1>2. Step(r, "register", "mark") /\ Of(r, "register")
  BY RegisterId DEF RegisterMark
<1>3. \A u \in DOMAIN users' : seen'.via[u] = 0 \/ seen'.via[u] \in DOMAIN invites'
  BY <1>1 DEF GuestInv
<1>4. InviteNamesGuest'
  <2>1. \A j \in DOMAIN invites : invites[j].usedBy # 0
          => invites[j].usedBy \in DOMAIN users /\ seen.via[invites[j].usedBy] = j
    BY DEF GuestInv, InviteNamesGuest
  <2>2. \A j \in DOMAIN invites' : invites'[j].usedBy # 0
          => invites'[j].usedBy \in DOMAIN users /\ seen.via[invites'[j].usedBy] = j
    <3> HIDE DEF i
    <3> QED BY <1>1, <2>1
  <2> QED BY <1>1, <2>2 DEF InviteNamesGuest
<1>5. ASSUME "register" \notin seen'.raced, ~seen'.crashed
      PROVE  /\ \A u, v \in DOMAIN users' : seen'.via[u] = seen'.via[v] /\ seen'.via[u] # 0 => u = v
             /\ \A u \in DOMAIN users', j \in DOMAIN invites' : seen'.via[u] = j /\ invites'[j].usedBy = 0
                  => \E p \in Requests : Step(p, "register", "mark")' /\ req'[p].id = j
             /\ \A p \in Requests : Step(p, "register", "write")' => invites'[req'[p].id].usedBy = 0
  <2>1. "register" \notin seen.raced /\ ~seen.crashed
    BY <1>1, <1>5
  <2>2. \A u, v \in DOMAIN users' : seen'.via[u] = seen'.via[v] /\ seen'.via[u] # 0 => u = v
    BY <1>1, <2>1 DEF GuestInv
  <2>3. ASSUME NEW u \in DOMAIN users', NEW j \in DOMAIN invites', seen'.via[u] = j, invites'[j].usedBy = 0
        PROVE  \E p \in Requests : Step(p, "register", "mark")' /\ req'[p].id = j
    <3>1. j # i /\ invites[j].usedBy = 0
      BY <1>1, <2>3
    <3>2. PICK p \in Requests : Step(p, "register", "mark") /\ req[p].id = j
      BY <1>1, <2>1, <2>3, <3>1 DEF GuestInv
    <3>3. Step(p, "register", "mark")' /\ req'[p].id = j
      BY <1>1, <3>1, <3>2 DEF Step
    <3> QED BY <3>3
  <2>4. ASSUME NEW p \in Requests, Step(p, "register", "write")' PROVE FALSE
    <3>1. p # r /\ Step(p, "register", "write")
      BY <1>1, <2>4 DEF Step
    <3>2. Of(p, "register")
      BY <3>1, RegisterId
    <3> QED BY <1>2, <2>1, <3>1, <3>2, FamilyIs, OneOfFamily
  <2> QED BY <2>2, <2>3, <2>4
<1> QED BY <1>3, <1>4, <1>5, Zenon DEF GuestInv

LEMMA GuestStep ==
  ASSUME AccountsTyped, RacesAreSeen, GuestInv, [AccountsNext]_accountVars
  PROVE  GuestInv'
<1>1. ASSUME NEW r \in Requests, Starts(r) PROVE GuestInv'
  <2>1. /\ UNCHANGED <<users, invites>> /\ req'[r] # Idle /\ req[r] = Idle
        /\ \A p \in Requests : p # r => req'[p] = req[p]
        /\ seen'.via = seen.via /\ seen'.crashed = seen.crashed /\ seen.raced \subseteq seen'.raced
    BY <1>1, Begins
  <2>2. ASSUME NEW p \in Requests, Step(p, "register", "write")'
        PROVE  \/ req'[p].id \in DOMAIN invites /\ invites[req'[p].id].usedBy = 0
               \/ Step(p, "register", "write") /\ req'[p].id = req[p].id
    <3>1. CASE p # r
      BY <2>1, <2>2, <3>1 DEF Step
    <3>2. CASE p = r
      <4>1. req'[r].op = "register"
        BY <2>2, <3>2 DEF Step
      <4> QED BY <1>1, <3>2, <4>1, StartIs DEF AccountsTyped
    <3> QED BY <3>1, <3>2
  <2>3. \A p \in Requests : Step(p, "register", "mark")
           => Step(p, "register", "mark")' /\ req'[p].id = req[p].id
    BY <2>1 DEF Step
  <2> QED BY <2>1, <2>2, <2>3, GuestFrame
<1>2. ASSUME NEW r \in Requests, StepOf(r), ~Starts(r) PROVE GuestInv'
  <2>1. /\ seen'.raced = seen.raced /\ seen'.crashed = seen.crashed
        /\ \A p \in Requests : p # r => req'[p] = req[p]
        /\ req[r] # Idle
        /\ req'[r] # Idle => req'[r].op = req[r].op
    BY <1>2, Onwards
  <2>2. ASSUME req[r].op # "register" \/ (req'[r] = Idle /\ req[r].at = "write"), UNCHANGED invites,
               DOMAIN users \subseteq DOMAIN users', \A u \in DOMAIN users : seen'.via[u] = seen.via[u],
               \A u \in DOMAIN users' : u \notin DOMAIN users => seen'.via[u] = 0
        PROVE  GuestInv'
    <3>1. \A p \in Requests : Step(p, "register", "mark")
           => Step(p, "register", "mark")' /\ req'[p].id = req[p].id
      BY <2>1, <2>2 DEF Step
    <3>2. \A p \in Requests : Step(p, "register", "write")'
           => Step(p, "register", "write") /\ req'[p].id = req[p].id
      BY <2>1, <2>2 DEF Step
    <3> QED BY <2>1, <2>2, <3>1, <3>2, GuestFrame
  <2>3. CASE SetupAdmin(r)
    <3>1. req[r].op = "setup" /\ UNCHANGED invites
      BY <2>3, SetupIs
    <3>3. CASE ~UNCHANGED <<users, seen>>
      <4> DEFINE n == Len(users) + 1
      <4>1. /\ DOMAIN users' = DOMAIN users \cup {n} /\ seen'.via[n] = 0
            /\ \A u \in DOMAIN users : seen'.via[u] = seen.via[u]
        BY <2>3, <3>3, SetupIs
      <4> HIDE DEF n
      <4> QED BY <2>2, <3>1, <4>1
    <3>4. CASE UNCHANGED <<users, seen>>
      BY <2>2, <3>1, <3>4
    <3> QED BY <3>3, <3>4
  <2>4. CASE RegisterAdd(r)
    <3>1. CASE UNCHANGED <<users, seen>>
      <4>1. CASE Done(r)
        <5>1. req'[r] = Idle /\ req[r].at = "write" /\ UNCHANGED invites
          BY <2>4, <4>1, Moved DEF AccountsTyped, Done, RegisterAdd, Step
        <5> QED BY <2>2, <3>1, <5>1
      <4>2. CASE ~Done(r)
        <5>1. DOMAIN users' # DOMAIN users
          BY <2>4, <4>2, RegisterIs
        <5> QED BY <3>1, <5>1
      <4> QED BY <4>1, <4>2
    <3> QED BY <2>4, <3>1, RegisterAddStep
  <2>5. CASE Reads(r)
    <3>1. UNCHANGED <<users, invites, seen>> /\ req[r].op # "register"
      BY <2>5, ReadIs DEF Reads, SetRoleLoad, SetRoleCheck, ResetLoad, Step
    <3> QED BY <2>2, <3>1
  <2>6. CASE SetRoleWrite(r)
    <3>1. UNCHANGED <<invites, seen>> /\ DOMAIN users' = DOMAIN users /\ req[r].op # "register"
      BY <2>6, RoleIs DEF SetRoleWrite, Step
    <3> QED BY <2>2, <3>1
  <2>7. CASE PasswordWrite(r)
    <3>1. /\ UNCHANGED invites /\ DOMAIN users' = DOMAIN users /\ seen'.via = seen.via
          /\ req[r].op \in {"reset", "login", "change"}
      BY <2>7, PasswordIs, PasswordTyped
    <3> QED BY <2>2, <3>1
  <2>8. CASE RegisterMark(r)
    BY <2>8, RegisterMarkStep
  <2>9. CASE IssueRetire(r) \/ ResetRetire(r)
    <3>1. UNCHANGED <<users, invites, seen>> /\ req[r].op # "register"
      BY <2>9 DEF IssueRetire, ResetRetire, Step
    <3> QED BY <2>2, <3>1
  <2>10. CASE IssueAdd(r)
    <3>1. UNCHANGED <<users, invites>> /\ seen'.via = seen.via /\ req[r].op # "register"
      BY <2>10, IssueAddIs DEF Step
    <3> QED BY <2>2, <3>1
  <2> QED BY <1>2, <2>3, <2>4, <2>5, <2>6, <2>7, <2>8, <2>9, <2>10 DEF StepOf
<1>3. ASSUME NEW u \in DOMAIN users, CreateInvite(u) PROVE GuestInv'
  <2> DEFINE n == Len(invites) + 1
  <2>1. /\ UNCHANGED <<users, req, seen>>
        /\ DOMAIN invites' = DOMAIN invites \cup {n} /\ n # 0 /\ invites'[n].usedBy = 0
        /\ \A i \in DOMAIN invites : invites'[i] = invites[i]
    BY <1>3, InviteIs
  <2> HIDE DEF n
  <2>2. \A p \in Requests : /\ Step(p, "register", "mark") => Step(p, "register", "mark")'
                            /\ Step(p, "register", "write")' => Step(p, "register", "write")
    BY <2>1 DEF Step
  <2> QED BY <2>1, <2>2, GuestFrame
<1>4. CASE Tick \/ UNCHANGED accountVars
  BY <1>4 DEF Tick, accountVars, GuestInv, InviteNamesGuest, Step
<1>5. CASE HubCrash
  <2>1. UNCHANGED <<users, invites>> /\ seen'.via = seen.via /\ seen'.crashed
    BY <1>5 DEF HubCrash, AccountsTyped, SeenSpace
  <2> QED BY <2>1 DEF GuestInv, InviteNamesGuest
<1> QED BY <1>1, <1>2, <1>3, <1>4, <1>5, AccountSteps

LEMMA TokenFrame ==
  ASSUME TokenInv, seen.raced \subseteq seen'.raced, DOMAIN resets' = DOMAIN resets,
         \A t \in DOMAIN resets : /\ resets'[t].user = resets[t].user
                                  /\ resets[t].used => resets'[t].used,
         \A p \in Requests : Step(p, "issue", "write")'
           => (Step(p, "issue", "write") /\ req'[p].id = req[p].id)
              \/ \A t \in DOMAIN resets : resets'[t].user = req'[p].id => resets'[t].used
  PROVE  TokenInv'
BY DEF TokenInv, Unused

LEMMA TokenStep ==
  ASSUME AccountsTyped, RacesAreSeen, TokenInv, [AccountsNext]_accountVars
  PROVE  TokenInv'
<1>1. ASSUME NEW r \in Requests, Starts(r) PROVE TokenInv'
  <2>1. /\ UNCHANGED resets /\ req'[r] # Idle
        /\ \A p \in Requests : p # r => req'[p] = req[p]
        /\ seen.raced \subseteq seen'.raced
    BY <1>1, Begins
  <2>2. req'[r].op # "issue" \/ req'[r].at = "retire"
    BY <1>1, StartIs DEF AccountsTyped
  <2>3. \A p \in Requests : Step(p, "issue", "write")' => Step(p, "issue", "write") /\ req'[p].id = req[p].id
    BY <2>1, <2>2 DEF Step
  <2> QED BY <2>1, <2>3, TokenFrame
<1>2. ASSUME NEW r \in Requests, StepOf(r), ~Starts(r) PROVE TokenInv'
  <2>1. /\ seen'.raced = seen.raced
        /\ \A p \in Requests : p # r => req'[p] = req[p]
        /\ req[r] # Idle
        /\ req'[r] # Idle => req'[r].op = req[r].op
    BY <1>2, Onwards
  <2>2. ASSUME req[r].op # "issue", DOMAIN resets' = DOMAIN resets,
               \A t \in DOMAIN resets : /\ resets'[t].user = resets[t].user
                                        /\ resets[t].used => resets'[t].used
        PROVE  TokenInv'
    <3>1. \A p \in Requests : Step(p, "issue", "write")' => Step(p, "issue", "write") /\ req'[p].id = req[p].id
      BY <2>1, <2>2 DEF Step
    <3> QED BY <2>1, <2>2, <3>1, TokenFrame
  <2>3. CASE SetupAdmin(r) \/ RegisterAdd(r) \/ RegisterMark(r) \/ SetRoleWrite(r)
    <3>1. UNCHANGED resets /\ req[r].op # "issue"
      BY <2>3 DEF SetupAdmin, RegisterAdd, RegisterMark, SetRoleWrite, Step
    <3> QED BY <2>2, <3>1
  <2>4. CASE Reads(r)
    <3>1. UNCHANGED resets /\ req[r].op # "issue"
      BY <2>4 DEF Reads, SetRoleLoad, SetRoleCheck, ResetLoad, Step
    <3> QED BY <2>2, <3>1
  <2>5. CASE PasswordWrite(r)
    <3>1. TokensKept /\ req[r].op # "issue"
      BY <2>5, PasswordIs
    <3> QED BY <2>2, <3>1 DEF TokensKept
  <2>6. CASE ResetRetire(r)
    <3>1. /\ DOMAIN resets' = DOMAIN resets /\ Step(r, "reset", "retire")
          /\ \A t \in DOMAIN resets : /\ resets'[t].user = resets[t].user
                                      /\ resets[t].used => resets'[t].used
      BY <2>6, ResetRetireIs
    <3> QED BY <2>2, <3>1 DEF Step
  <2>7. CASE IssueRetire(r)
    <3>1. /\ DOMAIN resets' = DOMAIN resets /\ req'[r].id = req[r].id
          /\ \A t \in DOMAIN resets :
               /\ resets'[t].user = resets[t].user
               /\ resets'[t].used <=> resets[t].used \/ resets[t].user = req[r].id
      BY <2>7, IssueRetireIs
    <3>2. ASSUME NEW p \in Requests, Step(p, "issue", "write")'
          PROVE  (Step(p, "issue", "write") /\ req'[p].id = req[p].id)
                 \/ \A t \in DOMAIN resets : resets'[t].user = req'[p].id => resets'[t].used
      BY <2>1, <3>1, <3>2 DEF Step
    <3> QED BY <2>1, <3>1, <3>2, TokenFrame
  <2>8. CASE IssueAdd(r)
    <3> DEFINE n == Len(resets) + 1
    <3>1. /\ Step(r, "issue", "write") /\ req'[r] = Idle
          /\ DOMAIN resets' = DOMAIN resets \cup {n} /\ n \notin DOMAIN resets
          /\ resets'[n].user = req[r].id
          /\ \A t \in DOMAIN resets : resets'[t] = resets[t]
      BY <2>8, IssueAddIs
    <3> HIDE DEF n
    <3> SUFFICES ASSUME "issue" \notin seen.raced PROVE TokenInv'
      BY <2>1 DEF TokenInv
    <3>2. /\ \A t, s \in DOMAIN resets : ~resets[t].used /\ ~resets[s].used /\ resets[t].user = resets[s].user => t = s
          /\ \A t \in DOMAIN resets : resets[t].user = req[r].id => resets[t].used
      BY <3>1 DEF TokenInv, Unused
    <3>3. \A t, s \in DOMAIN resets' : ~resets'[t].used /\ ~resets'[s].used /\ resets'[t].user = resets'[s].user => t = s
      BY <3>1, <3>2
    <3>4. ASSUME NEW p \in Requests, Step(p, "issue", "write")' PROVE FALSE
      <4>1. p # r /\ Step(p, "issue", "write")
        BY <2>1, <3>1, <3>4 DEF Step
      <4>2. Of(p, "issue") /\ Of(r, "issue")
        BY <3>1, <4>1, FamilyIs DEF Step, Of
      <4> QED BY <4>1, <4>2, FamilyIs, OneOfFamily
    <3> QED BY <3>3, <3>4, Zenon DEF TokenInv
  <2> QED BY <1>2, <2>3, <2>4, <2>5, <2>6, <2>7, <2>8 DEF StepOf
<1>3. CASE (\E u \in DOMAIN users : CreateInvite(u)) \/ Tick \/ UNCHANGED accountVars
  <2>1. UNCHANGED <<resets, req, seen>>
    BY <1>3 DEF CreateInvite, Tick, accountVars
  <2> QED BY <2>1, TokenFrame DEF Step
<1>4. CASE HubCrash
  <2>1. /\ \A p \in Requests : req'[p] = Idle
        /\ UNCHANGED resets /\ seen' = [seen EXCEPT !.crashed = TRUE]
    BY <1>4 DEF HubCrash
  <2>2. seen'.raced = seen.raced
    BY <2>1 DEF AccountsTyped, SeenSpace
  <2> QED BY <2>1, <2>2, TokenFrame DEF Step
<1> QED BY <1>1, <1>2, <1>3, <1>4, AccountSteps

\* A request presenting a token, before it has set the password.
Presents(p) == Step(p, "reset", "load") \/ Step(p, "reset", "write")

LEMMA ResetId ==
  ASSUME AccountsTyped, NEW p \in Requests, NEW at, Step(p, "reset", at)
  PROVE  req[p].id \in DOMAIN resets /\ Of(p, "password")
<1>1. Fits(req[p]) /\ req[p].op = "reset" /\ req[p] # Idle
  BY DEF AccountsTyped, RequestsFit, Step
<1>2. req[p].id \in DOMAIN resets
  BY <1>1 DEF Fits
<1> QED BY <1>1, <1>2, FamilyIs DEF Of

LEMMA UseFrame ==
  ASSUME AccountsTyped, UseInv, seen.raced \subseteq seen'.raced,
         DOMAIN resets \subseteq DOMAIN resets', \A t \in DOMAIN resets : seen'.uses[t] = seen.uses[t],
         \A t \in DOMAIN resets' : t \notin DOMAIN resets => seen'.uses[t] = 0,
         \A t \in DOMAIN resets : resets[t].used => resets'[t].used,
         "password" \notin seen'.raced => \A p \in Requests : Presents(p)'
           => \/ Presents(p) /\ req'[p].id = req[p].id
              \/ req'[p].id \in DOMAIN resets /\ seen.uses[req'[p].id] = 0
  PROVE  UseInv'
<1> SUFFICES ASSUME "password" \notin seen'.raced PROVE UseInv'
  BY DEF UseInv
<1>1. "password" \notin seen.raced
  OBVIOUS
<1>2. ASSUME NEW t \in DOMAIN resets'
      PROVE  seen'.uses[t] <= 1 /\ (seen'.uses[t] # 0 => resets'[t].used)
  <2>1. CASE t \notin DOMAIN resets
    BY <2>1
  <2>2. CASE t \in DOMAIN resets
    <3>1. seen.uses[t] <= 1 /\ (seen.uses[t] # 0 => resets[t].used)
      BY <1>1, <2>2 DEF UseInv
    <3> QED BY <2>2, <3>1
  <2> QED BY <2>1, <2>2
<1>3. ASSUME NEW p \in Requests, Presents(p)' PROVE seen'.uses[req'[p].id] = 0
  <2>1. CASE Presents(p) /\ req'[p].id = req[p].id
    <3>1. req[p].id \in DOMAIN resets
      BY <2>1, ResetId DEF Presents
    <3>2. seen.uses[req[p].id] = 0
      BY <1>1, <2>1 DEF UseInv, Presents
    <3> QED BY <2>1, <3>1, <3>2
  <2> QED BY <1>1, <1>3, <2>1
<1> QED BY <1>2, <1>3, Zenon DEF UseInv, Presents

LEMMA UseStep ==
  ASSUME AccountsTyped, RacesAreSeen, UseInv, [AccountsNext]_accountVars
  PROVE  UseInv'
<1>1. ASSUME NEW r \in Requests, Starts(r) PROVE UseInv'
  <2>1. PICK q \in Work :
        /\ UNCHANGED resets /\ req'[r] = q /\ req'[r] # Idle /\ req[r] = Idle
        /\ \A p \in Requests : p # r => req'[p] = req[p]
        /\ seen'.uses = seen.uses /\ seen.raced \subseteq seen'.raced
    BY <1>1, Begins
  <2>3. ASSUME "password" \notin seen'.raced, NEW p \in Requests, Presents(p)'
        PROVE  \/ Presents(p) /\ req'[p].id = req[p].id
               \/ req'[p].id \in DOMAIN resets /\ seen.uses[req'[p].id] = 0
    <3>1. CASE p # r
      BY <2>1, <2>3, <3>1 DEF Presents, Step
    <3>2. CASE p = r
      <4>1. q.op = "reset"
        BY <2>1, <2>3, <3>2 DEF Presents, Step
      <4>2. q.id \in DOMAIN resets /\ ~resets[q.id].used
        BY <1>1, <2>1, <4>1, StartIs DEF AccountsTyped
      <4>3. seen.uses[q.id] = 0
        BY <2>1, <2>3, <4>2 DEF UseInv
      <4> QED BY <2>1, <3>2, <4>2, <4>3
    <3> QED BY <3>1, <3>2
  <2> QED BY <2>1, <2>3, UseFrame
<1>2. ASSUME NEW r \in Requests, StepOf(r), ~Starts(r) PROVE UseInv'
  <2>1. /\ seen'.raced = seen.raced /\ seen'.crashed = seen.crashed
        /\ \A p \in Requests : p # r => req'[p] = req[p]
        /\ req[r] # Idle
        /\ req'[r] # Idle => req'[r].op = req[r].op /\ req'[r].id = req[r].id
    BY <1>2, Onwards
  <2>2. ASSUME req[r].op # "reset" \/ Step(r, "reset", "retire") \/ (Step(r, "reset", "load") /\ req'[r] # Idle),
               req'[r] = Idle \/ req[r].op # "reset" \/ Step(r, "reset", "load"),
               DOMAIN resets \subseteq DOMAIN resets', \A t \in DOMAIN resets : seen'.uses[t] = seen.uses[t],
               \A t \in DOMAIN resets' : t \notin DOMAIN resets => seen'.uses[t] = 0,
               \A t \in DOMAIN resets : resets[t].used => resets'[t].used
        PROVE  UseInv'
    <3>2. \A p \in Requests : Presents(p)' => Presents(p) /\ req'[p].id = req[p].id
      BY <2>1, <2>2 DEF Step, Presents
    <3> QED BY <2>1, <2>2, <3>2, UseFrame
  <2>3. CASE SetupAdmin(r)
    BY <2>2, <2>3, SetupIs
  <2>4. CASE RegisterAdd(r)
    <3>1. UNCHANGED resets /\ seen'.uses = seen.uses /\ req[r].op = "register"
      BY <2>4, RegisterIs DEF RegisterAdd, Step
    <3> QED BY <2>2, <3>1
  <2>5. CASE RegisterMark(r) \/ SetRoleWrite(r)
    <3>1. UNCHANGED <<resets, seen>> /\ req[r].op # "reset"
      BY <2>5 DEF RegisterMark, SetRoleWrite, Step
    <3> QED BY <2>2, <3>1
  <2>6. CASE Reads(r)
    <3>1. UNCHANGED <<resets, seen>>
      BY <2>6, ReadIs
    <3>2. CASE ResetLoad(r)
      <4>1. Step(r, "reset", "load") /\ req'[r] # Idle
        <5>1. req[r].op = "reset" /\ req[r].at = "load" /\ req[r] \in Work /\ req[r].op \in DOMAIN Family
          BY <3>2, RequestType DEF ResetLoad, Step, AccountsTyped, Work
        <5>2. req'[r].op = "reset"
          BY <3>2, <5>1 DEF ResetLoad, AccountsTyped, AccountsTypeOK, Work
        <5>3. req'[r] # Idle
          BY <5>2 DEF Idle
        <5> QED BY <3>2, <5>3 DEF ResetLoad
      <4> QED BY <2>2, <3>1, <4>1
    <3>3. CASE SetRoleLoad(r) \/ SetRoleCheck(r)
      <4>1. req[r].op = "role"
        BY <3>3 DEF SetRoleLoad, SetRoleCheck, Step
      <4> QED BY <2>2, <3>1, <4>1
    <3> QED BY <2>6, <3>2, <3>3 DEF Reads
  <2>7. CASE IssueRetire(r)
    <3>1. /\ UNCHANGED seen /\ DOMAIN resets' = DOMAIN resets /\ req[r].op = "issue"
          /\ \A t \in DOMAIN resets : resets[t].used => resets'[t].used
      BY <2>7, IssueRetireIs DEF Step
    <3> QED BY <2>2, <3>1
  <2>8. CASE IssueAdd(r)
    <3> DEFINE n == Len(resets) + 1
    <3>1. /\ DOMAIN resets' = DOMAIN resets \cup {n} /\ req[r].op = "issue"
          /\ \A t \in DOMAIN resets : resets'[t] = resets[t]
          /\ seen'.uses[n] = 0 /\ \A t \in DOMAIN resets : seen'.uses[t] = seen.uses[t]
      BY <2>8, IssueAddIs DEF Step
    <3> HIDE DEF n
    <3> QED BY <2>2, <3>1
  <2>9. CASE ResetRetire(r)
    <3>1. /\ UNCHANGED seen /\ DOMAIN resets' = DOMAIN resets /\ Step(r, "reset", "retire") /\ req'[r] = Idle
          /\ \A t \in DOMAIN resets : resets[t].used => resets'[t].used
      BY <2>9, ResetRetireIs
    <3> QED BY <2>2, <3>1
  <2>11. CASE PasswordWrite(r) /\ req[r].op # "reset"
    <3>1. TokensKept /\ seen'.uses = seen.uses
      BY <2>11, PasswordIs
    <3> QED BY <2>2, <2>11, <3>1 DEF TokensKept
  <2>12. CASE PasswordWrite(r) /\ req[r].op = "reset"
    <3> DEFINE t == req[r].id
    <3>1. /\ TokensKept /\ resets'[t].used
          /\ Of(r, "password") /\ req[r].at = "write" /\ t \in DOMAIN resets
          /\ seen'.uses[t] = seen.uses[t] + 1
          /\ \A s \in DOMAIN resets : s # t => seen'.uses[s] = seen.uses[s]
      BY <2>12, PasswordIs
    <3>2. req'[r] # Idle /\ req'[r].op = "reset" /\ req'[r].at = "retire" /\ req'[r].id = t
      BY <2>12, PasswordTyped
    <3> SUFFICES ASSUME "password" \notin seen.raced PROVE UseInv'
      BY <2>1 DEF UseInv
    <3>3. seen.uses[t] = 0
      BY <2>1, <2>12, <3>1 DEF UseInv, Step
    <3>4. \A p \in Requests : Of(p, "password") => p = r
      BY <3>1, FamilyIs, OneOfFamily
    <3>5. \A p \in Requests : ~Presents(p)'
      <4> SUFFICES ASSUME NEW p \in Requests, Presents(p)' PROVE FALSE
        OBVIOUS
      <4>1. p # r /\ Presents(p)
        BY <2>1, <3>2 DEF Presents, Step
      <4> QED BY <3>4, <4>1, ResetId DEF Presents
    <3>6. ASSUME NEW s \in DOMAIN resets
          PROVE  seen'.uses[s] <= 1 /\ (seen'.uses[s] # 0 => resets'[s].used)
      <4>1. CASE s = t
        BY <3>1, <3>3, <4>1
      <4>2. CASE s # t
        <5>1. seen.uses[s] <= 1 /\ (seen.uses[s] # 0 => resets[s].used)
          BY DEF UseInv
        <5> QED BY <3>1, <4>2, <5>1 DEF TokensKept
      <4> QED BY <4>1, <4>2
    <3>7. DOMAIN resets' = DOMAIN resets
      BY <3>1 DEF TokensKept
    <3> QED BY <3>5, <3>6, <3>7, Zenon DEF UseInv, Presents
  <2> QED BY <1>2, <2>3, <2>4, <2>5, <2>6, <2>7, <2>8, <2>9, <2>11, <2>12 DEF StepOf
<1>3. CASE (\E u \in DOMAIN users : CreateInvite(u)) \/ Tick \/ UNCHANGED accountVars
  <2>1. UNCHANGED <<resets, req, seen>>
    BY <1>3 DEF CreateInvite, Tick, accountVars
  <2> QED BY <2>1, UseFrame DEF Step, Presents
<1>4. CASE HubCrash
  <2>1. /\ \A p \in Requests : req'[p] = Idle
        /\ UNCHANGED resets /\ seen' = [seen EXCEPT !.crashed = TRUE]
    BY <1>4 DEF HubCrash
  <2>2. seen'.raced = seen.raced /\ seen'.uses = seen.uses
    BY <2>1 DEF AccountsTyped, SeenSpace
  <2>3. \A p \in Requests : ~Presents(p)'
    BY <2>1 DEF Presents, Step
  <2> QED BY <2>1, <2>2, <2>3, UseFrame
<1> QED BY <1>1, <1>2, <1>3, <1>4, AccountSteps

\* A request about to save an account after a password.
Saves(p) == Of(p, "password") /\ req[p].at = "write"

LEMMA SavesWhat ==
  ASSUME AccountsTyped, NEW p \in Requests, Saves(p)
  PROVE  /\ req[p].op \in {"reset", "login", "change"} /\ Target(req[p]) \in DOMAIN users
         /\ req[p].op = "reset" => req[p].id \in DOMAIN resets
<1>1. /\ req[p].op \in {"reset", "login", "change"} /\ Fits(req[p]) /\ req[p].at = "write"
  BY RequestType, FamilyIs DEF Saves, Of, AccountsTyped, Work
<1>2. \A t \in DOMAIN resets : resets[t].user \in DOMAIN users
  BY DEF AccountsTyped, TablesFit
<1>3. req[p].op = "reset" => req[p].id \in DOMAIN resets
  BY <1>1 DEF Fits
<1>4. req[p].op # "reset" => req[p].id \in DOMAIN users
  BY <1>1 DEF Fits
<1> QED BY <1>1, <1>2, <1>3, <1>4 DEF Target

LEMMA CountFrame ==
  ASSUME AccountsTyped, CountInv, seen.raced \subseteq seen'.raced,
         DOMAIN users \subseteq DOMAIN users',
         \A u \in DOMAIN users : /\ users'[u].failed = users[u].failed /\ users'[u].locked = users[u].locked
                                 /\ seen'.wrong[u] = seen.wrong[u],
         \A u \in DOMAIN users' : u \notin DOMAIN users
           => users'[u].failed = 0 /\ users'[u].locked = 0 /\ seen'.wrong[u] = 0,
         \A t \in DOMAIN resets : resets'[t].user = resets[t].user,
         \A p \in Requests : Saves(p)'
           => \/ Saves(p) /\ req'[p] = req[p]
              \/ /\ Target(req[p])' \in DOMAIN users
                 /\ req'[p].row.failed = users[Target(req[p])'].failed
                 /\ req'[p].row.locked = users[Target(req[p])'].locked
  PROVE  CountInv'
<1> SUFFICES ASSUME "password" \notin seen'.raced PROVE CountInv'
  BY DEF CountInv
<1>1. ASSUME NEW u \in DOMAIN users'
      PROVE  users'[u].failed = seen'.wrong[u] /\ (users'[u].locked # 0 <=> users'[u].failed >= MaxAttempts)
  <2>1. CASE u \in DOMAIN users
    <3>1. users[u].failed = seen.wrong[u] /\ (users[u].locked # 0 <=> users[u].failed >= MaxAttempts)
      BY <2>1 DEF CountInv
    <3> QED BY <2>1, <3>1
  <2>2. CASE u \notin DOMAIN users
    BY <2>2, AccountConstants
  <2> QED BY <2>1, <2>2
<1>2. ASSUME NEW p \in Requests, Saves(p)'
      PROVE  /\ req'[p].row.failed = users'[Target(req[p])'].failed
             /\ req'[p].row.locked = users'[Target(req[p])'].locked
  <2>1. CASE Saves(p) /\ req'[p] = req[p]
    <3>1. /\ Target(req[p]) \in DOMAIN users
          /\ req[p].op = "reset" => req[p].id \in DOMAIN resets
      BY <2>1, SavesWhat
    <3>2. Target(req[p])' = Target(req[p])
      BY <2>1, <3>1 DEF Target
    <3>3. /\ req[p].row.failed = users[Target(req[p])].failed
          /\ req[p].row.locked = users[Target(req[p])].locked
      BY <2>1 DEF CountInv, Saves
    <3> QED BY <2>1, <3>1, <3>2, <3>3
  <2>2. CASE ~(Saves(p) /\ req'[p] = req[p])
    BY <1>2, <2>2
  <2> QED BY <2>1, <2>2
<1> QED BY <1>1, <1>2, Zenon DEF CountInv, Saves

LEMMA PasswordCounts ==
  ASSUME AccountsTyped, RacesAreSeen, CountInv, NEW r \in Requests, PasswordWrite(r)
  PROVE  CountInv'
<1> DEFINE u == Target(req[r])   rec == req[r].row   changed == Changed(req[r])   saved == Save(u, rec, changed)
<1>1. /\ u \in DOMAIN users /\ rec \in User /\ Of(r, "password") /\ req[r].at = "write"
      /\ UNCHANGED <<invites, now>>
      /\ seen'.raced = seen.raced
      /\ \A v \in DOMAIN users : v # u => seen'.wrong[v] = seen.wrong[v]
      /\ seen'.wrong[u] = IF Wrong(req[r]) THEN seen.wrong[u] + 1 ELSE 0
  BY PasswordIs
<1>2. /\ DOMAIN users' = DOMAIN users /\ users'[u] = saved
      /\ \A v \in DOMAIN users : v # u => users'[v] = users[v]
      /\ \A p \in Requests : p # r => req'[p] = req[p]
      /\ req'[r] = Idle \/ req'[r].at = "retire"
  BY PasswordIs, PasswordTyped
<1> SUFFICES ASSUME "password" \notin seen.raced PROVE CountInv'
  BY <1>1 DEF CountInv
<1>3. /\ rec.failed = users[u].failed /\ rec.locked = users[u].locked
      /\ users[u].failed = seen.wrong[u]
      /\ users[u].locked # 0 <=> users[u].failed >= MaxAttempts
      /\ \A v \in DOMAIN users : /\ users[v].failed = seen.wrong[v]
                                 /\ users[v].locked # 0 <=> users[v].failed >= MaxAttempts
  BY <1>1 DEF CountInv
<1>4. users[u] \in User /\ now \in Nat
  BY <1>1 DEF AccountsTyped, AccountsTypeOK
<1>5. /\ Clear(rec) \in User /\ Clear(rec).failed = 0 /\ Clear(rec).locked = 0
      /\ Failed(rec) \in User /\ Failed(rec).failed = rec.failed + 1
      /\ rec.failed + 1 < MaxAttempts => Failed(rec).locked = rec.locked
      /\ rec.failed + 1 >= MaxAttempts => Failed(rec).locked \in now + 1 .. now + MaxLock
  <2> HIDE DEF rec
  <2> QED BY <1>1, <1>4, ClearIs, FailedIs
<1>6. changed \in User
  BY <1>5 DEF Changed
<1>7. saved.failed = changed.failed /\ saved.locked = changed.locked
  <2> HIDE DEF u, rec, changed
  <2> QED BY <1>1, <1>3, <1>4, <1>6, SaveIs
<1>8. seen'.wrong[u] = changed.failed /\ (changed.locked # 0 <=> changed.failed >= MaxAttempts)
  <2>1. CASE Wrong(req[r])
    <3>1. changed = Failed(rec) /\ seen'.wrong[u] = seen.wrong[u] + 1
      BY <1>1, <2>1 DEF Changed
    <3>2. rec.failed \in Nat
      BY <1>1 DEF User
    <3> HIDE DEF u, rec, changed
    <3>3. CASE rec.failed + 1 < MaxAttempts
      BY <1>3, <1>5, <3>1, <3>2, <3>3, AccountConstants
    <3>4. CASE rec.failed + 1 >= MaxAttempts
      BY <1>3, <1>4, <1>5, <3>1, <3>2, <3>4, AccountConstants
    <3> QED BY <3>2, <3>3, <3>4, AccountConstants
  <2>2. CASE ~Wrong(req[r])
    <3>1. changed = Clear(rec) /\ seen'.wrong[u] = 0
      BY <1>1, <2>2 DEF Changed
    <3> HIDE DEF u, rec, changed
    <3> QED BY <1>5, <3>1, AccountConstants
  <2> QED BY <2>1, <2>2
<1>9. \A p \in Requests : ~Saves(p)'
  <2> SUFFICES ASSUME NEW p \in Requests, Saves(p)' PROVE FALSE
    OBVIOUS
  <2>1. p # r
    BY <1>2 DEF Saves, Of
  <2>2. Of(p, "password")
    BY <1>2, <2>1 DEF Saves, Of
  <2> QED BY <1>1, <2>1, <2>2, FamilyIs, OneOfFamily
<1> HIDE DEF u, changed, saved
<1>10. \A v \in DOMAIN users' : /\ users'[v].failed = seen'.wrong[v]
                                /\ users'[v].locked # 0 <=> users'[v].failed >= MaxAttempts
  BY <1>1, <1>2, <1>3, <1>7, <1>8
<1> QED BY <1>9, <1>10, Zenon DEF CountInv, Saves

LEMMA CountStep ==
  ASSUME AccountsTyped, RacesAreSeen, CountInv, [AccountsNext]_accountVars
  PROVE  CountInv'
<1>1. ASSUME NEW r \in Requests, Starts(r) PROVE CountInv'
  <2>1. /\ UNCHANGED <<users, resets>> /\ req'[r] # Idle
        /\ \A p \in Requests : p # r => req'[p] = req[p]
        /\ seen'.wrong = seen.wrong /\ seen.raced \subseteq seen'.raced
    BY <1>1, Begins
  <2>2. ASSUME NEW p \in Requests, Saves(p)'
        PROVE  \/ Saves(p) /\ req'[p] = req[p]
               \/ /\ Target(req[p])' \in DOMAIN users
                  /\ req'[p].row.failed = users[Target(req[p])'].failed
                  /\ req'[p].row.locked = users[Target(req[p])'].locked
    <3>1. CASE p # r
      BY <2>1, <2>2, <3>1 DEF Saves, Of
    <3>2. CASE p = r
      <4>1. req'[r].at = "write" /\ req'[r].op \notin {"setup", "register", "role", "issue"}
        BY <2>2, <3>2, FamilyIs DEF Saves, Of
      <4>2. req'[r].op \in {"login", "change"} /\ req'[r].id \in DOMAIN users /\ req'[r].row = users[req'[r].id]
        BY <1>1, <4>1, StartIs DEF AccountsTyped
      <4> QED BY <3>2, <4>2 DEF Target
    <3> QED BY <3>1, <3>2
  <2> QED BY <2>1, <2>2, CountFrame
<1>2. ASSUME NEW r \in Requests, StepOf(r), ~Starts(r) PROVE CountInv'
  <2>1. /\ seen'.raced = seen.raced
        /\ \A p \in Requests : p # r => req'[p] = req[p]
        /\ req[r] # Idle
        /\ req'[r] # Idle => req'[r].op = req[r].op /\ req'[r].id = req[r].id
    BY <1>2, Onwards
  <2>2. ASSUME req'[r] = Idle \/ req[r].op \in {"register", "role", "issue"} \/ req'[r].at # "write",
               DOMAIN users \subseteq DOMAIN users',
               \A u \in DOMAIN users : /\ users'[u].failed = users[u].failed /\ users'[u].locked = users[u].locked
                                       /\ seen'.wrong[u] = seen.wrong[u],
               \A u \in DOMAIN users' : u \notin DOMAIN users
                 => users'[u].failed = 0 /\ users'[u].locked = 0 /\ seen'.wrong[u] = 0,
               \A t \in DOMAIN resets : resets'[t].user = resets[t].user
        PROVE  CountInv'
    <3>1. \A p \in Requests : Saves(p)' => Saves(p) /\ req'[p] = req[p]
      BY <2>1, <2>2, FamilyIs DEF Saves, Of
    <3> QED BY <2>1, <2>2, <3>1, CountFrame
  <2>3. CASE SetupAdmin(r)
    <3>1. CASE UNCHANGED <<users, seen>>
      BY <2>2, <2>3, <3>1, SetupIs
    <3>2. CASE ~UNCHANGED <<users, seen>>
      <4> DEFINE n == Len(users) + 1
      <4>1. /\ UNCHANGED resets /\ req'[r] = Idle
            /\ DOMAIN users' = DOMAIN users \cup {n}
            /\ users'[n].failed = 0 /\ users'[n].locked = 0
            /\ \A u \in DOMAIN users : users'[u] = users[u]
            /\ seen'.wrong[n] = 0 /\ \A u \in DOMAIN users : seen'.wrong[u] = seen.wrong[u]
        BY <2>3, <3>2, SetupIs
      <4> HIDE DEF n
      <4> QED BY <2>2, <4>1
    <3> QED BY <3>1, <3>2
  <2>4. CASE RegisterAdd(r)
    <3>0. req[r].op = "register" /\ UNCHANGED resets
      BY <2>4 DEF RegisterAdd, Step
    <3>1. CASE UNCHANGED <<users, seen>>
      BY <2>2, <3>0, <3>1
    <3>2. CASE ~UNCHANGED <<users, seen>>
      <4> DEFINE n == Len(users) + 1
      <4>1. /\ DOMAIN users' = DOMAIN users \cup {n}
            /\ users'[n].failed = 0 /\ users'[n].locked = 0
            /\ \A u \in DOMAIN users : users'[u] = users[u]
            /\ seen'.wrong[n] = 0 /\ \A u \in DOMAIN users : seen'.wrong[u] = seen.wrong[u]
        BY <2>4, <3>2, RegisterIs
      <4> HIDE DEF n
      <4> QED BY <2>2, <3>0, <4>1
    <3> QED BY <3>1, <3>2
  <2>5. CASE Reads(r)
    <3>1. /\ UNCHANGED <<users, resets, seen>>
          /\ \/ req'[r] = Idle
             \/ req[r].op = "role"
             \/ /\ req'[r] # Idle /\ req'[r].op = "reset" /\ req'[r].id = req[r].id
                /\ req[r].op = "reset" /\ ResetLoad(r)
                /\ req'[r].row = users[resets[req[r].id].user]
      BY <2>5, ReadIs
    <3>2. CASE req'[r] = Idle \/ req[r].op = "role"
      BY <2>2, <3>1, <3>2
    <3>3. CASE ResetLoad(r) /\ req'[r].op = "reset" /\ req'[r].row = users[resets[req[r].id].user]
               /\ req'[r].id = req[r].id
      <4>1. req[r].id \in DOMAIN resets
        BY <3>3, ResetId DEF ResetLoad
      <4>2. resets[req[r].id].user \in DOMAIN users
        BY <4>1 DEF AccountsTyped, TablesFit
      <4>3. Target(req[r])' = resets[req[r].id].user
        BY <3>1, <3>3 DEF Target
      <4>4. \A p \in Requests : Saves(p)'
           => \/ Saves(p) /\ req'[p] = req[p]
              \/ /\ Target(req[p])' \in DOMAIN users
                 /\ req'[p].row.failed = users[Target(req[p])'].failed
                 /\ req'[p].row.locked = users[Target(req[p])'].locked
        BY <2>1, <3>3, <4>2, <4>3 DEF Saves, Of
      <4> QED BY <2>1, <3>1, <4>4, CountFrame
    <3> QED BY <3>1, <3>2, <3>3
  <2>6. CASE RegisterMark(r)
    BY <2>2, <2>6, MarkIs
  <2>7. CASE SetRoleWrite(r)
    <3> DEFINE u == req[r].id
    <3>1. /\ UNCHANGED <<resets, seen>> /\ req'[r] = Idle
          /\ u \in DOMAIN users /\ DOMAIN users' = DOMAIN users
          /\ users'[u].failed = users[u].failed /\ users'[u].locked = users[u].locked
          /\ \A v \in DOMAIN users : v # u => users'[v] = users[v]
      BY <2>7, RoleIs
    <3> HIDE DEF u
    <3> QED BY <2>2, <3>1
  <2>8. CASE PasswordWrite(r)
    BY <2>8, PasswordCounts
  <2>9. CASE IssueRetire(r)
    <3>1. /\ UNCHANGED <<users, seen>> /\ Step(r, "issue", "retire")
          /\ \A t \in DOMAIN resets : resets'[t].user = resets[t].user
      BY <2>9, IssueRetireIs
    <3> QED BY <2>2, <3>1 DEF Step
  <2>10. CASE IssueAdd(r)
    <3>1. /\ UNCHANGED users /\ seen'.wrong = seen.wrong /\ req'[r] = Idle
          /\ \A t \in DOMAIN resets : resets'[t] = resets[t]
      BY <2>10, IssueAddIs
    <3> QED BY <2>2, <3>1
  <2>12. CASE ResetRetire(r)
    <3>1. /\ UNCHANGED <<users, seen>> /\ req'[r] = Idle
          /\ \A t \in DOMAIN resets : resets'[t].user = resets[t].user
      BY <2>12, ResetRetireIs
    <3> QED BY <2>2, <3>1
  <2> QED BY <1>2, <2>3, <2>4, <2>5, <2>6, <2>7, <2>8, <2>9, <2>10, <2>12 DEF StepOf
<1>3. CASE (\E u \in DOMAIN users : CreateInvite(u)) \/ Tick \/ UNCHANGED accountVars
  <2>1. UNCHANGED <<users, resets, req, seen>>
    BY <1>3 DEF CreateInvite, Tick, accountVars
  <2> QED BY <2>1, CountFrame DEF Saves, Of
<1>4. CASE HubCrash
  <2>1. /\ \A p \in Requests : req'[p] = Idle
        /\ UNCHANGED <<users, resets>> /\ seen' = [seen EXCEPT !.crashed = TRUE]
    BY <1>4 DEF HubCrash
  <2>2. seen'.raced = seen.raced /\ seen'.wrong = seen.wrong
    BY <2>1 DEF AccountsTyped, SeenSpace
  <2> QED BY <2>1, <2>2, CountFrame DEF Saves, Of
<1> QED BY <1>1, <1>2, <1>3, <1>4, AccountSteps

\* The promises about invites, reset tokens and the lock-out, for every setting of
\* the lock-out and every interleaving: what breaks one is an overlap of requests
\* its own family or, for an invite, a crash between the two commits of its request.
THEOREM CredentialsHoldAlways == AccountsSpec => []CredentialsHold
<1> DEFINE IInv == AccountsTyped /\ RacesAreSeen /\ GuestInv /\ TokenInv /\ UseInv /\ CountInv
<1>1. AccountsInit => IInv
  <2> SUFFICES ASSUME AccountsInit PROVE IInv
    OBVIOUS
  <2>1. AccountsTyped
    BY AccountsTypedInit
  <2>2. /\ DOMAIN users = {} /\ DOMAIN invites = {} /\ DOMAIN resets = {}
        /\ \A r \in Requests : req[r] = Idle
    BY DEF AccountsInit
  <2> QED BY <2>1, <2>2 DEF RacesAreSeen, GuestInv, InviteNamesGuest, TokenInv, UseInv, CountInv, Of, Step
<1>2. IInv /\ [AccountsNext]_accountVars => IInv'
  <2> SUFFICES ASSUME IInv, [AccountsNext]_accountVars PROVE IInv'
    OBVIOUS
  <2> QED BY AccountsTypedStep, RacesStep, GuestStep, TokenStep, UseStep, CountStep
<1>3. IInv => CredentialsHold
  <2> SUFFICES ASSUME IInv PROVE CredentialsHold
    OBVIOUS
  <2>1. InviteSingleUse
    <3> SUFFICES ASSUME NEW i \in DOMAIN invites, "register" \notin seen.raced, ~seen.crashed,
                        Cardinality({u \in DOMAIN users : seen.via[u] = i}) > 1
                 PROVE  FALSE
      BY DEF InviteSingleUse
    <3> DEFINE S == {u \in DOMAIN users : seen.via[u] = i}
    <3>1. \A u, v \in S : u = v
      BY InvitedOrMade DEF GuestInv
    <3> HIDE DEF S
    <3>2. Cardinality(S) > 1
      BY DEF S
    <3> QED BY <3>1, <3>2, AtMostOne
  <2>2. SingleActiveReset
    <3> SUFFICES ASSUME NEW u \in DOMAIN users, "issue" \notin seen.raced, Cardinality(Unused(u)) > 1 PROVE FALSE
      BY DEF SingleActiveReset
    <3>1. \A t, s \in Unused(u) : t = s
      BY DEF TokenInv, Unused
    <3> QED BY <3>1, AtMostOne
  <2>3. ResetSetsOnce
    <3> SUFFICES ASSUME NEW t \in DOMAIN resets, seen.uses[t] > 1, "password" \notin seen.raced
                 PROVE  FALSE
      BY DEF ResetSetsOnce
    <3>1. seen.uses[t] <= 1 /\ seen.uses[t] \in Nat
      BY DEF UseInv, AccountsTyped, AccountsTypeOK, TablesFit
    <3> QED BY <3>1
  <2>4. CountedFailures
    BY DEF CountedFailures, CountInv
  <2> QED BY <2>1, <2>2, <2>3, <2>4 DEF CredentialsHold, GuestInv
<1> QED BY <1>1, <1>2, <1>3, PTL DEF AccountsSpec

(***************************************************************************)
(* The control of one agent.  LinksFit says which sockets may be open: a   *)
(* session past its registration is the registered one or is closed.  The  *)
(* rest is what each clause of the properties relies on, as long as        *)
(* nothing raced: presence frames on their way all show the present        *)
(* (PresenceInv); an authenticated session holds a live key, and a revoked *)
(* key is on a registered socket only while its revocation is at work      *)
(* (KeyInv); the value a linked daemon will hold once it has read its wire *)
(* is the hub's, or one request is about to send it (SwitchInv, EditInv).  *)
(***************************************************************************)
Links == Conns \cup {NoConn}
Sessions == [at : Stage, key : Nat, settings : Settings \cup {NoSettings}]
Daemons == [conn : Links, settings : Settings \cup {NoSettings}, enabled : Switch]
Tasks ==
  {Resting} \cup [op : {"edit"}, at : {"save", "push"}, loaded : Settings, row : Settings]
    \cup [op : {"flip"}, at : {"save", "cache", "push"}, to : Switch, loaded : Switch, conn : Links]
    \cup [op : {"revoke"}, at : {"kick"}]
ControlRaces == {"edit", "handshake", "flip", "revoke", "presence"}
PastSpace == [raced : SUBSET ControlRaces, acts : Nat]
ControlTyped ==
  /\ row \in Settings /\ keys \in Seq(AgentKey)
  /\ flag \in Switch /\ cache \in Switch
  /\ registered \in Links /\ closed \in SUBSET Conns
  /\ session \in [Conns -> Sessions]
  /\ wire \in [Conns -> Seq(Frame)] /\ daemon \in Daemons
  /\ news \in SUBSET {"online", "offline"} /\ view \in {"online", "offline"}
  /\ admin \in [Handlers -> Tasks] /\ past \in PastSpace

\* The socket of the agent, in the state it is in.
LinksFit ==
  /\ \A c \in Conns : session[c].at # "off" \/ registered = c => session[c].key \in DOMAIN keys
  /\ \A c \in Conns : session[c].at \in {"registered", "live"} => registered = c \/ c \in closed

Shown == IF registered = NoConn THEN "offline" ELSE "online"
PresenceInv ==
  "presence" \notin past.raced => (\A s \in news : s = Shown) /\ (news = {} => view = Shown)

KeyInv ==
  "revoke" \notin past.raced =>
    /\ \A c \in Conns : session[c].at = "authed" => ~keys[session[c].key].revoked
    /\ registered # NoConn /\ keys[session[registered].key].revoked => Busy("revoke") # {}

\* The last frame of w whose type is not skip carries the value v in the field;
\* if there is none, the daemon holds it.
Left(w, held, field, skip, v) ==
  \/ \E i \in DOMAIN w : /\ w[i].type # skip /\ w[i][field] = v
                         /\ \A j \in DOMAIN w : j > i => w[j].type = skip
  \/ (\A i \in DOMAIN w : w[i].type = skip) /\ held = v
SwitchLeft(c) == Left(wire[c], daemon.enabled, "enabled", "settings_update", cache)
SettingsLeft(c) == Left(wire[c], daemon.settings, "settings", "kill_switch", row)

\* The daemon's connection, acknowledged and open.
Linked == daemon.conn # NoConn /\ daemon.conn \notin closed /\ session[daemon.conn].at = "live"

SwitchInv ==
  "flip" \notin past.raced =>
    /\ \A r, s \in Busy("flip") : r = s
    /\ Busy("flip") = {} => cache = flag
    /\ \A r \in Handlers : Working(r, "flip", "save") => cache = flag /\ admin[r].loaded = flag
    /\ \A r \in Handlers : Working(r, "flip", "cache") => flag = admin[r].to
    /\ \A r \in Handlers : Working(r, "flip", "push") => flag = admin[r].to /\ cache = admin[r].to
    /\ Linked => \/ SwitchLeft(daemon.conn)
                 \/ \E r \in Handlers : Working(r, "flip", "push") /\ admin[r].conn = daemon.conn

EditInv ==
  past.raced \cap {"edit", "handshake"} = {} =>
    /\ \A r, s \in Busy("edit") : r = s
    /\ Shaking = {} \/ Busy("edit") = {}
    /\ \A c \in Shaking : session[c].settings = row
    /\ \A r \in Handlers : Working(r, "edit", "save") => admin[r].loaded = row
    /\ \A r \in Handlers : Working(r, "edit", "push") => admin[r].row = row
    /\ Linked => \/ SettingsLeft(daemon.conn)
                 \/ \E r \in Handlers : Working(r, "edit", "push")
LEMMA LeftAppend ==
  ASSUME NEW w \in Seq(Frame), NEW f \in Frame, NEW held, NEW field, NEW skip, NEW v,
         IF f.type = skip THEN Left(w, held, field, skip, v) ELSE f[field] = v
  PROVE  Left(Append(w, f), held, field, skip, v)
<1> DEFINE u == Append(w, f)   n == Len(w) + 1
<1>1. /\ DOMAIN u = DOMAIN w \cup {n} /\ u[n] = f /\ \A j \in DOMAIN w : u[j] = w[j]
      /\ n \in Nat /\ n \notin DOMAIN w /\ DOMAIN w = 1 .. Len(w) /\ Len(w) \in Nat
  BY SeqAdd
<1>2. \A j \in DOMAIN w : j \in Nat /\ j < n
  BY <1>1
<1> HIDE DEF u, n
<1>3. CASE f.type # skip
  <2>1. /\ n \in DOMAIN u /\ u[n].type # skip /\ u[n][field] = v
        /\ \A j \in DOMAIN u : ~(j > n)
    BY <1>1, <1>2, <1>3
  <2> QED BY <2>1 DEF Left, u
<1>4. CASE f.type = skip
  <2>1. CASE (\A i \in DOMAIN w : w[i].type = skip) /\ held = v
    BY <1>1, <1>4, <2>1 DEF Left, u
  <2>2. ASSUME NEW i \in DOMAIN w, w[i].type # skip /\ w[i][field] = v,
               \A j \in DOMAIN w : j > i => w[j].type = skip
        PROVE  Left(u, held, field, skip, v)
    <3>1. /\ i \in DOMAIN u /\ u[i].type # skip /\ u[i][field] = v
          /\ \A j \in DOMAIN u : j > i => u[j].type = skip
      BY <1>1, <1>4, <2>2
    <3> QED BY <3>1 DEF Left
  <2> QED BY <1>4, <2>1, <2>2 DEF Left, u
<1> QED BY <1>3, <1>4

LEMMA LeftTail ==
  ASSUME NEW w \in Seq(Frame), w # <<>>, NEW held, NEW field, NEW skip, NEW v,
         Left(w, held, field, skip, v)
  PROVE  Left(Tail(w), IF Head(w).type = skip THEN held ELSE Head(w)[field], field, skip, v)
<1> DEFINE u == Tail(w)   m == Len(w)   keep == IF Head(w).type = skip THEN held ELSE Head(w)[field]
<1>1. /\ m \in Nat \ {0} /\ DOMAIN w = 1 .. m /\ Head(w) = w[1]
      /\ Len(u) = m - 1 /\ DOMAIN u = 1 .. (m - 1) /\ \A i \in 1 .. (m - 1) : u[i] = w[i + 1]
  BY EmptySeq, HeadTailProperties
<1>2. CASE (\A i \in DOMAIN w : w[i].type = skip) /\ held = v
  <2>1. \A i \in DOMAIN u : u[i].type = skip
    BY <1>1, <1>2
  <2>2. keep = v
    BY <1>1, <1>2
  <2> QED BY <2>1, <2>2 DEF Left
<1>3. ASSUME NEW i \in DOMAIN w, w[i].type # skip /\ w[i][field] = v,
             \A j \in DOMAIN w : j > i => w[j].type = skip
      PROVE  Left(u, keep, field, skip, v)
  <2>1. CASE i = 1
    <3>1. \A j \in DOMAIN u : u[j].type = skip
      BY <1>1, <1>3, <2>1
    <3>2. keep = v
      BY <1>1, <1>3, <2>1
    <3> QED BY <3>1, <3>2 DEF Left
  <2>2. CASE i # 1
    <3>1. i - 1 \in DOMAIN u /\ u[i - 1] = w[i]
      BY <1>1, <2>2
    <3>2. \A j \in DOMAIN u : j > i - 1 => u[j].type = skip
      <4> SUFFICES ASSUME NEW j \in DOMAIN u, j > i - 1 PROVE u[j].type = skip
        OBVIOUS
      <4>1. j + 1 \in DOMAIN w /\ j + 1 > i /\ u[j] = w[j + 1]
        BY <1>1
      <4> QED BY <1>3, <4>1
    <3> QED BY <1>3, <3>1, <3>2 DEF Left
  <2> QED BY <2>1, <2>2
<1> QED BY <1>2, <1>3 DEF Left

\* A request begins, goes on or ends; the others are left alone.
LEMMA TaskPut ==
  ASSUME ControlTyped, NEW r \in Handlers, NEW task \in Tasks, admin' = [admin EXCEPT ![r] = task]
  PROVE  /\ admin' \in [Handlers -> Tasks] /\ admin'[r] = task
         /\ \A s \in Handlers : s # r => admin'[s] = admin[s]
BY DEF ControlTyped

\* What has raced grows, and the count of acts.
LEMMA PastGrows ==
  ASSUME ControlTyped, NEW races \in SUBSET ControlRaces,
         \/ past' = [past EXCEPT !.raced = @ \cup races]
         \/ past' = [past EXCEPT !.acts = @ + 1, !.raced = @ \cup races]
  PROVE  past' \in PastSpace /\ past'.raced = past.raced \cup races
<1>1. past \in [raced : SUBSET ControlRaces, acts : Nat]
  BY DEF ControlTyped, PastSpace
<1>2. past.raced \cup races \in SUBSET ControlRaces /\ past.acts + 1 \in Nat
  BY <1>1
<1>3. CASE past' = [past EXCEPT !.raced = @ \cup races]
  BY <1>1, <1>2, <1>3 DEF PastSpace
<1>4. CASE past' = [past EXCEPT !.acts = @ + 1, !.raced = @ \cup races]
  BY <1>1, <1>2, <1>4 DEF PastSpace
<1> QED BY <1>3, <1>4

LEMMA BeginIs ==
  ASSUME ControlTyped, NEW r \in Handlers, NEW task \in Tasks, NEW races \in SUBSET ControlRaces,
         Begin(r, task, races)
  PROVE  /\ admin[r] = Resting /\ admin' \in [Handlers -> Tasks] /\ admin'[r] = task
         /\ \A s \in Handlers : s # r => admin'[s] = admin[s]
         /\ past' \in PastSpace /\ past'.raced = past.raced \cup races
<1>1. admin[r] = Resting /\ admin' = [admin EXCEPT ![r] = task]
  BY DEF Begin
<1>2. past' = [past EXCEPT !.acts = @ + 1, !.raced = @ \cup races]
  BY DEF Begin
<1>3. past' \in PastSpace /\ past'.raced = past.raced \cup races
  BY <1>2, PastGrows
<1> QED BY <1>1, <1>3, TaskPut

\* What a request at work is.
LEMMA TaskIs ==
  ASSUME ControlTyped, NEW r \in Handlers
  PROVE  /\ admin[r] \in Tasks
         /\ admin[r].op = "edit" =>
              admin[r] \in [op : {"edit"}, at : {"save", "push"}, loaded : Settings, row : Settings]
         /\ admin[r].op = "flip" =>
              admin[r] \in [op : {"flip"}, at : {"save", "cache", "push"}, to : Switch, loaded : Switch,
                            conn : Links]
         /\ admin[r].op = "revoke" => admin[r] \in [op : {"revoke"}, at : {"kick"}]
<1>1. admin[r] \in Tasks
  BY DEF ControlTyped
<1> QED BY <1>1 DEF Tasks, Resting

\* A frame is sent on an open socket or on none.
LEMMA SendIs ==
  ASSUME ControlTyped, NEW c, NEW f \in Frame, SendTo(c, f)
  PROVE  /\ wire' \in [Conns -> Seq(Frame)]
         /\ \A d \in Conns : d # c \/ d \in closed => wire'[d] = wire[d]
         /\ c \in Conns \ closed => wire'[c] = Append(wire[c], f)
<1>1. wire \in [Conns -> Seq(Frame)]
  BY DEF ControlTyped
<1>2. CASE c \in Conns \ closed
  <2>1. wire' = [wire EXCEPT ![c] = Append(wire[c], f)]
    BY <1>2 DEF SendTo
  <2>2. Append(wire[c], f) \in Seq(Frame)
    BY <1>1, <1>2
  <2> QED BY <1>1, <1>2, <2>1, <2>2
<1>3. CASE c \notin Conns \ closed
  BY <1>1, <1>3 DEF SendTo
<1> QED BY <1>2, <1>3

\* A session moves on; the others are left alone.
LEMMA SessionPut ==
  ASSUME ControlTyped, NEW c \in Conns, NEW e \in Sessions, session' = [session EXCEPT ![c] = e]
  PROVE  /\ session' \in [Conns -> Sessions] /\ session'[c] = e
         /\ \A d \in Conns : d # c => session'[d] = session[d]
BY DEF ControlTyped

LEMMA SessionMoves ==
  ASSUME ControlTyped, NEW c \in Conns, NEW at \in Stage, NEW held \in Settings \cup {NoSettings},
         \/ session' = [session EXCEPT ![c].at = at] /\ held = session[c].settings
         \/ session' = [session EXCEPT ![c].at = at, ![c].settings = held]
  PROVE  /\ session' \in [Conns -> Sessions]
         /\ session'[c].at = at /\ session'[c].key = session[c].key /\ session'[c].settings = held
         /\ \A d \in Conns : d # c => session'[d] = session[d]
<1>1. session \in [Conns -> Sessions]
  BY DEF ControlTyped
<1>2. session[c] \in [at : Stage, key : Nat, settings : Settings \cup {NoSettings}]
  BY <1>1 DEF Sessions
<1> DEFINE e == [at |-> at, key |-> session[c].key, settings |-> held]
<1>3. e \in Sessions
  BY <1>2 DEF Sessions
<1>4. CASE session' = [session EXCEPT ![c].at = at] /\ held = session[c].settings
  <2>1. [session[c] EXCEPT !.at = at] = e
    BY <1>2, <1>4
  <2>2. session' = [session EXCEPT ![c] = e]
    BY <1>4, <2>1
  <2>3. session'[c] = e /\ session' \in [Conns -> Sessions]
        /\ \A d \in Conns : d # c => session'[d] = session[d]
    BY <1>3, <2>2, SessionPut
  <2> QED BY <2>3
<1>5. CASE session' = [session EXCEPT ![c].at = at, ![c].settings = held]
  <2>1. [[session[c] EXCEPT !.at = at] EXCEPT !.settings = held] = e
    <3>1. PICK s \in [at : Stage, key : Nat, settings : Settings \cup {NoSettings}] :
            s = session[c]
      BY <1>2
    <3>2. [s EXCEPT !.at = at] = [at |-> at, key |-> s.key, settings |-> s.settings]
      BY <3>1
    <3> DEFINE q == [at |-> at, key |-> s.key, settings |-> s.settings]
    <3>3. [q EXCEPT !.settings = held] = [at |-> at, key |-> s.key, settings |-> held]
      OBVIOUS
    <3> QED BY <3>1, <3>2, <3>3
  <2>2. session' = [session EXCEPT ![c] = e]
    BY <1>1, <1>5, <2>1
  <2>3. session'[c] = e /\ session' \in [Conns -> Sessions]
        /\ \A d \in Conns : d # c => session'[d] = session[d]
    BY <1>3, <2>2, SessionPut
  <2> QED BY <2>3
<1> QED BY <1>4, <1>5

LEMMA TypesFromShape == ControlTyped => ControlTypeOK
<1> SUFFICES ASSUME ControlTyped PROVE ControlTypeOK
  OBVIOUS
<1>1. \A r \in Handlers : admin[r].op \in {"none", "edit", "flip", "revoke"}
  <2> SUFFICES ASSUME NEW r \in Handlers PROVE admin[r].op \in {"none", "edit", "flip", "revoke"}
    OBVIOUS
  <2>1. PICK task \in Tasks : task = admin[r]
    BY DEF ControlTyped
  <2>2. task.op \in {"none", "edit", "flip", "revoke"}
    BY DEF Tasks, Resting
  <2> QED BY <2>1, <2>2
<1>2. past.raced \subseteq {"edit", "handshake", "flip", "revoke", "presence"}
  BY DEF ControlTyped, PastSpace, ControlRaces
<1>3. /\ row \in Settings /\ keys \in Seq(AgentKey)
      /\ flag \in Switch /\ cache \in Switch
      /\ registered \in Conns \cup {NoConn} /\ closed \subseteq Conns
      /\ session \in [Conns -> [at : Stage, key : Nat, settings : Settings \cup {NoSettings}]]
      /\ wire \in [Conns -> Seq(Frame)]
      /\ daemon \in [conn : Conns \cup {NoConn}, settings : Settings \cup {NoSettings},
                     enabled : Switch]
      /\ news \subseteq {"online", "offline"} /\ view \in {"online", "offline"}
  BY DEF ControlTyped, Links, Sessions, Daemons
<1> QED BY <1>1, <1>2, <1>3, Zenon DEF ControlTypeOK

\* Edits.
LEMMA EditBegins ==
  ASSUME ControlTyped, NEW r \in Handlers, UpdateSettings(r) \/ ApplyPreset(r)
  PROVE  /\ ControlTyped'
         /\ admin[r] = Resting /\ \A s \in Handlers : s # r => admin'[s] = admin[s]
         /\ admin'[r].op = "edit" /\ admin'[r].at = "save" /\ admin'[r].loaded = row
         /\ past'.raced = past.raced \cup EditRaces
         /\ UNCHANGED <<stateVars, linkVars, panelVars>>
<1>1. row \in [Columns -> {"on", "off"}]
  BY DEF ControlTyped, Settings
<1>2. UNCHANGED <<stateVars, linkVars, panelVars>>
  BY DEF UpdateSettings, ApplyPreset
<1>3. EditRaces \in SUBSET ControlRaces
  BY DEF EditRaces, ControlRaces
<1>4. PICK to \in Settings :
        Begin(r, [op |-> "edit", at |-> "save", loaded |-> row, row |-> to], EditRaces)
  <2>1. CASE UpdateSettings(r)
    <3>1. PICK edit \in Edit :
            Begin(r, [op |-> "edit", at |-> "save", loaded |-> row, row |-> Patched(row, edit)],
                  EditRaces)
      BY <2>1 DEF UpdateSettings
    <3>2. Patched(row, edit) \in Settings
      BY <1>1 DEF Patched, Edit, Settings
    <3> QED BY <3>1, <3>2
  <2>2. CASE ApplyPreset(r)
    BY <2>2 DEF ApplyPreset
  <2> QED BY <2>1, <2>2
<1> DEFINE task == [op |-> "edit", at |-> "save", loaded |-> row, row |-> to]
<1>5. task \in Tasks
  BY DEF Tasks, ControlTyped
<1>6. task.op = "edit" /\ task.at = "save" /\ task.loaded = row
  OBVIOUS
<1> HIDE DEF task
<1>7. Begin(r, task, EditRaces)
  BY <1>4 DEF task
<1>8. /\ admin[r] = Resting /\ admin' \in [Handlers -> Tasks] /\ admin'[r] = task
      /\ \A s \in Handlers : s # r => admin'[s] = admin[s]
      /\ past' \in PastSpace /\ past'.raced = past.raced \cup EditRaces
  BY <1>3, <1>5, <1>7, BeginIs
<1>9. ControlTyped'
  BY <1>2, <1>8 DEF ControlTyped, stateVars, linkVars, panelVars
<1> QED BY <1>2, <1>6, <1>8, <1>9
\* A request goes on, or ends.
LEMMA TaskMoves ==
  ASSUME ControlTyped, NEW r \in Handlers, NEW at, Proceed(r, at),
         \/ admin[r].op = "edit" /\ at = "push"
         \/ admin[r].op = "flip" /\ at = "cache"
  PROVE  /\ admin' \in [Handlers -> Tasks]
         /\ admin'[r].op = admin[r].op /\ admin'[r].at = at
         /\ admin[r].op = "edit" => admin'[r].row = admin[r].row /\ admin'[r].loaded = admin[r].loaded
         /\ admin[r].op = "flip" =>
              admin'[r].to = admin[r].to /\ admin'[r].loaded = admin[r].loaded
              /\ admin'[r].conn = admin[r].conn
         /\ \A s \in Handlers : s # r => admin'[s] = admin[s]
<1>1. PICK task : task = admin[r]
  OBVIOUS
<1>2. admin' = [admin EXCEPT ![r] = [task EXCEPT !.at = at]]
  BY <1>1 DEF Proceed
<1>3. CASE admin[r].op = "edit" /\ at = "push"
  <2>1. task \in [op : {"edit"}, at : {"save", "push"}, loaded : Settings, row : Settings]
    BY <1>1, <1>3, TaskIs
  <2> DEFINE next == [task EXCEPT !.at = at]
  <2>2. /\ next \in [op : {"edit"}, at : {"save", "push"}, loaded : Settings, row : Settings]
        /\ next.op = "edit" /\ next.at = at /\ next.row = task.row /\ next.loaded = task.loaded
    BY <1>3, <2>1
  <2> HIDE DEF next
  <2>3. next \in Tasks
    BY <2>2 DEF Tasks
  <2>4. admin' = [admin EXCEPT ![r] = next]
    BY <1>2 DEF next
  <2>5. /\ admin' \in [Handlers -> Tasks] /\ admin'[r] = next
        /\ \A s \in Handlers : s # r => admin'[s] = admin[s]
    BY <2>3, <2>4, TaskPut
  <2> QED BY <1>1, <1>3, <2>2, <2>5
<1>4. CASE admin[r].op = "flip" /\ at = "cache"
  <2>1. task \in [op : {"flip"}, at : {"save", "cache", "push"}, to : Switch, loaded : Switch,
                  conn : Links]
    BY <1>1, <1>4, TaskIs
  <2> DEFINE next == [task EXCEPT !.at = at]
  <2>2. /\ next \in [op : {"flip"}, at : {"save", "cache", "push"}, to : Switch, loaded : Switch,
                     conn : Links]
        /\ next.op = "flip" /\ next.at = at /\ next.to = task.to /\ next.loaded = task.loaded
        /\ next.conn = task.conn
    BY <1>4, <2>1
  <2> HIDE DEF next
  <2>3. next \in Tasks
    BY <2>2 DEF Tasks
  <2>4. admin' = [admin EXCEPT ![r] = next]
    BY <1>2 DEF next
  <2>5. /\ admin' \in [Handlers -> Tasks] /\ admin'[r] = next
        /\ \A s \in Handlers : s # r => admin'[s] = admin[s]
    BY <2>3, <2>4, TaskPut
  <2> QED BY <1>1, <1>4, <2>2, <2>5
<1> QED BY <1>3, <1>4

LEMMA FinishIs ==
  ASSUME ControlTyped, NEW r \in Handlers, Finish(r)
  PROVE  /\ admin' \in [Handlers -> Tasks] /\ admin'[r] = Resting
         /\ \A s \in Handlers : s # r => admin'[s] = admin[s]
<1>1. Resting \in Tasks
  BY DEF Tasks
<1> QED BY <1>1, TaskPut DEF Finish

LEMMA SettingsSaved ==
  ASSUME ControlTyped, NEW r \in Handlers, SaveSettings(r)
  PROVE  /\ ControlTyped'
         /\ admin[r].op = "edit" /\ admin[r].at = "save"
         /\ admin'[r].op = "edit" /\ admin'[r].at = "push" /\ admin'[r].row = admin[r].row
         /\ \A s \in Handlers : s # r => admin'[s] = admin[s]
         /\ admin[r].loaded = row => row' = admin[r].row
         /\ UNCHANGED <<keys, flag, cache, linkVars, panelVars, past>>
<1>1. UNCHANGED <<keys, flag, cache, linkVars, panelVars, past>>
  BY DEF SaveSettings
<1>2. admin[r].op = "edit" /\ admin[r].at = "save" /\ Proceed(r, "push")
  BY DEF SaveSettings, Working
<1>3. /\ admin' \in [Handlers -> Tasks]
      /\ admin'[r].op = "edit" /\ admin'[r].at = "push" /\ admin'[r].row = admin[r].row
      /\ \A s \in Handlers : s # r => admin'[s] = admin[s]
  <2>1. PICK at : at = "push"
    OBVIOUS
  <2> QED BY <1>2, <2>1, TaskMoves
<1>4. PICK loaded \in Settings, to \in Settings : loaded = admin[r].loaded /\ to = admin[r].row
  <2>1. admin[r] \in [op : {"edit"}, at : {"save", "push"}, loaded : Settings, row : Settings]
    BY <1>2, TaskIs
  <2> QED BY <2>1
<1>5. row' = Saved(loaded, to) /\ row \in Settings
  BY <1>4 DEF SaveSettings, ControlTyped
<1>6. row' \in Settings /\ (loaded = row => row' = to)
  BY <1>4, <1>5 DEF Saved, Settings
<1>7. ControlTyped'
  BY <1>1, <1>3, <1>6 DEF ControlTyped, linkVars, panelVars
<1> QED BY <1>1, <1>2, <1>3, <1>4, <1>6, <1>7

LEMMA SettingsPushed ==
  ASSUME ControlTyped, NEW r \in Handlers, PushSettings(r)
  PROVE  /\ ControlTyped'
         /\ admin[r].op = "edit" /\ admin[r].at = "push" /\ admin'[r] = Resting
         /\ \A s \in Handlers : s # r => admin'[s] = admin[s]
         /\ \E f \in Frame :
              /\ f.type = "settings_update" /\ f.settings = admin[r].row
              /\ \A c \in Conns : c # registered \/ c \in closed => wire'[c] = wire[c]
              /\ registered \in Conns \ closed => wire'[registered] = Append(wire[registered], f)
         /\ UNCHANGED <<stateVars, registered, session, closed, daemon, panelVars, past>>
<1>1. UNCHANGED <<stateVars, registered, session, closed, daemon, panelVars, past>>
  BY DEF PushSettings
<1>2. admin[r].op = "edit" /\ admin[r].at = "push" /\ Finish(r)
  BY DEF PushSettings, Working
<1>3. /\ admin' \in [Handlers -> Tasks] /\ admin'[r] = Resting
      /\ \A s \in Handlers : s # r => admin'[s] = admin[s]
  BY <1>2, FinishIs
<1>4. PICK to \in Settings : to = admin[r].row
  <2>1. admin[r] \in [op : {"edit"}, at : {"save", "push"}, loaded : Settings, row : Settings]
    BY <1>2, TaskIs
  <2> QED BY <2>1
<1> DEFINE f == [type |-> "settings_update", settings |-> to, enabled |-> "enabled"]
<1>5. f \in Frame /\ f.type = "settings_update" /\ f.settings = to
  BY DEF Frame, Switch
<1>6. SendTo(registered, f)
  BY <1>4 DEF PushSettings
<1> HIDE DEF f
<1>7. /\ wire' \in [Conns -> Seq(Frame)]
      /\ \A c \in Conns : c # registered \/ c \in closed => wire'[c] = wire[c]
      /\ registered \in Conns \ closed => wire'[registered] = Append(wire[registered], f)
  BY <1>5, <1>6, SendIs
<1>8. ControlTyped'
  BY <1>1, <1>3, <1>7 DEF ControlTyped, stateVars, panelVars
<1> QED BY <1>1, <1>2, <1>3, <1>4, <1>5, <1>7, <1>8

\* Flips.
LEMMA FlipBegins ==
  ASSUME ControlTyped, NEW r \in Handlers, SetKillSwitch(r)
  PROVE  /\ ControlTyped'
         /\ admin[r] = Resting /\ \A s \in Handlers : s # r => admin'[s] = admin[s]
         /\ admin'[r].op = "flip" /\ admin'[r].at = "save" /\ admin'[r].loaded = flag
         /\ past'.raced = past.raced \cup {f \in {"flip"} : Busy("flip") # {}}
         /\ UNCHANGED <<stateVars, linkVars, panelVars>>
<1>1. UNCHANGED <<stateVars, linkVars, panelVars>>
  BY DEF SetKillSwitch
<1> DEFINE races == {f \in {"flip"} : Busy("flip") # {}}
<1>2. races \in SUBSET ControlRaces
  BY DEF ControlRaces
<1>3. PICK to \in Switch :
        Begin(r, [op |-> "flip", at |-> "save", to |-> to, loaded |-> flag, conn |-> NoConn], races)
  BY DEF SetKillSwitch
<1> DEFINE task == [op |-> "flip", at |-> "save", to |-> to, loaded |-> flag, conn |-> NoConn]
<1>4. task \in Tasks
  BY DEF Tasks, Links, ControlTyped
<1>5. task.op = "flip" /\ task.at = "save" /\ task.loaded = flag
  OBVIOUS
<1> HIDE DEF task
<1>6. Begin(r, task, races)
  BY <1>3 DEF task
<1> HIDE DEF races
<1>7. /\ admin[r] = Resting /\ admin' \in [Handlers -> Tasks] /\ admin'[r] = task
      /\ \A s \in Handlers : s # r => admin'[s] = admin[s]
      /\ past' \in PastSpace /\ past'.raced = past.raced \cup races
  BY <1>2, <1>4, <1>6, BeginIs
<1>8. ControlTyped'
  BY <1>1, <1>7 DEF ControlTyped, stateVars, linkVars, panelVars
<1> QED BY <1>1, <1>5, <1>7, <1>8 DEF races

LEMMA FlipSaved ==
  ASSUME ControlTyped, NEW r \in Handlers, SaveKillSwitch(r)
  PROVE  /\ ControlTyped'
         /\ admin[r].op = "flip" /\ admin[r].at = "save"
         /\ admin'[r].op = "flip" /\ admin'[r].at = "cache" /\ admin'[r].to = admin[r].to
         /\ \A s \in Handlers : s # r => admin'[s] = admin[s]
         /\ admin[r].loaded = flag => flag' = admin[r].to
         /\ UNCHANGED <<row, keys, cache, linkVars, panelVars, past>>
<1>1. UNCHANGED <<row, keys, cache, linkVars, panelVars, past>>
  BY DEF SaveKillSwitch
<1>2. admin[r].op = "flip" /\ admin[r].at = "save" /\ Proceed(r, "cache")
  BY DEF SaveKillSwitch, Working
<1>3. /\ admin' \in [Handlers -> Tasks]
      /\ admin'[r].op = "flip" /\ admin'[r].at = "cache" /\ admin'[r].to = admin[r].to
      /\ \A s \in Handlers : s # r => admin'[s] = admin[s]
  <2>1. PICK at : at = "cache"
    OBVIOUS
  <2> QED BY <1>2, <2>1, TaskMoves
<1>4. admin[r].to \in Switch
  <2>1. admin[r] \in [op : {"flip"}, at : {"save", "cache", "push"}, to : Switch, loaded : Switch,
                      conn : Links]
    BY <1>2, TaskIs
  <2> QED BY <2>1
<1>5. flag' = IF admin[r].to = admin[r].loaded THEN flag ELSE admin[r].to
  BY DEF SaveKillSwitch
<1>6. flag' \in Switch /\ (admin[r].loaded = flag => flag' = admin[r].to)
  BY <1>4, <1>5 DEF ControlTyped
<1>7. ControlTyped'
  BY <1>1, <1>3, <1>6 DEF ControlTyped, linkVars, panelVars
<1> QED BY <1>1, <1>2, <1>3, <1>6, <1>7

LEMMA FlipCached ==
  ASSUME ControlTyped, NEW r \in Handlers, CacheKillSwitch(r)
  PROVE  /\ ControlTyped'
         /\ admin[r].op = "flip" /\ admin[r].at = "cache"
         /\ admin'[r].op = "flip" /\ admin'[r].at = "push" /\ admin'[r].to = admin[r].to
         /\ admin'[r].conn = registered /\ cache' = admin[r].to
         /\ \A s \in Handlers : s # r => admin'[s] = admin[s]
         /\ UNCHANGED <<row, keys, flag, linkVars, panelVars, past>>
<1>1. UNCHANGED <<row, keys, flag, linkVars, panelVars, past>> /\ cache' = admin[r].to
  BY DEF CacheKillSwitch
<1>2. /\ admin[r].op = "flip" /\ admin[r].at = "cache"
      /\ admin' = [admin EXCEPT ![r].at = "push", ![r].conn = registered]
  BY DEF CacheKillSwitch, Working
<1>3. PICK task \in [op : {"flip"}, at : {"save", "cache", "push"}, to : Switch, loaded : Switch,
                     conn : Links] : task = admin[r]
  BY <1>2, TaskIs
<1> DEFINE next == [op |-> "flip", at |-> "push", to |-> task.to, loaded |-> task.loaded,
                    conn |-> registered]
<1>4. admin' = [admin EXCEPT ![r] = next]
  <2> DEFINE q == [op |-> "flip", at |-> "push", to |-> task.to, loaded |-> task.loaded,
                   conn |-> task.conn]
  <2>1. [task EXCEPT !.at = "push"] = q
    BY <1>3
  <2>2. [q EXCEPT !.conn = registered] = next
    OBVIOUS
  <2>3. [admin EXCEPT ![r] = [[task EXCEPT !.at = "push"] EXCEPT !.conn = registered]]
          = [admin EXCEPT ![r] = next]
    BY <2>1, <2>2
  <2>4. admin \in [Handlers -> Tasks]
    BY DEF ControlTyped
  <2>5. admin' = [admin EXCEPT ![r] = [[task EXCEPT !.at = "push"] EXCEPT !.conn = registered]]
    BY <1>2, <1>3, <2>4
  <2> QED BY <2>3, <2>5
<1>5. next \in Tasks /\ next.op = "flip" /\ next.at = "push" /\ next.to = task.to
      /\ next.conn = registered
  BY <1>3 DEF Tasks, ControlTyped
<1> HIDE DEF next
<1>6. /\ admin' \in [Handlers -> Tasks] /\ admin'[r] = next
      /\ \A s \in Handlers : s # r => admin'[s] = admin[s]
  BY <1>4, <1>5, TaskPut
<1>7. cache' \in Switch
  BY <1>1, <1>3
<1>8. ControlTyped'
  BY <1>1, <1>6, <1>7 DEF ControlTyped, linkVars, panelVars
<1> QED BY <1>1, <1>2, <1>3, <1>5, <1>6, <1>8

LEMMA FlipPushed ==
  ASSUME ControlTyped, NEW r \in Handlers, BroadcastKillSwitch(r)
  PROVE  /\ ControlTyped'
         /\ admin[r].op = "flip" /\ admin[r].at = "push" /\ admin'[r] = Resting
         /\ \A s \in Handlers : s # r => admin'[s] = admin[s]
         /\ \E f \in Frame :
              /\ f.type = "kill_switch" /\ f.enabled = admin[r].to
              /\ \A c \in Conns : c # admin[r].conn \/ c \in closed => wire'[c] = wire[c]
              /\ admin[r].conn \in Conns \ closed =>
                   wire'[admin[r].conn] = Append(wire[admin[r].conn], f)
         /\ UNCHANGED <<stateVars, registered, session, closed, daemon, panelVars, past>>
<1>1. UNCHANGED <<stateVars, registered, session, closed, daemon, panelVars, past>>
  BY DEF BroadcastKillSwitch
<1>2. admin[r].op = "flip" /\ admin[r].at = "push" /\ Finish(r)
  BY DEF BroadcastKillSwitch, Working
<1>3. /\ admin' \in [Handlers -> Tasks] /\ admin'[r] = Resting
      /\ \A s \in Handlers : s # r => admin'[s] = admin[s]
  BY <1>2, FinishIs
<1>4. PICK to \in Switch, link \in Links : to = admin[r].to /\ link = admin[r].conn
  <2>1. admin[r] \in [op : {"flip"}, at : {"save", "cache", "push"}, to : Switch, loaded : Switch,
                      conn : Links]
    BY <1>2, TaskIs
  <2> QED BY <2>1
<1> DEFINE f == [type |-> "kill_switch", settings |-> NoSettings, enabled |-> to]
<1>5. f \in Frame /\ f.type = "kill_switch" /\ f.enabled = to
  BY DEF Frame
<1>6. SendTo(link, f)
  BY <1>4 DEF BroadcastKillSwitch
<1> HIDE DEF f
<1>7. /\ wire' \in [Conns -> Seq(Frame)]
      /\ \A c \in Conns : c # link \/ c \in closed => wire'[c] = wire[c]
      /\ link \in Conns \ closed => wire'[link] = Append(wire[link], f)
  BY <1>5, <1>6, SendIs
<1>8. ControlTyped'
  BY <1>1, <1>3, <1>7 DEF ControlTyped, stateVars, panelVars
<1> QED BY <1>1, <1>2, <1>3, <1>4, <1>5, <1>7, <1>8
\* Keys.
LEMMA KeyCreated ==
  ASSUME ControlTyped, CreateKey
  PROVE  /\ ControlTyped'
         /\ DOMAIN keys \subseteq DOMAIN keys' /\ \A k \in DOMAIN keys : keys'[k] = keys[k]
         /\ UNCHANGED <<row, flag, cache, linkVars, panelVars, admin, past>>
<1>1. /\ keys' = Append(keys, [revoked |-> FALSE])
      /\ UNCHANGED <<row, flag, cache, linkVars, panelVars, admin, past>>
  BY DEF CreateKey
<1>2. keys \in Seq(AgentKey) /\ [revoked |-> FALSE] \in AgentKey
  BY DEF ControlTyped, AgentKey
<1>3. PICK new \in AgentKey : new = [revoked |-> FALSE]
  BY <1>2
<1>4. /\ Append(keys, new) \in Seq(AgentKey) /\ DOMAIN Append(keys, new) = DOMAIN keys \cup {Len(keys) + 1}
      /\ \A j \in DOMAIN keys : Append(keys, new)[j] = keys[j]
  BY <1>2, SeqAdd
<1>5. keys' \in Seq(AgentKey) /\ DOMAIN keys \subseteq DOMAIN keys' /\ \A j \in DOMAIN keys : keys'[j] = keys[j]
  BY <1>1, <1>3, <1>4
<1>6. ControlTyped'
  BY <1>1, <1>5 DEF ControlTyped, linkVars, panelVars
<1> QED BY <1>1, <1>5, <1>6

LEMMA KeyRevoked ==
  ASSUME ControlTyped, NEW r \in Handlers, RevokeKey(r)
  PROVE  /\ ControlTyped' /\ DOMAIN keys' = DOMAIN keys
         /\ \E k \in DOMAIN keys : \A j \in DOMAIN keys : j # k => keys'[j] = keys[j]
         /\ admin[r] = Resting /\ admin'[r].op = "revoke"
         /\ \A s \in Handlers : s # r => admin'[s] = admin[s]
         /\ past'.raced = past.raced
              \cup {f \in {"revoke"} : \E c \in Conns : session[c].at = "authed"}
         /\ UNCHANGED <<row, flag, cache, linkVars, panelVars>>
<1>1. UNCHANGED <<row, flag, cache, linkVars, panelVars>>
  BY DEF RevokeKey
<1> DEFINE races == {f \in {"revoke"} : \E c \in Conns : session[c].at = "authed"}
           task == [op |-> "revoke", at |-> "kick"]
<1>2. PICK k \in DOMAIN keys :
        keys' = [keys EXCEPT ![k].revoked = TRUE] /\ Begin(r, task, races)
  BY DEF RevokeKey
<1>3. task \in Tasks /\ task.op = "revoke" /\ races \in SUBSET ControlRaces
  BY DEF Tasks, ControlRaces
<1> HIDE DEF task, races
<1>4. /\ admin[r] = Resting /\ admin' \in [Handlers -> Tasks] /\ admin'[r] = task
      /\ \A s \in Handlers : s # r => admin'[s] = admin[s]
      /\ past' \in PastSpace /\ past'.raced = past.raced \cup races
  BY <1>2, <1>3, BeginIs
<1>5. PICK dead : dead = [keys[k] EXCEPT !.revoked = TRUE]
  OBVIOUS
<1>6. keys \in Seq(AgentKey) /\ keys[k] \in AgentKey
  BY DEF ControlTyped
<1>7. dead \in AgentKey
  BY <1>5, <1>6 DEF AgentKey
<1>8. keys' = [keys EXCEPT ![k] = dead]
  BY <1>2, <1>5
<1>9. keys' \in Seq(AgentKey) /\ DOMAIN keys' = DOMAIN keys /\ \A j \in DOMAIN keys : j # k => keys'[j] = keys[j]
  BY <1>6, <1>7, <1>8, SeqPut
<1>10. ControlTyped'
  BY <1>1, <1>4, <1>9 DEF ControlTyped, linkVars, panelVars
<1> QED BY <1>1, <1>3, <1>4, <1>9, <1>10 DEF races

\* A presence frame is broadcast.
Announced(status) ==
  /\ news' = news \cup {status} /\ news' \in SUBSET {"online", "offline"}
  /\ past' \in PastSpace /\ past'.raced = past.raced \cup Conflicts(status)

LEMMA AnnounceIs ==
  ASSUME ControlTyped, NEW status \in {"online", "offline"}, Announce(status),
         past' = [past EXCEPT !.raced = @ \cup Conflicts(status)]
  PROVE  Announced(status)
<1>1. Conflicts(status) \in SUBSET ControlRaces
  BY DEF Conflicts, ControlRaces
<1>2. past' \in PastSpace /\ past'.raced = past.raced \cup Conflicts(status)
  BY <1>1, PastGrows
<1>3. news' = news \cup {status} /\ news \in SUBSET {"online", "offline"}
  BY DEF Announce, ControlTyped
<1> QED BY <1>2, <1>3 DEF Announced

LEMMA AgentKicked ==
  ASSUME ControlTyped, NEW r \in Handlers, KickAgent(r)
  PROVE  /\ ControlTyped'
         /\ admin[r].op = "revoke" /\ admin'[r] = Resting
         /\ \A s \in Handlers : s # r => admin'[s] = admin[s]
         /\ registered' = NoConn
         /\ registered = NoConn => UNCHANGED <<closed, news, past>>
         /\ registered # NoConn => closed' = closed \cup {registered} /\ Announced("offline")
         /\ UNCHANGED <<stateVars, session, wire, daemon, view>>
<1>1. registered' = NoConn /\ UNCHANGED <<stateVars, session, wire, daemon, view>>
  BY DEF KickAgent
<1>2. admin[r].op = "revoke" /\ Finish(r)
  BY DEF KickAgent, Working
<1>3. /\ admin' \in [Handlers -> Tasks] /\ admin'[r] = Resting
      /\ \A s \in Handlers : s # r => admin'[s] = admin[s]
  BY <1>2, FinishIs
<1>4. CASE registered = NoConn
  <2>1. UNCHANGED <<closed, news, past>>
    BY <1>4 DEF KickAgent
  <2>2. ControlTyped'
    BY <1>1, <1>3, <2>1 DEF ControlTyped, stateVars, Links
  <2> QED BY <1>1, <1>2, <1>3, <1>4, <2>1, <2>2
<1>5. CASE registered # NoConn
  <2>1. PICK s \in {"online", "offline"} : s = "offline"
    OBVIOUS
  <2>2. /\ closed' = closed \cup {registered} /\ Announce(s)
        /\ past' = [past EXCEPT !.raced = @ \cup Conflicts(s)]
    BY <1>5, <2>1 DEF KickAgent
  <2>3. Announced(s)
    BY <2>2, AnnounceIs
  <2>4. closed' \in SUBSET Conns
    BY <1>5, <2>2 DEF ControlTyped, Links
  <2>5. ControlTyped'
    BY <1>1, <1>3, <2>3, <2>4 DEF ControlTyped, stateVars, Links, Announced
  <2> QED BY <1>1, <1>2, <1>3, <1>5, <2>1, <2>2, <2>3, <2>5
<1> QED BY <1>4, <1>5

\* Connections.
LEMMA HelloIs ==
  ASSUME ControlTyped, NEW c \in Conns, Hello(c)
  PROVE  /\ ControlTyped'
         /\ daemon.conn = NoConn /\ daemon'.conn = c
         /\ session[c].at = "off" /\ registered # c /\ closed' = closed \ {c}
         /\ session'[c].at = "hello" /\ session'[c].key \in DOMAIN keys
         /\ \A d \in Conns : d # c => session'[d] = session[d]
         /\ past'.raced = past.raced
         /\ UNCHANGED <<stateVars, registered, panelVars, admin>>
<1>1. /\ daemon.conn = NoConn /\ session[c].at = "off" /\ registered # c
      /\ closed' = closed \ {c} /\ UNCHANGED <<stateVars, registered, panelVars, admin>>
      /\ daemon' = [daemon EXCEPT !.conn = c] /\ wire' = [wire EXCEPT ![c] = <<>>]
      /\ past' = [past EXCEPT !.acts = @ + 1]
  BY DEF Hello
<1>2. PICK k \in DOMAIN keys :
        session' = [session EXCEPT ![c] = [at |-> "hello", key |-> k, settings |-> NoSettings]]
  BY DEF Hello
<1>3. k \in Nat
  BY DEF ControlTyped
<1> DEFINE new == [at |-> "hello", key |-> k, settings |-> NoSettings]
<1>4. new \in Sessions /\ new.at = "hello" /\ new.key = k
  BY <1>3 DEF Sessions, Stage
<1>5. session' = [session EXCEPT ![c] = new]
  BY <1>2
<1> HIDE DEF new
<1>6. /\ session' \in [Conns -> Sessions] /\ session'[c] = new
      /\ \A d \in Conns : d # c => session'[d] = session[d]
  BY <1>4, <1>5, SessionPut
<1>7. daemon' \in Daemons /\ daemon'.conn = c
  <2>1. daemon \in [conn : Links, settings : Settings \cup {NoSettings}, enabled : Switch] /\ c \in Links
    BY DEF ControlTyped, Daemons, Links
  <2> QED BY <1>1, <2>1 DEF Daemons
<1>8. wire' \in [Conns -> Seq(Frame)]
  <2>1. <<>> \in Seq(Frame)
    OBVIOUS
  <2> QED BY <1>1, <2>1 DEF ControlTyped
<1>9. past' \in PastSpace /\ past'.raced = past.raced
  <2>1. past \in [raced : SUBSET ControlRaces, acts : Nat]
    BY DEF ControlTyped, PastSpace
  <2> QED BY <1>1, <2>1 DEF PastSpace
<1>10. closed' \in SUBSET Conns
  BY <1>1 DEF ControlTyped
<1>11. ControlTyped'
  BY <1>1, <1>6, <1>7, <1>8, <1>9, <1>10 DEF ControlTyped, stateVars, panelVars
<1> QED BY <1>1, <1>4, <1>6, <1>7, <1>9, <1>11

LEMMA KeyChecked ==
  ASSUME ControlTyped, NEW c \in Conns, AuthenticateKey(c)
  PROVE  /\ ControlTyped' /\ session[c].at = "hello" /\ session'[c].key = session[c].key
         /\ \A d \in Conns : d # c => session'[d] = session[d]
         /\ \/ session'[c].at = "off" /\ closed' = closed \cup {c} /\ past' = past
            \/ /\ ~keys[session[c].key].revoked
               /\ session'[c].at = "authed" /\ session'[c].settings = row /\ closed' = closed
               /\ past'.raced = past.raced \cup {f \in {"handshake"} : Busy("edit") # {}}
         /\ UNCHANGED <<stateVars, registered, wire, daemon, panelVars, admin>>
<1>1. session[c].at = "hello" /\ UNCHANGED <<stateVars, registered, wire, daemon, panelVars, admin>>
  BY DEF AuthenticateKey
<1>2. session[c] \in [at : Stage, key : Nat, settings : Settings \cup {NoSettings}] /\ row \in Settings
  BY DEF ControlTyped, Sessions
<1>3. CASE keys[session[c].key].revoked
  <2>1. /\ session' = [session EXCEPT ![c].at = "off"] /\ closed' = closed \cup {c} /\ past' = past
    BY <1>3 DEF AuthenticateKey
  <2>2. PICK at \in Stage, held \in Settings \cup {NoSettings} : at = "off" /\ held = session[c].settings
    BY <1>2 DEF Stage
  <2>3. session' = [session EXCEPT ![c].at = at]
    BY <2>1, <2>2
  <2>4. /\ session' \in [Conns -> Sessions]
        /\ session'[c].at = at /\ session'[c].key = session[c].key
        /\ \A d \in Conns : d # c => session'[d] = session[d]
    BY <2>2, <2>3, SessionMoves
  <2>5. ControlTyped'
    BY <1>1, <2>1, <2>4 DEF ControlTyped, stateVars, panelVars
  <2> QED BY <1>1, <2>1, <2>2, <2>4, <2>5
<1>4. CASE ~keys[session[c].key].revoked
  <2> DEFINE races == {f \in {"handshake"} : Busy("edit") # {}}
  <2>1. /\ session' = [session EXCEPT ![c].at = "authed", ![c].settings = row] /\ closed' = closed
        /\ past' = [past EXCEPT !.raced = @ \cup races]
    BY <1>4 DEF AuthenticateKey
  <2>2. PICK at \in Stage, held \in Settings \cup {NoSettings} : at = "authed" /\ held = row
    BY <1>2 DEF Stage
  <2>3. session' = [session EXCEPT ![c].at = at, ![c].settings = held]
    BY <2>1, <2>2
  <2>4. /\ session' \in [Conns -> Sessions]
        /\ session'[c].at = at /\ session'[c].key = session[c].key /\ session'[c].settings = held
        /\ \A d \in Conns : d # c => session'[d] = session[d]
    <3>1. \/ session' = [session EXCEPT ![c].at = at] /\ held = session[c].settings
          \/ session' = [session EXCEPT ![c].at = at, ![c].settings = held]
      BY <2>3, Zenon
    <3> QED BY <3>1, SessionMoves, Zenon
  <2>5. races \in SUBSET ControlRaces
    BY DEF ControlRaces
  <2> HIDE DEF races
  <2>6. past' \in PastSpace /\ past'.raced = past.raced \cup races
    BY <2>1, <2>5, PastGrows
  <2>7. ControlTyped'
    BY <1>1, <2>1, <2>4, <2>6 DEF ControlTyped, stateVars, panelVars
  <2> QED BY <1>1, <1>4, <2>1, <2>2, <2>4, <2>6, <2>7 DEF races
<1> QED BY <1>3, <1>4

LEMMA AgentConnected ==
  ASSUME ControlTyped, NEW c \in Conns, ConnectAgent(c)
  PROVE  /\ ControlTyped'
         /\ session[c].at = "authed" /\ session'[c].at = "registered"
         /\ session'[c].key = session[c].key /\ session'[c].settings = session[c].settings
         /\ \A d \in Conns : d # c => session'[d] = session[d]
         /\ registered' = c /\ closed' = closed \cup ({registered} \ {NoConn})
         /\ Announced("online")
         /\ UNCHANGED <<stateVars, wire, daemon, view, admin>>
<1>1. /\ session[c].at = "authed" /\ registered' = c /\ closed' = closed \cup ({registered} \ {NoConn})
      /\ session' = [session EXCEPT ![c].at = "registered"]
      /\ UNCHANGED <<stateVars, wire, daemon, view, admin>>
  BY DEF ConnectAgent
<1>2. session[c] \in [at : Stage, key : Nat, settings : Settings \cup {NoSettings}]
  BY DEF ControlTyped, Sessions
<1>3. PICK at \in Stage, held \in Settings \cup {NoSettings} :
        at = "registered" /\ held = session[c].settings
  BY <1>2 DEF Stage
<1>4. session' = [session EXCEPT ![c].at = at]
  BY <1>1, <1>3
<1>5. /\ session' \in [Conns -> Sessions]
      /\ session'[c].at = at /\ session'[c].key = session[c].key /\ session'[c].settings = held
      /\ \A d \in Conns : d # c => session'[d] = session[d]
  BY <1>3, <1>4, SessionMoves
<1>6. PICK s \in {"online", "offline"} : s = "online"
  OBVIOUS
<1>7. Announced(s)
  <2>1. Announce(s) /\ past' = [past EXCEPT !.raced = @ \cup Conflicts(s)]
    BY <1>6 DEF ConnectAgent
  <2> QED BY <2>1, AnnounceIs
<1>8. closed' \in SUBSET Conns /\ registered' \in Links
  BY <1>1 DEF ControlTyped, Links
<1>9. ControlTyped'
  BY <1>1, <1>5, <1>7, <1>8 DEF ControlTyped, stateVars, Announced
<1> QED BY <1>1, <1>3, <1>5, <1>6, <1>7, <1>9

LEMMA AckSent ==
  ASSUME ControlTyped, NEW c \in Conns, SendHelloAck(c)
  PROVE  /\ ControlTyped'
         /\ session[c].at = "registered" /\ session'[c].at = "live"
         /\ session'[c].key = session[c].key
         /\ \A d \in Conns : d # c => session'[d] = session[d]
         /\ \E f \in Frame :
              /\ f.type = "hello_ack" /\ f.settings = session[c].settings /\ f.enabled = cache
              /\ \A d \in Conns : d # c \/ d \in closed => wire'[d] = wire[d]
              /\ c \in Conns \ closed => wire'[c] = Append(wire[c], f)
         /\ UNCHANGED <<stateVars, registered, closed, daemon, panelVars, admin, past>>
<1>1. /\ session[c].at = "registered"
      /\ session' = [session EXCEPT ![c].at = "live", ![c].settings = NoSettings]
      /\ UNCHANGED <<stateVars, registered, closed, daemon, panelVars, admin, past>>
  BY DEF SendHelloAck
<1>2. session[c] \in [at : Stage, key : Nat, settings : Settings \cup {NoSettings}]
  BY DEF ControlTyped, Sessions
<1>3. PICK at \in Stage, held \in Settings \cup {NoSettings} : at = "live" /\ held = NoSettings
  BY DEF Stage
<1>4. session' = [session EXCEPT ![c].at = at, ![c].settings = held]
  BY <1>1, <1>3
<1>5. /\ session' \in [Conns -> Sessions]
      /\ session'[c].at = at /\ session'[c].key = session[c].key
      /\ \A d \in Conns : d # c => session'[d] = session[d]
  BY <1>4, SessionMoves
<1>6. PICK to \in Settings \cup {NoSettings}, e \in Switch : to = session[c].settings /\ e = cache
  BY <1>2 DEF ControlTyped
<1> DEFINE f == [type |-> "hello_ack", settings |-> to, enabled |-> e]
<1>7. f \in Frame /\ f.type = "hello_ack" /\ f.settings = to /\ f.enabled = e
  BY DEF Frame
<1>8. SendTo(c, f)
  BY <1>6 DEF SendHelloAck
<1> HIDE DEF f
<1>9. /\ wire' \in [Conns -> Seq(Frame)]
      /\ \A d \in Conns : d # c \/ d \in closed => wire'[d] = wire[d]
      /\ c \in Conns \ closed => wire'[c] = Append(wire[c], f)
  BY <1>7, <1>8, SendIs
<1>10. ControlTyped'
  BY <1>1, <1>5, <1>9 DEF ControlTyped, stateVars, panelVars
<1> QED BY <1>1, <1>3, <1>5, <1>6, <1>7, <1>9, <1>10

LEMMA AckRaised ==
  ASSUME ControlTyped, NEW c \in Conns, HelloAckRaises(c)
  PROVE  /\ ControlTyped' /\ session'[c].at = "off" /\ session'[c].key = session[c].key
         /\ session[c].at = "registered"
         /\ \A d \in Conns : d # c => session'[d] = session[d]
         /\ UNCHANGED <<stateVars, registered, closed, wire, daemon, panelVars, admin, past>>
<1>1. /\ session[c].at = "registered"
      /\ session' = [session EXCEPT ![c].at = "off", ![c].settings = NoSettings]
      /\ UNCHANGED <<stateVars, registered, closed, wire, daemon, panelVars, admin, past>>
  BY DEF HelloAckRaises
<1>2. PICK at \in Stage, held \in Settings \cup {NoSettings} : at = "off" /\ held = NoSettings
  BY DEF Stage
<1>3. session' = [session EXCEPT ![c].at = at, ![c].settings = held]
  BY <1>1, <1>2
<1>4. /\ session' \in [Conns -> Sessions]
      /\ session'[c].at = at /\ session'[c].key = session[c].key
      /\ \A d \in Conns : d # c => session'[d] = session[d]
  BY <1>3, SessionMoves
<1>5. ControlTyped'
  BY <1>1, <1>4 DEF ControlTyped, stateVars, panelVars
<1> QED BY <1>1, <1>2, <1>4, <1>5

LEMMA SessionEnded ==
  ASSUME ControlTyped, NEW c \in Conns, EndOfSession(c)
  PROVE  /\ ControlTyped' /\ session'[c].at = "off" /\ session'[c].key = session[c].key
         /\ session[c].at = "live"
         /\ \A d \in Conns : d # c => session'[d] = session[d]
         /\ registered = c => registered' = NoConn /\ Announced("offline")
         /\ registered # c => UNCHANGED <<registered, news, past>>
         /\ UNCHANGED <<stateVars, closed, wire, daemon, view, admin>>
<1>1. /\ session[c].at = "live" /\ session' = [session EXCEPT ![c].at = "off"]
      /\ UNCHANGED <<stateVars, closed, wire, daemon, view, admin>>
  BY DEF EndOfSession
<1>2. session[c] \in [at : Stage, key : Nat, settings : Settings \cup {NoSettings}]
  BY DEF ControlTyped, Sessions
<1>3. PICK at \in Stage, held \in Settings \cup {NoSettings} : at = "off" /\ held = session[c].settings
  BY <1>2 DEF Stage
<1>4. session' = [session EXCEPT ![c].at = at]
  BY <1>1, <1>3
<1>5. /\ session' \in [Conns -> Sessions]
      /\ session'[c].at = at /\ session'[c].key = session[c].key
      /\ \A d \in Conns : d # c => session'[d] = session[d]
  BY <1>3, <1>4, SessionMoves
<1>6. CASE registered = c
  <2>1. PICK s \in {"online", "offline"} : s = "offline"
    OBVIOUS
  <2>2. registered' = NoConn /\ Announce(s) /\ past' = [past EXCEPT !.raced = @ \cup Conflicts(s)]
    BY <1>6, <2>1 DEF EndOfSession
  <2>3. Announced(s)
    BY <2>2, AnnounceIs
  <2>4. ControlTyped'
    BY <1>1, <1>5, <2>2, <2>3 DEF ControlTyped, stateVars, Links, Announced
  <2> QED BY <1>1, <1>3, <1>5, <1>6, <2>1, <2>2, <2>3, <2>4
<1>7. CASE registered # c
  <2>1. UNCHANGED <<registered, news, past>>
    BY <1>7 DEF EndOfSession
  <2>2. ControlTyped'
    BY <1>1, <1>5, <2>1 DEF ControlTyped, stateVars
  <2> QED BY <1>1, <1>3, <1>5, <1>7, <2>1, <2>2
<1> QED BY <1>6, <1>7

LEMMA FrameRead ==
  ASSUME ControlTyped, OnFrame
  PROVE  /\ ControlTyped' /\ daemon.conn \in Conns /\ daemon'.conn = daemon.conn
         /\ wire[daemon.conn] \in Seq(Frame) /\ wire[daemon.conn] # <<>>
         /\ wire'[daemon.conn] = Tail(wire[daemon.conn])
         /\ LET f == Head(wire[daemon.conn])
            IN  /\ daemon'.settings = IF f.type = "kill_switch" THEN daemon.settings ELSE f.settings
                /\ daemon'.enabled = IF f.type = "settings_update" THEN daemon.enabled ELSE f.enabled
         /\ UNCHANGED <<stateVars, registered, session, closed, panelVars, admin, past>>
<1>1. /\ daemon.conn # NoConn /\ wire[daemon.conn] # <<>>
      /\ wire' = [wire EXCEPT ![daemon.conn] = Tail(@)]
      /\ UNCHANGED <<stateVars, registered, session, closed, panelVars, admin, past>>
  BY DEF OnFrame
<1>2. daemon \in [conn : Links, settings : Settings \cup {NoSettings}, enabled : Switch]
  BY DEF ControlTyped, Daemons
<1>3. PICK c \in Conns : c = daemon.conn
  BY <1>1, <1>2 DEF Links
<1>4. PICK w \in Seq(Frame) : w = wire[c]
  BY DEF ControlTyped
<1>5. /\ w # <<>> /\ Head(w) \in Frame /\ Tail(w) \in Seq(Frame)
  BY <1>1, <1>3, <1>4
<1>6. PICK f \in Frame : f = Head(w)
  BY <1>5
<1>7. f.settings \in Settings \cup {NoSettings} /\ f.enabled \in Switch
  BY DEF Frame
<1> DEFINE s == IF f.type = "kill_switch" THEN daemon.settings ELSE f.settings
           e == IF f.type = "settings_update" THEN daemon.enabled ELSE f.enabled
<1>8. s \in Settings \cup {NoSettings} /\ e \in Switch
  BY <1>2, <1>7
<1>9. daemon' = [daemon EXCEPT !.settings = s, !.enabled = e]
  BY <1>3, <1>4, <1>6 DEF OnFrame
<1> HIDE DEF s, e
<1>10. /\ daemon' \in [conn : Links, settings : Settings \cup {NoSettings}, enabled : Switch]
       /\ daemon'.conn = daemon.conn /\ daemon'.settings = s /\ daemon'.enabled = e
  BY <1>2, <1>8, <1>9
<1>11. wire' \in [Conns -> Seq(Frame)] /\ wire'[c] = Tail(w)
  <2>1. wire' = [wire EXCEPT ![c] = Tail(w)]
    BY <1>1, <1>3, <1>4
  <2> QED BY <1>5, <2>1 DEF ControlTyped
<1>12. ControlTyped'
  BY <1>1, <1>10, <1>11 DEF ControlTyped, stateVars, panelVars, Daemons
<1> QED BY <1>1, <1>3, <1>4, <1>6, <1>10, <1>11, <1>12 DEF s, e

LEMMA DaemonCut ==
  ASSUME ControlTyped, OnClosed
  PROVE  /\ ControlTyped' /\ daemon'.conn = NoConn /\ closed \subseteq closed'
         /\ UNCHANGED <<stateVars, registered, session, panelVars, admin, past>>
<1>1. /\ daemon.conn # NoConn /\ closed' = closed \cup {daemon.conn}
      /\ wire' = [wire EXCEPT ![daemon.conn] = <<>>]
      /\ daemon' = [daemon EXCEPT !.conn = NoConn]
      /\ UNCHANGED <<stateVars, registered, session, panelVars, admin, past>>
  BY DEF OnClosed
<1>2. daemon \in [conn : Links, settings : Settings \cup {NoSettings}, enabled : Switch]
      /\ NoConn \in Links
  BY DEF ControlTyped, Daemons, Links
<1>3. /\ daemon' \in [conn : Links, settings : Settings \cup {NoSettings}, enabled : Switch]
      /\ daemon'.conn = NoConn
  BY <1>1, <1>2
<1>4. closed' \in SUBSET Conns /\ closed \subseteq closed'
  BY <1>1, <1>2 DEF Links, ControlTyped
<1>5. wire' \in [Conns -> Seq(Frame)]
  <2>1. <<>> \in Seq(Frame)
    OBVIOUS
  <2> QED BY <1>1, <2>1 DEF ControlTyped
<1>6. ControlTyped'
  BY <1>1, <1>3, <1>4, <1>5 DEF ControlTyped, stateVars, panelVars, Daemons
<1> QED BY <1>1, <1>3, <1>4, <1>6

LEMMA PanelTold ==
  ASSUME ControlTyped,
         ObserverConnects \/ \E s \in {"online", "offline"} : PresenceArrives(s)
  PROVE  /\ ControlTyped' /\ UNCHANGED <<stateVars, linkVars, admin, past>>
         /\ \/ view' = Shown /\ news' = news
            \/ \E s \in news : view' = s /\ news' = news \ {s}
<1>1. CASE ObserverConnects
  <2>1. view' = Shown /\ UNCHANGED <<stateVars, linkVars, news, admin, past>>
    BY <1>1 DEF ObserverConnects, Shown
  <2>2. view' \in {"online", "offline"}
    BY <2>1 DEF Shown
  <2>3. ControlTyped'
    BY <2>1, <2>2 DEF ControlTyped, stateVars, linkVars
  <2> QED BY <2>1, <2>3
<1>2. ASSUME NEW s \in {"online", "offline"}, PresenceArrives(s)
      PROVE  /\ ControlTyped' /\ UNCHANGED <<stateVars, linkVars, admin, past>>
             /\ s \in news /\ view' = s /\ news' = news \ {s}
  <2>1. s \in news /\ view' = s /\ news' = news \ {s} /\ UNCHANGED <<stateVars, linkVars, admin, past>>
    BY <1>2 DEF PresenceArrives
  <2>2. ControlTyped'
    BY <2>1 DEF ControlTyped, stateVars, linkVars
  <2> QED BY <2>1, <2>2
<1> QED BY <1>1, <1>2

LEMMA HubRestarted ==
  ASSUME ControlTyped, RestartHub
  PROVE  /\ ControlTyped' /\ cache' = flag /\ registered' = NoConn /\ closed' = Conns
         /\ \A c \in Conns : session'[c].at = "off"
         /\ daemon'.conn = NoConn /\ news' = {} /\ view' = "offline"
         /\ \A r \in Handlers : admin'[r] = Resting
         /\ past'.raced = past.raced /\ UNCHANGED <<row, keys, flag>>
<1>1. /\ cache' = flag /\ registered' = NoConn /\ closed' = Conns
      /\ session' = [c \in Conns |-> [session[c] EXCEPT !.at = "off", !.settings = NoSettings]]
      /\ wire' = [c \in Conns |-> <<>>] /\ daemon' = [daemon EXCEPT !.conn = NoConn]
      /\ news' = {} /\ view' = "offline" /\ admin' = [r \in Handlers |-> Resting]
      /\ past' = [past EXCEPT !.acts = @ + 1] /\ UNCHANGED <<row, keys, flag>>
  BY DEF RestartHub
<1>2. \A c \in Conns : session'[c] \in Sessions /\ session'[c].at = "off"
  <2> SUFFICES ASSUME NEW c \in Conns PROVE session'[c] \in Sessions /\ session'[c].at = "off"
    OBVIOUS
  <2>1. PICK s \in [at : Stage, key : Nat, settings : Settings \cup {NoSettings}] : s = session[c]
    BY DEF ControlTyped, Sessions
  <2> DEFINE q == [at |-> "off", key |-> s.key, settings |-> s.settings]
  <2>2. [s EXCEPT !.at = "off"] = q
    BY <2>1
  <2>3. [q EXCEPT !.settings = NoSettings] = [at |-> "off", key |-> s.key, settings |-> NoSettings]
    OBVIOUS
  <2>4. session'[c] = [[s EXCEPT !.at = "off"] EXCEPT !.settings = NoSettings]
    <3>1. session'[c] = [session[c] EXCEPT !.at = "off", !.settings = NoSettings]
      BY <1>1
    <3> QED BY <2>1, <3>1
  <2>5. session'[c] = [at |-> "off", key |-> s.key, settings |-> NoSettings]
    BY <2>2, <2>3, <2>4
  <2> QED BY <2>1, <2>5 DEF Sessions, Stage
<1>3. session' \in [Conns -> Sessions]
  BY <1>1, <1>2
<1>4. /\ daemon' \in Daemons /\ daemon'.conn = NoConn
  <2>1. daemon \in [conn : Links, settings : Settings \cup {NoSettings}, enabled : Switch]
        /\ NoConn \in Links
    BY DEF ControlTyped, Daemons, Links
  <2> QED BY <1>1, <2>1 DEF Daemons
<1>5. past' \in PastSpace /\ past'.raced = past.raced
  <2>1. PICK p \in [raced : SUBSET ControlRaces, acts : Nat] : p = past
    BY DEF ControlTyped, PastSpace
  <2>2. [p EXCEPT !.acts = @ + 1] \in [raced : SUBSET ControlRaces, acts : Nat]
        /\ [p EXCEPT !.acts = @ + 1].raced = p.raced
    BY <2>1
  <2>3. past' = [p EXCEPT !.acts = @ + 1]
    BY <1>1, <2>1
  <2> QED BY <2>1, <2>2, <2>3 DEF PastSpace
<1>6. wire' \in [Conns -> Seq(Frame)] /\ admin' \in [Handlers -> Tasks]
      /\ \A r \in Handlers : admin'[r] = Resting
  <2>1. <<>> \in Seq(Frame) /\ Resting \in Tasks
    BY DEF Tasks
  <2> QED BY <1>1, <2>1
<1>7. ControlTyped'
  <2>1. /\ cache' \in Switch /\ registered' \in Links /\ closed' \in SUBSET Conns
        /\ news' \in SUBSET {"online", "offline"} /\ view' \in {"online", "offline"}
    BY <1>1 DEF ControlTyped, Links
  <2> QED BY <1>1, <1>3, <1>4, <1>5, <1>6, <2>1 DEF ControlTyped
<1> QED BY <1>1, <1>2, <1>4, <1>5, <1>6, <1>7

LEMMA ControlTypedStep == ASSUME ControlTyped, [ControlNext]_controlVars PROVE ControlTyped'
<1>1. CASE UNCHANGED controlVars
  BY <1>1 DEF ControlTyped, controlVars, stateVars, linkVars, panelVars
<1>2. ASSUME NEW r \in Handlers,
             \/ UpdateSettings(r) \/ ApplyPreset(r) \/ SaveSettings(r) \/ PushSettings(r)
             \/ SetKillSwitch(r) \/ SaveKillSwitch(r) \/ CacheKillSwitch(r)
             \/ BroadcastKillSwitch(r) \/ RevokeKey(r) \/ KickAgent(r)
      PROVE  ControlTyped'
  BY <1>2, EditBegins, SettingsSaved, SettingsPushed, FlipBegins, FlipSaved, FlipCached, FlipPushed,
     KeyRevoked, AgentKicked
<1>3. ASSUME NEW c \in Conns,
             \/ Hello(c) \/ AuthenticateKey(c) \/ ConnectAgent(c)
             \/ SendHelloAck(c) \/ HelloAckRaises(c) \/ EndOfSession(c)
      PROVE  ControlTyped'
  BY <1>3, HelloIs, KeyChecked, AgentConnected, AckSent, AckRaised, SessionEnded
<1> QED BY <1>1, <1>2, <1>3, KeyCreated, FrameRead, DaemonCut, PanelTold, HubRestarted DEF ControlNext

LEMMA ControlTypedAtStart == ControlInit => ControlTyped
<1> SUFFICES ASSUME ControlInit PROVE ControlTyped
  OBVIOUS
<1>1. row \in Settings /\ keys \in Seq(AgentKey)
  <2>1. [revoked |-> FALSE] \in AgentKey
    BY DEF AgentKey
  <2> QED BY <2>1 DEF ControlInit, Settings
<1>2. session \in [Conns -> Sessions]
  BY DEF ControlInit, Sessions, Stage
<1>3. daemon \in Daemons
  BY DEF ControlInit, Daemons, Links, Switch
<1>4. admin \in [Handlers -> Tasks] /\ wire \in [Conns -> Seq(Frame)]
  <2>1. <<>> \in Seq(Frame) /\ Resting \in Tasks
    BY DEF Tasks
  <2> QED BY <2>1 DEF ControlInit
<1>5. past \in PastSpace
  BY DEF ControlInit, PastSpace, ControlRaces
<1>6. /\ flag \in Switch /\ cache \in Switch
      /\ registered \in Links /\ closed \in SUBSET Conns
      /\ news \in SUBSET {"online", "offline"} /\ view \in {"online", "offline"}
  BY DEF ControlInit, Switch, Links
<1> QED BY <1>1, <1>2, <1>3, <1>4, <1>5, <1>6 DEF ControlTyped

\* Every variable of the control of an agent has its type.
THEOREM ControlTypesHold == ControlSpec => []ControlTypeOK
<1>1. ControlTyped /\ [ControlNext]_controlVars => ControlTyped'
  BY ControlTypedStep
<1> QED BY <1>1, ControlTypedAtStart, TypesFromShape, PTL DEF ControlSpec

\* LinksFit, where the sessions and the registered socket are left alone.
LEMMA LinksFrame ==
  ASSUME LinksFit, DOMAIN keys \subseteq DOMAIN keys', closed \subseteq closed',
         UNCHANGED <<session, registered>>
  PROVE  LinksFit'
BY DEF LinksFit

LEMMA LinksStep ==
  ASSUME ControlTyped, LinksFit, [ControlNext]_controlVars
  PROVE  LinksFit'
<1>1. CASE UNCHANGED controlVars
  BY <1>1 DEF LinksFit, controlVars, stateVars, linkVars
<1>2. ASSUME NEW r \in Handlers,
             \/ UpdateSettings(r) \/ ApplyPreset(r) \/ SaveSettings(r) \/ PushSettings(r)
             \/ SetKillSwitch(r) \/ SaveKillSwitch(r) \/ CacheKillSwitch(r)
             \/ BroadcastKillSwitch(r) \/ RevokeKey(r)
      PROVE  LinksFit'
  <2>1. /\ DOMAIN keys' = DOMAIN keys /\ UNCHANGED <<session, registered, closed>>
    BY <1>2, EditBegins, SettingsSaved, SettingsPushed, FlipBegins, FlipSaved, FlipCached, FlipPushed,
       KeyRevoked DEF stateVars, linkVars
  <2> QED BY <2>1, LinksFrame
<1>3. ASSUME NEW r \in Handlers, KickAgent(r) PROVE LinksFit'
  <2>1. /\ registered' = NoConn /\ UNCHANGED <<stateVars, session>>
        /\ registered = NoConn => closed' = closed
        /\ registered # NoConn => closed' = closed \cup {registered}
    BY <1>3, AgentKicked
  <2> QED BY <2>1, ControlAssumption DEF LinksFit, stateVars
<1>4. CASE CreateKey
  <2>1. DOMAIN keys \subseteq DOMAIN keys' /\ UNCHANGED <<session, registered, closed>>
    BY <1>4, KeyCreated DEF linkVars
  <2> QED BY <2>1, LinksFrame
<1>5. ASSUME NEW c \in Conns, Hello(c) PROVE LinksFit'
  <2>1. /\ registered # c /\ closed' = closed \ {c}
        /\ session'[c].at = "hello" /\ session'[c].key \in DOMAIN keys
        /\ \A d \in Conns : d # c => session'[d] = session[d]
        /\ UNCHANGED <<stateVars, registered>>
    BY <1>5, HelloIs
  <2> QED BY <2>1 DEF LinksFit, stateVars
<1>6. ASSUME NEW c \in Conns, AuthenticateKey(c) PROVE LinksFit'
  <2>1. /\ session[c].at = "hello" /\ session'[c].key = session[c].key /\ session'[c].at \in {"off", "authed"}
        /\ closed \subseteq closed' /\ \A d \in Conns : d # c => session'[d] = session[d]
        /\ UNCHANGED <<stateVars, registered>>
    BY <1>6, KeyChecked
  <2> QED BY <2>1 DEF LinksFit, stateVars
<1>7. ASSUME NEW c \in Conns, ConnectAgent(c) PROVE LinksFit'
  <2>1. /\ session[c].at = "authed" /\ session'[c].at = "registered"
        /\ session'[c].key = session[c].key /\ registered' = c
        /\ closed' = closed \cup ({registered} \ {NoConn})
        /\ \A d \in Conns : d # c => session'[d] = session[d]
        /\ UNCHANGED stateVars
    BY <1>7, AgentConnected
  <2> QED BY <2>1, ControlAssumption DEF LinksFit, stateVars
<1>8. ASSUME NEW c \in Conns, SendHelloAck(c) \/ HelloAckRaises(c) PROVE LinksFit'
  <2>1. /\ session[c].at = "registered" /\ session'[c].at \in {"live", "off"}
        /\ session'[c].key = session[c].key
        /\ \A d \in Conns : d # c => session'[d] = session[d]
        /\ UNCHANGED <<stateVars, registered, closed>>
    BY <1>8, AckSent, AckRaised
  <2> QED BY <2>1 DEF LinksFit, stateVars
<1>9. ASSUME NEW c \in Conns, EndOfSession(c) PROVE LinksFit'
  <2>1. /\ session'[c].at = "off" /\ session'[c].key = session[c].key /\ session[c].at = "live"
        /\ \A d \in Conns : d # c => session'[d] = session[d]
        /\ registered = c => registered' = NoConn
        /\ registered # c => registered' = registered
        /\ UNCHANGED <<stateVars, closed>>
    BY <1>9, SessionEnded
  <2> QED BY <2>1, ControlAssumption DEF LinksFit, stateVars
<1>10. CASE OnFrame \/ OnClosed \/ ObserverConnects \/ \E s \in {"online", "offline"} : PresenceArrives(s)
  <2>1. DOMAIN keys \subseteq DOMAIN keys' /\ closed \subseteq closed' /\ UNCHANGED <<session, registered>>
    BY <1>10, FrameRead, DaemonCut, PanelTold DEF stateVars, linkVars
  <2> QED BY <2>1, LinksFrame
<1>11. CASE RestartHub
  <2>1. registered' = NoConn /\ \A c \in Conns : session'[c].at = "off"
    BY <1>11, HubRestarted
  <2> QED BY <2>1, ControlAssumption DEF LinksFit
<1> QED BY <1>1, <1>2, <1>3, <1>4, <1>5, <1>6, <1>7, <1>8, <1>9, <1>10, <1>11 DEF ControlNext

\* A broadcast that overlaps none is the only frame on its way.
LEMMA AloneInNews ==
  ASSUME NEW status, Announced(status), "presence" \notin past'.raced
  PROVE  news' = {status} /\ "presence" \notin past.raced
<1>1. news \ {status} = {}
  BY DEF Announced, Conflicts
<1> QED BY <1>1 DEF Announced

LEMMA PresenceFrame ==
  ASSUME PresenceInv, past.raced \subseteq past'.raced, UNCHANGED <<registered, panelVars>>
  PROVE  PresenceInv'
BY DEF PresenceInv, Shown, panelVars

LEMMA PresenceStep ==
  ASSUME ControlTyped, PresenceInv, [ControlNext]_controlVars
  PROVE  PresenceInv'
<1>1. CASE UNCHANGED controlVars
  <2>1. past.raced \subseteq past'.raced /\ UNCHANGED <<registered, panelVars>>
    BY <1>1 DEF controlVars, linkVars
  <2> QED BY <2>1, PresenceFrame
<1>2. ASSUME NEW r \in Handlers,
             \/ UpdateSettings(r) \/ ApplyPreset(r) \/ SaveSettings(r) \/ PushSettings(r)
             \/ SetKillSwitch(r) \/ SaveKillSwitch(r) \/ CacheKillSwitch(r)
             \/ BroadcastKillSwitch(r) \/ RevokeKey(r)
      PROVE  PresenceInv'
  <2>1. past.raced \subseteq past'.raced /\ UNCHANGED <<registered, panelVars>>
    BY <1>2, EditBegins, SettingsSaved, SettingsPushed, FlipBegins, FlipSaved, FlipCached, FlipPushed,
       KeyRevoked DEF stateVars, linkVars
  <2> QED BY <2>1, PresenceFrame
<1>3. ASSUME NEW c \in Conns, Hello(c) \/ AuthenticateKey(c) \/ SendHelloAck(c) \/ HelloAckRaises(c)
      PROVE  PresenceInv'
  <2>1. past.raced \subseteq past'.raced /\ UNCHANGED <<registered, panelVars>>
    BY <1>3, HelloIs, KeyChecked, AckSent, AckRaised
  <2> QED BY <2>1, PresenceFrame
<1>4. CASE CreateKey \/ OnFrame \/ OnClosed
  <2>1. past.raced \subseteq past'.raced /\ UNCHANGED <<registered, panelVars>>
    BY <1>4, KeyCreated, FrameRead, DaemonCut DEF linkVars
  <2> QED BY <2>1, PresenceFrame
<1>5. ASSUME NEW r \in Handlers, KickAgent(r) PROVE PresenceInv'
  <2>1. CASE registered = NoConn
    <3>1. past.raced \subseteq past'.raced /\ UNCHANGED <<registered, panelVars>>
      BY <1>5, <2>1, AgentKicked DEF panelVars
    <3> QED BY <3>1, PresenceFrame
  <2>2. CASE registered # NoConn
    <3>1. registered' = NoConn /\ Announced("offline")
      BY <1>5, <2>2, AgentKicked
    <3> QED BY <3>1, AloneInNews DEF PresenceInv, Shown
  <2> QED BY <2>1, <2>2
<1>6. ASSUME NEW c \in Conns, ConnectAgent(c) PROVE PresenceInv'
  <2>1. registered' = c /\ Announced("online")
    BY <1>6, AgentConnected
  <2> QED BY <2>1, AloneInNews, ControlAssumption DEF PresenceInv, Shown
<1>7. ASSUME NEW c \in Conns, EndOfSession(c) PROVE PresenceInv'
  <2>1. CASE registered = c
    <3>1. registered' = NoConn /\ Announced("offline")
      BY <1>7, <2>1, SessionEnded
    <3> QED BY <3>1, AloneInNews DEF PresenceInv, Shown
  <2>2. CASE registered # c
    <3>1. past.raced \subseteq past'.raced /\ UNCHANGED <<registered, panelVars>>
      BY <1>7, <2>2, SessionEnded DEF panelVars
    <3> QED BY <3>1, PresenceFrame
  <2> QED BY <2>1, <2>2
<1>8. CASE ObserverConnects \/ \E s \in {"online", "offline"} : PresenceArrives(s)
  <2>1. /\ UNCHANGED <<linkVars, past>>
        /\ \/ view' = Shown /\ news' = news
           \/ \E s \in news : view' = s /\ news' = news \ {s}
    BY <1>8, PanelTold
  <2> QED BY <2>1 DEF PresenceInv, Shown, linkVars
<1>9. CASE RestartHub
  <2>1. registered' = NoConn /\ news' = {} /\ view' = "offline"
    BY <1>9, HubRestarted
  <2> QED BY <2>1 DEF PresenceInv, Shown
<1> QED BY <1>1, <1>2, <1>3, <1>4, <1>5, <1>6, <1>7, <1>8, <1>9 DEF ControlNext

\* Once no presence frame is on its way the panel shows whether the agent is
\* registered.
THEOREM PanelSeesPresenceAlways == ControlSpec => []PanelSeesPresence
<1>1. ControlInit => ControlTyped /\ PresenceInv
  <2>1. ControlInit => PresenceInv
    BY DEF ControlInit, PresenceInv, Shown
  <2> QED BY <2>1, ControlTypedAtStart
<1>2. ControlTyped /\ PresenceInv /\ [ControlNext]_controlVars => ControlTyped' /\ PresenceInv'
  BY ControlTypedStep, PresenceStep
<1>3. PresenceInv => PanelSeesPresence
  BY DEF PresenceInv, PanelSeesPresence, Shown
<1> QED BY <1>1, <1>2, <1>3, PTL DEF ControlSpec

\* KeyInv, where the connection in its place keeps its key.
LEMMA KeyFrame ==
  ASSUME KeyInv, LinksFit, registered \in Links, past.raced \subseteq past'.raced,
         \A k \in DOMAIN keys : keys'[k] = keys[k],
         \A c \in Conns : session'[c].at = "authed" =>
           /\ session'[c].key = session[c].key
           /\ \/ session[c].at = "authed"
              \/ session[c].at = "hello" /\ ~keys[session[c].key].revoked,
         \/ registered' = NoConn
         \/ registered' = registered /\ \A c \in Conns : registered = c => session'[c].key = session[c].key,
         Busy("revoke")' = {} => Busy("revoke") = {}
  PROVE  KeyInv'
<1> SUFFICES ASSUME "revoke" \notin past'.raced
             PROVE  /\ \A c \in Conns : session'[c].at = "authed" => ~keys'[session'[c].key].revoked
                    /\ registered' # NoConn /\ keys'[session'[registered'].key].revoked => Busy("revoke")' # {}
  BY DEF KeyInv
<1>1. /\ \A c \in Conns : session[c].at = "authed" => ~keys[session[c].key].revoked
      /\ registered # NoConn /\ keys[session[registered].key].revoked => Busy("revoke") # {}
  BY DEF KeyInv
<1>2. \A c \in Conns : session'[c].at = "authed" => ~keys'[session'[c].key].revoked
  BY <1>1 DEF LinksFit
<1>3. ASSUME registered' # NoConn, keys'[session'[registered'].key].revoked PROVE Busy("revoke")' # {}
  <2>1. PICK c \in Conns : registered = c /\ registered' = c
    BY <1>3 DEF Links
  <2>2. session'[c].key = session[c].key /\ session[c].key \in DOMAIN keys
    BY <1>3, <2>1 DEF LinksFit
  <2>3. keys[session[c].key].revoked /\ registered # NoConn
    BY <1>3, <2>1, <2>2
  <2> QED BY <1>1, <2>1, <2>3
<1> QED BY <1>2, <1>3

LEMMA KeyStep ==
  ASSUME ControlTyped, LinksFit, KeyInv, [ControlNext]_controlVars
  PROVE  KeyInv'
<1>0. registered \in Links
  BY DEF ControlTyped
<1>1. CASE UNCHANGED controlVars
  BY <1>1 DEF KeyInv, Busy, controlVars, stateVars, linkVars
<1>2. ASSUME NEW r \in Handlers,
             \/ UpdateSettings(r) \/ ApplyPreset(r) \/ SaveSettings(r) \/ PushSettings(r)
             \/ SetKillSwitch(r) \/ SaveKillSwitch(r) \/ CacheKillSwitch(r)
             \/ BroadcastKillSwitch(r)
      PROVE  KeyInv'
  <2>1. past.raced \subseteq past'.raced /\ UNCHANGED <<registered, keys, session>>
    BY <1>2, EditBegins, SettingsSaved, SettingsPushed, FlipBegins, FlipSaved, FlipCached, FlipPushed
    DEF stateVars, linkVars
  <2>2. admin[r].op # "revoke" /\ \A s \in Handlers : s # r => admin'[s] = admin[s]
    BY <1>2, EditBegins, SettingsSaved, SettingsPushed, FlipBegins, FlipSaved, FlipCached, FlipPushed
    DEF Resting
  <2>3. Busy("revoke")' = {} => Busy("revoke") = {}
    BY <2>2 DEF Busy
  <2> QED BY <1>0, <2>1, <2>3, KeyFrame
<1>3. ASSUME NEW r \in Handlers, RevokeKey(r) PROVE KeyInv'
  <2>1. /\ admin'[r].op = "revoke"
        /\ past'.raced = past.raced \cup {f \in {"revoke"} : \E c \in Conns : session[c].at = "authed"}
        /\ UNCHANGED linkVars
    BY <1>3, KeyRevoked
  <2>2. r \in Busy("revoke")'
    BY <2>1 DEF Busy
  <2>3. "revoke" \notin past'.raced => \A c \in Conns : session'[c].at # "authed"
    BY <2>1 DEF linkVars
  <2> QED BY <2>2, <2>3 DEF KeyInv
<1>4. ASSUME NEW r \in Handlers, KickAgent(r) PROVE KeyInv'
  <2>1. /\ registered' = NoConn /\ UNCHANGED <<keys, session>> /\ past.raced \subseteq past'.raced
    BY <1>4, AgentKicked DEF stateVars, Announced
  <2> QED BY <2>1 DEF KeyInv
<1>5. CASE CreateKey
  <2>1. /\ \A k \in DOMAIN keys : keys'[k] = keys[k]
        /\ UNCHANGED <<registered, session, admin, past>>
    BY <1>5, KeyCreated DEF linkVars
  <2>2. Busy("revoke")' = Busy("revoke")
    BY <2>1 DEF Busy
  <2> QED BY <1>0, <2>1, <2>2, KeyFrame
<1>6. ASSUME NEW c \in Conns, Hello(c) PROVE KeyInv'
  <2>1. /\ session'[c].at = "hello" /\ registered # c /\ past'.raced = past.raced
        /\ \A d \in Conns : d # c => session'[d] = session[d]
        /\ UNCHANGED <<keys, registered, admin>>
    BY <1>6, HelloIs DEF stateVars
  <2>2. Busy("revoke")' = Busy("revoke")
    BY <2>1 DEF Busy
  <2>3. \A d \in Conns : session'[d].at = "authed" => session'[d] = session[d]
    BY <2>1
  <2> QED BY <1>0, <2>1, <2>2, <2>3, KeyFrame
<1>7. ASSUME NEW c \in Conns, AuthenticateKey(c) PROVE KeyInv'
  <2>1. /\ session[c].at = "hello" /\ session'[c].key = session[c].key
        /\ session'[c].at = "authed" => ~keys[session[c].key].revoked
        /\ \A d \in Conns : d # c => session'[d] = session[d]
        /\ past.raced \subseteq past'.raced /\ UNCHANGED <<keys, registered, admin>>
    BY <1>7, KeyChecked DEF stateVars
  <2>2. Busy("revoke")' = Busy("revoke")
    BY <2>1 DEF Busy
  <2>3. \A d \in Conns : /\ session'[d].key = session[d].key
                         /\ session'[d].at = "authed" =>
                              \/ session[d].at = "authed"
                              \/ session[d].at = "hello" /\ ~keys[session[d].key].revoked
    BY <2>1
  <2> QED BY <1>0, <2>1, <2>2, <2>3, KeyFrame
<1>8. ASSUME NEW c \in Conns, ConnectAgent(c) PROVE KeyInv'
  <2>1. /\ session[c].at = "authed" /\ session'[c].at = "registered" /\ registered' = c
        /\ session'[c].key = session[c].key
        /\ \A d \in Conns : d # c => session'[d] = session[d]
        /\ past.raced \subseteq past'.raced /\ UNCHANGED keys
    BY <1>8, AgentConnected DEF stateVars, Announced
  <2> QED BY <2>1 DEF KeyInv
<1>9. ASSUME NEW c \in Conns, SendHelloAck(c) \/ HelloAckRaises(c) \/ EndOfSession(c) PROVE KeyInv'
  <2>1. /\ session'[c].at \in {"live", "off"} /\ session'[c].key = session[c].key
        /\ \A d \in Conns : d # c => session'[d] = session[d]
        /\ registered' = registered \/ registered' = NoConn
        /\ past.raced \subseteq past'.raced /\ UNCHANGED <<keys, admin>>
    BY <1>9, AckSent, AckRaised, SessionEnded DEF stateVars, Announced
  <2>2. Busy("revoke")' = Busy("revoke")
    BY <2>1 DEF Busy
  <2>3. \A d \in Conns : session'[d].key = session[d].key
                         /\ (session'[d].at = "authed" => session[d].at = "authed")
    BY <2>1
  <2> QED BY <1>0, <2>1, <2>2, <2>3, KeyFrame
<1>10. CASE OnFrame \/ OnClosed \/ ObserverConnects \/ \E s \in {"online", "offline"} : PresenceArrives(s)
  <2>1. UNCHANGED <<keys, session, registered, admin, past>>
    BY <1>10, FrameRead, DaemonCut, PanelTold DEF stateVars, linkVars
  <2>2. Busy("revoke")' = Busy("revoke")
    BY <2>1 DEF Busy
  <2> QED BY <1>0, <2>1, <2>2, KeyFrame
<1>11. CASE RestartHub
  <2>1. registered' = NoConn /\ \A c \in Conns : session'[c].at = "off"
    BY <1>11, HubRestarted
  <2> QED BY <2>1 DEF KeyInv
<1> QED BY <1>1, <1>2, <1>3, <1>4, <1>5, <1>6, <1>7, <1>8, <1>9, <1>10, <1>11 DEF ControlNext

\* SwitchInv, where flips, the switch and what a linked daemon will know of it
\* are left alone.
LEMMA SwitchFrame ==
  ASSUME SwitchInv, past.raced \subseteq past'.raced, UNCHANGED <<flag, cache>>,
         \A s \in Handlers : \/ admin'[s] = admin[s]
                             \/ admin[s].op # "flip" /\ admin'[s].op # "flip",
         Linked' => \/ SwitchLeft(daemon.conn)'
                    \/ /\ Linked /\ daemon'.conn = daemon.conn
                       /\ SwitchLeft(daemon.conn) => SwitchLeft(daemon.conn)'
  PROVE  SwitchInv'
<1>1. Busy("flip")' = Busy("flip") /\ \A r \in Busy("flip") : admin'[r] = admin[r]
  BY DEF Busy
<1>2. \A r \in Handlers, at \in {"save", "cache", "push"} :
        /\ Working(r, "flip", at)' <=> Working(r, "flip", at)
        /\ Working(r, "flip", at) => admin'[r] = admin[r]
  BY DEF Working
<1> HIDE DEF Busy, Working, Linked, SwitchLeft
<1> SUFFICES ASSUME "flip" \notin past'.raced
             PROVE  /\ \A r, s \in Busy("flip")' : r = s
                    /\ Busy("flip")' = {} => cache' = flag'
                    /\ \A r \in Handlers : Working(r, "flip", "save")' => cache' = flag' /\ admin'[r].loaded = flag'
                    /\ \A r \in Handlers : Working(r, "flip", "cache")' => flag' = admin'[r].to
                    /\ \A r \in Handlers : Working(r, "flip", "push")' => flag' = admin'[r].to /\ cache' = admin'[r].to
                    /\ Linked' => \/ SwitchLeft(daemon.conn)'
                                  \/ \E r \in Handlers : Working(r, "flip", "push")' /\ admin'[r].conn = daemon'.conn
  BY DEF SwitchInv
<1>3. /\ \A r, s \in Busy("flip") : r = s
      /\ Busy("flip") = {} => cache = flag
      /\ \A r \in Handlers : Working(r, "flip", "save") => cache = flag /\ admin[r].loaded = flag
      /\ \A r \in Handlers : Working(r, "flip", "cache") => flag = admin[r].to
      /\ \A r \in Handlers : Working(r, "flip", "push") => flag = admin[r].to /\ cache = admin[r].to
      /\ Linked => \/ SwitchLeft(daemon.conn)
                   \/ \E r \in Handlers : Working(r, "flip", "push") /\ admin[r].conn = daemon.conn
  BY DEF SwitchInv
<1>4. Linked' => \/ SwitchLeft(daemon.conn)'
                 \/ \E r \in Handlers : Working(r, "flip", "push")' /\ admin'[r].conn = daemon'.conn
  BY <1>2, <1>3
<1>5. /\ \A r \in Handlers : Working(r, "flip", "save")' => cache' = flag' /\ admin'[r].loaded = flag'
      /\ \A r \in Handlers : Working(r, "flip", "cache")' => flag' = admin'[r].to
      /\ \A r \in Handlers : Working(r, "flip", "push")' => flag' = admin'[r].to /\ cache' = admin'[r].to
  BY <1>2, <1>3
<1>6. /\ \A r, s \in Busy("flip")' : r = s
      /\ Busy("flip")' = {} => cache' = flag'
  BY <1>1, <1>3
<1> QED BY <1>4, <1>5, <1>6

\* A daemon stays linked, whose socket and session nothing touched.
LEMMA LinkedStays ==
  ASSUME UNCHANGED <<daemon, session>>, closed \subseteq closed', Linked'
  PROVE  Linked /\ daemon'.conn = daemon.conn
BY DEF Linked

\* What a linked daemon will know of the switch, and of the settings.
LEMMA LeftStays ==
  ASSUME ControlTyped, UNCHANGED daemon, Linked
  PROVE  /\ wire' = wire /\ cache' = cache /\ SwitchLeft(daemon.conn) => SwitchLeft(daemon.conn)'
         /\ wire' = wire /\ row' = row /\ SettingsLeft(daemon.conn) => SettingsLeft(daemon.conn)'
BY DEF SwitchLeft, SettingsLeft, Left

LEMMA LinkedConn ==
  ASSUME ControlTyped, Linked
  PROVE  daemon.conn \in Conns /\ daemon.conn \notin closed /\ wire[daemon.conn] \in Seq(Frame)
<1>1. daemon.conn \in Links
  BY DEF ControlTyped, Daemons
<1> QED BY <1>1 DEF Linked, Links, ControlTyped

\* A frame is sent to a linked daemon.
LEMMA SwitchLeftAppend ==
  ASSUME ControlTyped, daemon.conn \in Conns, NEW f \in Frame, UNCHANGED <<cache, daemon>>,
         wire'[daemon.conn] = Append(wire[daemon.conn], f),
         IF f.type = "settings_update" THEN SwitchLeft(daemon.conn) ELSE f.enabled = cache
  PROVE  SwitchLeft(daemon.conn)'
<1> DEFINE w == wire[daemon.conn]
<1>1. PICK field, skip : field = "enabled" /\ skip = "settings_update"
  OBVIOUS
<1>2. w \in Seq(Frame)
  BY DEF ControlTyped
<1>3. IF f.type = skip THEN Left(w, daemon.enabled, field, skip, cache) ELSE f[field] = cache
  BY <1>1 DEF SwitchLeft
<1> HIDE DEF w
<1>4. Left(Append(w, f), daemon.enabled, field, skip, cache)
  BY <1>2, <1>3, LeftAppend
<1> QED BY <1>1, <1>4 DEF SwitchLeft, w

LEMMA SettingsLeftAppend ==
  ASSUME ControlTyped, daemon.conn \in Conns, NEW f \in Frame, UNCHANGED <<row, daemon>>,
         wire'[daemon.conn] = Append(wire[daemon.conn], f),
         IF f.type = "kill_switch" THEN SettingsLeft(daemon.conn) ELSE f.settings = row
  PROVE  SettingsLeft(daemon.conn)'
<1> DEFINE w == wire[daemon.conn]
<1>1. PICK field, skip : field = "settings" /\ skip = "kill_switch"
  OBVIOUS
<1>2. w \in Seq(Frame)
  BY DEF ControlTyped
<1>3. IF f.type = skip THEN Left(w, daemon.settings, field, skip, row) ELSE f[field] = row
  BY <1>1 DEF SettingsLeft
<1> HIDE DEF w
<1>4. Left(Append(w, f), daemon.settings, field, skip, row)
  BY <1>2, <1>3, LeftAppend
<1> QED BY <1>1, <1>4 DEF SettingsLeft, w

\* The daemon reads a frame.
LEMMA LeftRead ==
  ASSUME ControlTyped, OnFrame
  PROVE  /\ SwitchLeft(daemon.conn) => SwitchLeft(daemon.conn)'
         /\ SettingsLeft(daemon.conn) => SettingsLeft(daemon.conn)'
<1>1. PICK w \in Seq(Frame) : w = wire[daemon.conn]
  BY FrameRead
<1>2. PICK f : f = Head(w)
  OBVIOUS
<1>3. /\ w # <<>> /\ daemon'.conn = daemon.conn /\ wire'[daemon.conn] = Tail(w)
      /\ daemon'.settings = IF f.type = "kill_switch" THEN daemon.settings ELSE f.settings
      /\ daemon'.enabled = IF f.type = "settings_update" THEN daemon.enabled ELSE f.enabled
      /\ cache' = cache /\ row' = row
  BY <1>1, <1>2, FrameRead DEF stateVars
<1>4. ASSUME SwitchLeft(daemon.conn) PROVE SwitchLeft(daemon.conn)'
  <2>1. PICK field, skip, held, v :
          field = "enabled" /\ skip = "settings_update" /\ held = daemon.enabled /\ v = cache
    OBVIOUS
  <2>2. Left(w, held, field, skip, v)
    BY <1>1, <1>4, <2>1 DEF SwitchLeft
  <2>3. Left(Tail(w), IF Head(w).type = skip THEN held ELSE Head(w)[field], field, skip, v)
    BY <1>3, <2>2, LeftTail
  <2>4. daemon'.enabled = IF Head(w).type = skip THEN held ELSE Head(w)[field]
    BY <1>2, <1>3, <2>1
  <2> QED BY <1>3, <2>1, <2>3, <2>4 DEF SwitchLeft
<1>5. ASSUME SettingsLeft(daemon.conn) PROVE SettingsLeft(daemon.conn)'
  <2>1. PICK field, skip, held, v :
          field = "settings" /\ skip = "kill_switch" /\ held = daemon.settings /\ v = row
    OBVIOUS
  <2>2. Left(w, held, field, skip, v)
    BY <1>1, <1>5, <2>1 DEF SettingsLeft
  <2>3. Left(Tail(w), IF Head(w).type = skip THEN held ELSE Head(w)[field], field, skip, v)
    BY <1>3, <2>2, LeftTail
  <2>4. daemon'.settings = IF Head(w).type = skip THEN held ELSE Head(w)[field]
    BY <1>2, <1>3, <2>1
  <2> QED BY <1>3, <2>1, <2>3, <2>4 DEF SettingsLeft
<1> QED BY <1>4, <1>5

\* SwitchInv while one flip, or none, is in progress.
LEMMA OneFlipWas ==
  ASSUME SwitchInv, "flip" \notin past.raced, NEW r \in Handlers, admin[r].op = "flip"
  PROVE  /\ \A s \in Handlers : s # r => admin[s].op # "flip"
         /\ admin[r].at = "save" => cache = flag /\ admin[r].loaded = flag
         /\ admin[r].at = "cache" => flag = admin[r].to
         /\ admin[r].at = "push" => flag = admin[r].to /\ cache = admin[r].to
         /\ Linked => \/ SwitchLeft(daemon.conn)
                      \/ admin[r].at = "push" /\ admin[r].conn = daemon.conn
<1>1. \A s \in Handlers : s # r => admin[s].op # "flip"
  BY DEF SwitchInv, Busy
<1>2. /\ admin[r].at = "save" => cache = flag /\ admin[r].loaded = flag
      /\ admin[r].at = "cache" => flag = admin[r].to
      /\ admin[r].at = "push" => flag = admin[r].to /\ cache = admin[r].to
  BY DEF SwitchInv, Working
<1>3. Linked => \/ SwitchLeft(daemon.conn)
                \/ \E s \in Handlers : Working(s, "flip", "push") /\ admin[s].conn = daemon.conn
  BY DEF SwitchInv
<1>4. \A s \in Handlers : Working(s, "flip", "push") => s = r /\ admin[r].at = "push"
  BY <1>1 DEF Working
<1> QED BY <1>1, <1>2, <1>3, <1>4

LEMMA NoFlipWas ==
  ASSUME SwitchInv, "flip" \notin past.raced, \A s \in Handlers : admin[s].op # "flip"
  PROVE  cache = flag /\ (Linked => SwitchLeft(daemon.conn))
<1>1. Busy("flip") = {} /\ \A s \in Handlers : ~Working(s, "flip", "push")
  BY DEF Busy, Working
<1> QED BY <1>1 DEF SwitchInv

LEMMA OneFlipIs ==
  ASSUME NEW r \in Handlers, admin'[r].op = "flip",
         \A s \in Handlers : s # r => admin'[s].op # "flip",
         admin'[r].at = "save" => cache' = flag' /\ admin'[r].loaded = flag',
         admin'[r].at = "cache" => flag' = admin'[r].to,
         admin'[r].at = "push" => flag' = admin'[r].to /\ cache' = admin'[r].to,
         Linked' => \/ SwitchLeft(daemon.conn)'
                    \/ admin'[r].at = "push" /\ admin'[r].conn = daemon'.conn
  PROVE  SwitchInv'
<1>1. /\ \A s, q \in Busy("flip")' : s = q
      /\ Busy("flip")' # {}
  BY DEF Busy
<1>2. /\ \A s \in Handlers : Working(s, "flip", "save")' => cache' = flag' /\ admin'[s].loaded = flag'
      /\ \A s \in Handlers : Working(s, "flip", "cache")' => flag' = admin'[s].to
      /\ \A s \in Handlers : Working(s, "flip", "push")' => flag' = admin'[s].to /\ cache' = admin'[s].to
  BY DEF Working
<1>3. Linked' => \/ SwitchLeft(daemon.conn)'
                 \/ \E s \in Handlers : Working(s, "flip", "push")' /\ admin'[s].conn = daemon'.conn
  BY DEF Working
<1> HIDE DEF Busy, Working, Linked, SwitchLeft
<1> QED BY <1>1, <1>2, <1>3, Zenon DEF SwitchInv

LEMMA NoFlipIs ==
  ASSUME \A s \in Handlers : admin'[s].op # "flip", cache' = flag', Linked' => SwitchLeft(daemon.conn)'
  PROVE  SwitchInv'
<1>1. Busy("flip")' = {}
  BY DEF Busy
<1>2. \A s \in Handlers, at \in {"save", "cache", "push"} : ~Working(s, "flip", at)'
  BY DEF Working
<1> QED BY <1>1, <1>2 DEF SwitchInv

LEMMA SwitchFlips ==
  ASSUME ControlTyped, LinksFit, SwitchInv, NEW r \in Handlers,
         SetKillSwitch(r) \/ SaveKillSwitch(r) \/ CacheKillSwitch(r)
  PROVE  SwitchInv'
<1> SUFFICES ASSUME "flip" \notin past'.raced PROVE SwitchInv'
  BY DEF SwitchInv
<1>1. CASE SetKillSwitch(r)
  <2>1. /\ admin[r] = Resting /\ \A s \in Handlers : s # r => admin'[s] = admin[s]
        /\ admin'[r].op = "flip" /\ admin'[r].at = "save" /\ admin'[r].loaded = flag
        /\ past'.raced = past.raced \cup {f \in {"flip"} : Busy("flip") # {}}
        /\ UNCHANGED <<stateVars, linkVars, panelVars>>
    BY <1>1, FlipBegins
  <2>2. "flip" \notin past.raced /\ Busy("flip") = {}
    BY <2>1
  <2>3. \A s \in Handlers : admin[s].op # "flip"
    BY <2>2 DEF Busy
  <2>4. cache = flag /\ (Linked => SwitchLeft(daemon.conn))
    BY <2>2, <2>3, NoFlipWas
  <2>5. Linked' => SwitchLeft(daemon.conn)'
    BY <2>1, <2>4 DEF Linked, SwitchLeft, Left, linkVars, stateVars
  <2>6. flag' = flag /\ cache' = cache
    BY <2>1 DEF stateVars
  <2> QED BY <2>1, <2>3, <2>4, <2>5, <2>6, OneFlipIs
<1>2. CASE SaveKillSwitch(r)
  <2>1. /\ admin[r].op = "flip" /\ admin[r].at = "save"
        /\ admin'[r].op = "flip" /\ admin'[r].at = "cache" /\ admin'[r].to = admin[r].to
        /\ \A s \in Handlers : s # r => admin'[s] = admin[s]
        /\ admin[r].loaded = flag => flag' = admin[r].to
        /\ UNCHANGED <<row, keys, cache, linkVars, panelVars, past>>
    BY <1>2, FlipSaved
  <2>2. /\ \A s \in Handlers : s # r => admin[s].op # "flip"
        /\ admin[r].loaded = flag /\ (Linked => SwitchLeft(daemon.conn))
    BY <2>1, OneFlipWas
  <2>3. Linked' => SwitchLeft(daemon.conn)'
    BY <2>1, <2>2 DEF Linked, SwitchLeft, Left, linkVars
  <2> QED BY <2>1, <2>2, <2>3, OneFlipIs
<1>3. CASE CacheKillSwitch(r)
  <2>1. /\ admin[r].op = "flip" /\ admin[r].at = "cache"
        /\ admin'[r].op = "flip" /\ admin'[r].at = "push" /\ admin'[r].to = admin[r].to
        /\ admin'[r].conn = registered /\ cache' = admin[r].to
        /\ \A s \in Handlers : s # r => admin'[s] = admin[s]
        /\ UNCHANGED <<row, keys, flag, linkVars, panelVars, past>>
    BY <1>3, FlipCached
  <2>2. /\ \A s \in Handlers : s # r => admin[s].op # "flip"
        /\ flag = admin[r].to
    BY <2>1, OneFlipWas
  <2>3. ASSUME Linked' PROVE registered = daemon'.conn
    <3>1. daemon.conn \in Conns /\ daemon.conn \notin closed
      BY <2>1, <2>3, LinkedConn DEF Linked, linkVars
    <3>2. session[daemon.conn].at = "live"
      BY <2>1, <2>3 DEF Linked, linkVars
    <3> QED BY <2>1, <2>3, <3>1, <3>2 DEF LinksFit, linkVars
  <2> QED BY <2>1, <2>2, <2>3, OneFlipIs
<1> QED BY <1>1, <1>2, <1>3

LEMMA SwitchBroadcast ==
  ASSUME ControlTyped, SwitchInv, NEW r \in Handlers, BroadcastKillSwitch(r)
  PROVE  SwitchInv'
<1> SUFFICES ASSUME "flip" \notin past'.raced PROVE SwitchInv'
  BY DEF SwitchInv
<1>1. /\ admin[r].op = "flip" /\ admin[r].at = "push" /\ admin'[r] = Resting
      /\ \A s \in Handlers : s # r => admin'[s] = admin[s]
      /\ UNCHANGED <<stateVars, registered, session, closed, daemon, panelVars, past>>
  BY FlipPushed
<1>2. PICK f \in Frame :
        /\ f.type = "kill_switch" /\ f.enabled = admin[r].to
        /\ \A c \in Conns : c # admin[r].conn \/ c \in closed => wire'[c] = wire[c]
        /\ admin[r].conn \in Conns \ closed =>
             wire'[admin[r].conn] = Append(wire[admin[r].conn], f)
  BY FlipPushed
<1>3. /\ \A s \in Handlers : s # r => admin[s].op # "flip"
      /\ flag = admin[r].to /\ cache = admin[r].to
      /\ Linked => SwitchLeft(daemon.conn) \/ admin[r].conn = daemon.conn
  BY <1>1, OneFlipWas
<1>4. ASSUME Linked' PROVE SwitchLeft(daemon.conn)'
  <2>1. Linked /\ daemon.conn \in Conns /\ daemon.conn \notin closed
    <3>1. Linked
      BY <1>1, <1>4, LinkedStays
    <3> QED BY <3>1, LinkedConn
  <2>2. cache' = cache /\ daemon' = daemon
    BY <1>1 DEF stateVars
  <2>3. CASE admin[r].conn = daemon.conn
    <3>1. wire'[daemon.conn] = Append(wire[daemon.conn], f)
      BY <1>2, <2>1, <2>3
    <3> QED BY <1>2, <1>3, <2>1, <2>2, <3>1, SwitchLeftAppend
  <2>4. CASE admin[r].conn # daemon.conn
    <3>1. wire'[daemon.conn] = wire[daemon.conn] /\ SwitchLeft(daemon.conn)
      BY <1>2, <1>3, <2>1, <2>4
    <3> QED BY <2>2, <3>1 DEF SwitchLeft, Left
  <2> QED BY <2>3, <2>4
<1>5. \A s \in Handlers : admin'[s].op # "flip"
  BY <1>1, <1>3 DEF Resting
<1>6. cache' = flag'
  BY <1>1, <1>3 DEF stateVars
<1> QED BY <1>4, <1>5, <1>6, NoFlipIs

LEMMA SwitchStep ==
  ASSUME ControlTyped, LinksFit, SwitchInv, [ControlNext]_controlVars
  PROVE  SwitchInv'
<1>1. CASE UNCHANGED controlVars
  <2>1. UNCHANGED <<flag, cache, admin, past, daemon, session, closed, wire>>
    BY <1>1 DEF controlVars, stateVars, linkVars
  <2>2. Linked' => Linked /\ daemon'.conn = daemon.conn
    BY <2>1, LinkedStays
  <2>3. SwitchLeft(daemon.conn) => SwitchLeft(daemon.conn)'
    BY <2>1 DEF SwitchLeft, Left
  <2> QED BY <2>1, <2>2, <2>3, SwitchFrame
<1>2. ASSUME NEW r \in Handlers,
             \/ UpdateSettings(r) \/ ApplyPreset(r) \/ SaveSettings(r) \/ RevokeKey(r) \/ KickAgent(r)
      PROVE  SwitchInv'
  <2>1. /\ UNCHANGED <<flag, cache, daemon, session, wire>> /\ closed \subseteq closed'
        /\ past.raced \subseteq past'.raced
        /\ admin[r].op # "flip" /\ admin'[r].op # "flip"
        /\ \A s \in Handlers : s # r => admin'[s] = admin[s]
    BY <1>2, EditBegins, SettingsSaved, KeyRevoked, AgentKicked
    DEF stateVars, linkVars, Resting, Announced
  <2>2. Linked' => Linked /\ daemon'.conn = daemon.conn
    BY <2>1, LinkedStays
  <2>3. SwitchLeft(daemon.conn) => SwitchLeft(daemon.conn)'
    BY <2>1 DEF SwitchLeft, Left
  <2>4. \A s \in Handlers : \/ admin'[s] = admin[s]
                            \/ admin[s].op # "flip" /\ admin'[s].op # "flip"
    BY <2>1
  <2> QED BY <2>1, <2>2, <2>3, <2>4, SwitchFrame
<1>3. ASSUME NEW r \in Handlers, PushSettings(r) PROVE SwitchInv'
  <2>1. /\ admin[r].op # "flip" /\ admin'[r].op # "flip"
        /\ \A s \in Handlers : s # r => admin'[s] = admin[s]
        /\ UNCHANGED <<flag, cache, session, closed, daemon, past>>
    BY <1>3, SettingsPushed DEF stateVars, Resting
  <2>2. PICK f \in Frame :
          /\ f.type = "settings_update"
          /\ \A c \in Conns : c # registered \/ c \in closed => wire'[c] = wire[c]
          /\ registered \in Conns \ closed => wire'[registered] = Append(wire[registered], f)
    BY <1>3, SettingsPushed
  <2>3. Linked' => Linked /\ daemon'.conn = daemon.conn
    BY <2>1, LinkedStays
  <2>4. ASSUME Linked, SwitchLeft(daemon.conn) PROVE SwitchLeft(daemon.conn)'
    <3>1. daemon.conn \in Conns /\ daemon.conn \notin closed
      BY <2>4, LinkedConn
    <3>2. CASE registered = daemon.conn
      <4>1. wire'[daemon.conn] = Append(wire[daemon.conn], f)
        BY <2>2, <3>1, <3>2
      <4> QED BY <2>1, <2>2, <2>4, <3>1, <4>1, SwitchLeftAppend
    <3>3. CASE registered # daemon.conn
      <4>1. wire'[daemon.conn] = wire[daemon.conn]
        BY <2>2, <3>1, <3>3
      <4> QED BY <2>1, <2>4, <4>1 DEF SwitchLeft, Left
    <3> QED BY <3>2, <3>3
  <2>5. \A s \in Handlers : \/ admin'[s] = admin[s]
                            \/ admin[s].op # "flip" /\ admin'[s].op # "flip"
    BY <2>1
  <2> QED BY <2>1, <2>3, <2>4, <2>5, SwitchFrame
<1>4. CASE CreateKey \/ ObserverConnects \/ \E s \in {"online", "offline"} : PresenceArrives(s)
  <2>1. UNCHANGED <<flag, cache, admin, past, daemon, session, closed, wire>>
    BY <1>4, KeyCreated, PanelTold DEF stateVars, linkVars
  <2>2. Linked' => Linked /\ daemon'.conn = daemon.conn
    BY <2>1, LinkedStays
  <2>3. SwitchLeft(daemon.conn) => SwitchLeft(daemon.conn)'
    BY <2>1 DEF SwitchLeft, Left
  <2> QED BY <2>1, <2>2, <2>3, SwitchFrame
<1>5. ASSUME NEW c \in Conns, Hello(c) PROVE SwitchInv'
  <2>1. /\ daemon'.conn = c /\ session'[c].at = "hello" /\ past'.raced = past.raced
        /\ UNCHANGED <<flag, cache, admin>>
    BY <1>5, HelloIs DEF stateVars
  <2>2. ~Linked'
    BY <2>1 DEF Linked
  <2> QED BY <2>1, <2>2, SwitchFrame
<1>6. ASSUME NEW c \in Conns,
             AuthenticateKey(c) \/ ConnectAgent(c) \/ HelloAckRaises(c) \/ EndOfSession(c)
      PROVE  SwitchInv'
  <2>1. /\ session'[c].at # "live" /\ \A d \in Conns : d # c => session'[d] = session[d]
        /\ closed \subseteq closed' /\ past.raced \subseteq past'.raced
        /\ UNCHANGED <<flag, cache, admin, daemon, wire>>
    BY <1>6, KeyChecked, AgentConnected, AckRaised, SessionEnded DEF stateVars, Announced
  <2>2. Linked' => Linked /\ daemon'.conn = daemon.conn
    <3>1. daemon.conn \in Links
      BY DEF ControlTyped, Daemons
    <3> QED BY <2>1, <3>1 DEF Linked, Links
  <2>3. SwitchLeft(daemon.conn) => SwitchLeft(daemon.conn)'
    BY <2>1 DEF SwitchLeft, Left
  <2> QED BY <2>1, <2>2, <2>3, SwitchFrame
<1>7. ASSUME NEW c \in Conns, SendHelloAck(c) PROVE SwitchInv'
  <2>1. /\ session'[c].at = "live" /\ \A d \in Conns : d # c => session'[d] = session[d]
        /\ UNCHANGED <<flag, cache, admin, daemon, closed, past>>
    BY <1>7, AckSent DEF stateVars
  <2>2. PICK f \in Frame :
          /\ f.type = "hello_ack" /\ f.enabled = cache
          /\ \A d \in Conns : d # c \/ d \in closed => wire'[d] = wire[d]
          /\ c \in Conns \ closed => wire'[c] = Append(wire[c], f)
    BY <1>7, AckSent
  <2>3. CASE daemon.conn = c
    <3>1. ASSUME Linked' PROVE SwitchLeft(daemon.conn)'
      <4>1. wire'[daemon.conn] = Append(wire[daemon.conn], f)
        BY <2>1, <2>2, <2>3, <3>1 DEF Linked
      <4> QED BY <2>1, <2>2, <2>3, <4>1, SwitchLeftAppend
    <3> QED BY <2>1, <3>1, SwitchFrame
  <2>4. CASE daemon.conn # c
    <3>1. daemon.conn \in Links
      BY DEF ControlTyped, Daemons
    <3>2. Linked' => Linked /\ daemon'.conn = daemon.conn /\ daemon.conn \in Conns
      BY <2>1, <2>4, <3>1 DEF Linked, Links
    <3>3. daemon.conn \in Conns /\ SwitchLeft(daemon.conn) => SwitchLeft(daemon.conn)'
      BY <2>1, <2>2, <2>4 DEF SwitchLeft, Left
    <3> QED BY <2>1, <3>2, <3>3, SwitchFrame
  <2> QED BY <2>3, <2>4
<1>8. CASE OnFrame
  <2>1. /\ UNCHANGED <<flag, cache, admin, past, session, closed>> /\ daemon'.conn = daemon.conn
    BY <1>8, FrameRead DEF stateVars
  <2>2. Linked' => Linked
    BY <2>1 DEF Linked
  <2>3. SwitchLeft(daemon.conn) => SwitchLeft(daemon.conn)'
    BY <1>8, LeftRead
  <2> QED BY <2>1, <2>2, <2>3, SwitchFrame
<1>9. CASE OnClosed
  <2>1. UNCHANGED <<flag, cache, admin, past>> /\ ~Linked'
    BY <1>9, DaemonCut DEF stateVars, Linked
  <2> QED BY <2>1, SwitchFrame
<1>10. CASE RestartHub
  <2>1. /\ cache' = flag' /\ \A r \in Handlers : admin'[r] = Resting
        /\ ~Linked'
    BY <1>10, HubRestarted DEF Linked
  <2> QED BY <2>1, NoFlipIs DEF Resting
<1> QED BY <1>1, <1>2, <1>3, <1>4, <1>5, <1>6, <1>7, <1>8, <1>9, <1>10, SwitchFlips, SwitchBroadcast
        DEF ControlNext

\* EditInv, where edits, the settings, the handshakes and what a linked daemon
\* will know of the settings are left alone.
LEMMA EditFrame ==
  ASSUME EditInv, past.raced \subseteq past'.raced, UNCHANGED row,
         \A s \in Handlers : \/ admin'[s] = admin[s]
                             \/ admin[s].op # "edit" /\ admin'[s].op # "edit",
         \A c \in Conns : session'[c].at \in {"authed", "registered"} =>
           session[c].at \in {"authed", "registered"} /\ session'[c].settings = session[c].settings,
         Linked' => \/ SettingsLeft(daemon.conn)'
                    \/ /\ Linked /\ daemon'.conn = daemon.conn
                       /\ SettingsLeft(daemon.conn) => SettingsLeft(daemon.conn)'
  PROVE  EditInv'
<1>1. Busy("edit")' = Busy("edit") /\ \A r \in Busy("edit") : admin'[r] = admin[r]
  BY DEF Busy
<1>2. \A r \in Handlers, at \in {"save", "push"} :
        /\ Working(r, "edit", at)' <=> Working(r, "edit", at)
        /\ Working(r, "edit", at) => admin'[r] = admin[r]
  BY DEF Working
<1>3. Shaking' \subseteq Shaking /\ \A c \in Shaking' : session'[c].settings = session[c].settings
  BY DEF Shaking
<1> HIDE DEF Busy, Working, Linked, SettingsLeft, Shaking
<1> SUFFICES ASSUME past'.raced \cap {"edit", "handshake"} = {}
             PROVE  /\ \A r, s \in Busy("edit")' : r = s
                    /\ Shaking' = {} \/ Busy("edit")' = {}
                    /\ \A c \in Shaking' : session'[c].settings = row'
                    /\ \A r \in Handlers : Working(r, "edit", "save")' => admin'[r].loaded = row'
                    /\ \A r \in Handlers : Working(r, "edit", "push")' => admin'[r].row = row'
                    /\ Linked' => \/ SettingsLeft(daemon.conn)'
                                  \/ \E r \in Handlers : Working(r, "edit", "push")'
  BY DEF EditInv
<1>4. past.raced \cap {"edit", "handshake"} = {}
  OBVIOUS
<1>5. /\ \A r, s \in Busy("edit") : r = s
      /\ Shaking = {} \/ Busy("edit") = {}
      /\ \A c \in Shaking : session[c].settings = row
      /\ \A r \in Handlers : Working(r, "edit", "save") => admin[r].loaded = row
      /\ \A r \in Handlers : Working(r, "edit", "push") => admin[r].row = row
      /\ Linked => \/ SettingsLeft(daemon.conn)
                   \/ \E r \in Handlers : Working(r, "edit", "push")
  BY <1>4 DEF EditInv
<1>6. Linked' => \/ SettingsLeft(daemon.conn)'
                 \/ \E r \in Handlers : Working(r, "edit", "push")'
  BY <1>2, <1>5
<1>7. /\ \A r \in Handlers : Working(r, "edit", "save")' => admin'[r].loaded = row'
      /\ \A r \in Handlers : Working(r, "edit", "push")' => admin'[r].row = row'
  BY <1>2, <1>5
<1>8. /\ \A r, s \in Busy("edit")' : r = s
      /\ Shaking' = {} \/ Busy("edit")' = {}
      /\ \A c \in Shaking' : session'[c].settings = row'
  BY <1>1, <1>3, <1>5
<1> QED BY <1>6, <1>7, <1>8

\* EditInv while one edit, or none, is in progress.
LEMMA OneEditWas ==
  ASSUME EditInv, past.raced \cap {"edit", "handshake"} = {}, NEW r \in Handlers, admin[r].op = "edit"
  PROVE  /\ \A s \in Handlers : s # r => admin[s].op # "edit"
         /\ \A c \in Conns : session[c].at \notin {"authed", "registered"}
         /\ admin[r].at = "save" => admin[r].loaded = row
         /\ admin[r].at = "push" => admin[r].row = row
<1>1. \A s \in Handlers : s # r => admin[s].op # "edit"
  BY DEF EditInv, Busy
<1>2. \A c \in Conns : session[c].at \notin {"authed", "registered"}
  <2>1. Busy("edit") # {}
    BY DEF Busy
  <2> QED BY <2>1 DEF EditInv, Shaking
<1>3. /\ admin[r].at = "save" => admin[r].loaded = row
      /\ admin[r].at = "push" => admin[r].row = row
  BY DEF EditInv, Working
<1> QED BY <1>1, <1>2, <1>3

LEMMA NoEditWas ==
  ASSUME EditInv, past.raced \cap {"edit", "handshake"} = {},
         \A s \in Handlers : admin[s].op # "edit"
  PROVE  /\ \A c \in Conns : session[c].at \in {"authed", "registered"} => session[c].settings = row
         /\ Linked => SettingsLeft(daemon.conn)
<1>1. Linked => SettingsLeft(daemon.conn) \/ \E r \in Handlers : Working(r, "edit", "push")
  BY DEF EditInv
<1>2. \A s \in Handlers : ~Working(s, "edit", "push")
  BY DEF Working
<1>3. \A c \in Shaking : session[c].settings = row
  BY DEF EditInv
<1> QED BY <1>1, <1>2, <1>3 DEF Shaking

LEMMA OneEditIs ==
  ASSUME NEW r \in Handlers, admin'[r].op = "edit",
         \A s \in Handlers : s # r => admin'[s].op # "edit",
         \A c \in Conns : session'[c].at \notin {"authed", "registered"},
         admin'[r].at = "save" => admin'[r].loaded = row',
         admin'[r].at = "push" => admin'[r].row = row',
         Linked' => SettingsLeft(daemon.conn)' \/ admin'[r].at = "push"
  PROVE  EditInv'
<1>1. (\A s, q \in Busy("edit")' : s = q) /\ Shaking' = {}
  BY DEF Busy, Shaking
<1>2. /\ \A s \in Handlers : Working(s, "edit", "save")' => admin'[s].loaded = row'
      /\ \A s \in Handlers : Working(s, "edit", "push")' => admin'[s].row = row'
  BY DEF Working
<1>3. Linked' => SettingsLeft(daemon.conn)' \/ \E s \in Handlers : Working(s, "edit", "push")'
  BY DEF Working
<1> HIDE DEF Busy, Working, Linked, SettingsLeft, Shaking
<1>4. \A c \in Shaking' : session'[c].settings = row'
  BY <1>1
<1> QED BY <1>1, <1>2, <1>3, <1>4, Zenon DEF EditInv

LEMMA NoEditIs ==
  ASSUME \A s \in Handlers : admin'[s].op # "edit",
         \A c \in Conns : session'[c].at \in {"authed", "registered"} => session'[c].settings = row',
         Linked' => SettingsLeft(daemon.conn)'
  PROVE  EditInv'
<1>1. Busy("edit")' = {} /\ \A c \in Shaking' : session'[c].settings = row'
  BY DEF Busy, Shaking
<1>2. \A s \in Handlers, at \in {"save", "push"} : ~Working(s, "edit", at)'
  BY DEF Working
<1> QED BY <1>1, <1>2 DEF EditInv

LEMMA EditMoves ==
  ASSUME ControlTyped, LinksFit, EditInv, NEW r \in Handlers,
         \/ UpdateSettings(r) \/ ApplyPreset(r) \/ SaveSettings(r) \/ PushSettings(r)
  PROVE  EditInv'
<1> SUFFICES ASSUME past'.raced \cap {"edit", "handshake"} = {} PROVE EditInv'
  BY DEF EditInv
<1>1. CASE UpdateSettings(r) \/ ApplyPreset(r)
  <2>1. /\ \A s \in Handlers : s # r => admin'[s] = admin[s]
        /\ admin'[r].op = "edit" /\ admin'[r].at = "save" /\ admin'[r].loaded = row
        /\ admin[r] = Resting
        /\ past'.raced = past.raced \cup EditRaces
        /\ UNCHANGED <<stateVars, linkVars, panelVars>>
    BY <1>1, EditBegins
  <2>2. past.raced \cap {"edit", "handshake"} = {} /\ Busy("edit") = {} /\ Shaking = {}
    BY <2>1 DEF EditRaces
  <2>3. \A s \in Handlers : admin[s].op # "edit"
    BY <2>2 DEF Busy
  <2>4. Linked => SettingsLeft(daemon.conn)
    BY <2>2, <2>3, NoEditWas
  <2>5. Linked' => SettingsLeft(daemon.conn)'
    BY <2>1, <2>4 DEF Linked, SettingsLeft, Left, linkVars, stateVars
  <2>6. row' = row /\ \A c \in Conns : session'[c].at \notin {"authed", "registered"}
    BY <2>1, <2>2 DEF Shaking, stateVars, linkVars
  <2> QED BY <2>1, <2>3, <2>5, <2>6, OneEditIs
<1>2. CASE SaveSettings(r)
  <2>1. /\ admin[r].op = "edit" /\ admin[r].at = "save"
        /\ admin'[r].op = "edit" /\ admin'[r].at = "push" /\ admin'[r].row = admin[r].row
        /\ \A s \in Handlers : s # r => admin'[s] = admin[s]
        /\ admin[r].loaded = row => row' = admin[r].row
        /\ UNCHANGED <<keys, flag, cache, linkVars, panelVars, past>>
    BY <1>2, SettingsSaved
  <2>2. /\ \A s \in Handlers : s # r => admin[s].op # "edit"
        /\ \A c \in Conns : session[c].at \notin {"authed", "registered"}
        /\ admin[r].loaded = row
    BY <2>1, OneEditWas
  <2>3. \A c \in Conns : session'[c].at \notin {"authed", "registered"}
    BY <2>1, <2>2 DEF linkVars
  <2> QED BY <2>1, <2>2, <2>3, OneEditIs
<1>3. CASE PushSettings(r)
  <2>1. /\ admin[r].op = "edit" /\ admin[r].at = "push" /\ admin'[r] = Resting
        /\ \A s \in Handlers : s # r => admin'[s] = admin[s]
        /\ UNCHANGED <<row, registered, session, closed, daemon, past>>
    BY <1>3, SettingsPushed DEF stateVars
  <2>2. PICK f \in Frame :
          /\ f.type = "settings_update" /\ f.settings = admin[r].row
          /\ \A c \in Conns : c # registered \/ c \in closed => wire'[c] = wire[c]
          /\ registered \in Conns \ closed => wire'[registered] = Append(wire[registered], f)
    BY <1>3, SettingsPushed
  <2>3. /\ \A s \in Handlers : s # r => admin[s].op # "edit"
        /\ \A c \in Conns : session[c].at \notin {"authed", "registered"}
        /\ admin[r].row = row
    BY <2>1, OneEditWas
  <2>4. ASSUME Linked' PROVE SettingsLeft(daemon.conn)'
    <3>1. Linked
      BY <2>1, <2>4, LinkedStays
    <3>2. daemon.conn \in Conns /\ daemon.conn \notin closed
      BY <3>1, LinkedConn
    <3>3. registered = daemon.conn
      BY <3>1, <3>2 DEF LinksFit, Linked
    <3>4. wire'[daemon.conn] = Append(wire[daemon.conn], f)
      BY <2>2, <3>2, <3>3
    <3>5. IF f.type = "kill_switch" THEN SettingsLeft(daemon.conn) ELSE f.settings = row
      BY <2>2, <2>3
    <3> QED BY <2>1, <3>2, <3>4, <3>5, SettingsLeftAppend
  <2>5. \A s \in Handlers : admin'[s].op # "edit"
    BY <2>1, <2>3 DEF Resting
  <2>6. \A c \in Conns : session'[c].at \notin {"authed", "registered"}
    BY <2>1, <2>3
  <2> QED BY <2>4, <2>5, <2>6, NoEditIs
<1> QED BY <1>1, <1>2, <1>3

LEMMA EditHandshake ==
  ASSUME ControlTyped, LinksFit, EditInv, NEW c \in Conns, AuthenticateKey(c) \/ SendHelloAck(c)
  PROVE  EditInv'
<1> SUFFICES ASSUME past'.raced \cap {"edit", "handshake"} = {} PROVE EditInv'
  BY DEF EditInv
<1>0. daemon.conn \in Links
  BY DEF ControlTyped, Daemons
<1>1. CASE AuthenticateKey(c)
  <2>1. /\ \A d \in Conns : d # c => session'[d] = session[d]
        /\ \/ session'[c].at = "off" /\ closed' = closed \cup {c} /\ past' = past
           \/ /\ session'[c].at = "authed" /\ session'[c].settings = row /\ closed' = closed
              /\ past'.raced = past.raced \cup {f \in {"handshake"} : Busy("edit") # {}}
        /\ UNCHANGED <<row, wire, daemon, admin>>
    BY <1>1, KeyChecked DEF stateVars
  <2>2. Linked' => Linked /\ daemon'.conn = daemon.conn
    BY <1>0, <2>1 DEF Linked, Links
  <2>3. SettingsLeft(daemon.conn) => SettingsLeft(daemon.conn)'
    BY <2>1 DEF SettingsLeft, Left
  <2>4. CASE session'[c].at = "off"
    <3>1. past.raced \subseteq past'.raced
      BY <2>1
    <3>2. \A d \in Conns : session'[d].at \in {"authed", "registered"} => session'[d] = session[d]
      BY <2>1, <2>4
    <3> QED BY <2>1, <2>2, <2>3, <3>1, <3>2, EditFrame
  <2>5. CASE session'[c].at = "authed"
    <3>1. past.raced \cap {"edit", "handshake"} = {} /\ Busy("edit") = {} /\ session'[c].settings = row
      BY <2>1, <2>5
    <3>2. \A s \in Handlers : admin[s].op # "edit"
      BY <3>1 DEF Busy
    <3>3. /\ \A d \in Conns : session[d].at \in {"authed", "registered"} => session[d].settings = row
          /\ Linked => SettingsLeft(daemon.conn)
      BY <3>1, <3>2, NoEditWas
    <3>4. Linked' => SettingsLeft(daemon.conn)'
      BY <2>2, <2>3, <3>3
    <3>5. \A d \in Conns : session'[d].at \in {"authed", "registered"} => session'[d].settings = row'
      BY <2>1, <3>1, <3>3
    <3>6. \A s \in Handlers : admin'[s].op # "edit"
      BY <2>1, <3>2
    <3> QED BY <3>4, <3>5, <3>6, NoEditIs
  <2> QED BY <2>1, <2>4, <2>5
<1>2. CASE SendHelloAck(c)
  <2>1. /\ session[c].at = "registered" /\ session'[c].at = "live"
        /\ \A d \in Conns : d # c => session'[d] = session[d]
        /\ UNCHANGED <<row, admin, daemon, closed, past>>
    BY <1>2, AckSent DEF stateVars
  <2>2. PICK f \in Frame :
          /\ f.type = "hello_ack" /\ f.settings = session[c].settings
          /\ \A d \in Conns : d # c \/ d \in closed => wire'[d] = wire[d]
          /\ c \in Conns \ closed => wire'[c] = Append(wire[c], f)
    BY <1>2, AckSent
  <2>3. session[c].settings = row
    BY <2>1 DEF EditInv, Shaking
  <2>4. \A d \in Conns : session'[d].at \in {"authed", "registered"} => session'[d] = session[d]
    BY <2>1
  <2>5. CASE daemon.conn = c
    <3>1. ASSUME Linked' PROVE SettingsLeft(daemon.conn)'
      <4>1. wire'[daemon.conn] = Append(wire[daemon.conn], f)
        BY <2>1, <2>2, <2>5, <3>1 DEF Linked
      <4>2. IF f.type = "kill_switch" THEN SettingsLeft(daemon.conn) ELSE f.settings = row
        BY <2>2, <2>3
      <4> QED BY <2>1, <2>5, <4>1, <4>2, SettingsLeftAppend
    <3> QED BY <2>1, <2>4, <3>1, EditFrame
  <2>6. CASE daemon.conn # c
    <3>1. Linked' => Linked /\ daemon'.conn = daemon.conn /\ daemon.conn \in Conns
      BY <1>0, <2>1, <2>6 DEF Linked, Links
    <3>2. daemon.conn \in Conns /\ SettingsLeft(daemon.conn) => SettingsLeft(daemon.conn)'
      BY <2>1, <2>2, <2>6 DEF SettingsLeft, Left
    <3> QED BY <2>1, <2>4, <3>1, <3>2, EditFrame
  <2> QED BY <2>5, <2>6
<1> QED BY <1>1, <1>2

LEMMA EditStep ==
  ASSUME ControlTyped, LinksFit, EditInv, [ControlNext]_controlVars
  PROVE  EditInv'
<1>1. CASE UNCHANGED controlVars
  <2>1. UNCHANGED <<row, admin, past, daemon, session, closed, wire>>
    BY <1>1 DEF controlVars, stateVars, linkVars
  <2>2. Linked' => Linked /\ daemon'.conn = daemon.conn
    BY <2>1, LinkedStays
  <2>3. SettingsLeft(daemon.conn) => SettingsLeft(daemon.conn)'
    BY <2>1 DEF SettingsLeft, Left
  <2> QED BY <2>1, <2>2, <2>3, EditFrame
<1>2. ASSUME NEW r \in Handlers,
             \/ SetKillSwitch(r) \/ SaveKillSwitch(r) \/ CacheKillSwitch(r) \/ RevokeKey(r)
             \/ KickAgent(r)
      PROVE  EditInv'
  <2>1. /\ UNCHANGED <<row, daemon, session, wire>> /\ closed \subseteq closed'
        /\ past.raced \subseteq past'.raced
        /\ admin[r].op # "edit" /\ admin'[r].op # "edit"
        /\ \A s \in Handlers : s # r => admin'[s] = admin[s]
    BY <1>2, FlipBegins, FlipSaved, FlipCached, KeyRevoked, AgentKicked
    DEF stateVars, linkVars, Resting, Announced
  <2>2. Linked' => Linked /\ daemon'.conn = daemon.conn
    BY <2>1, LinkedStays
  <2>3. SettingsLeft(daemon.conn) => SettingsLeft(daemon.conn)'
    BY <2>1 DEF SettingsLeft, Left
  <2>4. \A s \in Handlers : \/ admin'[s] = admin[s]
                            \/ admin[s].op # "edit" /\ admin'[s].op # "edit"
    BY <2>1
  <2> QED BY <2>1, <2>2, <2>3, <2>4, EditFrame
<1>3. ASSUME NEW r \in Handlers, BroadcastKillSwitch(r) PROVE EditInv'
  <2>1. /\ admin[r].op # "edit" /\ admin'[r].op # "edit"
        /\ \A s \in Handlers : s # r => admin'[s] = admin[s]
        /\ UNCHANGED <<row, session, closed, daemon, past>>
    BY <1>3, FlipPushed DEF stateVars, Resting
  <2>2. PICK f \in Frame :
          /\ f.type = "kill_switch"
          /\ \A c \in Conns : c # admin[r].conn \/ c \in closed => wire'[c] = wire[c]
          /\ admin[r].conn \in Conns \ closed =>
               wire'[admin[r].conn] = Append(wire[admin[r].conn], f)
    BY <1>3, FlipPushed
  <2>3. Linked' => Linked /\ daemon'.conn = daemon.conn
    BY <2>1, LinkedStays
  <2>4. ASSUME Linked, SettingsLeft(daemon.conn) PROVE SettingsLeft(daemon.conn)'
    <3>1. daemon.conn \in Conns /\ daemon.conn \notin closed
      BY <2>4, LinkedConn
    <3>2. CASE admin[r].conn = daemon.conn
      <4>1. wire'[daemon.conn] = Append(wire[daemon.conn], f)
        BY <2>2, <3>1, <3>2
      <4>2. IF f.type = "kill_switch" THEN SettingsLeft(daemon.conn) ELSE f.settings = row
        BY <2>2, <2>4
      <4> QED BY <2>1, <3>1, <4>1, <4>2, SettingsLeftAppend
    <3>3. CASE admin[r].conn # daemon.conn
      <4>1. wire'[daemon.conn] = wire[daemon.conn]
        BY <2>2, <3>1, <3>3
      <4> QED BY <2>1, <2>4, <4>1 DEF SettingsLeft, Left
    <3> QED BY <3>2, <3>3
  <2>5. \A s \in Handlers : \/ admin'[s] = admin[s]
                            \/ admin[s].op # "edit" /\ admin'[s].op # "edit"
    BY <2>1
  <2> QED BY <2>1, <2>3, <2>4, <2>5, EditFrame
<1>4. CASE CreateKey \/ ObserverConnects \/ \E s \in {"online", "offline"} : PresenceArrives(s)
  <2>1. UNCHANGED <<row, admin, past, daemon, session, closed, wire>>
    BY <1>4, KeyCreated, PanelTold DEF stateVars, linkVars
  <2>2. Linked' => Linked /\ daemon'.conn = daemon.conn
    BY <2>1, LinkedStays
  <2>3. SettingsLeft(daemon.conn) => SettingsLeft(daemon.conn)'
    BY <2>1 DEF SettingsLeft, Left
  <2> QED BY <2>1, <2>2, <2>3, EditFrame
<1>5. ASSUME NEW c \in Conns, Hello(c) PROVE EditInv'
  <2>1. /\ daemon'.conn = c /\ session'[c].at = "hello" /\ past'.raced = past.raced
        /\ \A d \in Conns : d # c => session'[d] = session[d]
        /\ UNCHANGED <<row, admin>>
    BY <1>5, HelloIs DEF stateVars
  <2>2. ~Linked'
    BY <2>1 DEF Linked
  <2>3. \A d \in Conns : session'[d].at \in {"authed", "registered"} => session'[d] = session[d]
    BY <2>1
  <2> QED BY <2>1, <2>2, <2>3, EditFrame
<1>6. ASSUME NEW c \in Conns, ConnectAgent(c) \/ HelloAckRaises(c) \/ EndOfSession(c)
      PROVE  EditInv'
  <2>1. /\ session'[c].at # "live" /\ \A d \in Conns : d # c => session'[d] = session[d]
        /\ \/ session'[c].at = "off"
           \/ session[c].at = "authed" /\ session'[c].settings = session[c].settings
        /\ closed \subseteq closed' /\ past.raced \subseteq past'.raced
        /\ UNCHANGED <<row, admin, daemon, wire>>
    BY <1>6, AgentConnected, AckRaised, SessionEnded DEF stateVars, Announced
  <2>2. Linked' => Linked /\ daemon'.conn = daemon.conn
    <3>1. daemon.conn \in Links
      BY DEF ControlTyped, Daemons
    <3> QED BY <2>1, <3>1 DEF Linked, Links
  <2>3. SettingsLeft(daemon.conn) => SettingsLeft(daemon.conn)'
    BY <2>1 DEF SettingsLeft, Left
  <2>4. \A d \in Conns : session'[d].at \in {"authed", "registered"} =>
          session[d].at \in {"authed", "registered"} /\ session'[d].settings = session[d].settings
    BY <2>1
  <2> QED BY <2>1, <2>2, <2>3, <2>4, EditFrame
<1>7. CASE OnFrame
  <2>1. UNCHANGED <<row, admin, past, session, closed>> /\ daemon'.conn = daemon.conn
    BY <1>7, FrameRead DEF stateVars
  <2>2. Linked' => Linked
    BY <2>1 DEF Linked
  <2>3. SettingsLeft(daemon.conn) => SettingsLeft(daemon.conn)'
    BY <1>7, LeftRead
  <2> QED BY <2>1, <2>2, <2>3, EditFrame
<1>8. CASE OnClosed
  <2>1. UNCHANGED <<row, admin, past, session>> /\ ~Linked'
    BY <1>8, DaemonCut DEF stateVars, Linked
  <2> QED BY <2>1, EditFrame
<1>9. CASE RestartHub
  <2>1. /\ \A r \in Handlers : admin'[r] = Resting
        /\ \A c \in Conns : session'[c].at = "off"
        /\ ~Linked'
    BY <1>9, HubRestarted DEF Linked
  <2> QED BY <2>1, NoEditIs DEF Resting
<1> QED BY <1>1, <1>2, <1>3, <1>4, <1>5, <1>6, <1>7, <1>8, <1>9, EditMoves, EditHandshake
        DEF ControlNext

\* What the properties follow from.
LEMMA ControlSettled ==
  ASSUME ControlTyped, LinksFit, KeyInv, SwitchInv, EditInv
  PROVE  ControlTakesEffect
<1>1. ASSUME Settled
      PROVE  /\ Linked /\ wire[daemon.conn] = <<>>
             /\ \A r \in Handlers : ~Working(r, "edit", "push") /\ ~Working(r, "flip", "push")
  BY <1>1 DEF Settled, Linked, Working, Resting
<1>2. SettingsArrive
  <2> SUFFICES ASSUME Settled, past.raced \cap {"edit", "handshake"} = {} PROVE daemon.settings = row
    BY DEF SettingsArrive
  <2>1. SettingsLeft(daemon.conn)
    BY <1>1 DEF EditInv
  <2> QED BY <1>1, <2>1 DEF SettingsLeft, Left
<1>3. SwitchArrives
  <2> SUFFICES ASSUME "flip" \notin past.raced
               PROVE  /\ Settled => daemon.enabled = cache
                      /\ Busy("flip") = {} => cache = flag
    BY DEF SwitchArrives
  <2>1. ASSUME Settled PROVE daemon.enabled = cache
    <3>1. SwitchLeft(daemon.conn)
      BY <1>1, <2>1 DEF SwitchInv
    <3> QED BY <1>1, <2>1, <3>1 DEF SwitchLeft, Left
  <2>2. Busy("flip") = {} => cache = flag
    BY DEF SwitchInv
  <2> QED BY <2>1, <2>2
<1>4. RevokedKeyIsOut
  BY DEF RevokedKeyIsOut, KeyInv
<1> QED BY <1>2, <1>3, <1>4 DEF ControlTakesEffect

\* What the owner and the administrator decide reaches the daemon, unless
\* requests or a handshake overlapped as the property says.
THEOREM ControlTakesEffectAlways == ControlSpec => []ControlTakesEffect
<1> DEFINE IInv == ControlTyped /\ LinksFit /\ KeyInv /\ SwitchInv /\ EditInv
<1>1. ControlInit => IInv
  <2> SUFFICES ASSUME ControlInit PROVE IInv
    OBVIOUS
  <2>1. ControlTyped
    BY ControlTypedAtStart
  <2>2. \A r \in Handlers : admin[r] = Resting
    BY DEF ControlInit
  <2>3. \A c \in Conns : session[c].at = "off"
    BY DEF ControlInit
  <2>4. LinksFit
    BY <2>3, ControlAssumption DEF ControlInit, LinksFit
  <2>5. KeyInv
    BY <2>3 DEF ControlInit, KeyInv
  <2>6. /\ ~Linked
        /\ \A r \in Handlers : /\ ~Working(r, "edit", "save") /\ ~Working(r, "edit", "push")
                              /\ ~Working(r, "flip", "save") /\ ~Working(r, "flip", "cache")
                              /\ ~Working(r, "flip", "push")
    BY <2>2 DEF ControlInit, Linked, Working, Resting
  <2>7. Busy("flip") = {} /\ Busy("edit") = {} /\ Shaking = {}
    BY <2>2, <2>3 DEF Busy, Shaking, Resting
  <2>8. SwitchInv
    BY <2>6, <2>7 DEF ControlInit, SwitchInv
  <2>9. EditInv
    BY <2>6, <2>7 DEF EditInv
  <2> QED BY <2>1, <2>4, <2>5, <2>8, <2>9
<1>2. IInv /\ [ControlNext]_controlVars => IInv'
  BY ControlTypedStep, LinksStep, KeyStep, SwitchStep, EditStep
<1>3. IInv => ControlTakesEffect
  BY ControlSettled
<1> QED BY <1>1, <1>2, <1>3, PTL DEF ControlSpec

(***************************************************************************)
(* The three parts together.                                               *)
(***************************************************************************)
\* Every variable of the limiters has its type.
LEMMA LimitTypesHold == LimitSpec => []LimitTypeOK
<1>1. LimitInv => LimitTypeOK
  BY DEF LimitInv
<1> QED BY <1>1, LimitInvInit, LimitInvStep, PTL DEF LimitSpec

\* Each part takes its own steps or none, so that what is proved of it alone holds
\* of the hub.
LEMMA HubIsItsParts == HubSpec => AccountsSpec /\ ControlSpec /\ LimitSpec
<1>1. HubInit => AccountsInit /\ ControlInit /\ LimitInit
  BY DEF HubInit
<1>2. [HubNext]_hubVars => [AccountsNext]_accountVars
  BY Zenon DEF HubNext, hubVars
<1>3. [HubNext]_hubVars => [ControlNext]_controlVars
  BY Zenon DEF HubNext, hubVars
<1>4. [HubNext]_hubVars => [LimitNext]_limitVars
  BY Zenon DEF HubNext, hubVars, LimitNext
<1> QED BY <1>1, <1>2, <1>3, <1>4, PTL DEF HubSpec, AccountsSpec, ControlSpec, LimitSpec

\* Every variable of the three parts has its type.
THEOREM HubTypesHold == HubSpec => []HubTypeOK
BY HubIsItsParts, AccountsTypesHold, ControlTypesHold, LimitTypesHold, PTL DEF HubTypeOK

\* Whatever the requests of the three parts interleave: administrators, credentials,
\* controls and limits hold, for every value of the constants.
THEOREM HubIsSafe ==
  HubSpec => []( /\ AdminsHold /\ CredentialsHold
                 /\ ControlTakesEffect /\ PanelSeesPresence /\ LimitsHold)
BY HubIsItsParts, AdminsHoldAlways, CredentialsHoldAlways, ControlTakesEffectAlways,
   PanelSeesPresenceAlways, LimitsHoldAlways, PTL
=============================================================================
