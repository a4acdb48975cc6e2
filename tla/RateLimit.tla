------------------------------ MODULE RateLimit ------------------------------
(* The in-memory limiters of core/ratelimit.py: the sliding window that      *)
(* guards log-in, broadcasts and panel sends per key, and the token bucket   *)
(* of each WebSocket session.  A bucket's tokens are counted in sixtieths,   *)
(* so that a second adds RatePerMinute of them and no fraction is lost.      *)
EXTENDS Naturals, Sequences, FiniteSets

CONSTANTS MaxEvents, Window,   \* the window limiter's settings
          RatePerMinute,       \* the bucket's
          MaxClock, MaxPerTick \* bounds of the exploration

ASSUME RateLimitAssumption ==
  {MaxEvents, Window, RatePerMinute, MaxClock, MaxPerTick} \subseteq Nat \ {0}

VARIABLES clock,
          events,  \* the deque of one key, oldest first
          tokens, refilled,  \* the bucket and the time of its last refill
          granted, refused  \* history, per limiter: when it granted, call by
                            \* call, and the times at which it refused
limitVars == <<clock, events, tokens, refilled, granted, refused>>

Limiters == {"window", "bucket"}

\* The default burst of a bucket: a quarter of the rate, at least 5.
Capacity == LET quarter == RatePerMinute \div 4 IN 60 * (IF quarter > 5 THEN quarter ELSE 5)

LimitInit ==
  /\ clock = 0 /\ events = <<>> /\ tokens = Capacity /\ refilled = 0
  /\ granted = [l \in Limiters |-> <<>>]
  /\ refused = [l \in Limiters |-> {}]

\* The grants of a limiter between two moments, both included.
Granted(l, from, to) == Cardinality({i \in DOMAIN granted[l] : granted[l][i] \in from .. to})

Grant(l) ==
  /\ Granted(l, clock, clock) < MaxPerTick
  /\ granted' = [granted EXCEPT ![l] = Append(@, clock)] /\ UNCHANGED refused
Refuse(l) == refused' = [refused EXCEPT ![l] = @ \cup {clock}] /\ UNCHANGED granted

\* Bug variant: an event is forgotten when it is exactly one window old.
KeptStrictly(t) == clock - t < Window

\* What stays in the deque: the age must exceed the window to be dropped.
Kept(t) == clock - t <= Window

\* The loop drops the oldest until it meets one that stays.
Dropped == {i \in DOMAIN events : \A j \in 1 .. i : ~Kept(events[j])}
Remaining == SubSeq(events, Cardinality(Dropped) + 1, Len(events))

\* SlidingWindowLimiter.allow
AllowWindow ==
  /\ IF Len(Remaining) >= MaxEvents
     THEN Refuse("window") /\ events' = Remaining
     ELSE Grant("window") /\ events' = Append(Remaining, clock)
  /\ UNCHANGED <<clock, tokens, refilled>>

\* Bug variant: the refill is not capped.
RefilledUncapped == tokens + (clock - refilled) * RatePerMinute

Refilled ==
  LET sum == tokens + (clock - refilled) * RatePerMinute
  IN  IF sum > Capacity THEN Capacity ELSE sum

\* TokenBucket.allow
AllowBucket ==
  /\ refilled' = clock
  /\ IF Refilled >= 60
     THEN Grant("bucket") /\ tokens' = Refilled - 60
     ELSE Refuse("bucket") /\ tokens' = Refilled
  /\ UNCHANGED <<clock, events>>

Advance ==
  clock < MaxClock /\ clock' = clock + 1 /\ UNCHANGED <<events, tokens, refilled, granted, refused>>

LimitNext == AllowWindow \/ AllowBucket \/ Advance
LimitSpec == LimitInit /\ [][LimitNext]_limitVars

-----------------------------------------------------------------------------
\* Every variable has its type.
LimitTypeOK ==
  /\ clock \in Nat /\ events \in Seq(Nat) /\ tokens \in 0 .. Capacity /\ refilled \in Nat
  /\ granted \in [Limiters -> Seq(Nat)]
  /\ refused \in [Limiters -> SUBSET (0 .. MaxClock)]

\* Wherever a window of Window seconds is laid, both ends included, the limiter
\* granted at most MaxEvents in it, and it refused only when the window that
\* ends at the refusal was full.
WindowIsExact ==
  /\ \A t \in 0 .. clock : Granted("window", t, t + Window) <= MaxEvents
  /\ \A t \in refused["window"] :
       Granted("window", IF t > Window THEN t - Window ELSE 0, t) >= MaxEvents

\* Between any two moments a session is granted at most its burst and what the
\* rate adds in that time, however long it was silent before.
BucketIsBounded ==
  \A from \in 0 .. clock : \A to \in from .. clock :
    60 * Granted("bucket", from, to) <= Capacity + (to - from) * RatePerMinute

\* Neither limiter grants more than it says in any stretch of time.
LimitsHold == WindowIsExact /\ BucketIsBounded
=============================================================================
