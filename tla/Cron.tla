-------------------------------- MODULE Cron --------------------------------
(* The cron arithmetic of scheduled tasks (services/scheduler.py): parsing a *)
(* field and looking for the next instant, minute by minute up to a horizon, *)
(* on the real calendar.  The engine computes the next run of a schedule     *)
(* each time it claims one, so a missing next run ends the schedule.         *)
(* Instants are counted in hours; minutes are left out.                      *)
EXTENDS Integers, FiniteSetsExt

CONSTANTS CronSpecs,  \* expressions: records of a field for each position
          StartDays,  \* days on which a schedule is created
          HoursPerDay,\* hours of a (shorter) day
          LastYear    \* end of the calendar
FirstYear == 2023     \* its first day is a Sunday
Never == -1

VARIABLES cron,  \* the schedule's expression
          at     \* its last run, or Never
cronVars == <<cron, at>>

-----------------------------------------------------------------------------
(* The calendar, as Python's datetime has it, from 1 January of FirstYear.   *)

IsLeap(y) == y % 4 = 0 /\ (y % 100 # 0 \/ y % 400 = 0)
DaysBeforeYear(y) == LET p == y - 1 IN 365 * p + p \div 4 - p \div 100 + p \div 400
DaysBeforeMonth == <<0, 31, 59, 90, 120, 151, 181, 212, 243, 273, 304, 334>>
YearStart(y) == DaysBeforeYear(y) - DaysBeforeYear(FirstYear)
MonthStart(y, m) ==
  YearStart(y) + DaysBeforeMonth[m] + (IF m > 2 /\ IsLeap(y) THEN 1 ELSE 0)
Date(n) == LET y == CHOOSE z \in FirstYear .. LastYear : YearStart(z) <= n /\ n < YearStart(z + 1)
               m == Max({k \in 1 .. 12 : MonthStart(y, k) <= n})
           IN [month |-> m, day |-> n - MonthStart(y, m) + 1, dow |-> n % 7]
Calendar == [n \in 0 .. YearStart(LastYear + 1) - 1 |-> Date(n)]

-----------------------------------------------------------------------------
(* Fields: a set of parts, each a range with a step; "*" is the whole range. *)

Part(from, to, step) == [from |-> from, to |-> to, step |-> step]
Star == {[all |-> TRUE]}
Fields == {Star} \cup SUBSET [from : Nat, to : Nat, step : Nat]
OneOf(S) == {Part(n, n, 1) : n \in S}

ASSUME CronAssumption ==
  /\ CronSpecs \subseteq [hour : Fields, dom : Fields, mon : Fields, dow : Fields]
  /\ StartDays \subseteq Nat /\ HoursPerDay \in Nat \ {0} /\ LastYear \in Nat

\* _parse_field refuses a part outside the bounds, and a step below one.
ValidField(field, lo, hi) ==
  /\ field # {}
  /\ field = Star \/ \A p \in field : p.step >= 1 /\ lo <= p.from /\ p.from <= p.to /\ p.to <= hi

ParseField(field, lo, hi) ==
  IF field = Star THEN lo .. hi
  ELSE UNION {{n \in p.from .. p.to : (n - p.from) % p.step = 0} : p \in field}

ValidCron(spec) ==
  /\ ValidField(spec.hour, 0, HoursPerDay - 1) /\ ValidField(spec.dom, 1, 31)
  /\ ValidField(spec.mon, 1, 12) /\ ValidField(spec.dow, 0, 6)

\* The two day fields: either will do when both are restricted.
DayMatches(spec, date) ==
  LET mon == date.month \in ParseField(spec.mon, 1, 12)
      dom == date.day \in ParseField(spec.dom, 1, 31)
      dow == date.dow \in ParseField(spec.dow, 0, 6)
  IN mon /\ IF spec.dom # Star /\ spec.dow # Star THEN dom \/ dow ELSE dom /\ dow

InstantMatches(spec, t) ==
  /\ (t % HoursPerDay) \in ParseField(spec.hour, 0, HoursPerDay - 1)
  /\ DayMatches(spec, Calendar[t \div HoursPerDay])

\* Bug variant: the horizon of an ordinary year.
HorizonOfAYear == 365 * HoursPerDay

Horizon == 366 * HoursPerDay

\* _cron_next
CronNext(spec, after) ==
  LET hits == {t \in (after + 1) .. (after + 1 + Horizon) : InstantMatches(spec, t)}
  IN IF hits = {} THEN Never ELSE Min(hits)

-----------------------------------------------------------------------------
\* create: an invalid expression is refused.
CronInit ==
  /\ cron \in {spec \in CronSpecs : ValidCron(spec)}
  /\ \E d \in StartDays, h \in 0 .. HoursPerDay - 1 : at = d * HoursPerDay + h

\* The engine claims the run that is due and computes the next one.
CronRuns ==
  /\ at # Never /\ at \div HoursPerDay < YearStart(LastYear - 1)
  /\ at' = CronNext(cron, at) /\ cron' = cron

CronBehaviour == CronInit /\ [][CronRuns]_cronVars

-----------------------------------------------------------------------------
\* Expressions that match some day of the calendar; a day that every year has.
Possible == {spec \in CronSpecs : ValidCron(spec) /\
  \E n \in DOMAIN Calendar : DayMatches(spec, Calendar[n])}
Yearly == {spec \in CronSpecs : ValidCron(spec) /\
  \E n \in DOMAIN Calendar : DayMatches(spec, Calendar[n])
                            /\ ~(Calendar[n].month = 2 /\ Calendar[n].day = 29)}

\* A schedule that has a day every year never ends: the horizon is just long
\* enough, over a leap year as well.
YearlyCronFires == cron \in Yearly => at # Never

\* The comment on the horizon ("a valid expression always matches within a
\* year"): no schedule that can run again ever ends.
ValidCronFires == cron \in Possible => at # Never
=============================================================================
