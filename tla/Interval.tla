------------------------------ MODULE Interval ------------------------------
(***************************************************************************)
(* The dates of a scheduler's occurrences.  Occurrence n is n intervals    *)
(* after the anchor, in one step: a month that lacks the anchor's day      *)
(* clamps that occurrence only.  A run takes what is due after the cursor, *)
(* up to its ceiling, and the cursor follows; between runs, days go by and *)
(* the rule is edited, which keeps the cursor.                             *)
(*                                                                         *)
(* A date is a tuple <<year, month, day>>, ordered as its ISO string is.   *)
(***************************************************************************)
EXTENDS Integers, Sequences, FiniteSets

CONSTANTS
  Rule,       \* rules a scheduler may have: [anchor, unit, value, limit]
  Day,        \* the days on which a run may happen
  Ceiling,    \* MAX_OCCURRENCES_PER_RUN, made small
  Far,        \* NO_LIMIT_HORIZON, made near
  NULL

VARIABLES
  rule, cursor, today,
  made    \* the dates that the last run made, in order

vars == <<rule, cursor, today, made>>

-----------------------------------------------------------------------------
(* Dates.                                                                  *)

Date == Nat \X (1 .. 12) \X (1 .. 31)

Before(a, b) ==
  \/ a[1] < b[1]
  \/ a[1] = b[1] /\ a[2] < b[2]
  \/ a[1] = b[1] /\ a[2] = b[2] /\ a[3] < b[3]

\* No interval is shorter than a day, and none is due past the far horizon.
IntervalAssumption ==
  /\ Rule \subseteq [anchor : Date, unit : {"day", "week", "month", "year"}, value : Nat \ {0},
                    limit : Date \cup {NULL}]
  /\ Day \subseteq Date /\ Ceiling \in Nat /\ NULL \notin Date
  /\ Far \in Date /\ \A day \in Day : ~Before(Far, day)

Leap(year) == year % 4 = 0 /\ (year % 100 # 0 \/ year % 400 = 0)

daysInMonth(year, month) ==
  CASE month = 2 -> IF Leap(year) THEN 29 ELSE 28
    [] month \in {4, 6, 9, 11} -> 30
    [] OTHER -> 31

\* The first of the month that is n months after that of date.
MonthAfter(date, n) ==
  LET total == date[2] - 1 + n IN <<date[1] + (total \div 12), (total % 12) + 1, 1>>

Smaller(a, b) == IF a < b THEN a ELSE b

LengthOf(month) == daysInMonth(month[1], month[2])

\* Days from the first of the month of date to the first of the nth after it.
DaysOfMonths(date) ==
  LET days[n \in Nat] == IF n = 0 THEN 0 ELSE days[n - 1] + LengthOf(MonthAfter(date, n - 1))
  IN days

addDays(date, days) ==
  LET offset == date[3] - 1 + days
      months == CHOOSE n \in offset \div 31 .. offset \div 28 :
                  /\ DaysOfMonths(date)[n] <= offset
                  /\ offset < DaysOfMonths(date)[n + 1]
  IN [MonthAfter(date, months) EXCEPT ![3] = offset - DaysOfMonths(date)[months] + 1]

\* Mutant: a missing day runs over into the next month.
AddMonthsRolling(date, months) ==
  addDays(MonthAfter(date, months), date[3] - 1)

addMonthsClamped(date, months) ==
  LET to == MonthAfter(date, months) IN
  [to EXCEPT ![3] = Smaller(date[3], LengthOf(to))]

occurrenceDate(r, n) ==
  CASE r.unit = "day" -> addDays(r.anchor, r.value * n)
    [] r.unit = "week" -> addDays(r.anchor, r.value * n * 7)
    [] r.unit = "month" -> addMonthsClamped(r.anchor, r.value * n)
    [] r.unit = "year" -> addMonthsClamped(r.anchor, r.value * n * 12)

-----------------------------------------------------------------------------
(* What is due.                                                            *)

\* How many days there are at most from the anchor to the end of horizon's year,
\* and so occurrences.
Most(r, horizon) == IF horizon[1] < r.anchor[1] THEN 0 ELSE 372 * (horizon[1] - r.anchor[1] + 1)

\* The first occurrence past the horizon, that ends them.
End(r, horizon) ==
  CHOOSE n \in 0 .. Most(r, horizon) :
    /\ Before(horizon, occurrenceDate(r, n))
    /\ \A m \in 0 .. n - 1 : ~Before(horizon, occurrenceDate(r, m))

\* The occurrences after `after` and up to horizon.
occurrencesBetween(r, after, horizon) ==
  {n \in 0 .. End(r, horizon) - 1 : after = NULL \/ Before(after, occurrenceDate(r, n))}

\* The ith of a set of numbers.
Ith(S, i) == CHOOSE n \in S : Cardinality({m \in S : m < n}) = i - 1

\* At most limit of them, in order.
dueOccurrences(r, after, horizon, limit) ==
  LET between == occurrencesBetween(r, after, horizon) IN
  [i \in 1 .. Smaller(Cardinality(between), Smaller(limit, Ceiling)) |->
     occurrenceDate(r, Ith(between, i))]

\* Mutant: counts what the next run makes, ceiling and all.
CountOfNextRun(r, after, horizon) == Len(dueOccurrences(r, after, horizon, Ceiling))

countDueOccurrences(r, after, horizon) ==
  Cardinality(occurrencesBetween(r, after, horizon))

\* Mutant: nextOccurrence steps from the cursor, not from the anchor.
NextFromCursor(r, after) ==
  LET next == occurrenceDate([r EXCEPT !.anchor = IF after = NULL THEN @ ELSE after],
                             IF after = NULL THEN 0 ELSE 1)
  IN IF Before(IF r.limit = NULL THEN Far ELSE r.limit, next) THEN NULL ELSE next

nextOccurrence(r, after) ==
  LET due == dueOccurrences(r, after, IF r.limit = NULL THEN Far ELSE r.limit, 1)
  IN IF due = <<>> THEN NULL ELSE due[1]

Horizon(r) == IF r.limit # NULL /\ Before(r.limit, today) THEN r.limit ELSE today

-----------------------------------------------------------------------------
(* Runs, days and edits.                                                   *)

Init ==
  /\ rule \in Rule /\ today \in Day
  /\ cursor = NULL /\ made = <<>>

\* A run that shares its budget with other schedulers may have less than its
\* ceiling left.
Generate ==
  \E limit \in 1 .. Ceiling :
    LET due == dueOccurrences(rule, cursor, Horizon(rule), limit) IN
    /\ due # <<>>
    /\ made' = due /\ cursor' = due[Len(due)]
    /\ UNCHANGED <<rule, today>>

DaysGoBy ==
  /\ \E day \in Day : Before(today, day) /\ today' = day
  /\ made' = <<>>
  /\ UNCHANGED <<rule, cursor>>

EditRule ==
  /\ rule' \in Rule \ {rule}
  /\ made' = <<>>
  /\ UNCHANGED <<cursor, today>>

Next == Generate \/ DaysGoBy \/ EditRule

Spec == Init /\ [][Next]_vars

-----------------------------------------------------------------------------
(* Properties.                                                             *)

Monthly == rule.unit \in {"month", "year"}

\* Every date made falls on the day of the month that the Member chose, or
\* on the last of a month that has no such day: February does not pull the
\* occurrences after it to the 28th (interval.ts:40).
NoDrift ==
  Monthly =>
    \A i \in 1 .. Len(made) :
      LET date == made[i] IN
      /\ date[3] <= rule.anchor[3]
      /\ date[3] < rule.anchor[3] => date[3] = daysInMonth(date[1], date[2])
      /\ ((date[1] - rule.anchor[1]) * 12 + date[2] - rule.anchor[2])
           % (rule.value * IF rule.unit = "year" THEN 12 ELSE 1) = 0

\* The date announced as the next is the first that a run makes
\* (interval.ts:145).
MakesNext == made' # <<>> /\ made' # made => made'[1] = nextOccurrence(rule, cursor)
NextIsMade == [][MakesNext]_vars

\* The count of what is due is what the runs make, however many runs the
\* backlog takes (interval.ts:120).
CountsBacklog ==
  cursor' # cursor =>
    countDueOccurrences(rule, cursor, Horizon(rule))
      = Len(made') + countDueOccurrences(rule, cursor', Horizon(rule))
BacklogIsCounted == [][CountsBacklog]_vars
=============================================================================
