-------------------------- MODULE GenerationProofs --------------------------
(***************************************************************************)
(* Theorems about module Generation, for any number of schedulers, runs,   *)
(* days, budgets and failures: no occurrence is generated twice, none is   *)
(* skipped, and the cursor is the latest.                                  *)
(*                                                                         *)
(* The invariant says of each transaction that its dates still lie after   *)
(* the cursor, with no occurrence missed between: the advisory lock keeps  *)
(* every other run from moving the cursor, and no scheduler that was       *)
(* deleted comes back under its id.                                        *)
(***************************************************************************)
EXTENDS Generation, FiniteSetTheorems, WellFoundedInduction, TLAPS

RunRow ==
  [for: Job \cup SignIn \cup {NULL}, todo: SUBSET Scheduler, remaining: Int,
   at: Scheduler \cup {NULL}, dates: (SUBSET Day) \cup {NULL}]

Typed ==
  /\ clock \in Day
  /\ DOMAIN rule \subseteq Scheduler /\ rule \in [DOMAIN rule -> Rule]
  /\ cursor \in [DOMAIN rule -> Day \cup {NULL}]
  /\ removed \subseteq Scheduler \ DOMAIN rule
  /\ made \in [Scheduler -> [Day -> Nat]]
  /\ jobs \subseteq Job
  /\ run \in [Runner -> RunRow]

\* d is after the cursor of s.
After(s, d) == cursor[s] # NULL => d > cursor[s]

\* What was generated for s is at or before its cursor, and the cursor is.
BeforeCursor(s) ==
  /\ s \in DOMAIN rule =>
       /\ \A d \in Day : made[s][d] # 0 => cursor[s] # NULL /\ d <= cursor[s]
       /\ cursor[s] # NULL => made[s][cursor[s]] # 0
  /\ s \notin DOMAIN rule \cup removed => \A d \in Day : made[s][d] = 0

\* The dates that r is inserting are after the cursor and, unless the dates
\* of the scheduler were edited, leave no occurrence out.
InFlight(r) ==
  LET s == run[r].at
      D == run[r].dates
  IN  D # NULL =>
        /\ D \in SUBSET Day /\ D # {}
        /\ s \in DOMAIN rule \cup removed
        /\ s \in DOMAIN rule =>
             /\ \A d \in D : After(s, d)
             /\ s \notin edited =>
                  \A d \in D, e \in Day :
                    IsOccurrence(rule[s], e) /\ After(s, e) /\ e <= d => e \in D

\* A scheduler is in the hands of one run.
Exclusive ==
  \A q, r \in Runner : run[q].at = run[r].at /\ run[q].at # NULL => q = r

GenerationInv ==
  /\ Typed /\ Exclusive
  /\ \A s \in Scheduler : BeforeCursor(s)
  /\ \A r \in Runner : InFlight(r)
  /\ NoDuplicates /\ NothingSkipped

-----------------------------------------------------------------------------
(* Sets of days.                                                           *)

LEMMA DaysAreFinite ==
  ASSUME NEW D \in SUBSET Day
  PROVE  IsFiniteSet(D) /\ Cardinality(D) \in Nat /\ D \subseteq Nat
<1>1. IsFiniteSet(Day) /\ Day \subseteq Nat
  BY GenerationAssumption, FS_Interval DEF Day
<1>2. QED
  BY <1>1, FS_Subset, FS_CardinalityType

LEMMA LatestIsLast ==
  ASSUME NEW D \in SUBSET Day, D # {}
  PROVE  Latest(D) \in D /\ \A d \in D : d <= Latest(D)
<1> DEFINE T == {n \in Nat : \E d \in D : n = LastDay - d}
<1>1. LastDay \in Nat /\ \A d \in D : d \in Nat /\ d <= LastDay
  BY GenerationAssumption DEF Day
<1>2. T \subseteq Nat
  OBVIOUS
<1>3. T # {}
  <2>1. PICK d \in D : TRUE
    OBVIOUS
  <2>2. LastDay - d \in T
    BY <1>1
  <2>3. QED
    BY <2>2
<1>4. \E n \in T : \A k \in T : ~ (<<k, n>> \in OpToRel(<, Nat))
  BY <1>2, <1>3, NatLessThanWellFounded, WFMin
<1>5. PICK n \in T : \A k \in T : ~ (k < n)
  BY <1>2, <1>4 DEF OpToRel
<1>6. PICK m \in D : n = LastDay - m
  BY <1>5
<1>7. \A d \in D : d <= m
  <2> SUFFICES ASSUME NEW d \in D PROVE d <= m
    OBVIOUS
  <2>1. LastDay - d \in T
    BY <1>1
  <2> HIDE DEF T
  <2>2. QED
    BY <1>1, <1>5, <1>6, <2>1
<1>8. QED
  BY <1>7 DEF Latest

\* The earliest dates of D leave out none that is before one of them.
LEMMA EarliestIsClosed ==
  ASSUME NEW D \in SUBSET Day, NEW n \in Int, NEW d \in Earliest(D, n),
         NEW e \in D, e <= d
  PROVE  e \in Earliest(D, n)
<1> DEFINE below(x) == {y \in D : y < x}
<1>1. below(e) \subseteq below(d)
  BY DaysAreFinite DEF Earliest
<1>2. IsFiniteSet(below(d)) /\ Cardinality(below(d)) \in Nat
      /\ IsFiniteSet(below(e)) /\ Cardinality(below(e)) \in Nat
  BY DaysAreFinite
<1>3. Cardinality(below(e)) <= Cardinality(below(d))
  <2> HIDE DEF below
  <2>1. QED
    BY <1>1, <1>2, FS_Subset
<1>4. Cardinality(below(d)) < n
  BY DEF Earliest
<1>5. QED
  BY <1>2, <1>3, <1>4 DEF Earliest

\* What a run reads is due: after the cursor, with no occurrence left out.
LEMMA ReadIsClosed ==
  ASSUME Typed, NEW s \in DOMAIN rule, NEW n \in Int
  PROVE  /\ Earliest(Due(s), n) \in SUBSET Day
         /\ \A d \in Earliest(Due(s), n) : After(s, d)
         /\ \A d \in Earliest(Due(s), n), e \in Day :
              IsOccurrence(rule[s], e) /\ After(s, e) /\ e <= d
                => e \in Earliest(Due(s), n)
<1>1. Due(s) \in SUBSET Day /\ Earliest(Due(s), n) \subseteq Due(s)
  BY DEF Due, Earliest
<1>2. \A d \in Due(s) : After(s, d)
  BY DEF Due, After
<1>3. ASSUME NEW d \in Due(s), NEW e \in Day,
             IsOccurrence(rule[s], e), After(s, e), e <= d
      PROVE  e \in Due(s)
  <2>1. Today(MemberOf[s]) \in Int /\ d \in Int /\ e \in Int
    BY <1>1, GenerationAssumption DEF Typed, Today, Day
  <2>2. rule[s].limit # NULL => rule[s].limit \in Int
    BY GenerationAssumption DEF Typed, Day
  <2>3. d <= Today(MemberOf[s]) /\ (rule[s].limit # NULL => d <= rule[s].limit)
    BY <1>3 DEF Due
  <2>4. e <= Today(MemberOf[s]) /\ (rule[s].limit # NULL => e <= rule[s].limit)
    BY <1>3, <2>1, <2>2, <2>3
  <2>5. QED
    BY <1>3, <2>4 DEF Due, After
<1>4. QED
  BY <1>1, <1>2, <1>3, EarliestIsClosed

-----------------------------------------------------------------------------
(* Steps.                                                                  *)

\* Schedulers and operations stay, and each run goes on as it was or lets go
\* of its scheduler.
LEMMA RowsStay ==
  ASSUME GenerationInv, UNCHANGED <<rule, cursor, removed, edited, made>>,
         clock' \in Day, jobs' \subseteq Job, run' \in [Runner -> RunRow],
         \A r \in Runner :
           \/ run'[r].at = run[r].at /\ run'[r].dates = run[r].dates
           \/ run'[r].at = NULL /\ run'[r].dates = NULL
  PROVE  GenerationInv'
<1>1. Typed'
  BY DEF GenerationInv, Typed
<1>2. Exclusive'
  BY DEF GenerationInv, Exclusive
<1>3. \A s \in Scheduler : BeforeCursor(s)'
  BY DEF GenerationInv, BeforeCursor
<1>4. ASSUME NEW r \in Runner PROVE InFlight(r)'
  <2>1. CASE run'[r].at = run[r].at /\ run'[r].dates = run[r].dates
    BY <2>1 DEF GenerationInv, InFlight, After
  <2>2. CASE run'[r].dates = NULL
    BY <2>2 DEF InFlight
  <2>3. QED
    BY <2>1, <2>2
<1>5. NoDuplicates' /\ NothingSkipped'
  BY DEF GenerationInv, NoDuplicates, NothingSkipped
<1>6. QED
  BY <1>1, <1>2, <1>3, <1>4, <1>5 DEF GenerationInv

\* A run that starts, or that stops, holds nothing.
LEMMA IdleRow ==
  ASSUME Typed, NEW r \in Runner, NEW row \in RunRow,
         row.at = NULL, row.dates = NULL, run' = [run EXCEPT ![r] = row]
  PROVE  /\ run' \in [Runner -> RunRow]
         /\ \A q \in Runner :
              \/ run'[q].at = run[q].at /\ run'[q].dates = run[q].dates
              \/ run'[q].at = NULL /\ run'[q].dates = NULL
<1>1. run \in [Runner -> RunRow]
  BY DEF Typed
<1>2. run'[r] = row /\ \A q \in Runner \ {r} : run'[q] = run[q]
  BY <1>1
<1>3. run' \in [Runner -> RunRow]
  BY <1>1
<1>4. QED
  BY <1>2, <1>3

LEMMA IdleInRunRow == Idle \in RunRow /\ Idle.at = NULL /\ Idle.dates = NULL
  BY DEF Idle, RunRow

LEMMA StartKeeps ==
  ASSUME GenerationInv, NEW r \in Runner, NEW for \in Job \cup SignIn,
         NEW todo \in SUBSET Scheduler, NEW budget \in Int,
         Start(r, for, todo, budget), jobs' \subseteq Job
  PROVE  GenerationInv'
<1> DEFINE row == [for |-> for, todo |-> todo, remaining |-> budget,
                   at |-> NULL, dates |-> NULL]
<1>1. run' = [run EXCEPT ![r] = row] /\ row.at = NULL /\ row.dates = NULL
  BY DEF Start
<1>2. row \in RunRow
  BY DEF RunRow
<1>3. UNCHANGED <<rule, cursor, removed, edited, made, clock>>
  BY DEF Start, schedulers
<1> HIDE DEF row
<1>4. QED
  BY <1>1, <1>2, <1>3, IdleRow, RowsStay DEF GenerationInv, Typed

LEMMA CreateSchedulerKeeps ==
  ASSUME GenerationInv, NEW s \in Scheduler, NEW r \in Rule, CreateScheduler(s, r)
  PROVE  GenerationInv'
<1>1. /\ s \notin DOMAIN rule \cup removed
      /\ DOMAIN rule' = DOMAIN rule \cup {s} /\ DOMAIN cursor = DOMAIN rule
      /\ cursor'[s] = NULL /\ rule'[s] = r
      /\ \A x \in DOMAIN rule : rule'[x] = rule[x] /\ cursor'[x] = cursor[x]
      /\ UNCHANGED <<clock, removed, made, run, edited>>
  BY DEF CreateScheduler, GenerationInv, Typed
<1>2. Typed'
  <2>1. /\ rule' \in [DOMAIN rule' -> Rule]
        /\ cursor' \in [DOMAIN rule' -> Day \cup {NULL}]
    BY DEF CreateScheduler, GenerationInv, Typed
  <2>2. jobs' \subseteq Job
    BY GenerationAssumption DEF CreateScheduler, Queued, Job, GenerationInv, Typed
  <2>3. QED
    BY <1>1, <2>1, <2>2 DEF GenerationInv, Typed
<1>3. Exclusive'
  BY <1>1 DEF GenerationInv, Exclusive
<1>4. ASSUME NEW x \in Scheduler PROVE BeforeCursor(x)'
  BY <1>1 DEF GenerationInv, BeforeCursor
<1>5. ASSUME NEW q \in Runner PROVE InFlight(q)'
  BY <1>1 DEF GenerationInv, InFlight, After
<1>6. NoDuplicates' /\ NothingSkipped'
  BY <1>1 DEF GenerationInv, NoDuplicates, NothingSkipped
<1>7. QED
  BY <1>2, <1>3, <1>4, <1>5, <1>6 DEF GenerationInv

LEMMA UpdateSchedulerKeeps ==
  ASSUME GenerationInv, NEW s \in Scheduler, NEW r \in Rule, UpdateScheduler(s, r)
  PROVE  GenerationInv'
<1>1. /\ s \in DOMAIN rule /\ DOMAIN rule' = DOMAIN rule /\ rule'[s] = r
      /\ \A x \in DOMAIN rule \ {s} : rule'[x] = rule[x]
      /\ UNCHANGED <<clock, cursor, removed, made, run>>
      /\ edited \subseteq edited'
  BY DEF UpdateScheduler, GenerationInv, Typed
<1>2. Typed'
  <2>1. rule' \in [DOMAIN rule' -> Rule]
    BY DEF UpdateScheduler, GenerationInv, Typed
  <2>2. jobs' \subseteq Job
    BY GenerationAssumption DEF UpdateScheduler, Queued, Job, GenerationInv, Typed
  <2>3. QED
    BY <1>1, <2>1, <2>2 DEF GenerationInv, Typed
\* An occurrence of a scheduler that counts as not edited is still one.
<1>3. ASSUME NEW x \in DOMAIN rule \ edited', NEW d
      PROVE  IsOccurrence(rule'[x], d) <=> IsOccurrence(rule[x], d)
  <2>1. CASE x # s
    BY <1>1, <2>1
  <2>2. CASE x = s
    <3>1. r.anchor = rule[s].anchor /\ r.interval = rule[s].interval
      BY <1>3, <2>2 DEF UpdateScheduler
    <3>2. QED
      BY <1>1, <2>2, <3>1 DEF IsOccurrence
  <2>3. QED
    BY <2>1, <2>2
<1>4. Exclusive'
  BY <1>1 DEF GenerationInv, Exclusive
<1>5. ASSUME NEW x \in Scheduler PROVE BeforeCursor(x)'
  BY <1>1 DEF GenerationInv, BeforeCursor
<1>6. ASSUME NEW q \in Runner PROVE InFlight(q)'
  BY <1>1, <1>3 DEF GenerationInv, InFlight, After
<1>7. NoDuplicates' /\ NothingSkipped'
  BY <1>1, <1>3 DEF GenerationInv, NoDuplicates, NothingSkipped
<1>8. QED
  BY <1>2, <1>4, <1>5, <1>6, <1>7 DEF GenerationInv

LEMMA RemoveSchedulerKeeps ==
  ASSUME GenerationInv, NEW s \in Scheduler, RemoveScheduler(s)
  PROVE  GenerationInv'
<1>1. /\ s \in DOMAIN rule /\ DOMAIN rule' = DOMAIN rule \ {s}
      /\ removed' = removed \cup {s}
      /\ \A x \in DOMAIN rule \ {s} : rule'[x] = rule[x] /\ cursor'[x] = cursor[x]
      /\ UNCHANGED <<clock, made, jobs, run, edited>>
  BY DEF RemoveScheduler
<1>2. Typed'
  <2>1. /\ rule' \in [DOMAIN rule' -> Rule]
        /\ cursor' \in [DOMAIN rule' -> Day \cup {NULL}]
    BY DEF RemoveScheduler, GenerationInv, Typed
  <2>2. QED
    BY <1>1, <2>1 DEF GenerationInv, Typed
<1>3. Exclusive'
  BY <1>1 DEF GenerationInv, Exclusive
<1>4. ASSUME NEW x \in Scheduler PROVE BeforeCursor(x)'
  BY <1>1 DEF GenerationInv, BeforeCursor
<1>5. ASSUME NEW q \in Runner PROVE InFlight(q)'
  BY <1>1 DEF GenerationInv, InFlight, After
<1>6. NoDuplicates' /\ NothingSkipped'
  BY <1>1 DEF GenerationInv, NoDuplicates, NothingSkipped
<1>7. QED
  BY <1>2, <1>3, <1>4, <1>5, <1>6 DEF GenerationInv

LEMMA TakeLockKeeps ==
  ASSUME GenerationInv, NEW r \in Runner, NEW s \in Scheduler, TakeLock(r, s)
  PROVE  GenerationInv'
<1>1. /\ UNCHANGED <<clock, rule, cursor, removed, edited, made, jobs>>
      /\ run[r].at = NULL /\ \A q \in Runner : run[q].at # s
      /\ run' = [run EXCEPT ![r].at = s, ![r].todo = @ \ {s}]
  BY DEF TakeLock, Locked, schedulers
<1>2. /\ run' \in [Runner -> RunRow]
      /\ run'[r].at = s /\ run'[r].dates = run[r].dates
      /\ \A q \in Runner \ {r} : run'[q] = run[q]
  <2>1. run \in [Runner -> RunRow] /\ run[r] \in RunRow
    BY DEF GenerationInv, Typed
  <2> DEFINE row == [run[r] EXCEPT !.at = s, !.todo = @ \ {s}]
  <2>2. row \in RunRow /\ row.at = s /\ row.dates = run[r].dates
    BY <2>1 DEF RunRow
  <2>3. run' = [run EXCEPT ![r] = row]
    BY <1>1, <2>1
  <2> HIDE DEF row
  <2>4. QED
    BY <2>1, <2>2, <2>3
<1>3. run[r].dates = NULL
  BY <1>1, GenerationAssumption DEF GenerationInv, InFlight, Typed
<1>4. Typed'
  BY <1>1, <1>2 DEF GenerationInv, Typed
<1>5. Exclusive'
  BY <1>1, <1>2 DEF GenerationInv, Exclusive
<1>6. ASSUME NEW q \in Runner PROVE InFlight(q)'
  <2>1. CASE q = r
    BY <1>2, <1>3, <2>1 DEF InFlight
  <2>2. CASE q # r
    BY <1>1, <1>2, <2>2 DEF GenerationInv, InFlight, After
  <2>3. QED
    BY <2>1, <2>2
<1>7. /\ \A x \in Scheduler : BeforeCursor(x)'
      /\ NoDuplicates' /\ NothingSkipped'
  BY <1>1 DEF GenerationInv, BeforeCursor, NoDuplicates, NothingSkipped
<1>8. QED
  BY <1>4, <1>5, <1>6, <1>7 DEF GenerationInv

LEMMA ReadRowKeeps ==
  ASSUME GenerationInv, NEW r \in Runner, ReadRow(r)
  PROVE  GenerationInv'
<1> DEFINE s == run[r].at
           dates == Earliest(Due(s), run[r].remaining)
<1>1. /\ UNCHANGED <<clock, rule, cursor, removed, edited, made, jobs>>
      /\ s \in Scheduler /\ run[r] \in RunRow /\ run[r].dates = NULL
      /\ run[r].remaining \in Int
  BY DEF ReadRow, schedulers, GenerationInv, Typed, RunRow
<1>2. CASE run' = [run EXCEPT ![r].at = NULL]
  <2> DEFINE row == [run[r] EXCEPT !.at = NULL]
  <2>1. row \in RunRow /\ row.at = NULL /\ row.dates = NULL
    BY <1>1 DEF RunRow
  <2>2. run' = [run EXCEPT ![r] = row]
    BY <1>2
  <2> HIDE DEF row
  <2>3. QED
    BY <1>1, <2>1, <2>2, IdleRow, RowsStay DEF GenerationInv, Typed
<1>3. CASE Generatable(s) /\ dates # {} /\ run' = [run EXCEPT ![r].dates = dates]
  <2>1. /\ s \in DOMAIN rule /\ dates \in SUBSET Day
        /\ \A d \in dates : After(s, d)
        /\ \A d \in dates, e \in Day :
             IsOccurrence(rule[s], e) /\ After(s, e) /\ e <= d => e \in dates
    BY <1>1, <1>3, ReadIsClosed DEF Generatable, GenerationInv
  <2> HIDE DEF dates
  <2>2. /\ run' \in [Runner -> RunRow]
        /\ run'[r].at = s /\ run'[r].dates = dates
        /\ \A q \in Runner \ {r} : run'[q] = run[q]
    BY <1>1, <1>3, <2>1 DEF GenerationInv, Typed, RunRow
  <2>3. Typed'
    BY <1>1, <2>2 DEF GenerationInv, Typed
  <2>4. Exclusive'
    BY <2>2 DEF GenerationInv, Exclusive
  <2>5. ASSUME NEW q \in Runner PROVE InFlight(q)'
    <3>1. CASE q = r
      BY <1>1, <1>3, <2>1, <2>2, <3>1 DEF InFlight, After
    <3>2. CASE q # r
      BY <1>1, <2>2, <3>2 DEF GenerationInv, InFlight, After
    <3>3. QED
      BY <3>1, <3>2
  <2>6. /\ \A x \in Scheduler : BeforeCursor(x)'
        /\ NoDuplicates' /\ NothingSkipped'
    BY <1>1 DEF GenerationInv, BeforeCursor, NoDuplicates, NothingSkipped
  <2>7. QED
    BY <2>3, <2>4, <2>5, <2>6 DEF GenerationInv
<1>4. QED
  BY <1>2, <1>3 DEF ReadRow

LEMMA GenerateKeeps ==
  ASSUME GenerationInv, NEW r \in Runner, Generate(r)
  PROVE  GenerationInv'
<1> DEFINE s == run[r].at
           D == run[r].dates
<1>1. /\ s # NULL /\ D # NULL /\ s \in DOMAIN rule /\ s \in Scheduler
      /\ UNCHANGED <<clock, rule, removed, jobs, edited>>
      /\ run[r] \in RunRow
  BY DEF Generate, Insertable, GenerationInv, Typed
<1>2. /\ D \in SUBSET Day /\ D # {}
      /\ \A d \in D : After(s, d)
      /\ s \notin edited =>
           \A d \in D, e \in Day :
             IsOccurrence(rule[s], e) /\ After(s, e) /\ e <= d => e \in D
  BY <1>1 DEF GenerationInv, InFlight
<1>3. Day \subseteq Nat /\ NULL \notin Day
  BY DaysAreFinite, GenerationAssumption
<1>4. PICK last \in D : last = Latest(D) /\ \A d \in D : d <= last
  BY <1>2, LatestIsLast
<1>5. /\ cursor' = [cursor EXCEPT ![s] = last]
      /\ made' = [made EXCEPT ![s] = [d \in Day |-> made[s][d] + (IF d \in D THEN 1 ELSE 0)]]
  BY <1>4 DEF Generate, Inserted
<1>6. /\ run' \in [Runner -> RunRow]
      /\ run'[r].at = NULL /\ run'[r].dates = NULL
      /\ \A q \in Runner \ {r} : run'[q] = run[q]
  <2>1. run[r].remaining - Cardinality(D) \in Int
    BY <1>1, <1>2, DaysAreFinite DEF RunRow
  <2>2. run' = [run EXCEPT ![r].at = NULL, ![r].dates = NULL,
                           ![r].remaining = @ - Cardinality(D)]
    BY DEF Generate, Released
  <2>3. QED
    BY <1>1, <2>1, <2>2 DEF GenerationInv, Typed, RunRow
<1> HIDE DEF D
<1>7. /\ cursor'[s] = last
      /\ \A x \in DOMAIN rule \ {s} : cursor'[x] = cursor[x]
      /\ \A d \in Day : made'[s][d] = made[s][d] + (IF d \in D THEN 1 ELSE 0)
      /\ \A d \in Day : made[s][d] \in Nat
      /\ \A x \in Scheduler \ {s} : made'[x] = made[x]
  BY <1>1, <1>5 DEF GenerationInv, Typed
<1>8. Typed'
  <2>1. cursor' \in [DOMAIN rule -> Day \cup {NULL}]
    BY <1>1, <1>2, <1>5 DEF GenerationInv, Typed
  <2>2. [d \in Day |-> made[s][d] + (IF d \in D THEN 1 ELSE 0)] \in [Day -> Nat]
    BY <1>7
  <2>3. made' \in [Scheduler -> [Day -> Nat]]
    BY <1>1, <1>5, <2>2 DEF GenerationInv, Typed
  <2>4. QED
    BY <1>1, <1>6, <2>1, <2>3 DEF GenerationInv, Typed
<1>9. Exclusive'
  BY <1>6 DEF GenerationInv, Exclusive
\* What is inserted was not there, since the cursor had not reached it.
<1>10. \A d \in D : made[s][d] = 0
  BY <1>1, <1>2, <1>3 DEF GenerationInv, BeforeCursor, After, Typed
<1>11. NoDuplicates'
  BY <1>7, <1>10 DEF GenerationInv, NoDuplicates
<1>12. ASSUME NEW x \in Scheduler PROVE BeforeCursor(x)'
  <2>1. CASE x = s
    <3>1. cursor[s] \in Day \cup {NULL} /\ last \in Nat
      BY <1>1, <1>2, <1>3 DEF GenerationInv, Typed
    <3>2. cursor[s] # NULL => cursor[s] \in Nat /\ cursor[s] <= last
      <4> HAVE cursor[s] # NULL
      <4>1. cursor[s] \in Nat
        BY <1>3, <3>1
      <4>2. last > cursor[s]
        BY <1>2 DEF After
      <4>3. QED
        BY <3>1, <4>1, <4>2
    <3>3. ASSUME NEW d \in Day, made'[s][d] # 0
          PROVE  d <= last
      <4>1. CASE d \in D
        BY <1>4, <4>1
      <4>2. CASE d \notin D
        <5>1. made[s][d] # 0
          BY <1>7, <3>3, <4>2
        <5>2. cursor[s] # NULL /\ d <= cursor[s]
          BY <1>1, <5>1 DEF GenerationInv, BeforeCursor
        <5>3. QED
          BY <1>3, <3>1, <3>2, <5>2
      <4>3. QED
        BY <4>1, <4>2
    <3>4. QED
      BY <1>1, <1>2, <1>3, <1>7, <2>1, <3>3 DEF BeforeCursor
  <2>2. CASE x # s
    BY <1>1, <1>7, <2>2 DEF GenerationInv, BeforeCursor
  <2>3. QED
    BY <2>1, <2>2
<1>13. NothingSkipped'
  <2> SUFFICES ASSUME NEW x \in DOMAIN rule \ edited, NEW d \in Day,
                      IsOccurrence(rule[x], d), cursor'[x] # NULL, d <= cursor'[x]
               PROVE  made'[x][d] = 1
    BY <1>1 DEF NothingSkipped
  <2>1. CASE x # s
    BY <1>7, <2>1 DEF GenerationInv, NothingSkipped, Typed
  <2>2. CASE x = s
    <3>1. CASE After(s, d)
      <4>1. d \in D
        BY <1>2, <1>7, <2>2, <3>1
      <4>2. QED
        BY <1>7, <1>10, <2>2, <4>1
    <3>2. CASE ~After(s, d)
      <4>1. d \notin D /\ cursor[s] # NULL /\ d <= cursor[s]
        BY <1>1, <1>2, <1>3, <3>2 DEF After, GenerationInv, Typed
      <4>2. made[s][d] = 1
        BY <1>1, <2>2, <4>1 DEF GenerationInv, NothingSkipped
      <4>3. QED
        BY <1>7, <2>2, <4>1, <4>2
    <3>3. QED
      BY <3>1, <3>2
  <2>3. QED
    BY <2>1, <2>2
<1>14. ASSUME NEW q \in Runner PROVE InFlight(q)'
  <2>1. CASE q = r
    BY <1>6, <2>1 DEF InFlight
  <2>2. CASE q # r
    <3>1. run'[q] = run[q] /\ run[q].at # s
      BY <1>1, <1>6, <2>2 DEF GenerationInv, Exclusive
    <3>2. run[q].at \in DOMAIN rule => cursor'[run[q].at] = cursor[run[q].at]
      BY <1>7, <3>1
    <3> HIDE DEF s
    <3>3. QED
      BY <1>1, <3>1, <3>2 DEF GenerationInv, InFlight, After
  <2>3. QED
    BY <2>1, <2>2
<1>15. QED
  BY <1>8, <1>9, <1>11, <1>12, <1>13, <1>14 DEF GenerationInv

LEMMA EndKeeps ==
  ASSUME GenerationInv, NEW r \in Runner, Finish(r) \/ Fail(r)
  PROVE  GenerationInv'
<1>1. /\ run' = [run EXCEPT ![r] = Idle]
      /\ UNCHANGED <<clock, rule, cursor, removed, edited, made>>
      /\ run[r].for \in Job \cup SignIn
  BY DEF Finish, Fail, schedulers, GenerationInv, Typed, RunRow
<1>2. jobs' \subseteq Job
  <2>1. run[r].for \in SignIn => MemberJob(run[r].for.of) \in Job
    BY GenerationAssumption DEF SignIn, MemberJob, Job
  <2>2. run[r].for.kind = "sign_in" => run[r].for \in SignIn
    BY <1>1 DEF Job
  <2>3. run[r].for.kind # "sign_in" /\ run[r].for.attempt < Attempts
          => [run[r].for EXCEPT !.attempt = @ + 1] \in Job
    BY <1>1, GenerationAssumption DEF Job, SignIn
  <2>4. CASE Finish(r)
    BY <2>1, <2>2, <2>4 DEF Finish, GenerationInv, Typed
  <2>5. CASE Fail(r)
    <3>1. jobs' = jobs \/ LeftToQueue(run[r].for)
      BY <2>5 DEF Fail
    <3>2. QED
      BY <2>1, <2>2, <2>3, <3>1 DEF LeftToQueue, GenerationInv, Typed
  <2>6. QED
    BY <2>4, <2>5
<1>3. QED
  BY <1>1, <1>2, IdleInRunRow, IdleRow, RowsStay DEF GenerationInv, Typed

LEMMA GenerationStep == GenerationInv /\ [Next]_vars => GenerationInv'
<1> SUFFICES ASSUME GenerationInv, [Next]_vars
             PROVE  GenerationInv'
  OBVIOUS
<1>1. ASSUME UNCHANGED <<rule, cursor, removed, edited, made, run>>,
             clock' \in Day, jobs' \subseteq Job
      PROVE  GenerationInv'
  BY <1>1, RowsStay DEF GenerationInv, Typed
<1>2. clock \in Day /\ jobs \subseteq Job /\ DOMAIN rule \subseteq Scheduler
  BY DEF GenerationInv, Typed
<1>3. CASE Tick
  <2>1. clock' \in Day
    BY <1>2, <1>3, GenerationAssumption DEF Tick, Day
  <2>2. QED
    BY <1>1, <1>2, <1>3, <2>1 DEF Tick, schedulers
<1>4. ASSUME NEW m \in Member, ChangeTimeZone(m) PROVE GenerationInv'
  BY <1>1, <1>2, <1>4 DEF ChangeTimeZone, schedulers
<1>5. ASSUME NEW s \in Scheduler, CloseAccount(s) \/ CloseTarget(s) PROVE GenerationInv'
  BY <1>1, <1>2, <1>5 DEF CloseAccount, CloseTarget
<1>6. ASSUME NEW m \in Member, Sweep(m) PROVE GenerationInv'
  <2>1. MemberJob(m) \in Job
    BY GenerationAssumption DEF MemberJob, Job
  <2>2. QED
    BY <1>1, <1>2, <1>6, <2>1 DEF Sweep, schedulers
<1>7. ASSUME NEW r \in Visit, NEW m \in Member, CatchUp(r, m) PROVE GenerationInv'
  <2>1. [kind |-> "sign_in", of |-> m, attempt |-> 1] \in SignIn
    BY DEF SignIn
  <2>2. ActiveOf(m) \in SUBSET Scheduler /\ SignInBudget \in Int /\ r \in Runner
    BY <1>2, GenerationAssumption DEF ActiveOf, Runner
  <2>3. QED
    BY <1>2, <1>7, <2>1, <2>2, StartKeeps DEF CatchUp
<1>8. ASSUME NEW r \in Worker, NEW job \in Job, TakeJob(r, job) PROVE GenerationInv'
  <2>1. (IF job.kind = "scheduler" THEN {job.of} ELSE ActiveOf(job.of)) \in SUBSET Scheduler
    BY <1>2 DEF ActiveOf, Job
  <2>2. JobBudget \in Int /\ r \in Runner
    BY GenerationAssumption DEF Runner
  <2>3. QED
    BY <1>2, <1>8, <2>1, <2>2, StartKeeps DEF TakeJob
<1>9. CASE UNCHANGED vars
  BY <1>1, <1>2, <1>9 DEF vars, schedulers
<1>10. QED
  BY <1>3, <1>4, <1>5, <1>6, <1>7, <1>8, <1>9, CreateSchedulerKeeps,
     UpdateSchedulerKeeps, RemoveSchedulerKeeps, TakeLockKeeps, ReadRowKeeps,
     GenerateKeeps, EndKeeps
     DEF Next, Requests, Work

LEMMA GenerationCorrect == Spec => []GenerationInv
<1>1. Init => GenerationInv
  <2> SUFFICES ASSUME Init
               PROVE  GenerationInv
    OBVIOUS
  <2>1. /\ clock = 0 /\ DOMAIN rule = {} /\ DOMAIN cursor = {} /\ removed = {}
        /\ rule \in [{} -> Rule] /\ cursor \in [{} -> Day \cup {NULL}]
        /\ \A s \in Scheduler, d \in Day : made[s][d] = 0
        /\ made \in [Scheduler -> [Day -> Nat]]
        /\ jobs = {} /\ 0 \in Day
        /\ \A r \in Runner : run[r] = Idle
    BY GenerationAssumption DEF Init, Day
  <2>2. run \in [Runner -> RunRow]
    BY IdleInRunRow DEF Init
  <2>3. Typed
    BY <2>1, <2>2 DEF Typed
  <2>4. Exclusive /\ \A r \in Runner : InFlight(r)
    BY <2>1, IdleInRunRow DEF Exclusive, InFlight
  <2>5. /\ \A s \in Scheduler : BeforeCursor(s)
        /\ NoDuplicates /\ NothingSkipped
    BY <2>1 DEF BeforeCursor, NoDuplicates, NothingSkipped
  <2>6. QED
    BY <2>3, <2>4, <2>5 DEF GenerationInv
<1>2. QED
  BY <1>1, GenerationStep, PTL DEF Spec

\* No date of a scheduler is generated twice, by any number of runs at once,
\* with any budgets, failures, retries, edits and changes of time zone.
THEOREM NeverGeneratedTwice == Spec => []NoDuplicates
<1>1. GenerationInv => NoDuplicates
  BY DEF GenerationInv
<1>2. QED
  BY <1>1, GenerationCorrect, PTL

\* The cursor passes no occurrence that was not generated, unless the member
\* moved the dates.
THEOREM NeverSkipped == Spec => []NothingSkipped
<1>1. GenerationInv => NothingSkipped
  BY DEF GenerationInv
<1>2. QED
  BY <1>1, GenerationCorrect, PTL

\* The cursor of a scheduler is the latest of the dates generated for it, and
\* there is none before the first: the cursor and the operations are committed
\* together, so no run starts after a date that it did not record
\* (generation.service.ts:135).
THEOREM CursorAlwaysLatest == Spec => []CursorIsLatest
<1>1. ASSUME GenerationInv PROVE CursorIsLatest
  <2> SUFFICES ASSUME NEW s \in DOMAIN rule
               PROVE  LET done == {d \in Day : made[s][d] > 0}
                      IN  IF cursor[s] = NULL THEN done = {}
                          ELSE done # {} /\ cursor[s] = Latest(done)
    BY DEF CursorIsLatest
  <2> DEFINE done == {d \in Day : made[s][d] > 0}
  <2>1. s \in Scheduler
    BY <1>1 DEF GenerationInv, Typed
  <2>2. made[s] \in [Day -> Nat] /\ cursor[s] \in Day \cup {NULL}
    BY <1>1, <2>1 DEF GenerationInv, Typed
  <2>3. BeforeCursor(s)
    BY <1>1, <2>1 DEF GenerationInv
  <2>4. /\ \A d \in done : cursor[s] # NULL /\ d <= cursor[s]
        /\ cursor[s] # NULL => cursor[s] \in done
    BY <2>2, <2>3 DEF BeforeCursor
  <2>5. done \subseteq Int
    BY GenerationAssumption DEF Day
  <2> HIDE DEF done
  <2>6. ASSUME cursor[s] # NULL PROVE cursor[s] = Latest(done)
    <3>1. ASSUME NEW d \in done, \A e \in done : e <= d PROVE d = cursor[s]
      <4>1. d \in Int /\ cursor[s] \in Int
        BY <2>4, <2>5, <2>6
      <4>2. d <= cursor[s] /\ cursor[s] <= d
        BY <2>4, <2>6, <3>1
      <4>3. QED
        BY <4>1, <4>2
    <3>2. QED
      BY <2>4, <2>6, <3>1 DEF Latest
  <2>7. QED
    BY <2>4, <2>6 DEF done
<1>2. QED
  BY <1>1, GenerationCorrect, PTL
=============================================================================
