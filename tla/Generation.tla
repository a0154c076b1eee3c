----------------------------- MODULE Generation -----------------------------
(***************************************************************************)
(* Schedulers generate their occurrences in runs: the jobs of the          *)
(* generation worker and the catch-ups of members who sign in, at once and *)
(* against the edits of the schedulers.  Each scheduler of a run is one    *)
(* transaction: it takes the scheduler's advisory lock, reads its row,     *)
(* inserts the occurrences that are due and moves the cursor               *)
(* (lastGeneratedDate) with them.  Runs fail and are retried; what a run   *)
(* leaves behind, the hourly sweep queues again.                           *)
(*                                                                         *)
(* A date is a day number.  Occurrences are equally spaced here: months of *)
(* different lengths do not change when a run generates.                   *)
(***************************************************************************)
EXTENDS Naturals, FiniteSets

CONSTANTS
  Member, Scheduler, MemberOf,
  Worker, Visit,   \* runs that may be under way at once: on the queue, at sign-in
  Rule,            \* the recurrences that saves may ask for
  LastDay,         \* bound on the clock
  JobBudget, SignInBudget,   \* MAX_OCCURRENCES_PER_RUN, SIGN_IN_CATCH_UP_BUDGET
  Attempts,        \* of a job
  MaxUpsets,       \* bound on the edits, closings and failures of a behaviour
  NULL

Day == 0 .. LastDay
Runner == Worker \cup Visit

ASSUME GenerationAssumption ==
  /\ MemberOf \in [Scheduler -> Member]
  /\ Member \cap Scheduler = {} /\ Worker \cap Visit = {}
  /\ LastDay \in Nat /\ NULL \notin Day /\ NULL \notin Scheduler
  /\ Rule \subseteq [anchor: Day, interval: Nat \ {0}, limit: Day \cup {NULL},
                     active: BOOLEAN]
  /\ JobBudget \in Nat \ {0} /\ SignInBudget \in Nat \ {0}
  /\ Attempts \in Nat \ {0} /\ MaxUpsets \in Nat

VARIABLES
  clock,          \* the day it is in the time zones that lag
  ahead,          \* the members whose time zone is a day ahead
  rule, cursor,   \* the rows of the scheduler table, by id
  removed,        \* the ids of the schedulers that were deleted
  closedAccount, closedTarget,  \* schedulers with an account not fully active
  made,           \* how many operations were generated, by scheduler and date
  jobs,           \* the queue
  run,            \* the run of each runner
  upsets,         \* how many of these there were
  edited          \* history: the schedulers whose dates were edited

schedulers == <<rule, cursor, removed, closedAccount, closedTarget, edited>>
vars == <<clock, ahead, schedulers, made, jobs, run, upsets>>

Job ==
  [kind: {"scheduler"}, of: Scheduler, attempt: 1 .. Attempts]
    \cup [kind: {"member"}, of: Member, attempt: 1 .. Attempts]

SignIn == [kind: {"sign_in"}, of: Member, attempt: {1}]

\* at is the scheduler whose lock the run holds; dates, once read, are the
\* occurrences it is inserting.
Idle == [for |-> NULL, todo |-> {}, remaining |-> 0, at |-> NULL, dates |-> NULL]

Init ==
  /\ clock = 0 /\ ahead = {}
  /\ rule = [s \in {} |-> NULL] /\ cursor = [s \in {} |-> NULL]
  /\ removed = {} /\ closedAccount = {} /\ closedTarget = {}
  /\ made = [s \in Scheduler |-> [d \in Day |-> 0]]
  /\ jobs = {} /\ run = [r \in Runner |-> Idle] /\ upsets = 0
  /\ edited = {}

-----------------------------------------------------------------------------
(* Occurrences.                                                            *)

\* "Today" of a member.
Today(m) == IF m \in ahead /\ clock < LastDay THEN clock + 1 ELSE clock

IsOccurrence(r, d) == d >= r.anchor /\ (d - r.anchor) % r.interval = 0

\* The occurrences of the row of s after its cursor, up to its member's
\* today or its limit date.
Due(s) ==
  {d \in Day : /\ IsOccurrence(rule[s], d)
               /\ cursor[s] # NULL => d > cursor[s]
               /\ d <= Today(MemberOf[s])
               /\ rule[s].limit # NULL => d <= rule[s].limit}

\* The first n dates of D.
Earliest(D, n) == {d \in D : Cardinality({e \in D : e < d}) < n}

Latest(D) == CHOOSE d \in D : \A e \in D : e <= d

\* The scheduler is there, not paused, and its account and its transfer
\* target, if any, are fully active.
Generatable(s) ==
  s \in DOMAIN rule /\ rule[s].active /\ s \notin closedAccount \cup closedTarget

Behind(s) == Generatable(s) /\ Due(s) # {}

-----------------------------------------------------------------------------
(* Time, and the requests of the members.                                  *)

Upset == upsets < MaxUpsets /\ upsets' = upsets + 1

Tick ==
  /\ clock < LastDay /\ clock' = clock + 1
  /\ UNCHANGED <<ahead, schedulers, made, jobs, run, upsets>>

\* A change of time zone may take a member's today back.
ChangeTimeZone(m) ==
  /\ Upset
  /\ ahead' = IF m \in ahead THEN ahead \ {m} ELSE ahead \cup {m}
  /\ UNCHANGED <<clock, schedulers, made, jobs, run>>

\* The row is committed, then the job is queued: a crash may come between.
Queued(s) ==
  jobs' \in {jobs, jobs \cup {[kind |-> "scheduler", of |-> s, attempt |-> 1]}}

CreateScheduler(s, r) ==
  /\ s \notin DOMAIN rule \cup removed
  /\ rule' = [x \in DOMAIN rule \cup {s} |-> IF x = s THEN r ELSE rule[x]]
  /\ cursor' = [x \in DOMAIN rule \cup {s} |-> IF x = s THEN NULL ELSE cursor[x]]
  /\ Queued(s)
  /\ UNCHANGED <<clock, ahead, removed, closedAccount, closedTarget, made, run, upsets, edited>>

\* An edit may also replace a target that went inactive.  It never writes
\* the cursor.
UpdateScheduler(s, r) ==
  /\ Upset
  /\ s \in DOMAIN rule \ closedAccount
  /\ rule' = [rule EXCEPT ![s] = r]
  /\ closedTarget' \in {closedTarget, closedTarget \ {s}}
  /\ edited' = IF r.anchor = rule[s].anchor /\ r.interval = rule[s].interval
                 THEN edited ELSE edited \cup {s}
  /\ Queued(s)
  /\ UNCHANGED <<clock, ahead, cursor, removed, closedAccount, made, run>>

RemoveScheduler(s) ==
  /\ Upset
  /\ s \in DOMAIN rule \ closedAccount
  /\ rule' = [x \in DOMAIN rule \ {s} |-> rule[x]]
  /\ cursor' = [x \in DOMAIN rule \ {s} |-> cursor[x]]
  /\ removed' = removed \cup {s}
  /\ UNCHANGED <<clock, ahead, closedAccount, closedTarget, made, jobs, run, edited>>

\* The account of s, or its target, is closed or deleted.
CloseAccount(s) ==
  /\ Upset
  /\ s \in DOMAIN rule /\ closedAccount' = closedAccount \cup {s}
  /\ UNCHANGED <<clock, ahead, rule, cursor, removed, closedTarget, made, jobs, run, edited>>

CloseTarget(s) ==
  /\ Upset
  /\ s \in DOMAIN rule /\ closedTarget' = closedTarget \cup {s}
  /\ UNCHANGED <<clock, ahead, rule, cursor, removed, closedAccount, made, jobs, run, edited>>

-----------------------------------------------------------------------------
(* Queueing and starting runs.                                             *)

MemberJob(m) == [kind |-> "member", of |-> m, attempt |-> 1]

\* The sweep looks at the scheduler's account, not at its target.
Sweep(m) ==
  /\ \E s \in DOMAIN rule :
       MemberOf[s] = m /\ rule[s].active /\ s \notin closedAccount /\ Due(s) # {}
  /\ jobs' = jobs \cup {MemberJob(m)}
  /\ UNCHANGED <<clock, ahead, schedulers, made, run, upsets>>

\* The schedulers that a member's catch-up goes through, due or not.
ActiveOf(m) == {s \in DOMAIN rule : MemberOf[s] = m /\ rule[s].active}

Start(r, for, todo, budget) ==
  /\ run[r] = Idle
  /\ run' = [run EXCEPT ![r] = [for |-> for, todo |-> todo, remaining |-> budget,
                                at |-> NULL, dates |-> NULL]]
  /\ UNCHANGED <<clock, ahead, schedulers, made, upsets>>

TakeJob(r, job) ==
  /\ job \in jobs /\ jobs' = jobs \ {job}
  /\ Start(r, job, IF job.kind = "scheduler" THEN {job.of} ELSE ActiveOf(job.of), JobBudget)

CatchUp(r, m) ==
  /\ Start(r, [kind |-> "sign_in", of |-> m, attempt |-> 1], ActiveOf(m), SignInBudget)
  /\ UNCHANGED jobs

-----------------------------------------------------------------------------
(* The transaction of one scheduler.                                       *)

Locked(s) == \E r \in Runner : run[r].at = s

\* Mutant: no advisory lock.
TakeUnlocked(r, s) ==
  /\ run[r].for # NULL /\ run[r].at = NULL
  /\ s \in run[r].todo /\ run[r].remaining > 0
  /\ run' = [run EXCEPT ![r].at = s, ![r].todo = @ \ {s}]
  /\ UNCHANGED <<clock, ahead, schedulers, made, jobs, upsets>>

\* The advisory lock comes first.  The order of the schedulers is the
\* database's.
TakeLock(r, s) ==
  /\ run[r].for # NULL /\ run[r].at = NULL
  /\ s \in run[r].todo /\ run[r].remaining > 0
  /\ ~Locked(s)
  /\ run' = [run EXCEPT ![r].at = s, ![r].todo = @ \ {s}]
  /\ UNCHANGED <<clock, ahead, schedulers, made, jobs, upsets>>

\* Mutant: a scheduler with nothing due ends the run.
ReadRowOrStop(r) ==
  LET s == run[r].at
      dates == Earliest(Due(s), run[r].remaining)
  IN  /\ s # NULL /\ run[r].dates = NULL
      /\ IF Generatable(s) /\ dates # {}
           THEN run' = [run EXCEPT ![r].dates = dates]
           ELSE run' = [run EXCEPT ![r].at = NULL, ![r].todo = {}]
      /\ UNCHANGED <<clock, ahead, schedulers, made, jobs, upsets>>

\* The row is read once, under the lock; nothing due ends the transaction.
ReadRow(r) ==
  LET s == run[r].at
      dates == Earliest(Due(s), run[r].remaining)
  IN  /\ s # NULL /\ run[r].dates = NULL
      /\ IF Generatable(s) /\ dates # {}
           THEN run' = [run EXCEPT ![r].dates = dates]
           ELSE run' = [run EXCEPT ![r].at = NULL]
      /\ UNCHANGED <<clock, ahead, schedulers, made, jobs, upsets>>

\* The foreign key on the scheduler, and the check of each new mirror's
\* target; the account is not looked at again.
Insertable(s) == s \in DOMAIN rule /\ s \notin closedTarget

Inserted(r) ==
  LET s == run[r].at
  IN  [made EXCEPT ![s] = [d \in Day |-> made[s][d] + (IF d \in run[r].dates THEN 1 ELSE 0)]]

Released(r) ==
  [run EXCEPT ![r].at = NULL, ![r].dates = NULL,
              ![r].remaining = @ - Cardinality(run[r].dates)]

\* Mutant: the cursor moves to the last date due, the budget aside.
CommitToLastDue(r) ==
  /\ run[r].at # NULL /\ run[r].dates # NULL /\ Insertable(run[r].at)
  /\ made' = Inserted(r) /\ run' = Released(r)
  /\ cursor' = [cursor EXCEPT ![run[r].at] = Latest(Due(run[r].at) \cup run[r].dates)]
  /\ UNCHANGED <<clock, ahead, rule, removed, closedAccount, closedTarget, jobs, upsets, edited>>

\* The operations and the cursor are committed together.
Generate(r) ==
  /\ run[r].at # NULL /\ run[r].dates # NULL /\ Insertable(run[r].at)
  /\ made' = Inserted(r) /\ run' = Released(r)
  /\ cursor' = [cursor EXCEPT ![run[r].at] = Latest(run[r].dates)]
  /\ UNCHANGED <<clock, ahead, rule, removed, closedAccount, closedTarget, jobs, upsets, edited>>

\* A sign-in out of budget leaves the rest to the queue.
Finish(r) ==
  /\ run[r].for # NULL /\ run[r].at = NULL
  /\ run[r].todo = {} \/ run[r].remaining = 0
  /\ jobs' = IF run[r].for.kind = "sign_in" /\ run[r].remaining = 0
               THEN jobs \cup {MemberJob(run[r].for.of)} ELSE jobs
  /\ run' = [run EXCEPT ![r] = Idle]
  /\ UNCHANGED <<clock, ahead, schedulers, made, upsets>>

\* A job that failed is queued again until its attempts are spent; a sign-in
\* leaves everything to the queue.
LeftToQueue(for) ==
  jobs' = CASE for.kind = "sign_in" -> jobs \cup {MemberJob(for.of)}
            [] for.kind # "sign_in" /\ for.attempt < Attempts ->
                 jobs \cup {[for EXCEPT !.attempt = @ + 1]}
            [] OTHER -> jobs

\* A statement fails, or the process dies: the transaction is rolled back
\* and the schedulers left are not tried.  A sign-in that dies queues nothing.
Fail(r) ==
  LET for == run[r].for
  IN  /\ for # NULL
      /\ \/ /\ run[r].dates # NULL /\ ~Insertable(run[r].at)
            /\ LeftToQueue(for) /\ UNCHANGED upsets
         \/ Upset /\ LeftToQueue(for)
         \/ Upset /\ for.kind = "sign_in" /\ UNCHANGED jobs
      /\ run' = [run EXCEPT ![r] = Idle]
      /\ UNCHANGED <<clock, ahead, schedulers, made>>

-----------------------------------------------------------------------------

Requests ==
  \/ \E m \in Member : ChangeTimeZone(m)
  \/ \E s \in Scheduler, r \in Rule : CreateScheduler(s, r) \/ UpdateScheduler(s, r)
  \/ \E s \in Scheduler : RemoveScheduler(s) \/ CloseAccount(s) \/ CloseTarget(s)
  \/ \E r \in Visit, m \in Member : CatchUp(r, m)

\* What a run does next, once started.
Work(r) ==
  \/ \E s \in Scheduler : TakeLock(r, s)
  \/ ReadRow(r) \/ Generate(r) \/ Finish(r) \/ Fail(r)

Next ==
  \/ Tick \/ Requests
  \/ \E m \in Member : Sweep(m)
  \/ \E r \in Worker, job \in Job : TakeJob(r, job)
  \/ \E r \in Runner : Work(r)

\* The sweep comes round every hour, the worker takes each job in turn and
\* a run goes on until it ends; nothing makes a member do anything.
Fairness ==
  /\ \A m \in Member : WF_vars(Sweep(m))
  /\ \A m \in Member :
       SF_vars(\E r \in Worker, job \in Job : job.of = m /\ TakeJob(r, job))
  /\ \A r \in Runner : WF_vars(Work(r))

Spec == Init /\ [][Next]_vars /\ Fairness

-----------------------------------------------------------------------------
(* Properties.                                                             *)

\* Every variable has its type; a run never has less than nothing left of
\* the budget that its schedulers share.
TypeOK ==
  /\ clock \in Day /\ ahead \subseteq Member
  /\ DOMAIN rule \subseteq Scheduler /\ rule \in [DOMAIN rule -> Rule]
  /\ cursor \in [DOMAIN rule -> Day \cup {NULL}]
  /\ removed \subseteq Scheduler \ DOMAIN rule
  /\ closedAccount \subseteq Scheduler /\ closedTarget \subseteq Scheduler
  /\ edited \subseteq Scheduler
  /\ made \in [Scheduler -> [Day -> Nat]]
  /\ jobs \subseteq Job
  /\ run \in [Runner -> [for: Job \cup SignIn \cup {NULL}, todo: SUBSET Scheduler,
                         remaining: Nat, at: Scheduler \cup {NULL},
                         dates: SUBSET Day \cup {NULL}]]
  /\ upsets \in 0 .. MaxUpsets

\* "Two runs at once for the same scheduler ... would both resume after the
\* same latest occurrence and insert it twice" (generation.service.ts:99): no
\* date is generated twice, however runs, retries, edits and changes of time
\* zone interleave.
NoDuplicates == \A s \in Scheduler, d \in Day : made[s][d] <= 1

\* The cursor is the latest occurrence generated, and has moved with it.
CursorIsLatest ==
  \A s \in DOMAIN rule :
    LET done == {d \in Day : made[s][d] > 0}
    IN  IF cursor[s] = NULL THEN done = {} ELSE done # {} /\ cursor[s] = Latest(done)

\* What a budget, a failure or a limit date cuts off is generated by a later
\* run, never skipped: every date of the recurrence up to the cursor has its
\* operation, unless the member moved the dates.
NothingSkipped ==
  \A s \in DOMAIN rule \ edited, d \in Day :
    IsOccurrence(rule[s], d) /\ cursor[s] # NULL /\ d <= cursor[s] => made[s][d] = 1

\* Whatever fails or is lost, a scheduler that stays generatable is brought
\* up to date.
CatchesUp == \A s \in Scheduler : Behind(s) ~> ~Behind(s)
=============================================================================
