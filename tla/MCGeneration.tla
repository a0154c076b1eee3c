---------------------------- MODULE MCGeneration ----------------------------
(* Small instances of Generation for TLC. *)
EXTENDS Generation, TLC

CONSTANTS m1, s1, s2

OneMember == [s \in Scheduler |-> m1]

Recurrence(anchor, interval, limit, active) ==
  [anchor |-> anchor, interval |-> interval, limit |-> limit, active |-> active]

\* Daily; every other day until day 2; daily from day 1, but paused.
Rules ==
  {Recurrence(0, 1, NULL, TRUE), Recurrence(0, 2, 2, TRUE), Recurrence(1, 1, NULL, FALSE)}

\* One scheduler, with all the days and upsets there are, or two that are due on
\* the same days and compete for the budgets of their member's runs: these are
\* daily for two days, their own jobs are lost and the only upset is a failure.
Daily == Recurrence(0, 1, NULL, TRUE)

OwnJob(job) == job # NULL /\ job.kind = "scheduler"

Competing ==
  /\ DOMAIN rule = Scheduler /\ \A s \in Scheduler : rule[s] = Daily
  /\ clock <= 1 /\ upsets <= 1
  /\ ahead = {} /\ closedAccount = {} /\ closedTarget = {} /\ removed = {}
  /\ \A job \in jobs \cup {run[r].for : r \in Runner} : ~OwnJob(job)

InScope == DOMAIN rule \cup removed \subseteq {s1} \/ Competing

\* Only the clock, the requests and the faults are bounded: what a run, the worker
\* and the sweep must do, they may.
MCNext == Next /\ InScope'

MCSpec == Init /\ [][MCNext]_vars /\ Fairness
=============================================================================
