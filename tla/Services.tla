------------------------------ MODULE Services -------------------------------
(***************************************************************************)
(* Services that share no state with one another, over the members and     *)
(* the clients of Quota, the one extended: addresses and mail, rate        *)
(* limiting, uploads, dates of schedulers, matching of rows, charts.  One  *)
(* of them at most is at work in a behaviour, and the variables of the     *)
(* others stay as they were: their interleavings, on which nothing         *)
(* depends, are left out.                                                  *)
(***************************************************************************)
EXTENDS Quota, Integers

CONSTANTS
  Email, FirstEmail, ATTEMPTS, MaxRequests,                             \* Members
  Request, Key, Dimensions, Points, Duration, STRIKE_RESET, MAX_BLOCK,  \* RateLimit
  MaxUploads, MAX_PENDING_IMPORTS,                                      \* Uploads
  Rule, Day, Ceiling, Far,                                              \* Interval
  FileRow, Recordable, NewName, MaxRows, MaxRecorded, MaxImports,       \* RecordedMatch
  Id, Entry, Account, CurrencyOf, Report, Window, MAX_PERIODS, MaxWrites, ALL, Other,   \* Charts
  MaxFaults

VARIABLES
  part,   \* the one at work
  email, newEmail, version, queue, job, inbox, owed, change, requests, faults,  \* Members
  spent, strikes, block, request, stops, lockedBy, overtaken, quiet, orphaned,  \* RateLimit
  files, waiting, given, task, cut,                                               \* Uploads
  rule, cursor, today, made,                                                      \* Interval
  file, recorded, imports, entered, adopted,                                      \* RecordedMatch
  table, deleted, chart, asked, seen, answer, writes                              \* Charts

members == <<email, newEmail, version, queue, job, inbox, owed, change, requests, faults>>
guard == <<spent, strikes, block, request, stops, lockedBy, overtaken, quiet, orphaned>>
store == <<files, waiting, given, task, cut>>
dates == <<rule, cursor, today, made>>
match == <<file, recorded, imports, entered, adopted>>
drawn == <<table, deleted, chart, asked, seen, answer, writes>>

\* A client changes or confirms an address at a time.
Mail == INSTANCE Members WITH Change <- Client, pending <- newEmail

Guard == INSTANCE RateLimit WITH faults <- stops

Store == INSTANCE Uploads WITH pending <- waiting

Dates == INSTANCE Interval

Match == INSTANCE RecordedMatch WITH Row <- FileRow, Operation <- Recordable, rows <- file

Drawn == INSTANCE Charts WITH Operation <- Entry, pc <- chart

ASSUME MembersAssumption == Mail!MembersAssumption
ASSUME RateLimitAssumption == Guard!RateLimitAssumption
ASSUME UploadsAssumption == Store!UploadsAssumption
ASSUME IntervalAssumption == Dates!IntervalAssumption
ASSUME MatchAssumption == Match!MatchAssumption
ASSUME ChartsAssumption == Drawn!ChartsAssumption

-----------------------------------------------------------------------------
ServicesInit ==
  /\ Init
  /\ IF part = "members" THEN Mail!Init
     ELSE /\ email = NULL /\ newEmail = NULL /\ version = NULL /\ queue = NULL /\ job = NULL
          /\ inbox = NULL /\ owed = NULL /\ change = NULL /\ requests = NULL /\ faults = NULL
  /\ IF part = "rate_limit" THEN Guard!Init
     ELSE /\ spent = NULL /\ strikes = NULL /\ block = NULL /\ request = NULL /\ stops = NULL
          /\ lockedBy = NULL /\ overtaken = NULL /\ quiet = NULL /\ orphaned = NULL
  /\ IF part = "uploads" THEN Store!Init
     ELSE files = NULL /\ waiting = NULL /\ given = NULL /\ task = NULL /\ cut = NULL
  /\ IF part = "interval" THEN Dates!Init
     ELSE rule = NULL /\ cursor = NULL /\ today = NULL /\ made = NULL
  /\ IF part = "match" THEN Match!Init
     ELSE file = NULL /\ recorded = NULL /\ imports = NULL /\ entered = NULL /\ adopted = NULL
  /\ IF part = "charts" THEN Drawn!Init
     ELSE /\ table = NULL /\ deleted = NULL /\ chart = NULL /\ asked = NULL
          /\ seen = NULL /\ answer = NULL /\ writes = NULL

At(p) == part = p /\ UNCHANGED part

CreateAndRemove ==
  At("quota") /\ Next /\ UNCHANGED <<members, guard, store, dates, match, drawn>>
RegisterAndChange ==
  At("members") /\ Mail!Next /\ UNCHANGED <<vars, guard, store, dates, match, drawn>>
Throttle ==
  At("rate_limit") /\ Guard!Next /\ UNCHANGED <<vars, members, store, dates, match, drawn>>
Hold == At("uploads") /\ Store!Next /\ UNCHANGED <<vars, members, guard, dates, match, drawn>>
Occur == At("interval") /\ Dates!Next /\ UNCHANGED <<vars, members, guard, store, match, drawn>>
MatchAndImport ==
  At("match") /\ Match!Next /\ UNCHANGED <<vars, members, guard, store, dates, drawn>>
Draw == At("charts") /\ Drawn!Next /\ UNCHANGED <<vars, members, guard, store, dates, match>>

ServicesNext ==
  \/ CreateAndRemove \/ RegisterAndChange \/ Throttle \/ Hold \/ Occur \/ MatchAndImport
  \/ Draw

servicesVars == <<part, vars, members, guard, store, dates, match, drawn>>

\* The fairness of each is its own specification's.
ServicesFairness ==
  /\ \A c \in Client : WF_vars(part = "quota" /\ Step(c))
  /\ WF_members(part = "members" /\ Mail!Worker)

ServicesSpec == ServicesInit /\ [][ServicesNext]_servicesVars /\ ServicesFairness

-----------------------------------------------------------------------------
(* What the modules state, of the one at work.                             *)

\* Members: no two have one address (race-safe-unique-email.ts:32).
AddressesUnique == part = "members" => Mail!AddressesUnique

\* Members: an address becomes the one last asked for (profile.service.ts:158).
LatestChangeWins == [][part = "members" => Mail!TakesPending]_servicesVars

\* Members: every registration gets a mail of its own, or one of its jobs is known
\* to have failed (registration.service.ts:17).
RegistrationsAnswered ==
  \A n \in 1..MaxRequests : (part = "members" /\ n \in owed) ~> (part = "members" /\ n \notin owed)

\* RateLimit: a lockout is cut short only by a violation that is older than it
\* (rate-limit.guard.ts:39).
LockoutsCutByOvertaken == [][part = "rate_limit" => Guard!CutByOvertaken]_servicesVars

\* RateLimit: strikes are forgotten in the end (rate-limit.guard.ts:26).
StrikesAreForgotten == part = "rate_limit" => Guard!StrikesAreForgotten

\* Uploads: no more files wait than a member may have (import.store.ts:106).
UploadsLimited == part = "uploads" => Store!UploadsLimited

\* Interval: every date made falls on the day of the month that the Member
\* chose, or on the last of a month that has no such day (interval.ts:40).
NoDrift == part = "interval" => Dates!NoDrift

\* Interval: the date announced as the next is the first that a run makes
\* (interval.ts:145).
NextIsMade == [][part = "interval" => Dates!MakesNext]_servicesVars

\* Interval: the count of what is due is what the runs make, however many
\* runs the backlog takes (interval.ts:120).
BacklogIsCounted == [][part = "interval" => Dates!CountsBacklog]_servicesVars

\* RecordedMatch: rows skip as many operations as describe them, and none is
\* taken twice (recorded-match.ts:81).
EachTakenOnce == part = "match" => Match!EachTakenOnce

\* RecordedMatch: no row robs another of the operation that carries its bank
\* reference (recorded-match.ts:77).
ReferencesComeFirst == part = "match" => Match!ReferencesComeFirst

\* RecordedMatch: a row that became an operation is skipped the next time the
\* file is imported (import.matching.integration-spec.ts:63).
ImportedOnce == part = "match" => Match!ImportedOnce

\* Charts: a chart ends at the balance of its currency (synthesis-chart.ts:81).
ChartEndsAtBalance == [][part = "charts" => Drawn!EndsAtBalance]_servicesVars

\* Charts: the labels of a distribution, with the others, add up to the series
\* of the same report (report-distribution.service.ts:202).
DistributionAddsUp == [][part = "charts" => Drawn!AddsUp]_servicesVars
=============================================================================
