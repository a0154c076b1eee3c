------------------------------- MODULE Charts -------------------------------
(***************************************************************************)
(* What the dashboard and the reports draw from a member's operations.     *)
(* The database groups and sums, the service lays the sums on an axis of   *)
(* periods.  An answer reads the database more than once, and operations   *)
(* come and go in between: the dashboard takes balances, then the nets of  *)
(* the months; a distribution ranks its labels, then sums their periods.   *)
(*                                                                         *)
(* A month is its number; an amount is positive for a credit, negative for *)
(* a debit; a label is its rank by name, NULL for none.                    *)
(***************************************************************************)
EXTENDS Integers, FiniteSets

CONSTANTS
  Id,          \* operations there may be
  Operation,   \* what each may be: [account, month, label, amount]
  Account, CurrencyOf,  \* the member's accounts, and their currencies
  Report,      \* reports: [grouping, limit, linked], linked a set of accounts
  Window,      \* the ranges a chart may have: numbers of months, or ALL
  MAX_PERIODS, \* the most periods of an axis
  MaxWrites,   \* bounds the writes while an answer is made
  NULL, ALL, Other

VARIABLES
  table,    \* the operation of each id, or NULL
  deleted,  \* the accounts deleted since they were linked
  pc, asked,
  seen,     \* what the first read gave
  answer, writes

vars == <<table, deleted, pc, asked, seen, answer, writes>>

ChartsAssumption ==
  /\ IsFiniteSet(Id) /\ IsFiniteSet(Account)
  /\ NULL \notin Operation
  /\ \A o \in Operation : o.account \in Account /\ o.month \in Nat /\ o.amount \in Int
  /\ \A r \in Report : r.grouping \in {"month", "quarter", "year", ALL}
  /\ Window \subseteq (Nat \ {0}) \cup {ALL}
  /\ MAX_PERIODS \in Nat \ {0}

Currency == {CurrencyOf[a] : a \in Account}
Side == {"credit", "debit"}

Of(accounts) == {i \in Id : table[i] # NULL /\ table[i].account \in accounts}
In(ids, currency) == {i \in ids : CurrencyOf[table[i].account] = currency}

\* The sum of f over S.
Sum(f, S) ==
  LET sum[T \in SUBSET S] ==
        IF T = {} THEN 0 ELSE LET x == CHOOSE x \in T : TRUE IN f[x] + sum[T \ {x}]
  IN sum[S]

Net(ids) == Sum([i \in ids |-> table[i].amount], ids)

Max(S) == CHOOSE m \in S : \A n \in S : n <= m
Min(S) == CHOOSE m \in S : \A n \in S : m <= n

-----------------------------------------------------------------------------
(* Axes.                                                                   *)

Step(grouping) ==
  CASE grouping = "month" -> 1 [] grouping = "quarter" -> 3 [] grouping = "year" -> 12

periodStart(month, grouping) == month - (month % Step(grouping))

\* The most recent MAX_PERIODS of the periods from first to last.
fillPeriodGaps(first, last, grouping) ==
  LET step == Step(grouping)
      skipped == Max({0, ((last - first) \div step) + 1 - MAX_PERIODS})
  IN {month \in first + skipped * step .. last : (month - first) % step = 0}

-----------------------------------------------------------------------------
(* The synthesis chart of the accounts: the balance of each currency at    *)
(* the end of each month of the window.                                    *)

Months(ids) == {table[i].month : i \in ids}

ChartStart(ids, window) ==
  IF window = ALL THEN Min(Months(ids)) ELSE Max(Months(ids)) - (window - 1)

ChartMonths(ids, window) == fillPeriodGaps(ChartStart(ids, window), Max(Months(ids)), "month")

\* Mutant: what the axis leaves out of the window that was asked for is lost.
BeforeRequested(ids, window) ==
  {i \in ids : table[i].month < ChartStart(ids, window)}

\* What is before the axis starts is in every balance.
BeforeAxis(ids, window) ==
  {i \in ids : table[i].month < Min(ChartMonths(ids, window))}

computeSynthesisChart(accounts, window) ==
  LET ids == Of(accounts)
      axis == ChartMonths(ids, window)
      before == BeforeAxis(ids, window)
      upTo(month) == {i \in ids : table[i].month \in Min(axis) .. month}
  IN
  IF ids = {} THEN <<>>
  ELSE [currency \in {CurrencyOf[table[i].account] : i \in ids} |->
          [month \in axis |-> Net(In(before, currency)) + Net(In(upTo(month), currency))]]

balancesByAccount == [a \in Account |-> Net(Of({a}))]

-----------------------------------------------------------------------------
(* A report: its accounts, its series and its distribution by label.       *)

\* The linked accounts that are left, or every one when none was ever linked.
effectiveAccounts(report) ==
  (IF report.linked = {} THEN Account ELSE report.linked) \ deleted

SideOf(i) == IF table[i].amount > 0 THEN "credit" ELSE "debit"
PeriodOf(i, grouping) == IF grouping = ALL THEN ALL ELSE periodStart(table[i].month, grouping)

Axis(ids, grouping) ==
  LET periods == {PeriodOf(i, grouping) : i \in ids}
  IN IF grouping = ALL THEN {ALL} ELSE fillPeriodGaps(Min(periods), Max(periods), grouping)

Amount(ids, side, period, grouping) ==
  LET those == {i \in ids : SideOf(i) = side /\ PeriodOf(i, grouping) = period}
  IN IF side = "credit" THEN Net(those) ELSE -Net(those)

\* The axis is that of all the currencies.
computeSeries(report, accounts) ==
  LET ids == Of(accounts)
      currencies == {CurrencyOf[table[i].account] : i \in ids}
  IN [currency \in currencies |->
        [side \in Side |->
           [period \in Axis(ids, report.grouping) |->
              Amount(In(ids, currency), side, period, report.grouping)]]]

Labelled(ids, side) == {i \in ids : SideOf(i) = side /\ table[i].label # NULL}

\* The limit labels of most amount; a tie goes by name.
topLabels(ids, side, limit) ==
  LET named == {table[i].label : i \in Labelled(ids, side)}
      total(label) ==
        LET net == Net({i \in Labelled(ids, side) : table[i].label = label})
        IN IF side = "credit" THEN net ELSE -net
      ahead(k, l) == total(k) > total(l) \/ (total(k) = total(l) /\ k < l)
  IN {l \in named : Cardinality({k \in named : ahead(k, l)}) < limit}

\* Mutant: an amount without a name is left out.
KeepLabel(label, top) == IF label \in top \cup {NULL} THEN label ELSE Other

resolveLabel(label, top) == IF label # NULL /\ label \in top THEN label ELSE Other

\* The labels of top that still have an amount, then the others together.
assembleLabelSeries(ids, side, top, axis, grouping) ==
  LET labelled(label) == {i \in ids : SideOf(i) = side /\ resolveLabel(table[i].label, top) = label}
  IN [label \in {l \in top \cup {Other} : labelled(l) # {}} |->
        [period \in axis |-> Amount(labelled(label), side, period, grouping)]]

computeDistribution(report, accounts, tops) ==
  LET ids == Of(accounts) IN
  [currency \in {CurrencyOf[table[i].account] : i \in ids} |->
     LET own == In(ids, currency) IN
     [side \in Side |->
        assembleLabelSeries(own, side, tops[currency][side],
                            Axis(own, report.grouping), report.grouping)]]

-----------------------------------------------------------------------------
(* Answers.                                                                *)

Init ==
  /\ table \in [Id -> Operation \cup {NULL}] /\ deleted = {}
  /\ pc = "idle" /\ asked = NULL /\ seen = NULL /\ answer = NULL /\ writes = 0

\* getDashboard: the accounts and their balances, ...
ReadBalances(window) ==
  /\ pc = "idle" /\ pc' = "months" /\ asked' = window
  /\ seen' = [accounts |-> Account \ deleted, balances |-> balancesByAccount]
  /\ UNCHANGED <<table, deleted, answer, writes>>

\* ... then the charts: the synthesis, and each account's own.
ReadMonths ==
  /\ pc = "months" /\ pc' = "drawn"
  /\ answer' = [all |-> computeSynthesisChart(seen.accounts, asked),
                own |-> [a \in seen.accounts |-> computeSynthesisChart({a}, 12)]]
  /\ UNCHANGED <<table, deleted, asked, seen, writes>>

DrawSeries(report) ==
  /\ pc = "idle" /\ pc' = "series" /\ asked' = report
  /\ answer' = computeSeries(report, effectiveAccounts(report))
  /\ UNCHANGED <<table, deleted, seen, writes>>

Ranks(report, accounts) ==
  LET ids == Of(accounts) IN
  [currency \in {CurrencyOf[table[i].account] : i \in ids} |->
     [side \in Side |-> topLabels(In(ids, currency), side, report.limit)]]

\* computeDistribution: first the ranks, by the totals of the whole range,
\* which are the answer's own when it has no periods, ...
RankLabels(report) ==
  LET accounts == effectiveAccounts(report)
      tops == Ranks(report, accounts)
  IN
  /\ pc = "idle" /\ asked' = report
  /\ seen' = [accounts |-> accounts, tops |-> tops]
  /\ IF report.grouping = ALL
     THEN pc' = "distribution" /\ answer' = computeDistribution(report, accounts, tops)
     ELSE pc' = "periods" /\ UNCHANGED answer
  /\ UNCHANGED <<table, deleted, writes>>

\* ... then the periods.  A currency that has come since has no ranks, and the
\* answer is an error.
ReadPeriods ==
  LET currencies == {CurrencyOf[table[i].account] : i \in Of(seen.accounts)} IN
  /\ pc = "periods"
  /\ IF currencies \subseteq DOMAIN seen.tops
     THEN pc' = "distribution" /\ answer' = computeDistribution(asked, seen.accounts, seen.tops)
     ELSE pc' = "failed" /\ UNCHANGED answer
  /\ UNCHANGED <<table, deleted, asked, seen, writes>>

\* An operation is written or deleted, or an account is.
Write ==
  /\ pc \in {"idle", "months", "periods"}
  /\ writes < MaxWrites /\ writes' = writes + 1
  /\ \/ \E i \in Id, o \in Operation \cup {NULL} :
          /\ o # table[i] /\ (o # NULL => o.account \notin deleted)
          /\ table' = [table EXCEPT ![i] = o]
          /\ UNCHANGED deleted
     \/ \E a \in Account \ deleted : deleted' = deleted \cup {a} /\ UNCHANGED table
  /\ UNCHANGED <<pc, asked, seen, answer>>

Next ==
  \/ \E window \in Window : ReadBalances(window)
  \/ \E report \in Report : DrawSeries(report) \/ RankLabels(report)
  \/ ReadMonths \/ ReadPeriods \/ Write

Spec == Init /\ [][Next]_vars

-----------------------------------------------------------------------------
(* Properties.                                                             *)

\* Whatever its window, and wherever the ceiling of periods cuts it, a chart
\* ends at the balance of its currency: no operation drops out of a running
\* balance (synthesis-chart.ts:81).  It is the balance of the time the chart is
\* read, which may not be the one the tiles show.
EndsAtBalance ==
  pc' = "drawn" =>
    /\ \A currency \in DOMAIN answer'.all :
         LET points == answer'.all[currency] IN
         points[Max(DOMAIN points)] =
           Sum(balancesByAccount, {a \in seen.accounts : CurrencyOf[a] = currency})
    /\ \A a \in seen.accounts : \A currency \in DOMAIN answer'.own[a] :
         LET points == answer'.own[a][currency] IN
         points[Max(DOMAIN points)] = balancesByAccount[a]
ChartEndsAtBalance == [][EndsAtBalance]_vars

\* The labels of a distribution, with the others, add up to the series of the
\* same report, period by period, even if the amounts changed after the labels
\* were ranked (report-distribution.service.ts:202).
AddsUp ==
  pc' = "distribution" =>
    LET series == computeSeries(asked', seen'.accounts) IN
    \A currency \in DOMAIN series, side \in Side :
      LET labels == answer'[currency][side]
          amounts == series[currency][side]
      IN \A period \in DOMAIN amounts :
           amounts[period] = Sum([l \in DOMAIN labels |->
                                    IF period \in DOMAIN labels[l] THEN labels[l][period] ELSE 0],
                                 DOMAIN labels)
DistributionAddsUp == [][AddsUp]_vars
=============================================================================
