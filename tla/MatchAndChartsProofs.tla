------------------------ MODULE MatchAndChartsProofs ------------------------
(***************************************************************************)
(* Theorems about modules RecordedMatch and Charts, as the services that   *)
(* they are: for any files, any operations of the account, any imports of  *)
(* the file and any renaming of operations; and for any operations,        *)
(* accounts, reports and windows, and any ceiling of periods.              *)
(*                                                                         *)
(* Of RecordedMatch: a pass over the file gives rows operations that fit   *)
(* them by its rule, and leaves none of them to a row that it could have   *)
(* been given to; so do the four passes together.  What an import records  *)
(* it finds again.                                                         *)
(*                                                                         *)
(* Of Charts: sums of finite sets come first, for the order of what is     *)
(* added does not matter, and a sum is that of its parts.  Then the axes:  *)
(* that of some operations keeps their periods that the axis of more keeps.*)
(***************************************************************************)
EXTENDS ServiceProofs

\* Rows, or operations, whose dates can be compared.
Dated(s) ==
  /\ Len(s) \in Nat /\ DOMAIN s = 1 .. Len(s)
  /\ \A i \in DOMAIN s : s[i].date \in Int

Passes == {"reference", "details", "nearby", "transfer"}

\* What each pass matches by.
Fits(by, r, o) ==
  CASE by = "reference" -> Match!SameReference(r, o)
    [] by = "details" -> Match!SameDay(r, o)
    [] by = "nearby" -> Match!Nearby(r, o)
    [] by = "transfer" -> Match!OtherSide(r, o)

-----------------------------------------------------------------------------
(* One row.                                                                *)

LEMMA FirstIsLeast ==
  ASSUME NEW S \in SUBSET Nat
  PROVE  /\ S = {} => Match!First(S) = 0
         /\ S # {} => Match!First(S) \in S
<1>1. CASE S = {}
  BY <1>1 DEF Match!First
<1>2. CASE S # {}
  <2>1. \E n \in S : \A k \in S : n <= k
    BY <1>2, LeastNumber
  <2>2. QED
    BY <1>2, <2>1 DEF Match!First
<1>3. QED
  BY <1>1, <1>2

\* Of operations there are, some are closest.
LEMMA SomeAreClosest ==
  ASSUME NEW r, r.date \in Int, NEW ops, Dated(ops), NEW S \in SUBSET DOMAIN ops
  PROVE  LET closest == Match!Closest(r, ops, S) IN
         closest \in SUBSET S /\ (S # {} => closest # {})
<1> DEFINE gaps == {Match!Gap(r, ops[j]) : j \in S}
<1>1. \A j \in S : Match!Gap(r, ops[j]) \in Nat
  BY DEF Match!Gap, Dated
<1>2. gaps \in SUBSET Nat
  BY <1>1
<1>3. ASSUME S # {} PROVE Match!Closest(r, ops, S) # {}
  <2>1. gaps # {}
    BY <1>3
  <2>2. PICK g \in gaps : \A h \in gaps : g <= h
    <3> HIDE DEF gaps
    <3>1. QED
      BY <1>2, <2>1, LeastNumber
  <2>3. PICK j \in S : g = Match!Gap(r, ops[j])
    OBVIOUS
  <2>4. \A k \in S : Match!Gap(r, ops[j]) <= Match!Gap(r, ops[k])
    BY <2>2, <2>3
  <2>5. j \in Match!Closest(r, ops, S)
    BY <2>4 DEF Match!Closest
  <2>6. QED
    BY <2>5
<1>4. Match!Closest(r, ops, S) \in SUBSET S
  BY DEF Match!Closest
<1>5. QED
  BY <1>3, <1>4

\* A row is given a free operation that fits it, if there is one.
LEMMA RowTakes ==
  ASSUME NEW r, r.date \in Int, NEW ops, Dated(ops), NEW free \in SUBSET DOMAIN ops,
         NEW by \in Passes
  PROVE  LET j == Match!Take(by, r, ops, free) IN
         \/ j = 0 /\ \A k \in free : ~ Fits(by, r, ops[k])
         \/ j \in free /\ Fits(by, r, ops[j])
<1> DEFINE fit == {j \in free : Fits(by, r, ops[j])}
           j == Match!Take(by, r, ops, free)
<1>1. DOMAIN ops \in SUBSET Nat
  BY DEF Dated
<1>2. fit \in SUBSET Nat /\ fit \in SUBSET DOMAIN ops
  BY <1>1
<1> SUFFICES \/ fit = {} /\ j = 0
             \/ j \in fit
  OBVIOUS
<1>3. CASE by = "reference"
  <2>1. j = Match!First(fit)
    BY <1>3 DEF Match!Take, Match!TakeByReference, Fits
  <2> HIDE DEF fit, j
  <2>2. QED
    BY <1>2, <2>1, FirstIsLeast
<1>4. CASE by = "details"
  <2> DEFINE named == {k \in fit : Match!SameName(r, ops[k])}
  <2>1. j = Match!First(IF named # {} THEN named ELSE fit)
    BY <1>4 DEF Match!Take, Match!TakeByDetails, Fits
  <2>2. named \in SUBSET fit /\ named \in SUBSET Nat
    BY <1>2
  <2> HIDE DEF fit, j, named
  <2>3. QED
    BY <1>2, <2>1, <2>2, FirstIsLeast
<1>5. CASE by = "nearby"
  <2> DEFINE closest == Match!Closest(r, ops, fit)
  <2>1. j = Match!First(closest)
    BY <1>5 DEF Match!Take, Match!TakeNearby, Fits
  <2>2. closest \in SUBSET fit /\ (fit # {} => closest # {})
    BY <1>2, SomeAreClosest
  <2> HIDE DEF fit, j, closest
  <2>3. QED
    BY <1>2, <2>1, <2>2, FirstIsLeast
<1>6. CASE by = "transfer"
  <2> DEFINE closest == Match!Closest(r, ops, fit)
             groups == {Match!GroupOf(ops, k) : k \in closest}
             first == {k \in closest : Match!GroupOf(ops, k) = Match!First(groups)}
  <2>1. j = Match!First(first)
    BY <1>6 DEF Match!Take, Match!TakeOtherSide, Fits
  <2>2. closest \in SUBSET fit /\ (fit # {} => closest # {})
    BY <1>2, SomeAreClosest
  <2>3. ASSUME NEW k \in DOMAIN ops PROVE Match!GroupOf(ops, k) \in Nat
    <3> DEFINE same == {l \in DOMAIN ops : ops[l].date = ops[k].date /\ ops[l].amount = ops[k].amount}
    <3>1. same \in SUBSET Nat /\ same # {}
      BY <1>1
    <3>2. Match!GroupOf(ops, k) = Match!First(same)
      BY DEF Match!GroupOf
    <3> HIDE DEF same
    <3>3. QED
      BY <3>1, <3>2, FirstIsLeast
  <2> HIDE DEF fit, j, closest
  <2>4. groups \in SUBSET Nat
    BY <1>2, <2>2, <2>3
  <2>5. fit # {} => Match!First(groups) \in groups
    <3>1. fit # {} => groups # {}
      BY <2>2
    <3> HIDE DEF groups
    <3>2. QED
      BY <2>4, <3>1, FirstIsLeast
  <2>6. first \in SUBSET fit /\ (fit # {} => first # {})
    BY <2>2, <2>5
  <2> HIDE DEF first, groups
  <2>7. first \in SUBSET Nat
    BY <1>2, <2>6
  <2>8. QED
    BY <2>1, <2>6, <2>7, FirstIsLeast
<1>7. QED
  BY <1>3, <1>4, <1>5, <1>6 DEF Passes

-----------------------------------------------------------------------------
(* One pass.                                                               *)

Matchings(lines, ops) == [DOMAIN lines -> 0 .. Len(ops)]

\* What is matched once n rows have taken theirs in a pass.
TakenTo(by, lines, ops, before, n, matched) ==
  /\ matched \in Matchings(lines, ops)
  /\ \A i, k \in DOMAIN lines : matched[i] = matched[k] /\ matched[i] # 0 => i = k
  /\ \A i \in DOMAIN lines : before[i] # 0 => matched[i] = before[i]
  /\ \A i \in DOMAIN lines :
       before[i] = 0 /\ matched[i] # 0 => Fits(by, lines[i], ops[matched[i]])
  /\ \A i \in DOMAIN lines : i <= n /\ matched[i] = 0 =>
       \A j \in Match!Free(ops, matched) : ~ Fits(by, lines[i], ops[j])

LEMMA TakenOrNone ==
  ASSUME NEW lines, Dated(lines), NEW ops, Dated(ops), NEW by \in Passes,
         NEW matched \in Matchings(lines, ops), NEW i \in DOMAIN lines
  PROVE  LET j == Match!Take(by, lines[i], ops, Match!Free(ops, matched)) IN
         /\ j \in 0 .. Len(ops)
         /\ \/ j = 0 /\ \A k \in Match!Free(ops, matched) : ~ Fits(by, lines[i], ops[k])
            \/ j \in Match!Free(ops, matched) /\ Fits(by, lines[i], ops[j])
<1>1. Match!Free(ops, matched) \in SUBSET DOMAIN ops
  BY DEF Match!Free
<1>2. lines[i].date \in Int /\ DOMAIN ops = 1 .. Len(ops) /\ Len(ops) \in Nat
  BY DEF Dated
<1> DEFINE j == Match!Take(by, lines[i], ops, Match!Free(ops, matched))
<1>3. \/ j = 0 /\ \A k \in Match!Free(ops, matched) : ~ Fits(by, lines[i], ops[k])
      \/ j \in Match!Free(ops, matched) /\ Fits(by, lines[i], ops[j])
  BY <1>1, <1>2, RowTakes
<1> HIDE DEF j
<1>4. QED
  BY <1>1, <1>2, <1>3 DEF j

\* The next row takes its own.
LEMMA OneTakes ==
  ASSUME NEW lines, Dated(lines), NEW ops, Dated(ops), NEW by \in Passes,
         NEW before, NEW n \in Nat, NEW i \in DOMAIN lines, i = n + 1,
         NEW matched, TakenTo(by, lines, ops, before, n, matched)
  PROVE  TakenTo(by, lines, ops, before, i, Match!TakeOne(by, lines, ops, matched, i))
<1> DEFINE after == Match!TakeOne(by, lines, ops, matched, i)
           j == Match!Take(by, lines[i], ops, Match!Free(ops, matched))
<1>1. matched \in Matchings(lines, ops) /\ DOMAIN lines \in SUBSET Nat
      /\ Len(ops) \in Nat /\ DOMAIN ops = 1 .. Len(ops)
  BY DEF TakenTo, Dated
<1>2. CASE matched[i] # 0
  <2>1. after = matched
    BY <1>2 DEF Match!TakeOne
  <2> HIDE DEF after
  <2>2. \A k \in DOMAIN lines : k <= i => k <= n \/ k = i
    BY <1>1
  <2>3. QED
    BY <1>2, <2>1, <2>2 DEF TakenTo, after
<1>3. CASE matched[i] = 0
  <2>1. after = [matched EXCEPT ![i] = j]
    BY <1>3 DEF Match!TakeOne
  <2>2. /\ j \in 0 .. Len(ops)
        /\ \/ j = 0 /\ \A k \in Match!Free(ops, matched) : ~ Fits(by, lines[i], ops[k])
           \/ j \in Match!Free(ops, matched) /\ Fits(by, lines[i], ops[j])
    BY <1>1, TakenOrNone
  <2> HIDE DEF after, j
  <2>3. /\ after \in Matchings(lines, ops) /\ after[i] = j
        /\ \A k \in DOMAIN lines : k # i => after[k] = matched[k]
    BY <1>1, <2>1, <2>2 DEF Matchings
  <2>4. \A k \in Match!Free(ops, after) : k \in Match!Free(ops, matched)
    <3>1. DOMAIN after = DOMAIN lines /\ DOMAIN matched = DOMAIN lines
      BY <1>1, <2>3 DEF Matchings
    <3>2. 0 \notin DOMAIN ops
      BY <1>1
    <3>3. QED
      BY <1>3, <2>3, <3>1, <3>2 DEF Match!Free
  <2>5. j # 0 => \A k \in DOMAIN lines : matched[k] # j
    <3>1. DOMAIN matched = DOMAIN lines
      BY <1>1 DEF Matchings
    <3>2. QED
      BY <2>2, <3>1 DEF Match!Free
  <2>6. \A k, l \in DOMAIN lines : after[k] = after[l] /\ after[k] # 0 => k = l
    BY <2>3, <2>5 DEF TakenTo
  <2>7. \A k \in DOMAIN lines : before[k] # 0 => after[k] = before[k]
    BY <1>3, <2>3 DEF TakenTo
  <2>8. ASSUME NEW k \in DOMAIN lines, before[k] = 0, after[k] # 0
        PROVE  Fits(by, lines[k], ops[after[k]])
    <3>1. CASE k = i
      BY <2>2, <2>3, <2>8, <3>1
    <3>2. CASE k # i
      BY <2>3, <2>8, <3>2 DEF TakenTo
    <3>3. QED
      BY <3>1, <3>2
  <2>9. ASSUME NEW k \in DOMAIN lines, k <= i, after[k] = 0, NEW l \in Match!Free(ops, after)
        PROVE  ~ Fits(by, lines[k], ops[l])
    <3>1. l \in Match!Free(ops, matched)
      BY <2>4
    <3>2. CASE k = i
      <4>1. j = 0
        BY <2>3, <2>9, <3>2
      <4>2. j \notin Match!Free(ops, matched)
        BY <1>1, <4>1 DEF Match!Free
      <4>3. QED
        BY <2>2, <3>1, <3>2, <4>2
    <3>3. CASE k # i
      <4>1. k <= n /\ matched[k] = 0
        BY <1>1, <2>3, <2>9, <3>3
      <4>2. QED
        BY <3>1, <4>1 DEF TakenTo
    <3>4. QED
      BY <3>2, <3>3
  <2>10. QED
    BY <2>3, <2>6, <2>7, <2>8, <2>9 DEF TakenTo, after
<1>4. QED
  BY <1>2, <1>3

\* The function that a pass defines by recursion is there.
LEMMA PassDefined ==
  ASSUME NEW lines, Dated(lines), NEW ops, Dated(ops), NEW by \in Passes,
         NEW before \in Matchings(lines, ops)
  PROVE  LET matched == Match!Pass(by, lines, ops, before) IN
         /\ matched[0] = before
         /\ \A n \in 1 .. Len(lines) :
              matched[n] = Match!TakeOne(by, lines, ops, matched[n - 1], n)
<1> DEFINE S == Matchings(lines, ops)
           next == [n \in Nat |-> [m \in S |-> IF n \in 1 .. Len(lines)
                                               THEN Match!TakeOne(by, lines, ops, m, n) ELSE m]]
<1>1. Len(lines) \in Nat /\ DOMAIN lines = 1 .. Len(lines)
  BY DEF Dated
<1>2. ASSUME NEW m \in S, NEW n \in 1 .. Len(lines)
      PROVE  Match!TakeOne(by, lines, ops, m, n) \in S
  <2>1. Match!Take(by, lines[n], ops, Match!Free(ops, m)) \in 0 .. Len(ops)
    BY <1>1, TakenOrNone
  <2>2. QED
    BY <2>1 DEF Match!TakeOne, Matchings
<1>3. next \in [Nat -> [S -> S]]
  <2> HIDE DEF S
  <2>1. QED
    BY <1>2
<1>4. PICK f \in [Nat -> S] : f[0] = before /\ \A n \in Nat \ {0} : f[n] = next[n][f[n - 1]]
  <2> HIDE DEF next
  <2>1. Iterated(S, before, next)
    BY <1>3, FunctionByRecursion
  <2>2. QED
    BY <2>1 DEF Iterated
<1>5. ASSUME NEW n \in 1 .. Len(lines)
      PROVE  f[n] = Match!TakeOne(by, lines, ops, f[n - 1], n)
  <2>1. n \in Nat \ {0} /\ n - 1 \in Nat
    BY <1>1
  <2> HIDE DEF S
  <2>2. f[n - 1] \in S
    BY <1>4, <2>1
  <2>3. f[n] = next[n][f[n - 1]]
    BY <1>4, <2>1
  <2>4. QED
    BY <2>1, <2>2, <2>3
<1> DEFINE g == [n \in 0 .. Len(lines) |-> f[n]]
<1>6. g = [n \in 0 .. Len(lines) |->
             IF n = 0 THEN before ELSE Match!TakeOne(by, lines, ops, g[n - 1], n)]
  <2>1. ASSUME NEW n \in 0 .. Len(lines)
        PROVE  g[n] = IF n = 0 THEN before ELSE Match!TakeOne(by, lines, ops, g[n - 1], n)
    <3>1. CASE n = 0
      BY <1>4, <3>1
    <3>2. CASE n # 0
      <4>1. n \in 1 .. Len(lines) /\ n - 1 \in 0 .. Len(lines)
        BY <1>1, <3>2
      <4>2. QED
        BY <1>5, <3>2, <4>1
    <3>3. QED
      BY <3>1, <3>2
  <2>2. g = [n \in 0 .. Len(lines) |-> g[n]]
    OBVIOUS
  <2> HIDE DEF g
  <2>3. QED
    BY <2>1, <2>2
<1> HIDE DEF g
<1> DEFINE matched == Match!Pass(by, lines, ops, before)
<1>7. matched = [n \in 0 .. Len(lines) |->
                   IF n = 0 THEN before ELSE Match!TakeOne(by, lines, ops, matched[n - 1], n)]
  BY <1>6 DEF Match!Pass
<1> HIDE DEF matched
<1>8. matched[0] = before
  BY <1>1, <1>7
<1>9. ASSUME NEW n \in 1 .. Len(lines)
      PROVE  matched[n] = Match!TakeOne(by, lines, ops, matched[n - 1], n)
  <2>1. n \in 0 .. Len(lines) /\ n # 0
    BY <1>1
  <2>2. QED
    BY <1>7, <2>1
<1>10. QED
  BY <1>8, <1>9 DEF matched

\* A pass leaves no operation to a row that it fits.
LEMMA PassTakes ==
  ASSUME NEW lines, Dated(lines), NEW ops, Dated(ops), NEW by \in Passes,
         NEW before \in Matchings(lines, ops),
         \A i, k \in DOMAIN lines : before[i] = before[k] /\ before[i] # 0 => i = k
  PROVE  TakenTo(by, lines, ops, before, Len(lines),
                 Match!Pass(by, lines, ops, before)[Len(lines)])
<1> DEFINE matched == Match!Pass(by, lines, ops, before)
           T == {n \in Nat : n <= Len(lines) => TakenTo(by, lines, ops, before, n, matched[n])}
<1>1. Len(lines) \in Nat /\ DOMAIN lines = 1 .. Len(lines)
  BY DEF Dated
<1>2. /\ matched[0] = before
      /\ \A n \in 1 .. Len(lines) :
           matched[n] = Match!TakeOne(by, lines, ops, matched[n - 1], n)
  BY PassDefined
<1> HIDE DEF matched
<1>3. 0 \in T
  <2>1. TakenTo(by, lines, ops, before, 0, before)
    BY <1>1 DEF TakenTo
  <2>2. QED
    BY <1>2, <2>1
<1>4. ASSUME NEW n \in T PROVE n + 1 \in T
  <2> SUFFICES ASSUME n + 1 <= Len(lines)
               PROVE  TakenTo(by, lines, ops, before, n + 1, matched[n + 1])
    OBVIOUS
  <2>1. n \in Nat /\ n <= Len(lines) /\ n + 1 \in 1 .. Len(lines) /\ (n + 1) - 1 = n
    BY <1>1
  <2>2. TakenTo(by, lines, ops, before, n, matched[n])
    BY <2>1
  <2>3. PICK i \in DOMAIN lines : i = n + 1
    BY <1>1, <2>1
  <2>4. matched[i] = Match!TakeOne(by, lines, ops, matched[n], i)
    BY <1>1, <1>2, <2>1, <2>3
  <2>5. TakenTo(by, lines, ops, before, i, matched[i])
    BY <2>1, <2>2, <2>3, <2>4, OneTakes
  <2>6. QED
    BY <2>3, <2>5
<1>5. T = Nat
  <2> HIDE DEF T
  <2>1. T \in SUBSET Nat
    BY DEF T
  <2>2. QED
    BY <1>3, <1>4, <2>1, AllNaturals
<1>6. QED
  BY <1>1, <1>5 DEF matched

-----------------------------------------------------------------------------
(* The four passes.                                                        *)

\* What the passes leave: no row without an operation has one left to it that
\* fits it, and none was given two, or one that does not fit.
Settled(lines, ops) ==
  LET matched == Match!markRecorded(lines, ops)
      named == Match!ByReference(lines, ops)
      described == Match!Described(lines, ops)
  IN
  /\ matched \in Matchings(lines, ops)
  /\ \A i, k \in DOMAIN lines : matched[i] = matched[k] /\ matched[i] # 0 => i = k
  /\ \A i \in DOMAIN lines : matched[i] = 0 =>
       \A j \in Match!Free(ops, matched), by \in Passes : ~ Fits(by, lines[i], ops[j])
  /\ \A i \in DOMAIN lines : matched[i] # 0 =>
       \E by \in Passes : Fits(by, lines[i], ops[matched[i]])
  /\ \A i \in DOMAIN lines : matched[i] # 0 /\ described[i] = 0 =>
       Match!OtherSide(lines[i], ops[matched[i]])
  /\ named \in Matchings(lines, ops)
  /\ \A i \in DOMAIN lines : named[i] # 0 =>
       matched[i] = named[i] /\ Match!SameReference(lines[i], ops[named[i]])
  /\ \A i \in DOMAIN lines : named[i] = 0 =>
       \A j \in Match!Free(ops, named) : ~ Match!SameReference(lines[i], ops[j])

LEMMA FreeAfter ==
  ASSUME NEW lines, NEW ops, Dated(ops), NEW by, NEW before \in Matchings(lines, ops), NEW n, NEW matched,
         TakenTo(by, lines, ops, before, n, matched)
  PROVE  Match!Free(ops, matched) \in SUBSET Match!Free(ops, before)
<1>1. 0 \notin DOMAIN ops
  BY DEF Dated
<1>2. DOMAIN matched = DOMAIN lines /\ DOMAIN before = DOMAIN lines
  BY DEF TakenTo, Matchings
<1>3. QED
  BY <1>1, <1>2 DEF Match!Free, TakenTo

LEMMA RowsSettle ==
  ASSUME NEW lines, Dated(lines), NEW ops, Dated(ops)
  PROVE  Settled(lines, ops)
<1> DEFINE none == Match!None(lines)
           named == Match!ByReference(lines, ops)
           detailed == Match!Pass("details", lines, ops, named)[Len(lines)]
           described == Match!Described(lines, ops)
           matched == Match!markRecorded(lines, ops)
           Takes(by, before, m) == TakenTo(by, lines, ops, before, Len(lines), m)
<1>1. none \in Matchings(lines, ops) /\ \A i \in DOMAIN lines : none[i] = 0
  BY DEF Match!None, Matchings, Dated
<1>2. Takes("reference", none, named)
  BY <1>1, PassTakes DEF Match!ByReference, Passes
<1> HIDE DEF none, named
<1>3. Takes("details", named, detailed)
  BY <1>2, PassTakes DEF TakenTo, Passes
<1>4. described = Match!Pass("nearby", lines, ops, detailed)[Len(lines)]
  BY DEF Match!Described, named
<1> HIDE DEF detailed, described
<1>5. Takes("nearby", detailed, described)
  BY <1>3, <1>4, PassTakes DEF TakenTo, Passes
<1>6. matched = Match!Pass("transfer", lines, ops, described)[Len(lines)]
  BY DEF Match!markRecorded, described
<1> HIDE DEF matched
<1>7. Takes("transfer", described, matched)
  BY <1>5, <1>6, PassTakes DEF TakenTo, Passes
<1>8. \A i \in DOMAIN lines : i <= Len(lines)
  BY DEF Dated
<1>9. /\ Match!Free(ops, matched) \in SUBSET Match!Free(ops, described)
      /\ Match!Free(ops, described) \in SUBSET Match!Free(ops, detailed)
      /\ Match!Free(ops, detailed) \in SUBSET Match!Free(ops, named)
  <2>1. /\ named \in Matchings(lines, ops) /\ detailed \in Matchings(lines, ops)
        /\ described \in Matchings(lines, ops)
    BY <1>2, <1>3, <1>5 DEF TakenTo
  <2>2. Match!Free(ops, matched) \in SUBSET Match!Free(ops, described)
    BY <1>7, <2>1, FreeAfter
  <2>3. Match!Free(ops, described) \in SUBSET Match!Free(ops, detailed)
    BY <1>5, <2>1, FreeAfter
  <2>4. Match!Free(ops, detailed) \in SUBSET Match!Free(ops, named)
    BY <1>3, <2>1, FreeAfter
  <2>5. QED
    BY <2>2, <2>3, <2>4
<1>10. ASSUME NEW i \in DOMAIN lines, matched[i] = 0, NEW j \in Match!Free(ops, matched), NEW by \in Passes
       PROVE  ~ Fits(by, lines[i], ops[j])
  <2>1. described[i] = 0 /\ detailed[i] = 0 /\ named[i] = 0
    BY <1>3, <1>5, <1>7, <1>10 DEF TakenTo
  <2>2. CASE by = "reference"
    BY <1>2, <1>8, <1>9, <2>1, <2>2 DEF TakenTo
  <2>3. CASE by = "details"
    BY <1>3, <1>8, <1>9, <2>1, <2>3 DEF TakenTo
  <2>4. CASE by = "nearby"
    BY <1>5, <1>8, <1>9, <2>1, <2>4 DEF TakenTo
  <2>5. CASE by = "transfer"
    BY <1>7, <1>8, <1>10, <2>5 DEF TakenTo
  <2>6. QED
    BY <2>2, <2>3, <2>4, <2>5 DEF Passes
<1>11. ASSUME NEW i \in DOMAIN lines, matched[i] # 0
       PROVE  /\ \E by \in Passes : Fits(by, lines[i], ops[matched[i]])
              /\ described[i] = 0 => Fits("transfer", lines[i], ops[matched[i]])
  <2>1. CASE named[i] # 0
    <3>1. matched[i] = named[i] /\ described[i] = named[i]
      BY <1>3, <1>5, <1>7, <2>1 DEF TakenTo
    <3>2. Fits("reference", lines[i], ops[named[i]])
      BY <1>1, <1>2, <2>1 DEF TakenTo
    <3>3. QED
      BY <2>1, <3>1, <3>2 DEF Passes
  <2>2. CASE named[i] = 0 /\ detailed[i] # 0
    <3>1. matched[i] = detailed[i] /\ described[i] = detailed[i]
      BY <1>5, <1>7, <2>2 DEF TakenTo
    <3>2. Fits("details", lines[i], ops[detailed[i]])
      BY <1>3, <2>2 DEF TakenTo
    <3>3. QED
      BY <2>2, <3>1, <3>2 DEF Passes
  <2>3. CASE detailed[i] = 0 /\ described[i] # 0
    <3>1. matched[i] = described[i]
      BY <1>7, <2>3 DEF TakenTo
    <3>2. Fits("nearby", lines[i], ops[described[i]])
      BY <1>5, <2>3 DEF TakenTo
    <3>3. QED
      BY <2>3, <3>1, <3>2 DEF Passes
  <2>4. CASE described[i] = 0
    <3>1. Fits("transfer", lines[i], ops[matched[i]])
      BY <1>7, <1>11, <2>4 DEF TakenTo
    <3>2. QED
      BY <3>1 DEF Passes
  <2>5. QED
    BY <2>1, <2>2, <2>3, <2>4
<1>12. ASSUME NEW i \in DOMAIN lines
       PROVE  /\ named[i] # 0 => matched[i] = named[i] /\ Fits("reference", lines[i], ops[named[i]])
              /\ named[i] = 0 =>
                   \A j \in Match!Free(ops, named) : ~ Fits("reference", lines[i], ops[j])
  <2>1. named[i] # 0 => matched[i] = named[i]
    BY <1>3, <1>5, <1>7 DEF TakenTo
  <2>2. named[i] # 0 => Fits("reference", lines[i], ops[named[i]])
    BY <1>1, <1>2 DEF TakenTo
  <2>3. named[i] = 0 => \A j \in Match!Free(ops, named) : ~ Fits("reference", lines[i], ops[j])
    BY <1>2, <1>8 DEF TakenTo
  <2>4. QED
    BY <2>1, <2>2, <2>3
<1>13. /\ matched \in Matchings(lines, ops) /\ named \in Matchings(lines, ops)
       /\ \A i, k \in DOMAIN lines : matched[i] = matched[k] /\ matched[i] # 0 => i = k
  BY <1>2, <1>7 DEF TakenTo
<1>14. \A r, o : /\ Fits("transfer", r, o) <=> Match!OtherSide(r, o)
                 /\ Fits("reference", r, o) <=> Match!SameReference(r, o)
  BY DEF Fits
<1>15. QED
  BY <1>10, <1>11, <1>12, <1>13, <1>14 DEF Settled, matched, named, described

-----------------------------------------------------------------------------
(* What the matching promises.                                             *)

LEMMA SettledEachOnce ==
  ASSUME Dated(file), Dated(recorded)
  PROVE  Match!EachTakenOnce
<1> DEFINE matched == Match!markRecorded(file, recorded)
<1>1. Settled(file, recorded)
  BY RowsSettle
<1>2. \A i, k \in DOMAIN file : matched[i] = matched[k] /\ matched[i] # 0 => i = k
  BY <1>1 DEF Settled
<1>3. ASSUME NEW i \in DOMAIN file, matched[i] = 0, NEW j \in Match!Free(recorded, matched)
      PROVE  ~ \/ Match!SameReference(file[i], recorded[j])
               \/ Match!SameDay(file[i], recorded[j])
               \/ Match!Nearby(file[i], recorded[j])
               \/ Match!OtherSide(file[i], recorded[j])
  <2>1. \A by \in Passes : ~ Fits(by, file[i], recorded[j])
    BY <1>1, <1>3 DEF Settled
  <2>2. QED
    BY <2>1 DEF Fits, Passes
<1> HIDE DEF matched
<1>4. QED
  BY <1>2, <1>3 DEF Match!EachTakenOnce, matched

LEMMA SettledReferencesFirst ==
  ASSUME Dated(file), Dated(recorded)
  PROVE  Match!ReferencesComeFirst
<1> DEFINE matched == Match!markRecorded(file, recorded)
           named == Match!ByReference(file, recorded)
<1>1. Settled(file, recorded)
  BY RowsSettle
<1> SUFFICES ASSUME NEW i \in DOMAIN file, NEW k \in DOMAIN file, matched[k] # 0, matched[i] = 0,
                    Match!SameReference(file[i], recorded[matched[k]])
             PROVE  Match!SameReference(file[k], recorded[matched[k]])
  BY DEF Match!ReferencesComeFirst
<1>2. named[i] = 0 /\ matched[k] \in DOMAIN recorded /\ DOMAIN named = DOMAIN file
  BY <1>1 DEF Settled, Matchings, Dated
<1>3. matched[k] \notin Match!Free(recorded, named)
  BY <1>1, <1>2 DEF Settled
<1>4. PICK l \in DOMAIN file : named[l] = matched[k]
  BY <1>2, <1>3 DEF Match!Free
<1>5. l = k
  BY <1>1, <1>4 DEF Settled
<1>6. QED
  BY <1>1, <1>4, <1>5 DEF Settled

-----------------------------------------------------------------------------
(* What imports leave.                                                     *)

\* A row's own operation has all that the row has; the Member may have named
\* it anew.
Carries(o, r) ==
  /\ o.date = r.date /\ o.amount = r.amount /\ o.label = r.label /\ o.reference = r.reference
  /\ o.name \in {r.name, NewName}

\* The operation that took a row's identity has its reference.
Adopts(o, r) ==
  /\ o.amount = r.amount /\ o.reference = r.reference
  /\ Match!Gap(r, o) <= Match!TRANSFER_DATE_TOLERANCE_DAYS

Described(r) == r.label # NULL \/ r.reference # NULL

IsOperation(o) ==
  /\ o.date \in Int
  /\ o = [date |-> o.date, amount |-> o.amount, name |-> o.name, label |-> o.label,
          reference |-> o.reference, transfer |-> o.transfer, reconciled |-> o.reconciled]

MatchInv ==
  /\ Dated(file) /\ Dated(recorded)
  /\ \A j \in DOMAIN recorded : IsOperation(recorded[j])
  /\ entered \in SUBSET DOMAIN file /\ adopted \in SUBSET DOMAIN file
  /\ \A i \in entered : Described(file[i]) =>
       \E j \in DOMAIN recorded : Carries(recorded[j], file[i])
  /\ \A i \in adopted : file[i].reference # NULL =>
       \E j \in DOMAIN recorded : Adopts(recorded[j], file[i])

\* What an import did is found again.
LEMMA ImportsAreFound == MatchInv => Match!ImportedOnce
<1> DEFINE matched == Match!markRecorded(file, recorded)
           named == Match!ByReference(file, recorded)
<1> SUFFICES ASSUME MatchInv,
                    NEW i \in entered \cup {k \in adopted : file[k].reference # NULL},
                    Match!Alone(i), matched[i] = 0
             PROVE  FALSE
  BY DEF Match!ImportedOnce
<1>1. Settled(file, recorded) /\ i \in DOMAIN file /\ Described(file[i])
  BY RowsSettle DEF MatchInv, Match!Alone, Described
<1>2. \A k \in DOMAIN file \ {i} : ~ Match!Twins(file[i], file[k])
  BY DEF Match!Alone
<1>3. DOMAIN matched = DOMAIN file /\ DOMAIN named = DOMAIN file
  BY <1>1 DEF Settled, Matchings
<1>4. file[i].date \in Int
  BY <1>1 DEF MatchInv, Dated
<1> HIDE DEF matched, named
<1>5. CASE file[i].reference # NULL
  <2>1. PICK j \in DOMAIN recorded : Match!SameReference(file[i], recorded[j])
    <3>1. CASE i \in entered
      <4>1. PICK j \in DOMAIN recorded : Carries(recorded[j], file[i])
        BY <1>1, <3>1 DEF MatchInv
      <4>2. Match!Gap(file[i], recorded[j]) = 0
        BY <1>4, <4>1 DEF Carries, Match!Gap
      <4>3. Match!SameReference(file[i], recorded[j])
        BY <1>5, <4>1, <4>2
           DEF Carries, Match!SameReference, Match!REFERENCE_DATE_TOLERANCE_DAYS
      <4>4. QED
        BY <4>3
    <3>2. CASE i \in adopted
      <4>1. PICK j \in DOMAIN recorded : Adopts(recorded[j], file[i])
        BY <1>5, <3>2 DEF MatchInv
      <4>2. recorded[j].date \in Int
        BY DEF MatchInv, Dated
      <4>3. Match!Gap(file[i], recorded[j]) \in Int
        BY <1>4, <4>2 DEF Match!Gap
      <4>4. Match!SameReference(file[i], recorded[j])
        BY <1>5, <4>1, <4>3
           DEF Adopts, Match!SameReference, Match!REFERENCE_DATE_TOLERANCE_DAYS,
               Match!TRANSFER_DATE_TOLERANCE_DAYS
      <4>5. QED
        BY <4>4
    <3>3. QED
      BY <3>1, <3>2
  <2>2. named[i] = 0
    BY <1>1 DEF Settled, matched, named
  <2>3. j \notin Match!Free(recorded, named)
    BY <1>1, <2>1, <2>2 DEF Settled, named
  <2>4. PICK k \in DOMAIN file : named[k] = j
    BY <1>3, <2>3 DEF Match!Free
  <2>5. named[k] # 0 /\ k # i
    BY <2>2, <2>4 DEF MatchInv, Dated
  <2>6. Match!SameReference(file[k], recorded[j])
    BY <1>1, <2>4, <2>5 DEF Settled, named
  <2>7. Match!Twins(file[i], file[k])
    BY <2>1, <2>6 DEF Match!SameReference, Match!Twins
  <2>8. QED
    BY <1>2, <2>5, <2>7
<1>6. CASE file[i].reference = NULL
  <2>1. i \in entered /\ file[i].label # NULL
    BY <1>1, <1>6 DEF Described
  <2>2. PICK j \in DOMAIN recorded : Carries(recorded[j], file[i])
    BY <1>1, <2>1 DEF MatchInv
  <2>3. Fits("details", file[i], recorded[j])
    BY <2>1, <2>2 DEF Fits, Match!SameDay, Match!SameDetails, Match!SameLabel, Carries
  <2>4. j \notin Match!Free(recorded, matched)
    BY <1>1, <2>3 DEF Settled, matched, Passes
  <2>5. PICK k \in DOMAIN file : matched[k] = j
    BY <1>3, <2>4 DEF Match!Free
  <2>6. matched[k] # 0 /\ k # i
    BY <2>5 DEF MatchInv, Dated
  <2>7. PICK by \in Passes : Fits(by, file[k], recorded[j])
    BY <1>1, <2>5, <2>6 DEF Settled, matched
  <2>8. Match!SameName(file[k], recorded[j]) \/ Match!SameLabel(file[k], recorded[j])
    BY <1>6, <2>1, <2>2, <2>7
       DEF Passes, Fits, Carries, Match!SameReference, Match!SameDay, Match!Nearby,
           Match!SameDetails, Match!OtherSide
  <2>9. Match!Twins(file[i], file[k])
    BY <2>2, <2>8 DEF Carries, Match!SameName, Match!SameLabel, Match!Twins
  <2>10. QED
    BY <1>2, <2>6, <2>9
<1>7. QED
  BY <1>5, <1>6

-----------------------------------------------------------------------------
(* What an import inserts.                                                 *)

\* The function that inserts the rows one after another is there.
LEMMA InsertedDefined ==
  ASSUME Dated(file), NEW X, NEW ops \in Seq(X), NEW toImport, NEW flag,
         \A i \in DOMAIN file : Match!RecordedAs(file[i], flag) \in X
  PROVE  LET after == Match!Inserted(ops, toImport, flag) IN
         /\ after[0] = ops
         /\ \A n \in 1 .. Len(file) :
              after[n] = IF n \in toImport
                         THEN Append(after[n - 1], Match!RecordedAs(file[n], flag))
                         ELSE after[n - 1]
<1> DEFINE S == Seq(X)
           With(s, n) == IF n \in toImport THEN Append(s, Match!RecordedAs(file[n], flag)) ELSE s
           next == [n \in Nat |-> [s \in S |-> IF n \in 1 .. Len(file) THEN With(s, n) ELSE s]]
<1>1. Len(file) \in Nat /\ DOMAIN file = 1 .. Len(file)
  BY DEF Dated
<1>2. ASSUME NEW s \in S, NEW n \in 1 .. Len(file) PROVE With(s, n) \in S
  <2>1. Match!RecordedAs(file[n], flag) \in X
    BY <1>1
  <2>2. QED
    BY <2>1
<1>3. next \in [Nat -> [S -> S]]
  <2> HIDE DEF S, With
  <2>1. QED
    BY <1>2
<1>4. PICK f \in [Nat -> S] : f[0] = ops /\ \A n \in Nat \ {0} : f[n] = next[n][f[n - 1]]
  <2> HIDE DEF next
  <2>1. Iterated(S, ops, next)
    BY <1>3, FunctionByRecursion
  <2>2. QED
    BY <2>1 DEF Iterated
<1>5. ASSUME NEW n \in 1 .. Len(file) PROVE f[n] = With(f[n - 1], n)
  <2>1. n \in Nat \ {0} /\ n - 1 \in Nat
    BY <1>1
  <2> HIDE DEF S, With
  <2>2. f[n - 1] \in S
    BY <1>4, <2>1
  <2>3. f[n] = next[n][f[n - 1]]
    BY <1>4, <2>1
  <2>4. QED
    BY <2>1, <2>2, <2>3
<1> HIDE DEF With
<1> DEFINE g == [n \in 0 .. Len(file) |-> f[n]]
<1>6. g = [n \in 0 .. Len(file) |-> IF n = 0 THEN ops ELSE With(g[n - 1], n)]
  <2>1. ASSUME NEW n \in 0 .. Len(file)
        PROVE  g[n] = IF n = 0 THEN ops ELSE With(g[n - 1], n)
    <3>1. CASE n = 0
      BY <1>4, <3>1
    <3>2. CASE n # 0
      <4>1. n \in 1 .. Len(file) /\ n - 1 \in 0 .. Len(file)
        BY <1>1, <3>2
      <4>2. QED
        BY <1>5, <3>2, <4>1
    <3>3. QED
      BY <3>1, <3>2
  <2>2. g = [n \in 0 .. Len(file) |-> g[n]]
    OBVIOUS
  <2> HIDE DEF g
  <2>3. QED
    BY <2>1, <2>2
<1> HIDE DEF g
<1> DEFINE after == Match!Inserted(ops, toImport, flag)
<1>7. after = [n \in 0 .. Len(file) |-> IF n = 0 THEN ops ELSE With(after[n - 1], n)]
  BY <1>6 DEF Match!Inserted, With
<1> HIDE DEF after
<1>8. after[0] = ops
  BY <1>1, <1>7
<1>9. ASSUME NEW n \in 1 .. Len(file) PROVE after[n] = With(after[n - 1], n)
  <2>1. n \in 0 .. Len(file) /\ n # 0
    BY <1>1
  <2>2. QED
    BY <1>7, <2>1
<1>10. QED
  BY <1>8, <1>9 DEF after, With

\* Operations keep their places, and the rows of the import have theirs.
HasBoth(after, X, ops, toImport, flag) ==
  /\ after \in Seq(X) /\ Len(ops) <= Len(after)
  /\ \A j \in 1 .. Len(ops) : after[j] = ops[j]
  /\ \A i \in toImport : \E j \in 1 .. Len(after) : after[j] = Match!RecordedAs(file[i], flag)

LEMMA RowsAreInserted ==
  ASSUME Dated(file), NEW X, NEW ops \in Seq(X), NEW toImport \in SUBSET DOMAIN file, NEW flag,
         \A i \in DOMAIN file : Match!RecordedAs(file[i], flag) \in X
  PROVE  HasBoth(Match!Inserted(ops, toImport, flag)[Len(file)], X, ops, toImport, flag)
<1> DEFINE after == Match!Inserted(ops, toImport, flag)
           Row(i) == Match!RecordedAs(file[i], flag)
           Holds(s, n) ==
             /\ s \in Seq(X) /\ Len(ops) <= Len(s)
             /\ \A j \in 1 .. Len(ops) : s[j] = ops[j]
             /\ \A i \in toImport : i <= n => \E j \in 1 .. Len(s) : s[j] = Row(i)
           T == {n \in Nat : n <= Len(file) => Holds(after[n], n)}
<1>1. Len(file) \in Nat /\ DOMAIN file = 1 .. Len(file) /\ Len(ops) \in Nat
  BY DEF Dated
<1>2. /\ after[0] = ops
      /\ \A n \in 1 .. Len(file) :
           after[n] = IF n \in toImport THEN Append(after[n - 1], Row(n)) ELSE after[n - 1]
  BY InsertedDefined
<1>3. \A n \in 1 .. Len(file) : Row(n) \in X
  BY <1>1
<1> HIDE DEF after, Row
<1>4. 0 \in T
  BY <1>1, <1>2
<1>5. ASSUME NEW n \in T PROVE n + 1 \in T
  <2> SUFFICES ASSUME n + 1 <= Len(file) PROVE Holds(after[n + 1], n + 1)
    OBVIOUS
  <2>1. Holds(after[n], n) /\ n + 1 \in 1 .. Len(file) /\ (n + 1) - 1 = n
    BY <1>1
  <2>2. CASE n + 1 \in toImport
    <3> DEFINE s == after[n]
               t == Append(s, Row(n + 1))
    <3>1. after[n + 1] = t /\ Row(n + 1) \in X
      BY <1>2, <1>3, <2>1, <2>2
    <3>2. s \in Seq(X) /\ Len(s) \in Nat
      BY <2>1
    <3> HIDE DEF s
    <3>3. /\ t \in Seq(X) /\ Len(t) = Len(s) + 1
          /\ \A j \in 1 .. Len(s) : t[j] = s[j]
          /\ t[Len(s) + 1] = Row(n + 1)
      BY <3>1, <3>2
    <3> HIDE DEF t
    <3>4. Len(ops) <= Len(t) /\ \A j \in 1 .. Len(ops) : t[j] = ops[j]
      BY <1>1, <2>1, <3>2, <3>3 DEF s
    <3>5. ASSUME NEW i \in toImport, i <= n + 1
          PROVE  \E j \in 1 .. Len(t) : t[j] = Row(i)
      <4>1. CASE i = n + 1
        <5>1. Len(s) + 1 \in 1 .. Len(t)
          BY <3>2, <3>3
        <5>2. QED
          BY <3>3, <4>1, <5>1
      <4>2. CASE i # n + 1
        <5>1. i <= n
          BY <1>1, <3>5, <4>2
        <5>2. PICK j \in 1 .. Len(s) : s[j] = Row(i)
          BY <2>1, <5>1 DEF s
        <5>3. j \in 1 .. Len(t) /\ t[j] = Row(i)
          BY <3>2, <3>3, <5>2
        <5>4. QED
          BY <5>3
      <4>3. QED
        BY <4>1, <4>2
    <3>6. QED
      BY <3>1, <3>3, <3>4, <3>5
  <2>3. CASE n + 1 \notin toImport
    <3>1. after[n + 1] = after[n]
      BY <1>2, <2>1, <2>3
    <3>2. \A i \in toImport : i <= n + 1 => i <= n
      BY <1>1, <2>3
    <3>3. QED
      BY <2>1, <3>1, <3>2
  <2>4. QED
    BY <2>2, <2>3
<1> HIDE DEF T
<1>6. T = Nat
  <2>1. T \in SUBSET Nat
    BY DEF T
  <2>2. QED
    BY <1>4, <1>5, <2>1, AllNaturals
<1>7. Holds(after[Len(file)], Len(file))
  BY <1>1, <1>6 DEF T
<1>8. \A i \in toImport : i <= Len(file)
  BY <1>1
<1>9. QED
  BY <1>7, <1>8 DEF HasBoth, after, Row

\* Reconciling keeps an operation, and what identifies it.
LEMMA ReconciledIs ==
  ASSUME NEW o, IsOperation(o), NEW r, NEW i, NEW otherSides
  PROVE  LET k == Match!Reconciled(o, r, i \in otherSides) IN
         /\ IsOperation(k)
         /\ k.date = o.date /\ k.amount = o.amount /\ k.name = o.name
         /\ i \in otherSides => k.label = r.label /\ k.reference = r.reference
         /\ i \notin otherSides => k.label = o.label /\ k.reference = o.reference
<1> DEFINE k == Match!Reconciled(o, r, i \in otherSides)
<1>1. k = [date |-> o.date, amount |-> o.amount, name |-> o.name,
           label |-> IF i \in otherSides THEN r.label ELSE o.label,
           reference |-> IF i \in otherSides THEN r.reference ELSE o.reference,
           transfer |-> o.transfer, reconciled |-> TRUE]
  BY DEF IsOperation, Match!Reconciled
<1> HIDE DEF k
<1>2. /\ k.date = o.date /\ k.amount = o.amount /\ k.name = o.name
      /\ k.label = IF i \in otherSides THEN r.label ELSE o.label
      /\ k.reference = IF i \in otherSides THEN r.reference ELSE o.reference
      /\ k.transfer = o.transfer /\ k.reconciled = TRUE
  BY <1>1
<1>3. IsOperation(k)
  BY <1>1, <1>2 DEF IsOperation
<1>4. QED
  BY <1>2, <1>3 DEF k

-----------------------------------------------------------------------------
(* What imports and renamings keep.                                        *)

LEMMA MatchInitial == Match!Init => MatchInv
<1> SUFFICES ASSUME Match!Init PROVE MatchInv
  OBVIOUS
<1>1. PICK n \in 1 .. MaxRows : file \in [1 .. n -> FileRow]
  BY DEF Match!Init
<1>2. PICK m \in 0 .. MaxRecorded : recorded \in [1 .. m -> Recordable]
  BY DEF Match!Init
<1>3. n \in Nat /\ m \in Nat
  BY MatchAssumption DEF Match!MatchAssumption
<1>4. Len(file) = n /\ Len(recorded) = m
  <2>1. file \in Seq(FileRow) /\ recorded \in Seq(Recordable)
    BY <1>1, <1>2, <1>3
  <2>2. QED
    BY <1>1, <1>2, <1>3, <2>1
<1>5. Dated(file) /\ Dated(recorded)
  BY <1>1, <1>2, <1>3, <1>4, MatchAssumption DEF Dated, Match!MatchAssumption
<1>6. \A j \in DOMAIN recorded : IsOperation(recorded[j])
  BY <1>2, MatchAssumption DEF IsOperation, Match!MatchAssumption
<1>7. entered = {} /\ adopted = {}
  BY DEF Match!Init
<1>8. QED
  BY <1>5, <1>6, <1>7 DEF MatchInv

\* An operation that has its label and its reference still carries its row.
LEMMA StillCarries ==
  ASSUME NEW o, NEW k, NEW r, k.date = o.date, k.amount = o.amount, k.name \in {o.name, NewName},
         k.label = o.label, k.reference = o.reference
  PROVE  /\ Carries(o, r) => Carries(k, r)
         /\ Adopts(o, r) => Adopts(k, r)
BY DEF Carries, Adopts, Match!Gap

LEMMA RecordedCarries ==
  ASSUME NEW r, r.date \in Int, NEW flag
  PROVE  IsOperation(Match!RecordedAs(r, flag)) /\ Carries(Match!RecordedAs(r, flag), r)
BY DEF IsOperation, Match!RecordedAs, Carries

LEMMA ImportKeeps ==
  ASSUME MatchInv, NEW included \in SUBSET DOMAIN file, NEW picked \in SUBSET DOMAIN file,
         NEW flag \in BOOLEAN, Match!Import(included, picked, flag)
  PROVE  MatchInv'
<1> DEFINE matched == Match!markRecorded(file, recorded)
           skipped == {i \in DOMAIN file : matched[i] # 0}
           otherSides == {i \in skipped : Match!Described(file, recorded)[i] = 0}
           reconciles == {i \in picked \ included : ~ recorded[matched[i]].reconciled}
           Of(j) == CHOOSE i \in reconciles : matched[i] = j
           kept == [j \in DOMAIN recorded |->
                      IF \E i \in reconciles : matched[i] = j
                      THEN Match!Reconciled(recorded[j], file[Of(j)], Of(j) \in otherSides)
                      ELSE recorded[j]]
           toImport == {i \in DOMAIN file : i \notin skipped \/ i \in included}
           after == Match!Inserted(kept, toImport, flag)[Len(file)]
<1>1. /\ file' = file /\ recorded' = after /\ entered' = entered \cup toImport
      /\ adopted' = adopted \cup (reconciles \cap otherSides)
      /\ picked \subseteq skipped
  BY DEF Match!Import
<1>2. /\ Settled(file, recorded) /\ Len(file) \in Nat /\ DOMAIN file = 1 .. Len(file)
      /\ Len(recorded) \in Nat /\ DOMAIN recorded = 1 .. Len(recorded)
  BY RowsSettle DEF MatchInv, Dated
<1>3. \A i \in otherSides : Match!OtherSide(file[i], recorded[matched[i]])
  BY <1>2 DEF Settled
<1>4. \A i, k \in skipped : matched[i] = matched[k] => i = k
  BY <1>2 DEF Settled
<1>5. \A i \in skipped : matched[i] \in DOMAIN recorded
  BY <1>2 DEF Settled, Matchings
<1>6. reconciles \in SUBSET skipped /\ otherSides \in SUBSET skipped
  BY <1>1
<1>7. toImport \in SUBSET DOMAIN file
  OBVIOUS
<1> HIDE DEF matched, skipped, otherSides, reconciles, toImport
<1>8. ASSUME NEW j \in DOMAIN recorded
      PROVE  /\ IsOperation(kept[j])
             /\ kept[j].date = recorded[j].date /\ kept[j].amount = recorded[j].amount
             /\ kept[j].name = recorded[j].name
             /\ Described(recorded[j]) =>
                  kept[j].label = recorded[j].label /\ kept[j].reference = recorded[j].reference
  <2>1. IsOperation(recorded[j])
    BY DEF MatchInv
  <2>2. CASE \E i \in reconciles : matched[i] = j
    <3> DEFINE i == Of(j)
    <3>1. i \in reconciles /\ matched[i] = j
      BY <2>2
    <3>2. kept[j] = Match!Reconciled(recorded[j], file[i], i \in otherSides)
      BY <2>2
    <3> HIDE DEF i, kept
    <3>3. Described(recorded[j]) => i \notin otherSides
      BY <1>3, <3>1 DEF Match!OtherSide, Described
    <3>4. QED
      BY <2>1, <3>2, <3>3, ReconciledIs
  <2>3. CASE ~ \E i \in reconciles : matched[i] = j
    BY <2>1, <2>3
  <2>4. QED
    BY <2>2, <2>3
<1>9. ASSUME NEW i, i \in reconciles, i \in otherSides
      PROVE  matched[i] \in DOMAIN recorded /\ Adopts(kept[matched[i]], file[i])
  <2> DEFINE j == matched[i]
  <2>1. j \in DOMAIN recorded
    BY <1>5, <1>6, <1>9
  <2>2. Of(j) = i
    BY <1>4, <1>6, <1>9
  <2>3. kept[j] = Match!Reconciled(recorded[j], file[i], i \in otherSides)
    BY <1>9, <2>1, <2>2
  <2>4. IsOperation(recorded[j]) /\ Match!OtherSide(file[i], recorded[j])
    BY <1>3, <1>9, <2>1 DEF MatchInv
  <2> HIDE DEF j, kept
  <2>5. /\ kept[j].date = recorded[j].date /\ kept[j].amount = recorded[j].amount
        /\ i \in otherSides => kept[j].reference = file[i].reference
    BY <2>3, <2>4, ReconciledIs
  <2>6. QED
    BY <1>9, <2>1, <2>4, <2>5 DEF Adopts, Match!OtherSide, Match!Gap, j
<1> DEFINE X == {kept[j] : j \in DOMAIN recorded}
                  \cup {Match!RecordedAs(file[i], flag) : i \in DOMAIN file}
<1>10. kept \in Seq(X) /\ Len(kept) = Len(recorded)
  <2>1. kept \in [1 .. Len(recorded) -> X]
    <3>1. \A j \in DOMAIN recorded : kept[j] \in X
      OBVIOUS
    <3>2. DOMAIN kept = 1 .. Len(recorded) /\ kept = [j \in DOMAIN recorded |-> kept[j]]
      BY <1>2
    <3> HIDE DEF kept, X
    <3>3. QED
      BY <1>2, <3>1, <3>2
  <2> HIDE DEF kept, X
  <2>2. QED
    BY <1>2, <2>1
<1>11. \A i \in DOMAIN file : file[i].date \in Int /\ Match!RecordedAs(file[i], flag) \in X
  BY DEF MatchInv, Dated
<1>12. \A x \in X : IsOperation(x)
  <2>1. \A i \in DOMAIN file : IsOperation(Match!RecordedAs(file[i], flag))
    BY <1>11, RecordedCarries
  <2> HIDE DEF kept
  <2>2. QED
    BY <1>8, <2>1
<1> HIDE DEF X, kept
<1>13. HasBoth(after, X, kept, toImport, flag)
  <2>1. Dated(file) /\ \A i \in DOMAIN file : Match!RecordedAs(file[i], flag) \in X
    BY <1>11 DEF MatchInv
  <2>2. kept \in Seq(X) /\ toImport \in SUBSET DOMAIN file
    BY <1>7, <1>10
  <2>3. QED
    BY <2>1, <2>2, RowsAreInserted DEF after
<1> HIDE DEF after
<1>14. /\ Len(after) \in Nat /\ DOMAIN after = 1 .. Len(after)
       /\ \A j \in DOMAIN after : after[j] \in X
  BY <1>13 DEF HasBoth
<1>15. \A j \in DOMAIN recorded : j \in DOMAIN after /\ after[j] = kept[j]
  BY <1>2, <1>10, <1>13, <1>14 DEF HasBoth
<1>16. \A j \in DOMAIN after : IsOperation(after[j])
  BY <1>12, <1>14
<1>17. Dated(file)' /\ Dated(recorded)'
  BY <1>1, <1>14, <1>16 DEF Dated, MatchInv, IsOperation
<1>18. ASSUME NEW i \in entered \cup toImport, Described(file[i])
       PROVE  \E j \in DOMAIN after : Carries(after[j], file[i])
  <2>1. CASE i \in toImport
    <3>1. PICK j \in 1 .. Len(after) : after[j] = Match!RecordedAs(file[i], flag)
      BY <1>13, <2>1 DEF HasBoth
    <3>2. QED
      BY <1>7, <1>11, <1>14, <2>1, <3>1, RecordedCarries
  <2>2. CASE i \in entered
    <3>1. PICK j \in DOMAIN recorded : Carries(recorded[j], file[i])
      BY <1>18, <2>2 DEF MatchInv
    <3>2. Described(recorded[j])
      BY <1>18, <3>1 DEF Described, Carries
    <3>3. Carries(kept[j], file[i])
      BY <1>8, <3>1, <3>2, StillCarries
    <3>4. QED
      BY <1>15, <3>3
  <2>3. QED
    BY <2>1, <2>2
<1>19. ASSUME NEW i \in adopted \cup (reconciles \cap otherSides), file[i].reference # NULL
       PROVE  \E j \in DOMAIN after : Adopts(after[j], file[i])
  <2>1. CASE i \in reconciles \cap otherSides
    BY <1>9, <1>15, <2>1
  <2>2. CASE i \in adopted
    <3>1. PICK j \in DOMAIN recorded : Adopts(recorded[j], file[i])
      BY <1>19, <2>2 DEF MatchInv
    <3>2. Described(recorded[j])
      BY <1>19, <3>1 DEF Described, Adopts
    <3>3. Adopts(kept[j], file[i])
      BY <1>8, <3>1, <3>2, StillCarries
    <3>4. QED
      BY <1>15, <3>3
  <2>3. QED
    BY <2>1, <2>2
<1>20. /\ entered \cup toImport \in SUBSET DOMAIN file
       /\ adopted \cup (reconciles \cap otherSides) \in SUBSET DOMAIN file
  BY <1>6, <1>7 DEF MatchInv, skipped
<1>21. QED
  BY <1>1, <1>16, <1>17, <1>18, <1>19, <1>20 DEF MatchInv

LEMMA RenameKeeps ==
  ASSUME MatchInv, NEW j \in DOMAIN recorded, Match!Rename(j)
  PROVE  MatchInv'
<1> DEFINE renamed == [recorded EXCEPT ![j].name = NewName]
<1>1. recorded' = renamed /\ file' = file /\ entered' = entered /\ adopted' = adopted
  BY DEF Match!Rename
<1>2. ASSUME NEW k \in DOMAIN recorded
      PROVE  /\ IsOperation(renamed[k])
             /\ renamed[k].date = recorded[k].date /\ renamed[k].amount = recorded[k].amount
             /\ renamed[k].name \in {recorded[k].name, NewName}
             /\ renamed[k].label = recorded[k].label
             /\ renamed[k].reference = recorded[k].reference
  <2>1. IsOperation(recorded[k])
    BY DEF MatchInv
  <2>2. CASE k = j
    <3>1. renamed[k] = [recorded[k] EXCEPT !.name = NewName]
      BY <2>2
    <3> DEFINE o == recorded[k]
               n == renamed[k]
    <3> HIDE DEF o, renamed
    <3>2. n = [date |-> o.date, amount |-> o.amount, name |-> NewName, label |-> o.label,
               reference |-> o.reference, transfer |-> o.transfer, reconciled |-> o.reconciled]
      BY <2>1, <3>1 DEF IsOperation, o
    <3> HIDE DEF n
    <3>3. /\ n.date = o.date /\ n.amount = o.amount /\ n.name = NewName /\ n.label = o.label
          /\ n.reference = o.reference /\ n.transfer = o.transfer /\ n.reconciled = o.reconciled
      BY <3>2
    <3>4. IsOperation(n)
      BY <2>1, <3>2, <3>3 DEF IsOperation, o
    <3>5. QED
      BY <3>3, <3>4 DEF n, o
  <2>3. CASE k # j
    BY <2>1, <2>3
  <2>4. QED
    BY <2>2, <2>3
<1>3. DOMAIN renamed = DOMAIN recorded /\ Len(renamed) = Len(recorded)
  <2>1. DOMAIN renamed = DOMAIN recorded
    OBVIOUS
  <2>2. Len(recorded) \in Nat /\ DOMAIN recorded = 1 .. Len(recorded)
    BY DEF MatchInv, Dated
  <2> DEFINE Y == {renamed[k] : k \in DOMAIN recorded}
  <2>3. renamed \in [1 .. Len(recorded) -> Y]
    <3>1. renamed = [k \in DOMAIN recorded |-> renamed[k]]
      BY <2>1
    <3> HIDE DEF renamed
    <3>2. QED
      BY <2>2, <3>1
  <2> HIDE DEF renamed, Y
  <2>4. QED
    BY <2>1, <2>2, <2>3
<1> HIDE DEF renamed
<1>4. \A k \in DOMAIN recorded : \A r :
        /\ Carries(recorded[k], r) => Carries(renamed[k], r)
        /\ Adopts(recorded[k], r) => Adopts(renamed[k], r)
  BY <1>2, StillCarries
<1>5. Dated(file)' /\ Dated(recorded)'
  BY <1>1, <1>2, <1>3 DEF MatchInv, Dated
<1>6. QED
  BY <1>1, <1>2, <1>3, <1>4, <1>5 DEF MatchInv

LEMMA MatchStep == MatchInv /\ [Match!Next]_(Match!vars) => MatchInv'
<1> SUFFICES ASSUME MatchInv, [Match!Next]_(Match!vars) PROVE MatchInv'
  OBVIOUS
<1>1. CASE Match!Next
  BY <1>1, ImportKeeps, RenameKeeps DEF Match!Next
<1>2. CASE UNCHANGED Match!vars
  BY <1>2 DEF Match!vars, MatchInv, Dated
<1>3. QED
  BY <1>1, <1>2

LEMMA MatchInvariant == ServicesSpec => [](part = "match" => MatchInv)
<1> DEFINE PartInv == part = "match" => MatchInv
<1>1. ServicesInit => PartInv
  BY MatchInitial DEF ServicesInit
<1>2. PartInv /\ [ServicesNext]_servicesVars => PartInv'
  BY OneAtWork, MatchStep
<1>3. QED
  BY <1>1, <1>2, PTL DEF ServicesSpec

\* The rows of a file skip as many operations of the account as could match
\* them, by any rule, and no operation is taken twice, for any file and any
\* operations (recorded-match.ts:81).
THEOREM AlwaysEachTakenOnce == ServicesSpec => []EachTakenOnce
<1>1. (part = "match" => MatchInv) => EachTakenOnce
  BY SettledEachOnce DEF MatchInv, EachTakenOnce
<1>2. QED
  BY <1>1, MatchInvariant, PTL

\* An operation that carries a row's bank reference is never given to a row that
\* has another, while the first goes without, for any file and any operations
\* (recorded-match.ts:77).
THEOREM ReferencesAlwaysFirst == ServicesSpec => []ReferencesComeFirst
<1>1. (part = "match" => MatchInv) => ReferencesComeFirst
  BY SettledReferencesFirst DEF MatchInv, ReferencesComeFirst
<1>2. QED
  BY <1>1, MatchInvariant, PTL

\* A row that became an operation, or that gave one its bank reference, is
\* skipped whenever the file is imported again, whatever the Member called the
\* operation since and however often, if it has a reference or a label of its
\* own (import.matching.integration-spec.ts:63).
THEOREM AlwaysImportedOnce == ServicesSpec => []ImportedOnce
<1>1. (part = "match" => MatchInv) => ImportedOnce
  BY ImportsAreFound DEF ImportedOnce
<1>2. QED
  BY <1>1, MatchInvariant, PTL


-----------------------------------------------------------------------------
(* Finite sets.                                                            *)

\* What holds of a set whenever it holds of it without any one of its elements
\* holds of every finite set.
LEMMA AllSubsets ==
  ASSUME NEW S, IsFiniteSet(S), NEW T,
         \A A \in SUBSET S : (\A x \in A : A \ {x} \in T) => A \in T
  PROVE  SUBSET S \subseteq T
<1> DEFINE U == {n \in Nat : \A A \in SUBSET S : Cardinality(A) = n => A \in T}
<1>1. \A A \in SUBSET S : IsFiniteSet(A) /\ Cardinality(A) \in Nat
  BY FS_Subset, FS_CardinalityType
<1>2. 0 \in U
  <2>1. ASSUME NEW A \in SUBSET S, Cardinality(A) = 0 PROVE A \in T
    <3>1. A = {}
      BY <1>1, <2>1, FS_EmptySet
    <3>2. QED
      BY <3>1
  <2>2. QED
    BY <2>1
<1>3. ASSUME NEW n \in U PROVE n + 1 \in U
  <2>1. ASSUME NEW A \in SUBSET S, Cardinality(A) = n + 1 PROVE A \in T
    <3>1. ASSUME NEW x \in A PROVE A \ {x} \in T
      <4>1. Cardinality(A \ {x}) = Cardinality(A) - 1
        BY <1>1, FS_RemoveElement
      <4>2. Cardinality(A \ {x}) = n
        BY <2>1, <4>1
      <4>3. QED
        BY <4>2
    <3>2. QED
      BY <3>1
  <2>2. QED
    BY <2>1
<1> HIDE DEF U
<1>4. U = Nat
  <2>1. U \in SUBSET Nat
    BY DEF U
  <2>2. QED
    BY <1>2, <1>3, <2>1, AllNaturals
<1>5. QED
  BY <1>1, <1>4 DEF U

\* There are no more images than elements.
LEMMA ImagesAreFinite ==
  ASSUME NEW S, IsFiniteSet(S), NEW f, NEW T, \A y : y \in T <=> \E x \in S : y = f[x]
  PROVE  IsFiniteSet(T)
<1> DEFINE g == [x \in S |-> f[x]]
<1>1. g \in Surjection(S, T)
  BY DEF Surjection
<1> HIDE DEF g
<1>2. QED
  BY <1>1, FS_Surjection

-----------------------------------------------------------------------------
(* Sums.                                                                   *)

\* f has numbers to add, for the elements of S.
Adds(f, S) == IsFiniteSet(S) /\ \A x \in S : f[x] \in Int

\* s sums f over the subsets of S, one element after another.
Sums(s, f, S) ==
  /\ DOMAIN s = SUBSET S
  /\ \A T \in SUBSET S :
       s[T] = IF T = {} THEN 0
              ELSE f[CHOOSE x \in T : TRUE] + s[T \ {CHOOSE x \in T : TRUE}]

\* There are such sums: after n steps, those of the sets of at most n elements.
LEMMA SumsExist ==
  ASSUME NEW f, NEW S, Adds(f, S)
  PROVE  \E s \in [SUBSET S -> Int] : Sums(s, f, S)
<1> DEFINE R == [SUBSET S -> Int]
           Chosen(T) == CHOOSE x \in T : TRUE
           More(r, T) == IF T = {} THEN 0 ELSE f[Chosen(T)] + r[T \ {Chosen(T)}]
           none == [T \in SUBSET S |-> 0]
           next == [n \in Nat |-> [r \in R |-> [T \in SUBSET S |-> More(r, T)]]]
<1>1. \A T \in SUBSET S : T # {} => Chosen(T) \in T
  OBVIOUS
<1> HIDE DEF Chosen
<1>2. ASSUME NEW r \in R, NEW T \in SUBSET S PROVE More(r, T) \in Int
  <2>1. CASE T = {}
    BY <2>1
  <2>2. CASE T # {}
    <3>1. f[Chosen(T)] \in Int /\ T \ {Chosen(T)} \in SUBSET S
      BY <1>1, <2>2 DEF Adds
    <3>2. r[T \ {Chosen(T)}] \in Int
      BY <3>1
    <3>3. QED
      BY <2>2, <3>1, <3>2
  <2>3. QED
    BY <2>1, <2>2
<1> HIDE DEF More
<1>3. none \in R /\ next \in [Nat -> [R -> R]]
  <2>1. ASSUME NEW r \in R PROVE [T \in SUBSET S |-> More(r, T)] \in R
    BY <1>2
  <2>2. none \in R
    OBVIOUS
  <2> HIDE DEF R, none
  <2>3. QED
    BY <2>1, <2>2
<1> HIDE DEF R, none
<1>4. PICK g \in [Nat -> R] : g[0] = none /\ \A n \in Nat \ {0} : g[n] = next[n][g[n - 1]]
  <2> HIDE DEF next
  <2>1. Iterated(R, none, next)
    BY <1>3, FunctionByRecursion
  <2>2. QED
    BY <2>1 DEF Iterated
<1>5. \A n \in Nat \ {0} : g[n] = [T \in SUBSET S |-> More(g[n - 1], T)]
  <2>1. \A n \in Nat \ {0} : n - 1 \in Nat /\ g[n - 1] \in R
    BY <1>4
  <2>2. QED
    BY <1>4, <2>1
<1> DEFINE s == [T \in SUBSET S |-> g[Cardinality(T)][T]]
<1>6. \A T \in SUBSET S : IsFiniteSet(T) /\ Cardinality(T) \in Nat
  BY FS_Subset, FS_CardinalityType DEF Adds
<1>7. s \in [SUBSET S -> Int]
  <2>1. \A T \in SUBSET S : g[Cardinality(T)] \in [SUBSET S -> Int]
    BY <1>4, <1>6 DEF R
  <2>2. QED
    BY <2>1
<1>8. ASSUME NEW T \in SUBSET S PROVE s[T] = More(s, T)
  <2>1. CASE T = {}
    <3>1. Cardinality(T) = 0
      BY <2>1, FS_EmptySet
    <3>2. s[T] = 0
      BY <1>4, <3>1 DEF none
    <3>3. QED
      BY <2>1, <3>2 DEF More
  <2>2. CASE T # {}
    <3> DEFINE x == Chosen(T)
               n == Cardinality(T)
    <3>1. x \in T
      BY <1>1, <2>2
    <3>2. Cardinality(T \ {x}) = n - 1 /\ n \in Nat /\ n - 1 \in Nat /\ T \ {x} \in SUBSET S
      BY <1>6, <3>1, FS_RemoveElement
    <3> HIDE DEF x, n
    <3>3. n \in Nat \ {0}
      BY <3>2
    <3>4. s[T] = g[n][T]
      BY DEF n
    <3>5. s[T \ {x}] = g[n - 1][T \ {x}]
      BY <3>2
    <3>6. g[n][T] = More(g[n - 1], T)
      BY <1>5, <3>3
    <3>7. QED
      BY <2>2, <3>4, <3>5, <3>6 DEF More, x
  <2>3. QED
    BY <2>1, <2>2
<1> HIDE DEF s
<1>9. Sums(s, f, S)
  BY <1>7, <1>8 DEF Sums, More, Chosen
<1>10. QED
  BY <1>7, <1>9

\* Sums of a set and of a set around it agree.
LEMMA SumsAgree ==
  ASSUME NEW f, NEW S, IsFiniteSet(S), NEW A \in SUBSET S,
         NEW s, NEW a, Sums(s, f, S), Sums(a, f, A)
  PROVE  \A T \in SUBSET A : s[T] = a[T]
<1> DEFINE G == {T \in SUBSET A : s[T] = a[T]}
<1>1. IsFiniteSet(A)
  BY FS_Subset
<1>2. ASSUME NEW T \in SUBSET A, \A x \in T : T \ {x} \in G PROVE T \in G
  <2> DEFINE y == CHOOSE x \in T : TRUE
  <2>1. T # {} => y \in T
    OBVIOUS
  <2> HIDE DEF y
  <2>2. /\ s[T] = IF T = {} THEN 0 ELSE f[y] + s[T \ {y}]
        /\ a[T] = IF T = {} THEN 0 ELSE f[y] + a[T \ {y}]
    BY DEF Sums, y
  <2>3. T # {} => s[T \ {y}] = a[T \ {y}]
    BY <1>2, <2>1
  <2>4. QED
    BY <2>2, <2>3
<1> HIDE DEF G
<1>3. SUBSET A \subseteq G
  BY <1>1, <1>2, AllSubsets
<1>4. QED
  BY <1>3 DEF G

\* The sum of a subset is that of the set around it.
LEMMA SumOfSubset ==
  ASSUME NEW f, NEW S, Adds(f, S)
  PROVE  \E s \in [SUBSET S -> Int] :
           Sums(s, f, S) /\ \A A \in SUBSET S : Drawn!Sum(f, A) = s[A]
<1>1. PICK s \in [SUBSET S -> Int] : Sums(s, f, S)
  BY SumsExist
<1>2. ASSUME NEW A \in SUBSET S PROVE Drawn!Sum(f, A) = s[A]
  <2> DEFINE body(r) == [T \in SUBSET A |->
                           IF T = {} THEN 0
                           ELSE f[CHOOSE x \in T : TRUE] + r[T \ {CHOOSE x \in T : TRUE}]]
             own == CHOOSE r : r = body(r)
  <2>1. Adds(f, A)
    BY FS_Subset DEF Adds
  <2>2. PICK r : Sums(r, f, A) /\ r \in [SUBSET A -> Int]
    BY <2>1, SumsExist
  <2>3. r = body(r)
    <3>1. r = [T \in SUBSET A |-> r[T]]
      BY <2>2
    <3>2. QED
      BY <2>2, <3>1 DEF Sums
  <2>4. own = body(own)
    BY <2>3
  <2>5. Drawn!Sum(f, A) = own[A]
    BY DEF Drawn!Sum
  <2> HIDE DEF own
  <2>6. Sums(own, f, A)
    BY <2>4 DEF Sums
  <2>7. s[A] = own[A]
    BY <1>1, <2>6, SumsAgree DEF Adds
  <2>8. QED
    BY <2>5, <2>7
<1>3. QED
  BY <1>1, <1>2

LEMMA SumIs ==
  ASSUME NEW f, NEW S, Adds(f, S)
  PROVE  /\ Drawn!Sum(f, S) \in Int
         /\ S = {} => Drawn!Sum(f, S) = 0
<1>1. PICK s \in [SUBSET S -> Int] :
        Sums(s, f, S) /\ \A A \in SUBSET S : Drawn!Sum(f, A) = s[A]
  BY SumOfSubset
<1>2. Drawn!Sum(f, S) = s[S] /\ s[S] \in Int
  BY <1>1
<1>3. S = {} => s[S] = 0
  BY <1>1 DEF Sums
<1>4. QED
  BY <1>2, <1>3

\* Any element may be added last.
LEMMA SumRemove ==
  ASSUME NEW f, NEW S, Adds(f, S)
  PROVE  \A A \in SUBSET S : \A x \in A :
           Drawn!Sum(f, A) = f[x] + Drawn!Sum(f, A \ {x})
<1> DEFINE G == {A \in SUBSET S : \A x \in A : Drawn!Sum(f, A) = f[x] + Drawn!Sum(f, A \ {x})}
<1>1. ASSUME NEW A \in SUBSET S, \A w \in A : A \ {w} \in G, NEW x \in A
      PROVE  Drawn!Sum(f, A) = f[x] + Drawn!Sum(f, A \ {x})
  <2> PICK s \in [SUBSET S -> Int] : Sums(s, f, S) /\ \A B \in SUBSET S : Drawn!Sum(f, B) = s[B]
    BY SumOfSubset
  <2> DEFINE y == CHOOSE y \in A : TRUE
  <2>1. y \in A
    OBVIOUS
  <2> HIDE DEF y
  <2>2. s[A] = f[y] + s[A \ {y}]
    BY DEF Sums, y
  <2>3. CASE x = y
    BY <2>2, <2>3
  <2>4. CASE x # y
    <3> DEFINE both == (A \ {x}) \ {y}
    <3>1. /\ x \in A \ {y} /\ y \in A \ {x} /\ (A \ {y}) \ {x} = both
          /\ both \in SUBSET S /\ A \ {x} \in SUBSET S /\ A \ {y} \in SUBSET S
      BY <2>1, <2>4
    <3> HIDE DEF both
    <3>2. Drawn!Sum(f, A \ {y}) = f[x] + Drawn!Sum(f, both)
      BY <1>1, <2>1, <3>1
    <3>3. Drawn!Sum(f, A \ {x}) = f[y] + Drawn!Sum(f, both)
      BY <1>1, <3>1 DEF both
    <3>4. f[x] \in Int /\ f[y] \in Int /\ s[both] \in Int
      BY <2>1, <3>1 DEF Adds
    <3>5. s[A \ {y}] = f[x] + s[both] /\ s[A \ {x}] = f[y] + s[both]
      BY <3>1, <3>2, <3>3
    <3>6. s[A] = f[x] + s[A \ {x}]
      BY <2>2, <3>4, <3>5
    <3>7. QED
      BY <3>1, <3>6
  <2>5. QED
    BY <2>3, <2>4
<1>2. ASSUME NEW A \in SUBSET S, \A x \in A : A \ {x} \in G PROVE A \in G
  BY <1>1, <1>2
<1> HIDE DEF G
<1>3. IsFiniteSet(S)
  BY DEF Adds
<1>4. SUBSET S \subseteq G
  BY <1>2, <1>3, AllSubsets
<1>5. QED
  BY <1>4 DEF G

LEMMA SumAdd ==
  ASSUME NEW f, NEW S, Adds(f, S), NEW x \in S
  PROVE  Drawn!Sum(f, S) = f[x] + Drawn!Sum(f, S \ {x}) /\ Adds(f, S \ {x})
BY SumRemove, FS_RemoveElement DEF Adds

\* What is added counts only, and not what for.
LEMMA SumSame ==
  ASSUME NEW f, NEW g, NEW S, Adds(f, S), \A x \in S : g[x] = f[x]
  PROVE  Drawn!Sum(g, S) = Drawn!Sum(f, S)
<1> DEFINE G == {A \in SUBSET S : Drawn!Sum(g, A) = Drawn!Sum(f, A)}
<1>1. IsFiniteSet(S) /\ Adds(g, S)
  BY DEF Adds
<1>2. ASSUME NEW A \in SUBSET S, \A x \in A : A \ {x} \in G PROVE A \in G
  <2>1. Adds(f, A) /\ Adds(g, A)
    BY <1>1, FS_Subset DEF Adds
  <2>2. CASE A = {}
    BY <2>1, <2>2, SumIs
  <2>3. CASE A # {}
    <3>1. PICK x \in A : TRUE
      BY <2>3
    <3>2. /\ Drawn!Sum(f, A) = f[x] + Drawn!Sum(f, A \ {x})
          /\ Drawn!Sum(g, A) = g[x] + Drawn!Sum(g, A \ {x})
      BY <2>1, SumAdd
    <3>3. g[x] = f[x] /\ Drawn!Sum(g, A \ {x}) = Drawn!Sum(f, A \ {x})
      BY <1>2
    <3>4. QED
      BY <3>2, <3>3
  <2>4. QED
    BY <2>2, <2>3
<1> HIDE DEF G
<1>3. SUBSET S \subseteq G
  BY <1>1, <1>2, AllSubsets
<1>4. QED
  BY <1>3 DEF G

LEMMA SumNegated ==
  ASSUME NEW f, NEW g, NEW S, Adds(f, S), \A x \in S : g[x] = -f[x]
  PROVE  Drawn!Sum(g, S) = -Drawn!Sum(f, S)
<1> DEFINE G == {A \in SUBSET S : Drawn!Sum(g, A) = -Drawn!Sum(f, A)}
<1>1. IsFiniteSet(S) /\ Adds(g, S)
  BY DEF Adds
<1>2. ASSUME NEW A \in SUBSET S, \A x \in A : A \ {x} \in G PROVE A \in G
  <2>1. Adds(f, A) /\ Adds(g, A)
    BY <1>1, FS_Subset DEF Adds
  <2>2. CASE A = {}
    BY <2>1, <2>2, SumIs
  <2>3. CASE A # {}
    <3>1. PICK x \in A : TRUE
      BY <2>3
    <3>2. /\ Drawn!Sum(f, A) = f[x] + Drawn!Sum(f, A \ {x}) /\ Adds(f, A \ {x})
          /\ Drawn!Sum(g, A) = g[x] + Drawn!Sum(g, A \ {x})
      BY <2>1, SumAdd
    <3>3. g[x] = -f[x] /\ Drawn!Sum(g, A \ {x}) = -Drawn!Sum(f, A \ {x})
      BY <1>2
    <3>4. f[x] \in Int /\ Drawn!Sum(f, A \ {x}) \in Int
      BY <2>1, <3>2, SumIs DEF Adds
    <3>5. QED
      BY <3>2, <3>3, <3>4
  <2>4. QED
    BY <2>2, <2>3
<1> HIDE DEF G
<1>3. SUBSET S \subseteq G
  BY <1>1, <1>2, AllSubsets
<1>4. QED
  BY <1>3 DEF G

\* The sum of two sets without a common element.
LEMMA SumTogether ==
  ASSUME NEW f, NEW S, Adds(f, S), NEW A \in SUBSET S, NEW B \in SUBSET S, A \cap B = {}
  PROVE  Drawn!Sum(f, A \cup B) = Drawn!Sum(f, A) + Drawn!Sum(f, B)
<1> DEFINE G == {C \in SUBSET B : Drawn!Sum(f, A \cup C) = Drawn!Sum(f, A) + Drawn!Sum(f, C)}
<1>1. \A C \in SUBSET S : Adds(f, C) /\ Drawn!Sum(f, C) \in Int
  BY FS_Subset, SumIs DEF Adds
<1>2. ASSUME NEW C \in SUBSET B, \A x \in C : C \ {x} \in G PROVE C \in G
  <2>1. C \in SUBSET S /\ A \cup C \in SUBSET S
    OBVIOUS
  <2>2. CASE C = {}
    <3>1. Drawn!Sum(f, C) = 0
      BY <1>1, <2>1, <2>2, SumIs
    <3>2. Drawn!Sum(f, A \cup C) = Drawn!Sum(f, A) /\ Drawn!Sum(f, A) \in Int
      BY <1>1, <2>2
    <3>3. Drawn!Sum(f, A \cup C) = Drawn!Sum(f, A) + Drawn!Sum(f, C)
      BY <3>1, <3>2
    <3>4. QED
      BY <3>3
  <2>3. CASE C # {}
    <3>1. PICK x \in C : TRUE
      BY <2>3
    <3>2. (A \cup C) \ {x} = A \cup (C \ {x})
      OBVIOUS
    <3>3. /\ Drawn!Sum(f, C) = f[x] + Drawn!Sum(f, C \ {x})
          /\ Drawn!Sum(f, A \cup C) = f[x] + Drawn!Sum(f, (A \cup C) \ {x})
      BY <1>1, <2>1, SumAdd
    <3>4. Drawn!Sum(f, A \cup (C \ {x})) = Drawn!Sum(f, A) + Drawn!Sum(f, C \ {x})
      BY <1>2
    <3>5. f[x] \in Int /\ Drawn!Sum(f, A) \in Int /\ Drawn!Sum(f, C \ {x}) \in Int
      <4>1. C \ {x} \in SUBSET S
        OBVIOUS
      <4>2. QED
        BY <1>1, <4>1 DEF Adds
    <3>6. Drawn!Sum(f, A \cup C) = f[x] + Drawn!Sum(f, A \cup (C \ {x}))
      BY <3>2, <3>3
    <3>7. Drawn!Sum(f, A \cup C) = Drawn!Sum(f, A) + Drawn!Sum(f, C)
      BY <3>3, <3>4, <3>5, <3>6
    <3>8. QED
      BY <3>7
  <2>4. QED
    BY <2>2, <2>3
<1>3. IsFiniteSet(B)
  BY <1>1 DEF Adds
<1> HIDE DEF G
<1>4. SUBSET B \subseteq G
  BY <1>2, <1>3, AllSubsets
<1>5. QED
  BY <1>4 DEF G

\* The sums of the parts of a set, by a key, add up to the set's.
LEMMA SumOfParts ==
  ASSUME NEW f, NEW S, Adds(f, S), NEW K, IsFiniteSet(K), NEW key,
         NEW slice \in [K -> SUBSET S], \A k \in K : \A x \in S : x \in slice[k] <=> key[x] = k,
         NEW W \in SUBSET S, \A x \in S : x \in W <=> key[x] \in K,
         NEW sums, \A k \in K : sums[k] = Drawn!Sum(f, slice[k])
  PROVE  Adds(sums, K) /\ Drawn!Sum(sums, K) = Drawn!Sum(f, W)
<1> DEFINE Within(L) == {x \in S : key[x] \in L}
           G == {L \in SUBSET K : Drawn!Sum(sums, L) = Drawn!Sum(f, Within(L))}
<1>1. \A A \in SUBSET S : Adds(f, A) /\ Drawn!Sum(f, A) \in Int
  BY FS_Subset, SumIs DEF Adds
<1>2. Adds(sums, K)
  BY <1>1 DEF Adds
<1>3. ASSUME NEW L \in SUBSET K, \A k \in L : L \ {k} \in G PROVE L \in G
  <2>1. Adds(sums, L)
    BY <1>2, FS_Subset DEF Adds
  <2>2. CASE L = {}
    <3>1. Within(L) = {} /\ Within(L) \in SUBSET S
      BY <2>2
    <3>2. Drawn!Sum(f, Within(L)) = 0
      BY <1>1, <3>1, SumIs
    <3>3. Drawn!Sum(sums, L) = 0
      BY <2>1, <2>2, SumIs
    <3>4. QED
      BY <3>2, <3>3
  <2>3. CASE L # {}
    <3>1. PICK k \in L : TRUE
      BY <2>3
    <3>2. /\ Within(L) = Within(L \ {k}) \cup slice[k] /\ Within(L \ {k}) \cap slice[k] = {}
          /\ Within(L \ {k}) \in SUBSET S /\ slice[k] \in SUBSET S
      OBVIOUS
    <3>3. Drawn!Sum(f, Within(L)) = Drawn!Sum(f, Within(L \ {k})) + Drawn!Sum(f, slice[k])
      BY <3>2, SumTogether
    <3>4. Drawn!Sum(sums, L) = sums[k] + Drawn!Sum(sums, L \ {k})
      BY <2>1, SumAdd
    <3>5. Drawn!Sum(sums, L \ {k}) = Drawn!Sum(f, Within(L \ {k}))
      BY <1>3
    <3>6. sums[k] = Drawn!Sum(f, slice[k])
      OBVIOUS
    <3>7. Drawn!Sum(f, Within(L \ {k})) \in Int /\ Drawn!Sum(f, slice[k]) \in Int
      BY <1>1, <3>2
    <3> HIDE DEF Within
    <3>8. Drawn!Sum(sums, L) = Drawn!Sum(f, Within(L))
      BY <3>3, <3>4, <3>5, <3>6, <3>7
    <3>9. QED
      BY <3>8
  <2>4. QED
    BY <2>2, <2>3
<1> HIDE DEF G
<1>4. SUBSET K \subseteq G
  BY <1>3, AllSubsets
<1>5. Drawn!Sum(sums, K) = Drawn!Sum(f, Within(K)) /\ Within(K) = W
  BY <1>4 DEF G
<1>6. QED
  BY <1>2, <1>5

-----------------------------------------------------------------------------
(* Greatest and least.                                                     *)

LEMMA HasMost ==
  ASSUME NEW S \in SUBSET Int, IsFiniteSet(S)
  PROVE  S # {} => /\ \E m \in S : \A n \in S : n <= m
                   /\ \E m \in S : \A n \in S : m <= n
<1> DEFINE most(A) == \E m \in A : \A n \in A : n <= m
           least(A) == \E m \in A : \A n \in A : m <= n
           G == {A \in SUBSET S : A # {} => most(A) /\ least(A)}
<1>1. ASSUME NEW A \in SUBSET S, \A x \in A : A \ {x} \in G PROVE A \in G
  <2> SUFFICES ASSUME A # {} PROVE most(A) /\ least(A)
    OBVIOUS
  <2>1. PICK x \in A : TRUE
    OBVIOUS
  <2>2. CASE A = {x}
    BY <2>2
  <2>3. CASE A # {x}
    <3>1. A \ {x} # {} /\ A \ {x} \in G
      BY <1>1, <2>1, <2>3
    <3>2. PICK u \in A \ {x} : \A n \in A \ {x} : n <= u
      BY <3>1
    <3>3. PICK v \in A \ {x} : \A n \in A \ {x} : v <= n
      BY <3>1
    <3>4. x \in Int /\ u \in Int /\ v \in Int
      BY <2>1
    <3>5. most(A)
      <4>1. CASE u <= x
        <5>1. \A n \in A : n <= x
          BY <3>2, <3>4, <4>1
        <5>2. QED
          BY <2>1, <5>1
      <4>2. CASE ~ u <= x
        <5>1. \A n \in A : n <= u
          BY <3>2, <3>4, <4>2
        <5>2. QED
          BY <3>2, <5>1
      <4>3. QED
        BY <4>1, <4>2
    <3>6. least(A)
      <4>1. CASE x <= v
        <5>1. \A n \in A : x <= n
          BY <3>3, <3>4, <4>1
        <5>2. QED
          BY <2>1, <5>1
      <4>2. CASE ~ x <= v
        <5>1. \A n \in A : v <= n
          BY <3>3, <3>4, <4>2
        <5>2. QED
          BY <3>3, <5>1
      <4>3. QED
        BY <4>1, <4>2
    <3>7. QED
      BY <3>5, <3>6
  <2>4. QED
    BY <2>2, <2>3
<1> HIDE DEF G
<1>2. SUBSET S \subseteq G
  BY <1>1, AllSubsets
<1>3. QED
  BY <1>2 DEF G

LEMMA MostIs ==
  ASSUME NEW S \in SUBSET Int, IsFiniteSet(S), S # {}
  PROVE  /\ Drawn!Max(S) \in S /\ \A n \in S : n <= Drawn!Max(S)
         /\ Drawn!Min(S) \in S /\ \A n \in S : Drawn!Min(S) <= n
BY HasMost DEF Drawn!Max, Drawn!Min

\* Of what has a greatest, or a least.
LEMMA MostOf ==
  ASSUME NEW S \in SUBSET Int, NEW m \in S
  PROVE  /\ (\A n \in S : n <= m) => Drawn!Max(S) = m
         /\ (\A n \in S : m <= n) => Drawn!Min(S) = m
<1>1. ASSUME \A n \in S : n <= m PROVE Drawn!Max(S) = m
  <2>1. Drawn!Max(S) \in S /\ \A n \in S : n <= Drawn!Max(S)
    BY <1>1 DEF Drawn!Max
  <2>2. Drawn!Max(S) <= m /\ m <= Drawn!Max(S) /\ Drawn!Max(S) \in Int /\ m \in Int
    BY <1>1, <2>1
  <2>3. QED
    BY <2>2
<1>2. ASSUME \A n \in S : m <= n PROVE Drawn!Min(S) = m
  <2>1. Drawn!Min(S) \in S /\ \A n \in S : Drawn!Min(S) <= n
    BY <1>2 DEF Drawn!Min
  <2>2. Drawn!Min(S) <= m /\ m <= Drawn!Min(S) /\ Drawn!Min(S) \in Int /\ m \in Int
    BY <1>2, <2>1
  <2>3. QED
    BY <2>2
<1>3. QED
  BY <1>1, <1>2

LEMMA NotNegative ==
  ASSUME NEW n \in Int
  PROVE  Drawn!Max({0, n}) = IF n >= 0 THEN n ELSE 0
<1>1. CASE n >= 0
  BY <1>1, MostOf
<1>2. CASE ~ n >= 0
  BY <1>2, MostOf
<1>3. QED
  BY <1>1, <1>2

-----------------------------------------------------------------------------
(* Axes.                                                                   *)

LEMMA StepIs ==
  /\ Drawn!Step("month") = 1 /\ Drawn!Step("quarter") = 3 /\ Drawn!Step("year") = 12
BY DEF Drawn!Step

\* The first of the most recent MAX_PERIODS of the periods from a to b.
FirstKept(a, b) == a + (IF b - a + 1 - MAX_PERIODS >= 0 THEN b - a + 1 - MAX_PERIODS ELSE 0)

\* The periods that an axis keeps.
LEMMA AxisKeeps ==
  ASSUME NEW grouping \in {"month", "quarter", "year"},
         NEW a \in Int, NEW b \in Int, NEW q \in Int
  PROVE  Drawn!Step(grouping) * q
           \in Drawn!fillPeriodGaps(Drawn!Step(grouping) * a, Drawn!Step(grouping) * b, grouping)
         <=> FirstKept(a, b) <= q /\ q <= b
<1> DEFINE extra == b - a + 1 - MAX_PERIODS
           skipped == IF extra >= 0 THEN extra ELSE 0
<1>1. MAX_PERIODS \in Nat
  BY ChartsAssumption DEF Drawn!ChartsAssumption
<1>2. extra \in Int /\ Drawn!Max({0, extra}) = skipped /\ skipped \in Int
  BY <1>1, NotNegative
<1>3. FirstKept(a, b) = a + skipped
  BY DEF FirstKept
<1>4. CASE grouping = "month"
  <2>1. ((1 * b - 1 * a) \div 1) + 1 - MAX_PERIODS = extra
    BY <1>1
  <2> HIDE DEF extra, skipped
  <2>2. Drawn!fillPeriodGaps(1 * a, 1 * b, grouping)
          = {month \in 1 * a + skipped * 1 .. 1 * b : (month - 1 * a) % 1 = 0}
    BY <1>2, <1>4, <2>1, StepIs DEF Drawn!fillPeriodGaps
  <2>3. (1 * q - 1 * a) % 1 = 0
    OBVIOUS
  <2>4. 1 * q \in 1 * a + skipped * 1 .. 1 * b <=> a + skipped <= q /\ q <= b
    BY <1>2
  <2>5. QED
    BY <1>3, <1>4, <2>2, <2>3, <2>4, StepIs
<1>5. CASE grouping = "quarter"
  <2>1. ((3 * b - 3 * a) \div 3) + 1 - MAX_PERIODS = extra
    BY <1>1
  <2> HIDE DEF extra, skipped
  <2>2. Drawn!fillPeriodGaps(3 * a, 3 * b, grouping)
          = {month \in 3 * a + skipped * 3 .. 3 * b : (month - 3 * a) % 3 = 0}
    BY <1>2, <1>5, <2>1, StepIs DEF Drawn!fillPeriodGaps
  <2>3. (3 * q - 3 * a) % 3 = 0
    OBVIOUS
  <2>4. 3 * q \in 3 * a + skipped * 3 .. 3 * b <=> a + skipped <= q /\ q <= b
    BY <1>2
  <2>5. QED
    BY <1>3, <1>5, <2>2, <2>3, <2>4, StepIs
<1>6. CASE grouping = "year"
  <2>1. ((12 * b - 12 * a) \div 12) + 1 - MAX_PERIODS = extra
    BY <1>1
  <2> HIDE DEF extra, skipped
  <2>2. Drawn!fillPeriodGaps(12 * a, 12 * b, grouping)
          = {month \in 12 * a + skipped * 12 .. 12 * b : (month - 12 * a) % 12 = 0}
    BY <1>2, <1>6, <2>1, StepIs DEF Drawn!fillPeriodGaps
  <2>3. (12 * q - 12 * a) % 12 = 0
    OBVIOUS
  <2>4. 12 * q \in 12 * a + skipped * 12 .. 12 * b <=> a + skipped <= q /\ q <= b
    BY <1>2
  <2>5. QED
    BY <1>3, <1>6, <2>2, <2>3, <2>4, StepIs
<1>7. QED
  BY <1>4, <1>5, <1>6

\* A period starts at a whole number of steps.
LEMMA StartsAtStep ==
  ASSUME NEW month \in Nat, NEW grouping \in {"month", "quarter", "year"}
  PROVE  \E q \in Nat : Drawn!periodStart(month, grouping) = Drawn!Step(grouping) * q
<1>1. CASE grouping = "month"
  <2>1. month - (month % 1) = 1 * month
    OBVIOUS
  <2>2. QED
    BY <1>1, <2>1, StepIs DEF Drawn!periodStart
<1>2. CASE grouping = "quarter"
  <2>1. month \div 3 \in Nat /\ month - (month % 3) = 3 * (month \div 3)
    OBVIOUS
  <2>2. QED
    BY <1>2, <2>1, StepIs DEF Drawn!periodStart
<1>3. CASE grouping = "year"
  <2>1. month \div 12 \in Nat /\ month - (month % 12) = 12 * (month \div 12)
    OBVIOUS
  <2>2. QED
    BY <1>3, <2>1, StepIs DEF Drawn!periodStart
<1>4. QED
  BY <1>1, <1>2, <1>3

\* The narrower of two axes leaves out no period of its own that the wider
\* keeps.
LEMMA NarrowerKeeps ==
  ASSUME NEW a \in Int, NEW b \in Int, NEW c \in Int, NEW d \in Int, NEW q \in Int,
         a <= c, d <= b, c <= q, q <= d, FirstKept(a, b) <= q
  PROVE  FirstKept(c, d) <= q
<1>1. MAX_PERIODS \in Nat
  BY ChartsAssumption DEF Drawn!ChartsAssumption
<1>2. QED
  BY <1>1 DEF FirstKept

-----------------------------------------------------------------------------
(* What is added.                                                          *)

TableType == table \in [Id -> Entry \cup {NULL}]

Live == Drawn!Of(Account)
Amounts == [i \in Live |-> table[i].amount]

\* The amounts of a side count as positive there.
Signed(side) == [i \in Live |-> IF side = "credit" THEN table[i].amount ELSE -table[i].amount]

LEMMA LiveIs ==
  ASSUME TableType
  PROVE  /\ Live \in SUBSET Id /\ IsFiniteSet(Live) /\ Adds(Amounts, Live)
         /\ \A i \in Live : /\ table[i].account \in Account /\ table[i].month \in Nat
                            /\ table[i].amount \in Int
         /\ \A side : Adds(Signed(side), Live)
         /\ \A accounts : Drawn!Of(accounts) = {i \in Live : table[i].account \in accounts}
<1>1. \A i \in Id : table[i] # NULL => table[i] \in Entry
  BY DEF TableType
<1>2. \A o \in Entry : o.account \in Account /\ o.month \in Nat /\ o.amount \in Int
  BY ChartsAssumption DEF Drawn!ChartsAssumption
<1>3. \A i \in Live : /\ table[i].account \in Account /\ table[i].month \in Nat
                      /\ table[i].amount \in Int
  BY <1>1, <1>2 DEF Live, Drawn!Of
<1>4. Live \in SUBSET Id
  BY DEF Live, Drawn!Of
<1>5. IsFiniteSet(Live)
  <2>1. IsFiniteSet(Id)
    BY ChartsAssumption DEF Drawn!ChartsAssumption, Drawn!IsFiniteSet, IsFiniteSet
  <2>2. QED
    BY <1>4, <2>1, FS_Subset
<1>6. Adds(Amounts, Live)
  BY <1>3, <1>5 DEF Adds, Amounts
<1>7. ASSUME NEW side PROVE Adds(Signed(side), Live)
  BY <1>3, <1>5 DEF Adds, Signed
<1>8. ASSUME NEW accounts PROVE Drawn!Of(accounts) = {i \in Live : table[i].account \in accounts}
  BY <1>1, <1>2 DEF Live, Drawn!Of
<1>9. QED
  BY <1>3, <1>4, <1>5, <1>6, <1>7, <1>8

LEMMA NetIs ==
  ASSUME TableType, NEW A \in SUBSET Live
  PROVE  Drawn!Net(A) = Drawn!Sum(Amounts, A) /\ Drawn!Sum(Amounts, A) \in Int
<1> DEFINE g == [i \in A |-> table[i].amount]
<1>1. Adds(Amounts, A)
  BY LiveIs, FS_Subset DEF Adds
<1>2. \A i \in A : g[i] = Amounts[i]
  BY DEF Amounts
<1>3. Drawn!Net(A) = Drawn!Sum(g, A)
  BY DEF Drawn!Net
<1> HIDE DEF g
<1>4. QED
  BY <1>1, <1>2, <1>3, SumSame, SumIs

\* An amount of a series is a sum of what counts as positive.
LEMMA AmountIs ==
  ASSUME TableType, NEW A \in SUBSET Live, NEW side \in {"credit", "debit"},
         NEW period, NEW grouping
  PROVE  Drawn!Amount(A, side, period, grouping)
           = Drawn!Sum(Signed(side),
                       {i \in A : Drawn!SideOf(i) = side /\ Drawn!PeriodOf(i, grouping) = period})
<1> DEFINE those == {i \in A : Drawn!SideOf(i) = side /\ Drawn!PeriodOf(i, grouping) = period}
<1>1. those \in SUBSET Live
  OBVIOUS
<1>2. Drawn!Amount(A, side, period, grouping)
        = IF side = "credit" THEN Drawn!Net(those) ELSE -Drawn!Net(those)
  BY DEF Drawn!Amount
<1> HIDE DEF those
<1>3. Drawn!Net(those) = Drawn!Sum(Amounts, those)
  BY <1>1, NetIs
<1>4. Adds(Amounts, those)
  BY <1>1, LiveIs, FS_Subset DEF Adds
<1>5. CASE side = "credit"
  <2>1. \A i \in those : Signed(side)[i] = Amounts[i]
    BY <1>1, <1>5 DEF Signed, Amounts
  <2>2. Drawn!Sum(Signed(side), those) = Drawn!Sum(Amounts, those)
    BY <1>4, <2>1, SumSame
  <2>3. QED
    BY <1>2, <1>3, <1>5, <2>2 DEF those
<1>6. CASE side # "credit"
  <2>1. \A i \in those : Signed(side)[i] = -Amounts[i]
    BY <1>1, <1>6 DEF Signed, Amounts
  <2>2. Drawn!Sum(Signed(side), those) = -Drawn!Sum(Amounts, those)
    BY <1>4, <2>1, SumNegated
  <2>3. QED
    BY <1>2, <1>3, <1>6, <2>2 DEF those
<1>7. QED
  BY <1>5, <1>6

-----------------------------------------------------------------------------
(* The synthesis chart.                                                    *)

\* The months of a chart end with the last that has an operation.
LEMMA ChartMonthsAre ==
  ASSUME TableType, NEW ids \in SUBSET Live, ids # {}, NEW window \in (Nat \ {0}) \cup {ALL}
  PROVE  LET last == Drawn!Max(Drawn!Months(ids))
             axis == Drawn!ChartMonths(ids, window)
         IN /\ last \in Nat /\ \A i \in ids : table[i].month <= last
            /\ axis \in SUBSET Int /\ Drawn!Max(axis) = last /\ last \in axis
            /\ Drawn!Min(axis) \in Int /\ Drawn!Min(axis) <= last
<1> DEFINE months == Drawn!Months(ids)
           first == Drawn!ChartStart(ids, window)
           last == Drawn!Max(months)
           axis == Drawn!ChartMonths(ids, window)
<1>1. months \in SUBSET Nat /\ IsFiniteSet(months) /\ months # {}
  <2>1. months = {table[i].month : i \in ids}
    BY DEF Drawn!Months
  <2>2. IsFiniteSet(ids)
    BY LiveIs, FS_Subset
  <2>3. IsFiniteSet(months)
    <3> DEFINE monthOf == [i \in ids |-> table[i].month]
    <3>1. \A m : m \in months <=> \E i \in ids : m = monthOf[i]
      BY <2>1
    <3> HIDE DEF months, monthOf
    <3>2. QED
      BY <2>2, <3>1, ImagesAreFinite
  <2>4. QED
    BY <2>1, <2>3, LiveIs
<1>2. /\ last \in months /\ \A n \in months : n <= last
      /\ Drawn!Min(months) \in months /\ Drawn!Min(months) <= last
  <2>1. months \in SUBSET Int
    BY <1>1
  <2> HIDE DEF months
  <2>2. QED
    BY <1>1, <2>1, MostIs
<1>3. \A i \in ids : table[i].month <= last
  BY <1>2 DEF Drawn!Months
<1>4. last \in Nat /\ first \in Int /\ first <= last
  BY <1>1, <1>2 DEF Drawn!ChartStart
<1>5. axis = Drawn!fillPeriodGaps(first, last, "month")
  BY DEF Drawn!ChartMonths
<1> HIDE DEF months, first, last, axis
<1> DEFINE kept == FirstKept(first, last)
<1>6. kept \in Int /\ first <= kept /\ kept <= last
  BY <1>4, ChartsAssumption DEF FirstKept, Drawn!ChartsAssumption
<1>7. \A m \in Int : m \in axis <=> kept <= m /\ m <= last
  <2> SUFFICES ASSUME NEW m \in Int PROVE m \in axis <=> kept <= m /\ m <= last
    OBVIOUS
  <2>1. Drawn!Step("month") * m
          \in Drawn!fillPeriodGaps(Drawn!Step("month") * first, Drawn!Step("month") * last, "month")
        <=> kept <= m /\ m <= last
    BY <1>4, AxisKeeps
  <2>2. 1 * m = m /\ 1 * first = first /\ 1 * last = last
    BY <1>4
  <2>3. QED
    BY <1>5, <2>1, <2>2, StepIs
<1>8. axis \in SUBSET Int
  <2>1. Drawn!Step("month") = 1
    BY StepIs
  <2>2. Drawn!Max({0, ((last - first) \div 1) + 1 - MAX_PERIODS}) \in Int
    <3>1. ((last - first) \div 1) + 1 - MAX_PERIODS \in Int
      BY <1>4, ChartsAssumption DEF Drawn!ChartsAssumption
    <3>2. QED
      BY <3>1, NotNegative
  <2>3. QED
    BY <1>4, <1>5, <2>1, <2>2 DEF Drawn!fillPeriodGaps
<1>9. Drawn!Max(axis) = last /\ last \in axis /\ Drawn!Min(axis) = kept
  <2>1. last \in axis /\ kept \in axis /\ \A m \in axis : m <= last /\ kept <= m
    BY <1>4, <1>6, <1>7, <1>8
  <2>2. QED
    BY <1>8, <2>1, MostOf
<1>10. QED
  BY <1>3, <1>4, <1>6, <1>8, <1>9 DEF last, axis, months

\* A chart ends with all that there is of a currency.
LEMMA ChartEnds ==
  ASSUME TableType, NEW accounts, NEW window \in (Nat \ {0}) \cup {ALL},
         NEW currency \in DOMAIN Drawn!computeSynthesisChart(accounts, window)
  PROVE  LET ids == Drawn!Of(accounts)
             points == Drawn!computeSynthesisChart(accounts, window)[currency]
         IN /\ currency \in {CurrencyOf[table[i].account] : i \in ids}
            /\ points[Drawn!Max(DOMAIN points)] = Drawn!Sum(Amounts, Drawn!In(ids, currency))
<1> DEFINE ids == Drawn!Of(accounts)
           axis == Drawn!ChartMonths(ids, window)
           last == Drawn!Max(Drawn!Months(ids))
           start == Drawn!Min(axis)
           before == Drawn!BeforeAxis(ids, window)
           upTo(month) == {i \in ids : table[i].month \in start .. month}
           currencies == {CurrencyOf[table[i].account] : i \in ids}
           chartOf == [c \in currencies |->
                         [month \in axis |-> Drawn!Net(Drawn!In(before, c))
                                               + Drawn!Net(Drawn!In(upTo(month), c))]]
           points == [month \in axis |-> Drawn!Net(Drawn!In(before, currency))
                                           + Drawn!Net(Drawn!In(upTo(month), currency))]
<1>1. ids \in SUBSET Live
  BY LiveIs
<1>2. ids # {}
  <2>1. CASE ids = {}
    <3>1. Drawn!computeSynthesisChart(accounts, window) = <<>>
      BY <2>1 DEF Drawn!computeSynthesisChart
    <3>2. DOMAIN Drawn!computeSynthesisChart(accounts, window) = {}
      BY <3>1
    <3>3. QED
      BY <3>2
  <2>2. QED
    BY <2>1
<1>3. Drawn!computeSynthesisChart(accounts, window) = chartOf
  BY <1>2 DEF Drawn!computeSynthesisChart
<1>4. currency \in currencies /\ Drawn!computeSynthesisChart(accounts, window)[currency] = points
  <2>1. DOMAIN chartOf = currencies
    OBVIOUS
  <2>2. currency \in currencies
    BY <1>3, <2>1
  <2>3. chartOf[currency] = points
    BY <2>2
  <2>4. QED
    BY <1>3, <2>2, <2>3
<1>5. /\ last \in Nat /\ \A i \in ids : table[i].month <= last
      /\ Drawn!Max(axis) = last /\ last \in axis /\ start \in Int /\ start <= last
  BY <1>1, <1>2, ChartMonthsAre
<1> DEFINE A == Drawn!In(before, currency)
           B == Drawn!In(upTo(last), currency)
<1>6. /\ A \in SUBSET Live /\ B \in SUBSET Live /\ A \cap B = {}
      /\ A \cup B = Drawn!In(ids, currency)
  <2>1. A = {i \in ids : table[i].month < start /\ CurrencyOf[table[i].account] = currency}
    BY DEF Drawn!In, Drawn!BeforeAxis
  <2>2. B = {i \in ids : /\ table[i].month \in start .. last
                       /\ CurrencyOf[table[i].account] = currency}
    BY DEF Drawn!In
  <2>3. \A i \in ids : table[i].month \in Int
    BY <1>1, LiveIs
  <2> HIDE DEF start, last, A, B
  <2>4. \A i \in ids : table[i].month \in start .. last <=> ~ table[i].month < start
    BY <1>5, <2>3
  <2>5. QED
    BY <1>1, <2>1, <2>2, <2>4 DEF Drawn!In
<1>7. points[last] = Drawn!Net(A) + Drawn!Net(B) /\ DOMAIN points = axis
  BY <1>5
<1>8. Drawn!Net(A) = Drawn!Sum(Amounts, A) /\ Drawn!Net(B) = Drawn!Sum(Amounts, B)
  <2> HIDE DEF A, B
  <2>1. QED
    BY <1>6, NetIs
<1>9. Drawn!Sum(Amounts, A \cup B) = Drawn!Sum(Amounts, A) + Drawn!Sum(Amounts, B)
  <2> HIDE DEF A, B
  <2>1. Adds(Amounts, Live)
    BY LiveIs
  <2>2. QED
    BY <1>6, <2>1, SumTogether
<1> HIDE DEF A, B, points, last, axis
<1>10. points[Drawn!Max(DOMAIN points)] = Drawn!Sum(Amounts, Drawn!In(ids, currency))
  BY <1>5, <1>6, <1>7, <1>8, <1>9
<1>11. QED
  BY <1>4, <1>10

\* The balances of accounts, together, are all that there is of them.
LEMMA BalancesAre ==
  ASSUME TableType, NEW accounts \in SUBSET Account, NEW currency
  PROVE  /\ Drawn!Sum(Drawn!balancesByAccount, {a \in accounts : CurrencyOf[a] = currency})
              = Drawn!Sum(Amounts, Drawn!In(Drawn!Of(accounts), currency))
         /\ \A a \in Account : Drawn!balancesByAccount[a] = Drawn!Sum(Amounts, Drawn!Of({a}))
<1> DEFINE K == {a \in accounts : CurrencyOf[a] = currency}
           key == [i \in Live |-> table[i].account]
           parts == Drawn!balancesByAccount
           slice == [a \in K |-> Drawn!Of({a})]
           W == Drawn!In(Drawn!Of(accounts), currency)
<1>1. IsFiniteSet(K)
  <2>1. IsFiniteSet(Account)
    BY ChartsAssumption DEF Drawn!ChartsAssumption, Drawn!IsFiniteSet, IsFiniteSet
  <2>2. K \in SUBSET Account
    OBVIOUS
  <2>3. QED
    BY <2>1, <2>2, FS_Subset
<1>2. ASSUME NEW a \in Account
      PROVE  /\ parts[a] = Drawn!Sum(Amounts, Drawn!Of({a}))
             /\ Drawn!Of({a}) = {i \in Live : key[i] = a}
  <2>1. parts[a] = Drawn!Net(Drawn!Of({a}))
    BY DEF Drawn!balancesByAccount
  <2>2. Drawn!Of({a}) = {i \in Live : table[i].account \in {a}}
    BY LiveIs
  <2>3. Drawn!Of({a}) \in SUBSET Live
    BY <2>2
  <2>4. QED
    BY <2>1, <2>2, <2>3, NetIs
<1>3. /\ slice \in [K -> SUBSET Live] /\ \A a \in K : \A i \in Live : i \in slice[a] <=> key[i] = a
      /\ \A a \in K : parts[a] = Drawn!Sum(Amounts, slice[a])
  BY <1>2
<1>4. W \in SUBSET Live /\ \A i \in Live : i \in W <=> key[i] \in K
  <2>1. Drawn!Of(accounts) = {i \in Live : table[i].account \in accounts}
    BY LiveIs
  <2>2. QED
    BY <2>1 DEF Drawn!In
<1>5. Adds(Amounts, Live)
  BY LiveIs
<1> HIDE DEF K, key, parts, slice, W
<1>6. Drawn!Sum(parts, K) = Drawn!Sum(Amounts, W)
  BY <1>1, <1>3, <1>4, <1>5, SumOfParts
<1>7. QED
  BY <1>2, <1>6 DEF K, parts, W

\* Of one account, all that there is is of its currency.
LEMMA OneCurrency ==
  ASSUME TableType, NEW a \in Account,
         NEW currency \in {CurrencyOf[table[i].account] : i \in Drawn!Of({a})}
  PROVE  Drawn!In(Drawn!Of({a}), currency) = Drawn!Of({a})
<1>1. Drawn!Of({a}) = {i \in Live : table[i].account \in {a}}
  BY LiveIs
<1>2. QED
  BY <1>1 DEF Drawn!In

-----------------------------------------------------------------------------
(* A distribution.                                                         *)

Groupings == {"month", "quarter", "year", ALL}

\* The axis of some operations keeps their periods that the axis of more keeps.
LEMMA OwnAxisKeeps ==
  ASSUME TableType, NEW ids \in SUBSET Live, NEW own \in SUBSET ids,
         NEW grouping \in Groupings, NEW i \in own,
         Drawn!PeriodOf(i, grouping) \in Drawn!Axis(ids, grouping)
  PROVE  Drawn!PeriodOf(i, grouping) \in Drawn!Axis(own, grouping)
<1>1. CASE grouping = ALL
  BY <1>1 DEF Drawn!PeriodOf, Drawn!Axis
<1>2. CASE grouping # ALL
  <2> DEFINE step == Drawn!Step(grouping)
             starts(A) == {Drawn!PeriodOf(k, grouping) : k \in A}
             kept(A) == Drawn!fillPeriodGaps(Drawn!Min(starts(A)), Drawn!Max(starts(A)), grouping)
  <2>1. grouping \in {"month", "quarter", "year"}
    BY <1>2 DEF Groupings
  <2>2. step \in {1, 3, 12}
    BY <2>1, StepIs
  <2>3. ASSUME NEW k \in ids PROVE \E q \in Nat : Drawn!PeriodOf(k, grouping) = step * q
    <3>1. Drawn!PeriodOf(k, grouping) = Drawn!periodStart(table[k].month, grouping)
      BY <1>2 DEF Drawn!PeriodOf
    <3>2. table[k].month \in Nat
      BY LiveIs
    <3>3. PICK m \in Nat : m = table[k].month
      BY <3>2
    <3>4. \E q \in Nat : Drawn!periodStart(m, grouping) = Drawn!Step(grouping) * q
      BY <2>1, StartsAtStep
    <3>5. QED
      BY <3>1, <3>3, <3>4
  <2>4. Drawn!Axis(ids, grouping) = kept(ids) /\ Drawn!Axis(own, grouping) = kept(own)
    BY <1>2 DEF Drawn!Axis
  <2> HIDE DEF step
  <2>5. ASSUME NEW A \in SUBSET ids, A # {}
        PROVE  /\ \E k \in A : Drawn!Min(starts(A)) = Drawn!PeriodOf(k, grouping)
               /\ \E k \in A : Drawn!Max(starts(A)) = Drawn!PeriodOf(k, grouping)
               /\ \A k \in A : /\ Drawn!Min(starts(A)) <= Drawn!PeriodOf(k, grouping)
                               /\ Drawn!PeriodOf(k, grouping) <= Drawn!Max(starts(A))
    <3> DEFINE T == starts(A)
               startOf == [k \in A |-> Drawn!PeriodOf(k, grouping)]
    <3>1. \A s : s \in T <=> \E k \in A : s = startOf[k]
      OBVIOUS
    <3>2. IsFiniteSet(A)
      BY LiveIs, <2>5, FS_Subset
    <3>3. IsFiniteSet(T)
      <4> HIDE DEF T, startOf
      <4>1. QED
        BY <3>1, <3>2, ImagesAreFinite
    <3>4. T \in SUBSET Int
      <4>1. \A k \in A : Drawn!PeriodOf(k, grouping) \in Int
        BY <2>2, <2>3, <2>5
      <4>2. QED
        BY <4>1
    <3>5. T # {}
      BY <2>5
    <3>6. /\ Drawn!Max(T) \in T /\ \A s \in T : s <= Drawn!Max(T)
          /\ Drawn!Min(T) \in T /\ \A s \in T : Drawn!Min(T) <= s
      <4> HIDE DEF T
      <4>1. QED
        BY <3>3, <3>4, <3>5, MostIs
    <3>7. QED
      BY <3>6
  <2> HIDE DEF starts
  <2>6. PICK a \in Nat, b \in Nat :
          Drawn!Min(starts(ids)) = step * a /\ Drawn!Max(starts(ids)) = step * b
    BY <2>3, <2>5
  <2>7. PICK c \in Nat, d \in Nat :
          Drawn!Min(starts(own)) = step * c /\ Drawn!Max(starts(own)) = step * d
    BY <2>3, <2>5
  <2>8. PICK q \in Nat : Drawn!PeriodOf(i, grouping) = step * q
    BY <2>3
  <2>9. step * c <= step * q /\ step * q <= step * d
    BY <2>5, <2>7, <2>8
  <2>10. step * a <= step * c /\ step * d <= step * b
    BY <2>5, <2>6, <2>7
  <2>11. a <= c /\ d <= b /\ c <= q /\ q <= d
    BY <2>2, <2>9, <2>10
  <2>12. FirstKept(a, b) <= q
    <3>1. step * q \in Drawn!fillPeriodGaps(step * a, step * b, grouping)
      BY <2>4, <2>6, <2>8
    <3>2. QED
      BY <2>1, <3>1, AxisKeeps DEF step
  <2>13. FirstKept(c, d) <= q
    BY <2>11, <2>12, NarrowerKeeps
  <2>14. step * q \in Drawn!fillPeriodGaps(step * c, step * d, grouping)
    BY <2>1, <2>11, <2>13, AxisKeeps DEF step
  <2>15. QED
    BY <2>4, <2>7, <2>8, <2>14
<1>3. QED
  BY <1>1, <1>2

\* What the labels have in a period, together.
Together(labels, period) ==
  Drawn!Sum([l \in DOMAIN labels |-> IF period \in DOMAIN labels[l] THEN labels[l][period] ELSE 0],
            DOMAIN labels)

\* Whatever the labels of a series, its amounts are the sums of theirs.
LEMMA LabelsAddUp ==
  ASSUME TableType, NEW own \in SUBSET Live,
         NEW side \in {"credit", "debit"}, NEW top, NEW grouping, NEW period,
         \A i \in own : Drawn!PeriodOf(i, grouping) = period
                         => period \in Drawn!Axis(own, grouping)
  PROVE  LET labels == Drawn!assembleLabelSeries(own, side, top,
                                                 Drawn!Axis(own, grouping), grouping)
         IN Drawn!Amount(own, side, period, grouping) = Together(labels, period)
<1> DEFINE axis == Drawn!Axis(own, grouping)
           labels == Drawn!assembleLabelSeries(own, side, top, axis, grouping)
           Resolved(i) == Drawn!resolveLabel(table[i].label, top)
           labelled(l) == {i \in own : Drawn!SideOf(i) = side /\ Resolved(i) = l}
           names == {l \in top \cup {Other} : labelled(l) # {}}
           f == Signed(side)
           those == {i \in own : Drawn!SideOf(i) = side /\ Drawn!PeriodOf(i, grouping) = period}
           thoseOf(l) == {i \in those : Resolved(i) = l}
           sums == [l \in DOMAIN labels |->
                      IF period \in DOMAIN labels[l] THEN labels[l][period] ELSE 0]
<1>1. labels = [l \in names |-> [p \in axis |-> Drawn!Amount(labelled(l), side, p, grouping)]]
  BY DEF Drawn!assembleLabelSeries
<1> HIDE DEF labels
<1>2. /\ DOMAIN labels = names
      /\ \A l \in names :
           sums[l] = IF period \in axis
                     THEN Drawn!Amount(labelled(l), side, period, grouping) ELSE 0
  <2> HIDE DEF axis, names, labelled
  <2>1. DOMAIN labels = names
    BY <1>1
  <2>2. \A l \in names :
          /\ DOMAIN labels[l] = axis
          /\ period \in axis
               => labels[l][period] = Drawn!Amount(labelled(l), side, period, grouping)
    BY <1>1
  <2>3. \A l \in names :
          sums[l] = IF period \in DOMAIN labels[l] THEN labels[l][period] ELSE 0
    BY <2>1
  <2> HIDE DEF sums
  <2>4. QED
    BY <2>1, <2>2, <2>3
<1>3. own \in SUBSET Live /\ those \in SUBSET own /\ Adds(f, Live)
  BY LiveIs
<1>4. \A i \in own : Resolved(i) \in top \cup {Other}
  BY DEF Drawn!resolveLabel
<1>5. \A i \in those : Resolved(i) \in names
  BY <1>4
<1>6. IsFiniteSet(names)
  <2> DEFINE sided == {i \in own : Drawn!SideOf(i) = side}
             nameOf == [i \in sided |-> Resolved(i)]
  <2>1. \A l : l \in names <=> \E i \in sided : l = nameOf[i]
    BY <1>4
  <2>2. sided \in SUBSET Live
    BY <1>3
  <2> HIDE DEF sided, nameOf, names
  <2>3. IsFiniteSet(sided)
    BY <2>2, LiveIs, FS_Subset
  <2>4. QED
    BY <2>1, <2>3, ImagesAreFinite
<1>7. ASSUME NEW l \in names PROVE sums[l] = Drawn!Sum(f, thoseOf(l))
  <2>1. CASE period \in axis
    <3> DEFINE A == labelled(l)
               here == {i \in A : Drawn!SideOf(i) = side /\ Drawn!PeriodOf(i, grouping) = period}
    <3>1. A \in SUBSET Live
      BY <1>3
    <3>2. here = thoseOf(l)
      OBVIOUS
    <3>3. sums[l] = Drawn!Amount(A, side, period, grouping)
      BY <1>2, <2>1
    <3> HIDE DEF A, sums, f
    <3>4. Drawn!Amount(A, side, period, grouping) = Drawn!Sum(Signed(side), here)
      BY <3>1, AmountIs
    <3>5. QED
      BY <3>2, <3>3, <3>4 DEF f
  <2>2. CASE period \notin axis
    <3>1. thoseOf(l) = {}
      BY <2>2
    <3>2. sums[l] = 0
      BY <1>2, <2>2
    <3>3. Adds(f, thoseOf(l))
      BY <3>1, FS_EmptySet DEF Adds
    <3> HIDE DEF thoseOf
    <3>4. Drawn!Sum(f, thoseOf(l)) = 0
      BY <3>1, <3>3, SumIs
    <3>5. QED
      BY <3>2, <3>4
  <2>3. QED
    BY <2>1, <2>2
<1>8. Drawn!Amount(own, side, period, grouping) = Drawn!Sum(f, those)
  BY <1>3, AmountIs
<1> DEFINE key == [i \in those |-> Resolved(i)]
           slice == [l \in names |-> thoseOf(l)]
<1>9. /\ slice \in [names -> SUBSET those]
      /\ \A l \in names : \A i \in those : i \in slice[l] <=> key[i] = l
      /\ \A i \in those : key[i] \in names
      /\ \A l \in names : sums[l] = Drawn!Sum(f, slice[l])
  BY <1>5, <1>7
<1>10. Adds(f, those)
  BY <1>3, FS_Subset DEF Adds
<1>11. Drawn!Sum(sums, names) = Drawn!Sum(f, those)
  <2> HIDE DEF names, those, slice, key, sums, f
  <2>1. those \in SUBSET those /\ \A i \in those : i \in those <=> key[i] \in names
    BY <1>9
  <2>2. QED
    BY <1>6, <1>9, <1>10, <2>1, SumOfParts
<1>12. QED
  <2>1. Drawn!Sum(sums, DOMAIN labels) = Together(labels, period)
    BY DEF Together
  <2> HIDE DEF sums, names, those
  <2>2. Drawn!Amount(own, side, period, grouping) = Together(labels, period)
    BY <1>2, <1>8, <1>11, <2>1
  <2>3. QED
    BY <2>2 DEF labels

\* The labels of a distribution add up to the series of the same operations.
LEMMA DistributionIsSeries ==
  ASSUME TableType, NEW report \in Report, NEW accounts, NEW tops, NEW lines,
         lines = Drawn!computeDistribution(report, accounts, tops)
  PROVE  LET series == Drawn!computeSeries(report, accounts) IN
         \A currency \in DOMAIN series, side \in Drawn!Side :
           LET labels == lines[currency][side]
               amounts == series[currency][side]
           IN \A period \in DOMAIN amounts :
                amounts[period] = Together(labels, period)
<1> DEFINE ids == Drawn!Of(accounts)
           grouping == report.grouping
           currencies == {CurrencyOf[table[i].account] : i \in ids}
           series == Drawn!computeSeries(report, accounts)
<1>1. ids \in SUBSET Live
  BY LiveIs
<1>2. grouping \in Groupings
  BY ChartsAssumption DEF Drawn!ChartsAssumption, Groupings
<1>3. DOMAIN series = currencies
  BY DEF Drawn!computeSeries
<1>4. ASSUME NEW currency \in currencies, NEW side \in Drawn!Side
      PROVE  LET labels == lines[currency][side]
                 amounts == series[currency][side]
             IN \A period \in DOMAIN amounts :
                  amounts[period] = Together(labels, period)
  <2> DEFINE own == Drawn!In(ids, currency)
             top == tops[currency][side]
             labels == lines[currency][side]
             amounts == series[currency][side]
  <2>1. labels = Drawn!assembleLabelSeries(own, side, top, Drawn!Axis(own, grouping), grouping)
    BY <1>4 DEF Drawn!computeDistribution
  <2>2. amounts = [period \in Drawn!Axis(ids, grouping) |->
                     Drawn!Amount(own, side, period, grouping)]
    BY <1>4 DEF Drawn!computeSeries
  <2>3. own \in SUBSET ids
    BY DEF Drawn!In
  <2>4. side \in {"credit", "debit"}
    BY <1>4 DEF Drawn!Side
  <2> HIDE DEF ids, own, top, labels, amounts, grouping
  <2>5. ASSUME NEW period \in DOMAIN amounts
        PROVE  amounts[period] = Together(labels, period)
    <3>1. /\ period \in Drawn!Axis(ids, grouping)
          /\ amounts[period] = Drawn!Amount(own, side, period, grouping)
      BY <2>2, <2>5
    <3>2. \A i \in own : Drawn!PeriodOf(i, grouping) = period
                           => period \in Drawn!Axis(own, grouping)
      BY <1>1, <1>2, <2>3, <3>1, OwnAxisKeeps
    <3>3. own \in SUBSET Live
      BY <1>1, <2>3
    <3> DEFINE these == Drawn!assembleLabelSeries(own, side, top,
                                                  Drawn!Axis(own, grouping), grouping)
    <3>4. Drawn!Amount(own, side, period, grouping) = Together(these, period)
      BY <2>4, <3>2, <3>3, LabelsAddUp
    <3>5. QED
      BY <2>1, <3>1, <3>4
  <2>6. QED
    BY <2>5 DEF labels, amounts
<1> HIDE DEF series
<1>5. QED
  BY <1>3, <1>4 DEF series

-----------------------------------------------------------------------------
(* The invariant.                                                          *)

\* What an answer keeps between its two reads.
ChartsInv ==
  /\ TableType
  /\ chart = "months" => seen.accounts \in SUBSET Account /\ asked \in Window
  /\ chart = "periods" => asked \in Report

LEMMA ChartsInitial == Drawn!Init => ChartsInv
BY DEF Drawn!Init, ChartsInv, TableType

LEMMA ChartsStep == ChartsInv /\ [Drawn!Next]_(Drawn!vars) => ChartsInv'
<1> SUFFICES ASSUME ChartsInv, [Drawn!Next]_(Drawn!vars) PROVE ChartsInv'
  OBVIOUS
<1> USE DEF ChartsInv, TableType
<1>1. ASSUME NEW window \in Window, Drawn!ReadBalances(window) PROVE ChartsInv'
  BY <1>1 DEF Drawn!ReadBalances
<1>2. CASE Drawn!ReadMonths
  BY <1>2 DEF Drawn!ReadMonths
<1>3. ASSUME NEW report \in Report, Drawn!DrawSeries(report) PROVE ChartsInv'
  BY <1>3 DEF Drawn!DrawSeries
<1>4. ASSUME NEW report \in Report, Drawn!RankLabels(report) PROVE ChartsInv'
  BY <1>4 DEF Drawn!RankLabels
<1>5. CASE Drawn!ReadPeriods
  BY <1>5 DEF Drawn!ReadPeriods
<1>6. CASE Drawn!Write
  BY <1>6 DEF Drawn!Write
<1>7. CASE UNCHANGED Drawn!vars
  BY <1>7 DEF Drawn!vars
<1>8. QED
  BY <1>1, <1>2, <1>3, <1>4, <1>5, <1>6, <1>7 DEF Drawn!Next

\* Only the second read of the dashboard draws its charts.
LEMMA ChartsEndAtBalance ==
  ASSUME ChartsInv, Drawn!Next
  PROVE  Drawn!EndsAtBalance
<1> SUFFICES ASSUME chart' = "drawn" PROVE Drawn!EndsAtBalance
  BY DEF Drawn!EndsAtBalance
<1>1. Drawn!ReadMonths
  BY DEF Drawn!Next, Drawn!ReadBalances, Drawn!DrawSeries, Drawn!RankLabels, Drawn!ReadPeriods,
         Drawn!Write
<1>2. /\ TableType /\ seen.accounts \in SUBSET Account
      /\ asked \in (Nat \ {0}) \cup {ALL} /\ 12 \in (Nat \ {0}) \cup {ALL}
  <2>1. Window \subseteq (Nat \ {0}) \cup {ALL}
    BY ChartsAssumption DEF Drawn!ChartsAssumption
  <2>2. TableType /\ seen.accounts \in SUBSET Account /\ asked \in Window
    BY <1>1 DEF ChartsInv, Drawn!ReadMonths
  <2>3. QED
    BY <2>1, <2>2
<1>3. /\ answer'.all = Drawn!computeSynthesisChart(seen.accounts, asked)
      /\ \A a \in seen.accounts : answer'.own[a] = Drawn!computeSynthesisChart({a}, 12)
  BY <1>1 DEF Drawn!ReadMonths
<1>4. ASSUME NEW currency \in DOMAIN answer'.all
      PROVE  LET points == answer'.all[currency] IN
             points[Drawn!Max(DOMAIN points)]
               = Drawn!Sum(Drawn!balancesByAccount,
                           {a \in seen.accounts : CurrencyOf[a] = currency})
  <2>1. LET points == Drawn!computeSynthesisChart(seen.accounts, asked)[currency] IN
        points[Drawn!Max(DOMAIN points)]
          = Drawn!Sum(Amounts, Drawn!In(Drawn!Of(seen.accounts), currency))
    BY <1>2, <1>3, <1>4, ChartEnds
  <2>2. Drawn!Sum(Drawn!balancesByAccount, {a \in seen.accounts : CurrencyOf[a] = currency})
          = Drawn!Sum(Amounts, Drawn!In(Drawn!Of(seen.accounts), currency))
    BY <1>2, BalancesAre
  <2>3. QED
    BY <1>3, <2>1, <2>2
<1>5. ASSUME NEW a \in seen.accounts, NEW currency \in DOMAIN answer'.own[a]
      PROVE  LET points == answer'.own[a][currency] IN
             points[Drawn!Max(DOMAIN points)] = Drawn!balancesByAccount[a]
  <2>1. a \in Account
    BY <1>2
  <2>2. /\ currency \in {CurrencyOf[table[i].account] : i \in Drawn!Of({a})}
        /\ LET points == Drawn!computeSynthesisChart({a}, 12)[currency] IN
           points[Drawn!Max(DOMAIN points)]
             = Drawn!Sum(Amounts, Drawn!In(Drawn!Of({a}), currency))
    BY <1>2, <1>3, <1>5, ChartEnds
  <2>3. Drawn!In(Drawn!Of({a}), currency) = Drawn!Of({a})
    BY <1>2, <2>1, <2>2, OneCurrency
  <2>4. Drawn!balancesByAccount[a] = Drawn!Sum(Amounts, Drawn!Of({a}))
    BY <1>2, <2>1, BalancesAre
  <2>5. QED
    BY <1>3, <2>2, <2>3, <2>4
<1>6. QED
  BY <1>4, <1>5 DEF Drawn!EndsAtBalance

LEMMA AnswerAddsUp ==
  ASSUME TableType, NEW report \in Report, NEW accounts, NEW tops,
         answer' = Drawn!computeDistribution(report, accounts, tops),
         asked' = report, seen'.accounts = accounts
  PROVE  Drawn!AddsUp
<1> DEFINE lines == Drawn!computeDistribution(report, accounts, tops)
           series == Drawn!computeSeries(report, accounts)
<1>1. \A currency \in DOMAIN series, side \in Drawn!Side :
        LET labels == lines[currency][side]
            amounts == series[currency][side]
        IN \A period \in DOMAIN amounts :
             amounts[period] = Together(labels, period)
  BY DistributionIsSeries
<1>2. lines = answer' /\ series = Drawn!computeSeries(asked', seen'.accounts)
  OBVIOUS
<1> HIDE DEF lines, series
<1>3. QED
  BY <1>1, <1>2 DEF Drawn!AddsUp, Together

\* A distribution is answered by its first read, or by its second.
LEMMA DistributionsAddUp ==
  ASSUME ChartsInv, Drawn!Next
  PROVE  Drawn!AddsUp
<1> SUFFICES ASSUME chart' = "distribution" PROVE Drawn!AddsUp
  BY DEF Drawn!AddsUp
<1>1. ASSUME NEW report \in Report, Drawn!RankLabels(report) PROVE Drawn!AddsUp
  <2> DEFINE accounts == Drawn!effectiveAccounts(report)
             tops == Drawn!Ranks(report, accounts)
  <2>1. /\ answer' = Drawn!computeDistribution(report, accounts, tops)
        /\ asked' = report /\ seen'.accounts = accounts
    BY <1>1 DEF Drawn!RankLabels
  <2> HIDE DEF accounts, tops
  <2>2. QED
    BY <2>1, AnswerAddsUp DEF ChartsInv
<1>2. CASE Drawn!ReadPeriods
  <2>1. /\ answer' = Drawn!computeDistribution(asked, seen.accounts, seen.tops)
        /\ asked' = asked /\ seen'.accounts = seen.accounts /\ asked \in Report
    BY <1>2 DEF Drawn!ReadPeriods, ChartsInv
  <2>2. QED
    BY <2>1, AnswerAddsUp DEF ChartsInv
<1>3. QED
  BY <1>1, <1>2
     DEF Drawn!Next, Drawn!ReadBalances, Drawn!DrawSeries, Drawn!ReadMonths, Drawn!Write

LEMMA ChartsInvariant == ServicesSpec => [](part = "charts" => ChartsInv)
<1> DEFINE PartInv == part = "charts" => ChartsInv
<1>1. ServicesInit => PartInv
  BY ChartsInitial DEF ServicesInit
<1>2. PartInv /\ [ServicesNext]_servicesVars => PartInv'
  BY OneAtWork, ChartsStep
<1>3. QED
  BY <1>1, <1>2, PTL DEF ServicesSpec

LEMMA ChartsAtWork == part = "charts" /\ ServicesNext => Drawn!Next
BY DEF ServicesNext, CreateAndRemove, RegisterAndChange, Throttle, Hold, Occur, MatchAndImport,
       Draw, At

\* Every chart of the dashboard ends at the balance that its accounts have when
\* it is read, for any operations, accounts and currencies, any window, and
\* wherever the ceiling of periods cuts it: what comes before the axis is in
\* every balance of it, and nothing comes after (synthesis-chart.ts:81).
THEOREM ChartsAlwaysEndAtBalance == ServicesSpec => ChartEndsAtBalance
<1>1. (part = "charts" => ChartsInv) /\ [ServicesNext]_servicesVars
        => [part = "charts" => Drawn!EndsAtBalance]_servicesVars
  BY ChartsAtWork, ChartsEndAtBalance
<1>2. QED
  BY <1>1, ChartsInvariant, PTL DEF ServicesSpec, ChartEndsAtBalance

\* The labels of every distribution, with the others, add up to the series of
\* the same report, period by period and side by side, for any operations,
\* reports, limits and ceiling, and whatever is written between the two reads:
\* each amount is under one label exactly, whichever labels come first, and the
\* axis of a currency leaves out no period of its own that the axis of all of
\* them keeps (report-distribution.service.ts:202).
THEOREM DistributionsAlwaysAddUp == ServicesSpec => DistributionAddsUp
<1>1. (part = "charts" => ChartsInv) /\ [ServicesNext]_servicesVars
        => [part = "charts" => Drawn!AddsUp]_servicesVars
  BY ChartsAtWork, DistributionsAddUp
<1>2. QED
  BY <1>1, ChartsInvariant, PTL DEF ServicesSpec, DistributionAddsUp
=============================================================================
