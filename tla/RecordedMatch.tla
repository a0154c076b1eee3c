--------------------------- MODULE RecordedMatch ---------------------------
(***************************************************************************)
(* Which operation of the account each row of a bank file matches, and     *)
(* what an import of the file makes of the account, one import after       *)
(* another.  Rows are taken in the order of the file, operations in that   *)
(* of their ids, and an operation is matched by one row at most: first by  *)
(* the bank's reference, then by exact details, then by details a few days *)
(* apart, then as the other side of a transfer.                            *)
(*                                                                         *)
(* An amount stands for a side and an amount, a name for a normalized      *)
(* third party, a label for the file's own (NULL: none), a date for a      *)
(* number of days.                                                         *)
(***************************************************************************)
EXTENDS Integers, Sequences

CONSTANTS
  Row,        \* rows a file may hold: [date, amount, name, label, reference, transfer]
  Operation,  \* operations the account may hold: a row's fields and reconciled
  NewName,    \* a name that the Member gives operations
  MaxRows, MaxRecorded, MaxImports,  \* bounds
  NULL

VARIABLES
  rows,      \* the rows of the file
  recorded,  \* the account's operations
  imports,   \* how often the file has been imported
  entered,   \* the rows that became an operation
  adopted    \* the rows whose label and reference an operation took

vars == <<rows, recorded, imports, entered, adopted>>

MatchAssumption ==
  /\ \A r \in Row : r.date \in Int
  /\ \A o \in Operation :
       /\ o.date \in Int
       /\ o = [date |-> o.date, amount |-> o.amount, name |-> o.name, label |-> o.label,
               reference |-> o.reference, transfer |-> o.transfer, reconciled |-> o.reconciled]
  /\ MaxRows \in Nat /\ MaxRecorded \in Nat

TRANSFER_DATE_TOLERANCE_DAYS == 3
DETAILS_DATE_TOLERANCE_DAYS == 2
REFERENCE_DATE_TOLERANCE_DAYS == 31

-----------------------------------------------------------------------------
(* The rules: does operation o match row r?                                *)

Gap(r, o) == IF r.date < o.date THEN o.date - r.date ELSE r.date - o.date

SameReference(r, o) ==
  /\ r.reference # NULL /\ o.reference = r.reference /\ o.amount = r.amount
  /\ Gap(r, o) <= REFERENCE_DATE_TOLERANCE_DAYS

SameName(r, o) == o.amount = r.amount /\ o.name = r.name
SameLabel(r, o) == o.amount = r.amount /\ r.label # NULL /\ o.label = r.label

Typed(o) == ~o.reconciled /\ o.reference = NULL

SameDetails(r, o) == SameName(r, o) \/ SameLabel(r, o)

SameDay(r, o) == o.date = r.date /\ SameDetails(r, o)

Nearby(r, o) == Typed(o) /\ SameDetails(r, o) /\ Gap(r, o) <= DETAILS_DATE_TOLERANCE_DAYS

OtherSide(r, o) ==
  /\ r.transfer /\ o.transfer /\ o.amount = r.amount
  /\ o.reference = NULL /\ o.label = NULL
  /\ Gap(r, o) <= TRANSFER_DATE_TOLERANCE_DAYS

-----------------------------------------------------------------------------
(* The matching: the index of each row's operation, 0 for none.            *)

First(S) == IF S = {} THEN 0 ELSE CHOOSE j \in S : \A k \in S : j <= k

\* Mutant: an operation may be taken twice.
AnyOf(ops, matched) == DOMAIN ops

Free(ops, matched) == {j \in DOMAIN ops : \A i \in DOMAIN matched : matched[i] # j}

\* Operations are grouped by date and amount, groups in order of their first.
GroupOf(ops, j) == First({k \in DOMAIN ops : ops[k].date = ops[j].date /\ ops[k].amount = ops[j].amount})

Closest(r, ops, S) == {j \in S : \A k \in S : Gap(r, ops[j]) <= Gap(r, ops[k])}

TakeByReference(r, ops, free) == First({j \in free : SameReference(r, ops[j])})

TakeByDetails(r, ops, free) ==
  LET sameDay == {j \in free : SameDay(r, ops[j])}
      named == {j \in sameDay : SameName(r, ops[j])}
  IN First(IF named # {} THEN named ELSE sameDay)

TakeNearby(r, ops, free) == First(Closest(r, ops, {j \in free : Nearby(r, ops[j])}))

TakeOtherSide(r, ops, free) ==
  LET closest == Closest(r, ops, {j \in free : OtherSide(r, ops[j])})
      group == First({GroupOf(ops, j) : j \in closest})
  IN First({j \in closest : GroupOf(ops, j) = group})

Take(rule, r, ops, free) ==
  CASE rule = "reference" -> TakeByReference(r, ops, free)
    [] rule = "details" -> TakeByDetails(r, ops, free)
    [] rule = "nearby" -> TakeNearby(r, ops, free)
    [] rule = "transfer" -> TakeOtherSide(r, ops, free)

\* Row i takes an operation by a rule, unless it has one.
TakeOne(rule, file, ops, matched, i) ==
  IF matched[i] # 0 THEN matched
  ELSE [matched EXCEPT ![i] = Take(rule, file[i], ops, Free(ops, matched))]

\* One pass over the file: what is matched once n rows have taken theirs.
Pass(rule, file, ops, before) ==
  LET matched[n \in 0 .. Len(file)] ==
        IF n = 0 THEN before ELSE TakeOne(rule, file, ops, matched[n - 1], n)
  IN matched

None(file) == [i \in DOMAIN file |-> 0]

ByReference(file, ops) == Pass("reference", file, ops, None(file))[Len(file)]

\* Mutant: details are looked at before references.
DetailsFirst(file, ops) ==
  LET byDetails == Pass("details", file, ops, None(file))[Len(file)]
      byReference == Pass("reference", file, ops, byDetails)[Len(file)]
  IN Pass("nearby", file, ops, byReference)[Len(file)]

\* The rows that an operation's own reference or details match.
Described(file, ops) ==
  LET byDetails == Pass("details", file, ops, ByReference(file, ops))[Len(file)]
  IN Pass("nearby", file, ops, byDetails)[Len(file)]

markRecorded(file, ops) == Pass("transfer", file, ops, Described(file, ops))[Len(file)]

-----------------------------------------------------------------------------
(* Imports of the file.                                                    *)

Init ==
  /\ rows \in UNION {[1 .. n -> Row] : n \in 1 .. MaxRows}
  /\ recorded \in UNION {[1 .. n -> Operation] : n \in 0 .. MaxRecorded}
  /\ imports = 0 /\ entered = {} /\ adopted = {}

\* Mutant: the operation forgets the label of the file.
RecordedNoLabel(r, flag) ==
  [date |-> r.date, amount |-> r.amount, name |-> r.name, label |-> NULL,
   reference |-> r.reference, transfer |-> r.transfer, reconciled |-> flag]

RecordedAs(r, flag) ==
  [date |-> r.date, amount |-> r.amount, name |-> r.name, label |-> r.label,
   reference |-> r.reference, transfer |-> r.transfer, reconciled |-> flag]

\* Operation o, reconciled by row r; the other side of a transfer takes the
\* identity of its row.
Reconciled(o, r, isOtherSide) ==
  IF isOtherSide
  THEN [o EXCEPT !.reconciled = TRUE, !.reference = r.reference, !.label = r.label]
  ELSE [o EXCEPT !.reconciled = TRUE]

\* The account's operations once those of the first n rows are inserted.
Inserted(ops, toImport, flag) ==
  LET after[n \in 0 .. Len(rows)] ==
        IF n = 0 THEN ops
        ELSE IF n \in toImport THEN Append(after[n - 1], RecordedAs(rows[n], flag))
        ELSE after[n - 1]
  IN after

\* The rows that match nothing are recorded, with those that the Member
\* includes all the same; of the others, the Member picks which to reconcile.
Import(included, picked, flag) ==
  LET matched == markRecorded(rows, recorded)
      skipped == {i \in DOMAIN rows : matched[i] # 0}
      otherSides == {i \in skipped : Described(rows, recorded)[i] = 0}
      reconciles == {i \in picked \ included : ~recorded[matched[i]].reconciled}
      kept == [j \in DOMAIN recorded |->
                 IF \E i \in reconciles : matched[i] = j
                 THEN LET i == CHOOSE i \in reconciles : matched[i] = j
                      IN Reconciled(recorded[j], rows[i], i \in otherSides)
                 ELSE recorded[j]]
      toImport == {i \in DOMAIN rows : i \notin skipped \/ i \in included}
  IN
  /\ included \subseteq skipped /\ picked \subseteq skipped
  /\ imports < MaxImports /\ imports' = imports + 1
  /\ recorded' = Inserted(kept, toImport, flag)[Len(rows)]
  /\ entered' = entered \cup toImport
  /\ adopted' = adopted \cup (reconciles \cap otherSides)
  /\ UNCHANGED rows

\* The Member gives an operation another third party.
Rename(j) ==
  /\ imports > 0 /\ recorded[j].name # NewName
  /\ recorded' = [recorded EXCEPT ![j].name = NewName]
  /\ UNCHANGED <<rows, imports, entered, adopted>>

Next ==
  \/ \E included, picked \in SUBSET DOMAIN rows, flag \in BOOLEAN : Import(included, picked, flag)
  \/ \E j \in DOMAIN recorded : Rename(j)

Spec == Init /\ [][Next]_vars

-----------------------------------------------------------------------------
(* Properties.                                                             *)

\* n rows against m operations that describe them skip as many as they can: no
\* row is left to import while some operation that could match it, by any of
\* the rules, is left too; and no operation is taken twice
\* (recorded-match.ts:81).
EachTakenOnce ==
  LET matched == markRecorded(rows, recorded) IN
  /\ \A i, k \in DOMAIN rows : matched[i] = matched[k] /\ matched[i] # 0 => i = k
  /\ \A i \in DOMAIN rows, j \in Free(recorded, matched) :
       matched[i] = 0 =>
         LET r == rows[i] IN LET o == recorded[j] IN
         ~ (SameReference(r, o) \/ SameDay(r, o) \/ Nearby(r, o) \/ OtherSide(r, o))

\* No row robs another of the operation that carries its bank reference
\* (recorded-match.ts:77).
ReferencesComeFirst ==
  LET matched == markRecorded(rows, recorded) IN
  \A i, k \in DOMAIN rows :
    matched[k] # 0 /\ SameReference(rows[i], recorded[matched[k]]) /\ matched[i] = 0
      => SameReference(rows[k], recorded[matched[k]])

\* Row s could be taken for row r, or for its operation once renamed.
Twins(r, s) ==
  /\ r.amount = s.amount
  /\ \/ s.name \in {r.name, NewName}
     \/ s.label # NULL /\ s.label = r.label
     \/ s.reference # NULL /\ s.reference = r.reference

\* Row i has something that no other row of the file has.
Alone(i) ==
  /\ rows[i].label # NULL \/ rows[i].reference # NULL
  /\ \A k \in DOMAIN rows \ {i} : ~Twins(rows[i], rows[k])

\* A file imported once is imported: a row that became an operation, or that
\* gave one its bank reference, is skipped the next time, whatever the Member
\* called it since (import.matching.integration-spec.ts:63).
ImportedOnce ==
  LET matched == markRecorded(rows, recorded) IN
  \A i \in entered \cup {k \in adopted : rows[k].reference # NULL} :
    Alone(i) => matched[i] # 0

\* What a comment says of the other side of a transfer: once it took the
\* reference and the label of its row, "the next import finds it by them"
\* (import.service.ts:246).
AdoptedIsFound ==
  LET matched == markRecorded(rows, recorded) IN
  \A i \in adopted : Alone(i) => matched[i] # 0
=============================================================================
