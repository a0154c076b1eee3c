---------------------------- MODULE ImportProofs ----------------------------
(***************************************************************************)
(* Theorems about the two sides of an import.                              *)
(*                                                                         *)
(* Of ImportConfirm, for any confirmations at once, any uploads, accounts, *)
(* rows and choices, any edits and any failures: types, then               *)
(*                                                                         *)
(*  - a confirmation owns its lock until it outlives it;                   *)
(*  - an outcome that the store holds was recorded;                        *)
(*  - the corrections keep to their quota, since those that a transaction  *)
(*    planned still fit when it writes them, under the advisory lock;      *)
(*  - no row is recorded beside its own operation, or unasked beside one   *)
(*    that describes it, since a transaction has its account to itself,    *)
(*    and still finds there what its preview showed.                       *)
(*                                                                         *)
(* Of ImportPage, for any uploads, rows, edits and picks, any matches the  *)
(* server finds and any order of the answers: what is confirmed and what   *)
(* is recorded is what the page showed.                                    *)
(***************************************************************************)
EXTENDS Imports, FiniteSetTheorems, SequenceTheorems, TLAPS

\* Where a confirmation may be.
Steps ==
  {"idle", "lock", "look_again", "evaluate", "hold", "labels", "record", "save", "discard",
   "unlock", "done"}

OperationRow ==
  [account : Account, row : Row \cup {NULL}, by : 0 .. MaxPreview, reconciled : BOOLEAN]

\* A preview.
Shown ==
  [import : Import, choice : Choice,
   revision : [corrections : SUBSET Label,
               recorded : UNION {[D -> OperationRow] : D \in SUBSET Operation}]]

\* c confirms a preview.
Asking(c) == pc[c] \notin {"idle", "done"}

\* Every variable has its type, and no operation says that it is of a
\* preview yet to come.
Typed ==
  /\ file \subseteq Import /\ result \subseteq Import /\ applied \subseteq Import
  /\ lock \in [Import -> Client \cup {NULL}] /\ target \in [Import -> Account]
  /\ drawn \in 0 .. MaxOperation /\ DOMAIN operation \subseteq 1 .. drawn
  /\ operation \in [DOMAIN operation -> OperationRow]
  /\ corrections \subseteq Label /\ plan \in [Client -> SUBSET Label]
  /\ previews \in Seq(Shown) /\ Len(previews) <= MaxPreview
  /\ asked \in [Client -> DOMAIN previews \cup {NULL}]
  /\ pc \in [Client -> Steps] /\ seen = [c \in Client |-> seen[c]]
  /\ \A c \in Client : Asking(c) => asked[c] \in DOMAIN previews
  /\ \A o \in DOMAIN operation : operation[o].by <= Len(previews)

LEMMA TypedStarts == Init => Typed
<1> SUFFICES ASSUME Init
             PROVE  Typed
  OBVIOUS
<1>1. PICK n \in 0 .. MaxOperation : operation \in [1 .. n -> Unimported]
  BY ImportAssumption DEF Init
<1>2. DOMAIN operation = 1 .. n /\ n \in Nat /\ MaxOperation \in Nat /\ MaxPreview \in Nat
  BY <1>1, ImportAssumption
<1>3. drawn = n
  BY <1>2, FS_Interval DEF Init
<1>4. Unimported \subseteq OperationRow
  BY <1>2 DEF Unimported, OperationRow
<1>5. operation \in [DOMAIN operation -> OperationRow]
  BY <1>1, <1>2, <1>4
<1>6. \A o \in DOMAIN operation : operation[o].by = 0
  BY <1>1, <1>2 DEF Unimported
<1>7. previews \in Seq(Shown) /\ Len(previews) = 0
  BY EmptySeq DEF Init
<1>8. target \in [Import -> Account]
  BY ImportAssumption DEF Init
<1>9. \A c \in Client : pc[c] = "idle"
  BY DEF Init
<1>10. QED
  BY <1>2, <1>3, <1>5, <1>6, <1>7, <1>8, <1>9 DEF Init, Typed, Asking, Steps

-----------------------------------------------------------------------------
(* What the steps leave alone, and types.                                  *)

LEMMA RowsOf ==
  ASSUME NEW S, IsFiniteSet(S)
  PROVE  SetToSeq(S) \in [1 .. Cardinality(S) -> S] /\ Cardinality(S) \in Nat
<1>1. Cardinality(S) \in Nat /\ ExistsBijection(1 .. Cardinality(S), S)
  BY FS_CardinalityType
<1>2. PICK f : f \in Bijection(1 .. Cardinality(S), S)
  BY <1>1 DEF ExistsBijection
<1>3. f \in [1 .. Cardinality(S) -> S] /\ IsInjective(f)
  BY <1>2 DEF Bijection, Injection, IsInjective
<1>4. QED
  BY <1>1, <1>3 DEF SetToSeq

\* Rows of the statement are imported, of which there are finitely many.
LEMMA ToImportRows ==
  ASSUME NEW recorded, NEW choice
  PROVE  /\ ToImport(recorded, choice) \subseteq Row
         /\ IsFiniteSet(ToImport(recorded, choice))
<1>1. ToImport(recorded, choice) \subseteq Row
  BY DEF ToImport
<1>2. QED
  BY <1>1, FS_Subset, ImportAssumption

LEMMA Numbers ==
  /\ MaxOperation \in Nat /\ MaxPreview \in Nat /\ MaxCorrections \in Nat
  /\ MaxEdits \in Nat /\ MaxFaults \in Nat
BY ImportAssumption

\* A confirmation's preview is one that was shown, of an import.
LEMMA AskedPreview ==
  ASSUME Typed, NEW c \in Client, Asking(c)
  PROVE  /\ asked[c] \in DOMAIN previews /\ previews[asked[c]] \in Shown
         /\ Of(c) \in Import /\ AccountOf(c) \in Account /\ ChoiceOf(c) \in Choice
<1>1. asked[c] \in DOMAIN previews
  BY DEF Typed
<1>2. previews[asked[c]] \in Shown
  BY <1>1, ElementOfSeq, LenProperties DEF Typed
<1>3. QED
  BY <1>1, <1>2 DEF Typed, Shown, Of, AccountOf, ChoiceOf

LEMMA RevisionTyped ==
  ASSUME Typed, NEW i \in Import
  PROVE  Revision(i) \in [corrections : SUBSET Label,
                          recorded : UNION {[D -> OperationRow] : D \in SUBSET Operation}]
<1> DEFINE D == {x \in DOMAIN operation :
                   operation[x].account = target[i] /\ operation[x].row # NULL}
<1>1. D \in SUBSET Operation
  BY Numbers DEF Typed, Operation
<1>2. RecordedAround(target[i]) \in [D -> OperationRow]
  BY DEF RecordedAround, Typed
<1>3. corrections \subseteq Label
  BY DEF Typed
<1>4. QED
  BY <1>1, <1>2, <1>3 DEF Revision

\* Previews are only added.
LEMMA PreviewShown ==
  ASSUME Typed, NEW i \in Import, NEW choice \in Choice, ShowPreview(i, choice)
  PROVE  /\ previews' \in Seq(Shown) /\ Len(previews') = Len(previews) + 1
         /\ Len(previews') <= MaxPreview
         /\ DOMAIN previews \subseteq DOMAIN previews'
         /\ \A p \in DOMAIN previews : previews'[p] = previews[p]
         /\ \A p \in DOMAIN previews' \ DOMAIN previews :
              p = Len(previews') /\ previews'[p].revision = Revision(i)
<1> DEFINE e == [import |-> i, revision |-> Revision(i), choice |-> choice]
<1>1. e \in Shown
  BY RevisionTyped DEF Shown
<1>2. previews \in Seq(Shown) /\ previews' = Append(previews, e) /\ Len(previews) < MaxPreview
  BY DEF Typed, ShowPreview
<1>3. Len(previews) \in Nat /\ DOMAIN previews = 1 .. Len(previews)
  BY <1>2, LenProperties
<1>4. /\ previews' \in Seq(Shown) /\ Len(previews') = Len(previews) + 1
      /\ \A p \in 1 .. Len(previews) : previews'[p] = previews[p]
      /\ previews'[Len(previews) + 1] = e
  BY <1>1, <1>2, AppendProperties
<1>5. DOMAIN previews' = 1 .. Len(previews) + 1
  BY <1>4, LenProperties
<1> HIDE DEF e
<1>6. \A p \in DOMAIN previews' \ DOMAIN previews : p = Len(previews')
  BY <1>3, <1>4, <1>5
<1>7. Len(previews') <= MaxPreview
  BY <1>2, <1>3, <1>4, Numbers
<1>8. QED
  BY <1>3, <1>4, <1>5, <1>6, <1>7 DEF e

\* What a step of a confirmation does with its preview: it keeps it, or ends.
LEMMA StepOwn ==
  ASSUME Typed, NEW c \in Client, Step(c)
  PROVE  /\ Asking(c) /\ UNCHANGED <<target, previews, edits>>
         /\ pc'[c] \in Steps \ {"idle", "lock"}
         /\ \A d \in Client \ {c} :
              /\ pc'[d] = pc[d] /\ asked'[d] = asked[d]
              /\ seen'[d] = seen[d] /\ plan'[d] = plan[d]
         /\ pc' = [pc EXCEPT ![c] = pc'[c]] /\ asked' = [asked EXCEPT ![c] = asked'[c]]
         /\ seen' = [seen EXCEPT ![c] = seen'[c]] /\ plan' = [plan EXCEPT ![c] = plan'[c]]
         /\ \/ asked'[c] = asked[c] /\ pc'[c] # "done"
            \/ asked'[c] = NULL /\ pc'[c] = "done"
<1> DEFINE Own ==
      /\ Asking(c) /\ UNCHANGED <<target, previews, edits>>
      /\ pc'[c] \in Steps \ {"idle", "lock"}
      /\ pc' = [pc EXCEPT ![c] = pc'[c]] /\ asked' = [asked EXCEPT ![c] = asked'[c]]
      /\ seen' = [seen EXCEPT ![c] = seen'[c]] /\ plan' = [plan EXCEPT ![c] = plan'[c]]
      /\ \/ asked'[c] = asked[c] /\ pc'[c] # "done"
         \/ asked'[c] = NULL /\ pc'[c] = "done"
<1>0. /\ pc \in [Client -> Steps] /\ asked \in [Client -> DOMAIN previews \cup {NULL}]
      /\ plan \in [Client -> SUBSET Label] /\ seen = [d \in Client |-> seen[d]]
  BY DEF Typed
<1>1. CASE LockConfirmation(c)
  BY <1>0, <1>1 DEF LockConfirmation, Goes, Answered, Asking, Steps
<1>2. CASE LookAgain(c)
  BY <1>0, <1>2 DEF LookAgain, Goes, Keep, Asking, Steps
<1>3. CASE Evaluate(c)
  BY <1>0, <1>3 DEF Evaluate, Evaluated, Goes, Keep, Asking, Steps
<1>4. CASE Hold(c)
  BY <1>0, <1>4 DEF Hold, Written, Goes, Keep, Asking, Steps
<1>5. CASE PlanLabels(c)
  BY <1>0, <1>5 DEF PlanLabels, Goes, Keep, Asking, Steps
<1>6. CASE Record(c)
  <2>1. /\ pc[c] = "record" /\ Goes(c, "save") /\ UNCHANGED <<target, previews, asked, edits>>
        /\ plan' = [plan EXCEPT ![c] = {}] /\ seen' = [seen EXCEPT ![c] = NULL]
    BY <1>6 DEF Record, Keep
  <2>2. QED
    BY <1>0, <2>1 DEF Goes, Asking, Steps
<1>7. CASE SaveOutcome(c) \/ Discard(c)
  BY <1>0, <1>7 DEF SaveOutcome, Discard, Goes, Asking, Steps
<1>8. CASE Unlock(c)
  BY <1>0, <1>8 DEF Unlock, Answered, Goes, Asking, Steps
<1>9. CASE Fail(c)
  BY <1>0, <1>9 DEF Fail, Goes, Asking, Steps
<1>10. CASE Crash(c)
  BY <1>0, <1>10 DEF Crash, Answered, Goes, Asking, Steps
<1>11. Own
  BY <1>1, <1>2, <1>3, <1>4, <1>5, <1>6, <1>7, <1>8, <1>9, <1>10 DEF Step
<1>12. QED
  BY <1>0, <1>11

\* The operations that an import records, and what becomes of the others.
LEMMA Records ==
  ASSUME Typed, NEW c \in Client, Record(c)
  PROVE  LET new == DOMAIN operation' \ DOMAIN operation IN
         /\ drawn' \in drawn .. MaxOperation /\ DOMAIN operation' \subseteq 1 .. drawn'
         /\ DOMAIN operation \subseteq DOMAIN operation'
         /\ \A o \in new :
              /\ operation'[o] \in OperationRow
              /\ operation'[o].account = AccountOf(c) /\ operation'[o].by = asked[c]
              /\ operation'[o].row \in ToImport(seen[c], ChoiceOf(c))
         /\ \A o \in DOMAIN operation :
              /\ operation'[o] \in OperationRow /\ operation'[o].account = operation[o].account
              /\ operation'[o].row = operation[o].row /\ operation'[o].by = operation[o].by
         /\ operation' \in [DOMAIN operation' -> OperationRow]
<1> DEFINE toImport == ToImport(seen[c], ChoiceOf(c))
           reconciled == ToReconcile(seen[c], ChoiceOf(c))
           n == Cardinality(toImport)
           ids == drawn + 1 .. drawn + n
           rows == SetToSeq(toImport)
<1>1. /\ ids \subseteq Operation /\ drawn' = drawn + n /\ pc[c] = "record"
      /\ operation' =
           [o \in DOMAIN operation \cup ids |->
              IF o \in ids
                THEN [account |-> AccountOf(c), row |-> rows[o - drawn], by |-> asked[c],
                      reconciled |-> TRUE]
                ELSE [operation[o] EXCEPT !.reconciled = @ \/ o \in reconciled]]
  BY DEF Record
<1>2. toImport \subseteq Row /\ IsFiniteSet(toImport)
  BY ToImportRows
<1>3. rows \in [1 .. n -> toImport] /\ n \in Nat
  BY <1>2, RowsOf
<1>4. /\ asked[c] \in DOMAIN previews /\ AccountOf(c) \in Account
  BY <1>1, AskedPreview DEF Asking
<1>5. asked[c] \in 0 .. MaxPreview
  <2>1. Len(previews) \in Nat /\ DOMAIN previews = 1 .. Len(previews)
        /\ Len(previews) <= MaxPreview
    BY LenProperties DEF Typed
  <2>2. QED
    BY <1>4, <2>1, Numbers
<1>6. drawn \in 0 .. MaxOperation /\ DOMAIN operation \subseteq 1 .. drawn
      /\ operation \in [DOMAIN operation -> OperationRow]
  BY DEF Typed
<1> HIDE DEF toImport, reconciled, n, rows
<1>7. drawn' \in drawn .. MaxOperation
  <2>1. CASE n = 0
    BY <1>1, <1>6, <2>1, Numbers
  <2>2. CASE n # 0
    <3>1. drawn + n \in ids
      BY <1>3, <1>6, <2>2
    <3>2. QED
      BY <1>1, <1>3, <1>6, <3>1, Numbers DEF Operation
  <2>3. QED
    BY <2>1, <2>2
<1>8. DOMAIN operation' = DOMAIN operation \cup ids
  BY <1>1
<1>9. ASSUME NEW o \in ids
      PROVE  /\ operation'[o] \in OperationRow
             /\ operation'[o].account = AccountOf(c) /\ operation'[o].by = asked[c]
             /\ operation'[o].row \in toImport
  <2>1. rows[o - drawn] \in toImport
    BY <1>3, <1>6
  <2>2. operation'[o] = [account |-> AccountOf(c), row |-> rows[o - drawn], by |-> asked[c],
                         reconciled |-> TRUE]
    BY <1>1
  <2>3. QED
    BY <1>2, <1>4, <1>5, <2>1, <2>2 DEF OperationRow
<1>10. ASSUME NEW o \in DOMAIN operation
       PROVE  /\ operation'[o] \in OperationRow /\ operation'[o].account = operation[o].account
              /\ operation'[o].row = operation[o].row /\ operation'[o].by = operation[o].by
  <2>1. o \notin ids /\ operation[o] \in OperationRow
    BY <1>3, <1>6
  <2>2. operation'[o] = [operation[o] EXCEPT !.reconciled = @ \/ o \in reconciled]
    BY <1>1, <2>1
  <2>3. (operation[o].reconciled \/ o \in reconciled) \in BOOLEAN
    OBVIOUS
  <2>4. QED
    BY <2>1, <2>2, <2>3 DEF OperationRow
<1>11. DOMAIN operation' \subseteq 1 .. drawn'
  BY <1>1, <1>3, <1>6, <1>8
<1>12. operation' \in [DOMAIN operation' -> OperationRow]
  <2>1. operation' = [o \in DOMAIN operation' |-> operation'[o]]
    BY <1>1
  <2>2. QED
    BY <1>8, <1>9, <1>10, <2>1
<1>13. QED
  BY <1>7, <1>8, <1>9, <1>10, <1>11, <1>12 DEF toImport

\* A step that shows no preview keeps the types when what it writes has them.
LEMMA TypedKept ==
  ASSUME Typed, UNCHANGED <<target, previews>>,
         file' \subseteq Import, result' \subseteq Import, applied' \subseteq Import,
         lock' \in [Import -> Client \cup {NULL}],
         drawn' \in 0 .. MaxOperation, DOMAIN operation' \subseteq 1 .. drawn',
         operation' \in [DOMAIN operation' -> OperationRow],
         \A o \in DOMAIN operation' : operation'[o].by <= Len(previews),
         corrections' \subseteq Label, plan' \in [Client -> SUBSET Label],
         asked' \in [Client -> DOMAIN previews \cup {NULL}],
         pc' \in [Client -> Steps], seen' = [d \in Client |-> seen'[d]],
         \A d \in Client : pc'[d] \notin {"idle", "done"} => asked'[d] \in DOMAIN previews
  PROVE  Typed'
BY DEF Typed, Asking

LEMMA StepTables ==
  ASSUME Typed, NEW c \in Client, Step(c)
  PROVE  /\ file' \subseteq Import /\ result' \subseteq Import /\ applied' \subseteq Import
         /\ lock' \in [Import -> Client \cup {NULL}]
         /\ corrections' \subseteq Label /\ plan'[c] \in SUBSET Label
         /\ drawn' \in 0 .. MaxOperation /\ DOMAIN operation' \subseteq 1 .. drawn'
         /\ operation' \in [DOMAIN operation' -> OperationRow]
         /\ \A o \in DOMAIN operation' : operation'[o].by <= Len(previews)
<1> USE DEF store, tables, history
<1>0. /\ Of(c) \in Import /\ ChoiceOf(c) \in Choice /\ asked[c] \in DOMAIN previews
      /\ ChoiceOf(c).remember \subseteq Label
  <2>1. ChoiceOf(c) \in Choice /\ Of(c) \in Import /\ asked[c] \in DOMAIN previews
    BY StepOwn, AskedPreview
  <2>2. QED
    BY <2>1, ImportAssumption
<1>1. /\ file \subseteq Import /\ result \subseteq Import /\ applied \subseteq Import
      /\ lock \in [Import -> Client \cup {NULL}] /\ corrections \subseteq Label
      /\ plan \in [Client -> SUBSET Label] /\ plan[c] \in SUBSET Label
      /\ drawn \in 0 .. MaxOperation /\ DOMAIN operation \subseteq 1 .. drawn
      /\ operation \in [DOMAIN operation -> OperationRow]
      /\ \A o \in DOMAIN operation : operation[o].by <= Len(previews)
  BY DEF Typed
<1>2. CASE LockConfirmation(c)
  BY <1>0, <1>1, <1>2 DEF LockConfirmation, Answered
<1>3. CASE LookAgain(c)
  BY <1>1, <1>3 DEF LookAgain
<1>4. CASE Evaluate(c)
  BY <1>0, <1>1, <1>4 DEF Evaluate, Evaluated
<1>5. CASE Hold(c)
  BY <1>1, <1>5 DEF Hold
<1>6. CASE PlanLabels(c)
  <2>1. PICK S \in Plans(c) : plan' = [plan EXCEPT ![c] = S]
    BY <1>6 DEF PlanLabels
  <2>2. S \subseteq Label
    BY <1>0 DEF Plans
  <2>3. UNCHANGED <<store, tables, history>>
    BY <1>6 DEF PlanLabels
  <2>4. QED
    BY <1>1, <2>1, <2>2, <2>3
<1>7. CASE Record(c)
  <2>1. /\ UNCHANGED store /\ applied' = applied \cup {Of(c)}
        /\ plan' = [plan EXCEPT ![c] = {}]
        /\ corrections' = (corrections \ ChoiceOf(c).forget) \cup plan[c]
    BY <1>7 DEF Record
  <2>2. /\ drawn' \in 0 .. MaxOperation /\ DOMAIN operation' \subseteq 1 .. drawn'
        /\ operation' \in [DOMAIN operation' -> OperationRow]
    BY <1>1, <1>7, Records, Numbers
  <2>3. asked[c] <= Len(previews)
    <3>1. DOMAIN previews = 1 .. Len(previews) /\ Len(previews) \in Nat
      BY LenProperties DEF Typed
    <3>2. QED
      BY <1>0, <3>1
  <2>4. ASSUME NEW o \in DOMAIN operation'
        PROVE  operation'[o].by <= Len(previews)
    <3>1. CASE o \in DOMAIN operation
      BY <1>1, <1>7, <3>1, Records
    <3>2. CASE o \notin DOMAIN operation
      BY <1>7, <2>3, <3>2, Records
    <3>3. QED
      BY <3>1, <3>2
  <2>5. QED
    BY <1>0, <1>1, <2>1, <2>2, <2>4
<1>8. CASE SaveOutcome(c)
  BY <1>0, <1>1, <1>8 DEF SaveOutcome, Follow
<1>9. CASE Discard(c)
  BY <1>0, <1>1, <1>9 DEF Discard, Follow
<1>10. CASE Unlock(c)
  BY <1>0, <1>1, <1>10 DEF Unlock, Follow, Answered
<1>11. CASE Fail(c)
  BY <1>1, <1>11 DEF Fail
<1>12. CASE Crash(c)
  BY <1>1, <1>12 DEF Crash, Answered
<1>13. QED
  BY <1>2, <1>3, <1>4, <1>5, <1>6, <1>7, <1>8, <1>9, <1>10, <1>11, <1>12 DEF Step

\* The steps of the member's other requests.
Editing ==
  \/ \E a \in Account, r \in Row : Enter(a, r)
  \/ \E o \in Operation :
       Delete(o) \/ Reconcile(o) \/ \E r \in Row \cup {NULL} : Rework(o, r)
  \/ \E l \in Label : ForgetCorrection(l)

\* No edit gives an operation another account or origin.
LEMMA Edits ==
  ASSUME Typed, Editing
  PROVE  /\ UNCHANGED <<store, target, previews, asked, pc, seen, plan, expired, applied>>
         /\ corrections' \subseteq corrections
         /\ drawn' \in drawn .. MaxOperation /\ DOMAIN operation' \subseteq 1 .. drawn'
         /\ operation' \in [DOMAIN operation' -> OperationRow]
         /\ \A o \in DOMAIN operation' :
              /\ o \in DOMAIN operation =>
                   operation'[o].by = operation[o].by /\ operation'[o].account = operation[o].account
              /\ o \notin DOMAIN operation =>
                   operation'[o].by = 0 /\ ~AccountHeld(operation'[o].account)
<1>0. /\ drawn \in 0 .. MaxOperation /\ DOMAIN operation \subseteq 1 .. drawn
      /\ operation \in [DOMAIN operation -> OperationRow] /\ MaxOperation \in Nat
      /\ MaxPreview \in Nat
  BY Numbers DEF Typed
<1>1. UNCHANGED <<store, target, previews, asked, pc, seen, plan, expired, applied>>
  BY DEF Editing, Enter, Delete, Reconcile, Rework, ForgetCorrection, Edit
<1>2. ASSUME NEW a \in Account, NEW r \in Row, Enter(a, r)
      PROVE  /\ corrections' \subseteq corrections
             /\ drawn' \in drawn .. MaxOperation /\ DOMAIN operation' \subseteq 1 .. drawn'
             /\ operation' \in [DOMAIN operation' -> OperationRow]
             /\ \A o \in DOMAIN operation' :
                  /\ o \in DOMAIN operation => operation'[o] = operation[o]
                  /\ o \notin DOMAIN operation =>
                       operation'[o].by = 0 /\ operation'[o].account = a /\ ~AccountHeld(a)
  <2>1. /\ drawn < MaxOperation /\ drawn' = drawn + 1 /\ ~AccountHeld(a)
        /\ UNCHANGED corrections
        /\ operation' = [o \in DOMAIN operation \cup {drawn + 1} |->
                           IF o = drawn + 1
                             THEN [account |-> a, row |-> r, by |-> 0, reconciled |-> FALSE]
                             ELSE operation[o]]
    BY <1>2 DEF Enter
  <2>2. [account |-> a, row |-> r, by |-> 0, reconciled |-> FALSE] \in OperationRow
    BY <1>0 DEF OperationRow
  <2>3. drawn + 1 \notin DOMAIN operation
    BY <1>0
  <2>4. DOMAIN operation' = DOMAIN operation \cup {drawn + 1}
    BY <2>1
  <2>5. drawn' \in drawn .. MaxOperation /\ DOMAIN operation' \subseteq 1 .. drawn'
    BY <1>0, <2>1, <2>4
  <2>6. \A o \in DOMAIN operation' :
          operation'[o] = IF o = drawn + 1
                            THEN [account |-> a, row |-> r, by |-> 0, reconciled |-> FALSE]
                            ELSE operation[o]
    BY <2>1
  <2>7. operation' \in [DOMAIN operation' -> OperationRow]
    BY <1>0, <2>1, <2>2, <2>4
  <2>8. QED
    BY <2>1, <2>3, <2>4, <2>5, <2>6, <2>7
<1>3. ASSUME NEW o \in Operation, Delete(o)
      PROVE  /\ drawn' = drawn /\ corrections' = corrections
             /\ DOMAIN operation' \subseteq DOMAIN operation
             /\ \A x \in DOMAIN operation' : operation'[x] = operation[x]
             /\ operation' \in [DOMAIN operation' -> OperationRow]
  BY <1>0, <1>3 DEF Delete
<1>4. ASSUME NEW o \in Operation, NEW r \in Row \cup {NULL}, Reconcile(o) \/ Rework(o, r)
      PROVE  /\ drawn' = drawn /\ corrections' = corrections
             /\ DOMAIN operation' = DOMAIN operation
             /\ \A x \in DOMAIN operation :
                  operation'[x].by = operation[x].by /\ operation'[x].account = operation[x].account
             /\ operation' \in [DOMAIN operation' -> OperationRow]
  <2>1. CASE Reconcile(o)
    BY <1>0, <2>1 DEF Reconcile, OperationRow
  <2>2. CASE Rework(o, r)
    BY <1>0, <2>2 DEF Rework, OperationRow
  <2>3. QED
    BY <1>4, <2>1, <2>2
<1>5. ASSUME NEW l \in Label, ForgetCorrection(l)
      PROVE  corrections' \subseteq corrections /\ UNCHANGED <<drawn, operation>>
  BY <1>5 DEF ForgetCorrection
<1>6. drawn \in drawn .. MaxOperation
  BY <1>0
<1>7. CASE \E a \in Account, r \in Row : Enter(a, r)
  BY <1>1, <1>2, <1>7
<1>8. CASE \E o \in Operation : Delete(o)
  BY <1>0, <1>1, <1>3, <1>6, <1>8
<1>9. CASE \E o \in Operation : Reconcile(o) \/ \E r \in Row \cup {NULL} : Rework(o, r)
  BY <1>0, <1>1, <1>4, <1>6, <1>9
<1>10. CASE \E l \in Label : ForgetCorrection(l)
  BY <1>0, <1>1, <1>5, <1>6, <1>10
<1>11. QED
  BY <1>7, <1>8, <1>9, <1>10 DEF Editing

LEMMA TypedStep == Typed /\ [Next]_vars => Typed'
<1> SUFFICES ASSUME Typed, [Next]_vars
             PROVE  Typed'
  OBVIOUS
<1> USE DEF store, tables, history
<1>0. /\ file \subseteq Import /\ result \subseteq Import /\ applied \subseteq Import
      /\ lock \in [Import -> Client \cup {NULL}] /\ corrections \subseteq Label
      /\ plan \in [Client -> SUBSET Label]
      /\ drawn \in 0 .. MaxOperation /\ DOMAIN operation \subseteq 1 .. drawn
      /\ operation \in [DOMAIN operation -> OperationRow]
      /\ \A o \in DOMAIN operation : operation[o].by <= Len(previews)
      /\ asked \in [Client -> DOMAIN previews \cup {NULL}]
      /\ pc \in [Client -> Steps] /\ seen = [d \in Client |-> seen[d]]
      /\ \A d \in Client : pc[d] \notin {"idle", "done"} => asked[d] \in DOMAIN previews
      /\ Len(previews) \in Nat
  BY LenProperties DEF Typed, Asking
<1>1. ASSUME NEW i \in Import, NEW choice \in Choice, ShowPreview(i, choice)
      PROVE  Typed'
  <2>1. UNCHANGED <<store, target, tables, asked, pc, seen, plan, edits, faults, history>>
    BY <1>1 DEF ShowPreview
  <2>2. /\ previews' \in Seq(Shown) /\ Len(previews') = Len(previews) + 1
        /\ Len(previews') <= MaxPreview /\ DOMAIN previews \subseteq DOMAIN previews'
    BY <1>1, PreviewShown
  <2>3. asked' \in [Client -> DOMAIN previews' \cup {NULL}]
    BY <1>0, <2>1, <2>2
  <2>4. \A o \in DOMAIN operation' : operation'[o].by <= Len(previews')
    <3>1. \A o \in DOMAIN operation : operation[o].by \in Nat
      BY <1>0, Numbers DEF OperationRow
    <3>2. QED
      BY <1>0, <2>1, <2>2, <3>1
  <2>5. target' \in [Import -> Account]
    BY <2>1 DEF Typed
  <2>6. \A d \in Client : pc'[d] \notin {"idle", "done"} => asked'[d] \in DOMAIN previews'
    BY <1>0, <2>1, <2>2
  <2>7. QED
    BY <1>0, <2>1, <2>2, <2>3, <2>4, <2>5, <2>6 DEF Typed, Asking
<1>2. ASSUME NEW c \in Client, Step(c)
      PROVE  Typed'
  <2>1. /\ plan' = [plan EXCEPT ![c] = plan'[c]] /\ asked' = [asked EXCEPT ![c] = asked'[c]]
        /\ pc' = [pc EXCEPT ![c] = pc'[c]] /\ seen' = [seen EXCEPT ![c] = seen'[c]]
        /\ pc'[c] \in Steps /\ UNCHANGED <<target, previews>>
        /\ asked[c] \in DOMAIN previews
        /\ (asked'[c] = asked[c] /\ pc'[c] # "done") \/ (asked'[c] = NULL /\ pc'[c] = "done")
    BY <1>2, StepOwn DEF Typed
  <2>2. plan' \in [Client -> SUBSET Label]
    BY <1>0, <1>2, <2>1, StepTables
  <2>3. /\ asked' \in [Client -> DOMAIN previews \cup {NULL}] /\ pc' \in [Client -> Steps]
        /\ seen' = [d \in Client |-> seen'[d]]
        /\ \A d \in Client : pc'[d] \notin {"idle", "done"} => asked'[d] \in DOMAIN previews
    BY <1>0, <2>1
  <2>4. QED
    BY <1>2, <2>1, <2>2, <2>3, StepTables, TypedKept
<1>3. ASSUME NEW c \in Client, NEW p \in DOMAIN previews, Confirm(c, p)
      PROVE  Typed'
  <2>1. /\ pc' = [pc EXCEPT ![c] = pc'[c]] /\ pc'[c] \in Steps
        /\ asked' = [asked EXCEPT ![c] = asked'[c]] /\ asked'[c] \in DOMAIN previews \cup {NULL}
        /\ pc'[c] # "done" => asked'[c] \in DOMAIN previews
    BY <1>0, <1>3 DEF Confirm, Goes, Steps
  <2>2. UNCHANGED <<store, target, tables, previews, seen, plan, edits, faults, history>>
    BY <1>3 DEF Confirm
  <2>3. /\ asked' \in [Client -> DOMAIN previews \cup {NULL}] /\ pc' \in [Client -> Steps]
        /\ \A d \in Client : pc'[d] \notin {"idle", "done"} => asked'[d] \in DOMAIN previews
    BY <1>0, <2>1
  <2>4. QED
    BY <1>0, <2>2, <2>3, TypedKept
<1>4. ASSUME NEW i \in Import, LockExpires(i) \/ FileGoes(i) \/ OutcomeGoes(i)
      PROVE  Typed'
  <2>1. /\ UNCHANGED <<target, tables, previews, asked, pc, seen, plan, applied>>
        /\ file' \subseteq Import /\ result' \subseteq Import
        /\ lock' \in [Import -> Client \cup {NULL}]
    BY <1>0, <1>4 DEF LockExpires, FileGoes, OutcomeGoes
  <2>2. QED
    BY <1>0, <2>1, TypedKept
<1>5. CASE Editing
  <2>1. /\ UNCHANGED <<store, target, previews, asked, pc, seen, plan, applied>>
        /\ corrections' \subseteq Label /\ drawn' \in 0 .. MaxOperation
        /\ DOMAIN operation' \subseteq 1 .. drawn'
        /\ operation' \in [DOMAIN operation' -> OperationRow]
        /\ \A o \in DOMAIN operation' : operation'[o].by <= Len(previews)
    BY <1>0, <1>5, Edits, Numbers
  <2>2. QED
    BY <1>0, <2>1, TypedKept
<1>6. CASE UNCHANGED vars
  BY <1>0, <1>6, TypedKept DEF vars
<1>7. QED
  BY <1>1, <1>2, <1>3, <1>4, <1>5, <1>6 DEF Next, Editing

\* What a step that is no confirmation's does to the confirmations.
LEMMA Others ==
  ASSUME Typed, [Next]_vars
  PROVE  \/ \E c \in Client : Step(c)
         \/ \E c \in Client, p \in DOMAIN previews : Confirm(c, p)
         \/ \E i \in Import : LockExpires(i)
         \/ /\ UNCHANGED <<lock, asked, pc, seen, plan, expired, applied>>
            /\ result' \subseteq result /\ corrections' \subseteq corrections
<1>1. CASE \E i \in Import, choice \in Choice : ShowPreview(i, choice)
  BY <1>1 DEF ShowPreview, store, tables, history
<1>2. CASE \E i \in Import : FileGoes(i) \/ OutcomeGoes(i)
  BY <1>2 DEF FileGoes, OutcomeGoes, tables, history
<1>3. CASE Editing
  BY <1>3, Edits DEF store
<1>4. CASE UNCHANGED vars
  BY <1>4 DEF vars, store, tables, history
<1>5. QED
  BY <1>1, <1>2, <1>3, <1>4 DEF Next, Editing

\* A confirmation keeps its import and its choices while its preview lasts.
LEMMA PreviewKept ==
  ASSUME Typed, [Next]_vars, NEW c \in Client, Asking(c), asked'[c] = asked[c]
  PROVE  /\ Of(c)' = Of(c) /\ AccountOf(c)' = AccountOf(c) /\ ChoiceOf(c)' = ChoiceOf(c)
         /\ previews'[asked'[c]] = previews[asked[c]]
<1>1. asked[c] \in DOMAIN previews
  BY AskedPreview
<1>2. ASSUME NEW i \in Import, NEW choice \in Choice, ShowPreview(i, choice)
      PROVE  target' = target /\ previews'[asked[c]] = previews[asked[c]]
  BY <1>1, <1>2, PreviewShown DEF ShowPreview
<1>3. ASSUME UNCHANGED vars
      PROVE  UNCHANGED <<target, previews>>
  BY <1>3 DEF vars
<1>4. ASSUME Editing
      PROVE  UNCHANGED <<target, previews>>
  BY <1>4, Edits
<1>5. ASSUME \E d \in Client : Step(d) \/ \E p \in DOMAIN previews : Confirm(d, p)
      PROVE  UNCHANGED <<target, previews>>
  BY <1>5, StepOwn DEF Confirm
<1>6. ASSUME \E i \in Import : LockExpires(i) \/ FileGoes(i) \/ OutcomeGoes(i)
      PROVE  UNCHANGED <<target, previews>>
  BY <1>6 DEF LockExpires, FileGoes, OutcomeGoes
<1>7. target' = target /\ previews'[asked[c]] = previews[asked[c]]
  BY <1>2, <1>3, <1>4, <1>5, <1>6 DEF Next, Editing
<1>8. QED
  BY <1>7 DEF Of, AccountOf, ChoiceOf

-----------------------------------------------------------------------------
(* The lock of an upload.                                                  *)

Holding(c) ==
  /\ pc[c] \in {"look_again", "evaluate", "hold", "labels", "record", "save", "discard"}
  /\ c \notin expired

LEMMA LockStarts == Init => LockIsOwned
BY DEF Init, LockIsOwned

LEMMA LockStep ==
  ASSUME Typed, LockIsOwned, [Next]_vars
  PROVE  LockIsOwned'
<1> SUFFICES ASSUME NEW d \in Client, Holding(d)'
             PROVE  lock'[Of(d)'] = d
  BY DEF LockIsOwned, Holding
<1>0. /\ lock \in [Import -> Client \cup {NULL}] /\ NULL \notin Client
      /\ Asking(d)' /\ pc'[d] # "done"
  BY ImportAssumption DEF Typed, Holding, Asking
<1>1. \A c \in Client : Holding(c) => lock[Of(c)] = c /\ Asking(c) /\ Of(c) \in Import
  BY AskedPreview DEF LockIsOwned, Holding, Asking
<1>2. ASSUME Holding(d), asked'[d] = asked[d]
      PROVE  Of(d)' = Of(d) /\ lock[Of(d)] = d /\ Of(d) \in Import
  BY <1>1, <1>2, PreviewKept
<1>3. ASSUME NEW c \in Client, Step(c), c # d
      PROVE  lock'[Of(d)'] = d
  <2>1. pc'[d] = pc[d] /\ asked'[d] = asked[d]
    BY <1>3, StepOwn
  <2>2. expired' \subseteq expired \cup {} /\ (d \in expired => d \in expired')
    BY <1>3 DEF Step, LockConfirmation, LookAgain, Evaluate, Hold, PlanLabels, Record,
         SaveOutcome, Discard, Unlock, Fail, Crash, history
  <2>3. Of(d)' = Of(d) /\ lock[Of(d)] = d /\ Of(d) \in Import
    BY <1>2, <2>1, <2>2 DEF Holding
  <2>4. lock'[Of(d)] = lock[Of(d)]
    <3>1. CASE LockConfirmation(c)
      BY <1>0, <2>3, <3>1 DEF LockConfirmation
    <3>2. CASE Unlock(c)
      BY <1>0, <1>3, <2>3, <3>2 DEF Unlock, Follow, store
    <3>3. CASE SaveOutcome(c) \/ Discard(c)
      BY <3>3 DEF SaveOutcome, Discard, Follow, store
    <3>4. CASE LookAgain(c) \/ Evaluate(c) \/ Hold(c) \/ PlanLabels(c) \/ Record(c) \/ Fail(c)
                 \/ Crash(c)
      BY <3>4 DEF LookAgain, Evaluate, Hold, PlanLabels, Record, Fail, Crash, store
    <3>5. QED
      BY <1>3, <3>1, <3>2, <3>3, <3>4 DEF Step
  <2>5. QED
    BY <2>3, <2>4
<1>4. ASSUME Step(d)
      PROVE  lock'[Of(d)'] = d
  <2>1. asked'[d] = asked[d] /\ Asking(d) /\ Of(d)' = Of(d) /\ Of(d) \in Import
        /\ pc' = [pc EXCEPT ![d] = pc'[d]]
    BY <1>0, <1>4, StepOwn, PreviewKept, AskedPreview
  <2>2. CASE LockConfirmation(d)
    BY <1>0, <2>1, <2>2 DEF LockConfirmation, Answered, Goes, Typed
  <2>3. CASE Unlock(d) \/ Crash(d)
    BY <1>0, <2>3 DEF Unlock, Crash, Answered, Goes, Typed
  <2>4. CASE LookAgain(d) \/ Evaluate(d) \/ Hold(d) \/ PlanLabels(d) \/ Record(d)
               \/ SaveOutcome(d) \/ Discard(d) \/ Fail(d)
    <3>1. /\ pc[d] \in {"look_again", "evaluate", "hold", "labels", "record", "save", "discard"}
          /\ expired' = expired
      BY <2>4 DEF LookAgain, Evaluate, Hold, PlanLabels, Record, SaveOutcome, Discard, Fail,
           history
    <3>2. lock' = lock
      BY <2>4 DEF LookAgain, Evaluate, Hold, PlanLabels, Record, SaveOutcome, Discard, Fail,
           Follow, store
    <3>3. Holding(d)
      BY <3>1 DEF Holding
    <3>4. QED
      BY <1>2, <2>1, <3>2, <3>3
  <2>5. QED
    BY <1>4, <2>2, <2>3, <2>4 DEF Step
<1>5. ASSUME NEW c \in Client, NEW p \in DOMAIN previews, Confirm(c, p)
      PROVE  lock'[Of(d)'] = d
  <2>1. /\ pc'[c] \in {"done", "lock"} /\ UNCHANGED <<lock, expired>>
        /\ \A x \in Client \ {c} : pc'[x] = pc[x] /\ asked'[x] = asked[x]
    BY <1>5 DEF Confirm, Goes, Typed, store, history
  <2>2. c # d /\ Holding(d)
    BY <2>1 DEF Holding
  <2>3. QED
    BY <1>2, <2>1, <2>2
<1>6. ASSUME NEW i \in Import, LockExpires(i)
      PROVE  lock'[Of(d)'] = d
  <2>1. /\ lock' = [lock EXCEPT ![i] = NULL] /\ UNCHANGED <<pc, asked>>
        /\ expired' = IF pc[lock[i]] = "done" THEN expired ELSE expired \cup {lock[i]}
    BY <1>6 DEF LockExpires
  <2>2. Holding(d)
    BY <2>1 DEF Holding
  <2>3. Of(d)' = Of(d) /\ lock[Of(d)] = d /\ Of(d) \in Import
    BY <1>2, <2>1, <2>2
  <2>4. Of(d) # i
    BY <1>0, <2>1, <2>3 DEF Holding
  <2>5. QED
    BY <1>0, <2>1, <2>3, <2>4
<1>7. CASE UNCHANGED <<lock, asked, pc, expired>>
  BY <1>2, <1>7 DEF Holding
<1>8. QED
  BY <1>3, <1>4, <1>5, <1>6, <1>7, Others

\* A confirmation that has not outlived its lock still holds it, whatever
\* expires, ends or dies around it (import.store.ts:35).
THEOREM LockAlwaysOwned == Spec => []LockIsOwned
<1>1. Typed /\ LockIsOwned /\ [Next]_vars => Typed' /\ LockIsOwned'
  BY TypedStep, LockStep
<1>2. QED
  BY TypedStarts, LockStarts, <1>1, PTL DEF Spec

-----------------------------------------------------------------------------
(* The outcome of an import.                                               *)

OutcomeInv == OutcomeIsRecorded /\ \A c \in Client : pc[c] = "save" => Of(c) \in applied

LEMMA OutcomeStep ==
  ASSUME Typed, OutcomeInv, [Next]_vars
  PROVE  OutcomeInv'
<1>1. ASSUME NEW d \in Client, pc[d] = "save", pc'[d] = "save", asked'[d] = asked[d],
             applied \subseteq applied'
      PROVE  Of(d)' \in applied'
  BY <1>1, PreviewKept DEF OutcomeInv, Asking
<1>2. ASSUME NEW c \in Client, Step(c)
      PROVE  OutcomeInv'
  <2>1. /\ Asking(c) /\ \A d \in Client \ {c} : pc'[d] = pc[d] /\ asked'[d] = asked[d]
        /\ pc' = [pc EXCEPT ![c] = pc'[c]]
        /\ pc'[c] # "done" => Of(c)' = Of(c)
    BY <1>2, StepOwn, PreviewKept
  <2>2. /\ applied \subseteq applied' /\ result' \subseteq applied
        /\ pc'[c] = "save" => Of(c) \in applied'
    <3>1. CASE LockConfirmation(c) \/ Unlock(c) \/ Crash(c)
      BY <2>1, <3>1 DEF LockConfirmation, Unlock, Crash, Answered, Goes, Follow, store, history,
           OutcomeInv, OutcomeIsRecorded, Typed
    <3>2. CASE LookAgain(c) \/ Hold(c) \/ PlanLabels(c) \/ Fail(c)
      BY <2>1, <3>2 DEF LookAgain, Hold, Written, PlanLabels, Fail, Goes, store, history,
           OutcomeInv, OutcomeIsRecorded, Typed
    <3>3. CASE Evaluate(c)
      BY <2>1, <3>3 DEF Evaluate, Evaluated, Goes, store, OutcomeInv, OutcomeIsRecorded, Typed
    <3>4. CASE Record(c)
      <4>1. applied' = applied \cup {Of(c)} /\ UNCHANGED store
        BY <3>4 DEF Record
      <4>2. QED
        BY <4>1 DEF store, OutcomeInv, OutcomeIsRecorded
    <3>5. CASE SaveOutcome(c)
      BY <2>1, <3>5 DEF SaveOutcome, Goes, Follow, store, history, OutcomeInv,
           OutcomeIsRecorded, Typed
    <3>6. CASE Discard(c)
      BY <2>1, <3>6 DEF Discard, Goes, Follow, store, history, OutcomeInv, OutcomeIsRecorded,
           Typed
    <3>7. QED
      BY <1>2, <3>1, <3>2, <3>3, <3>4, <3>5, <3>6 DEF Step
  <2>3. QED
    BY <1>1, <2>1, <2>2 DEF OutcomeInv, OutcomeIsRecorded
<1>3. ASSUME NEW c \in Client, NEW p \in DOMAIN previews, Confirm(c, p)
      PROVE  OutcomeInv'
  <2>1. /\ pc'[c] \in {"done", "lock"} /\ UNCHANGED <<result, applied>>
        /\ \A x \in Client \ {c} : pc'[x] = pc[x] /\ asked'[x] = asked[x]
    BY <1>3 DEF Confirm, Goes, Typed, store, history
  <2>2. QED
    BY <1>1, <2>1 DEF OutcomeInv, OutcomeIsRecorded
<1>4. CASE UNCHANGED <<asked, pc, applied>> /\ result' \subseteq result
  BY <1>1, <1>4 DEF OutcomeInv, OutcomeIsRecorded
<1>5. CASE \E i \in Import : LockExpires(i)
  BY <1>4, <1>5 DEF LockExpires
<1>6. QED
  BY <1>2, <1>3, <1>4, <1>5, Others

\* No confirmation is answered with an outcome that the store kept of an
\* import whose rows were not recorded.
THEOREM OutcomeAlwaysRecorded == Spec => []OutcomeIsRecorded
<1>1. Init => OutcomeInv
  BY DEF Init, OutcomeInv, OutcomeIsRecorded
<1>2. Typed /\ OutcomeInv /\ [Next]_vars => Typed' /\ OutcomeInv'
  BY TypedStep, OutcomeStep
<1>3. OutcomeInv => OutcomeIsRecorded
  BY DEF OutcomeInv
<1>4. QED
  BY TypedStarts, <1>1, <1>2, <1>3, PTL DEF Spec

-----------------------------------------------------------------------------
(* The quota of corrections.                                               *)

\* What the corrections become when c records its rows.
Corrected(c) == (corrections \ ChoiceOf(c).forget) \cup plan[c]

\* A transaction that planned corrections has the member's advisory lock, so
\* they still fit when it writes them; the others plan none.
PlanOK(c) ==
  /\ pc[c] # "record" \/ ~Intends(c) => plan[c] = {}
  /\ pc[c] = "record" /\ Intends(c) =>
       /\ Cardinality(Corrected(c)) <= MaxCorrections
       /\ \A d \in Client : pc[d] = "record" /\ Intends(d) => d = c

CorrectionsInv == CorrectionsWithinQuota /\ \A c \in Client : PlanOK(c)

\* Smaller sets of labels keep to the quota.
LEMMA Fewer ==
  ASSUME NEW S \in SUBSET Label, NEW T \in SUBSET S, Cardinality(S) <= MaxCorrections
  PROVE  Cardinality(T) <= MaxCorrections
<1>1. IsFiniteSet(S)
  BY FS_Subset, ImportAssumption
<1>2. Cardinality(T) <= Cardinality(S) /\ Cardinality(T) \in Nat /\ Cardinality(S) \in Nat
  BY <1>1, FS_Subset, FS_CardinalityType
<1>3. QED
  BY <1>2, Numbers

\* Planned under the lock, the corrections fit.
LEMMA PlanFits ==
  ASSUME Typed, CorrectionsWithinQuota, NEW c \in Client, Asking(c), NEW S \in Plans(c)
  PROVE  Cardinality((corrections \ ChoiceOf(c).forget) \cup S) <= MaxCorrections
<1> DEFINE kept == corrections \ ChoiceOf(c).forget
           new == ChoiceOf(c).remember \ corrections
           room == IF Cardinality(kept) < MaxCorrections
                     THEN MaxCorrections - Cardinality(kept) ELSE 0
<1>1. ChoiceOf(c).remember \subseteq Label /\ corrections \subseteq Label
  BY AskedPreview, ImportAssumption DEF Typed
<1>2. /\ IsFiniteSet(kept) /\ IsFiniteSet(new) /\ IsFiniteSet(corrections)
      /\ Cardinality(kept) \in Nat /\ Cardinality(new) \in Nat
      /\ Cardinality(kept) <= Cardinality(corrections) /\ Cardinality(corrections) \in Nat
  BY <1>1, FS_Subset, FS_CardinalityType, ImportAssumption
<1>3. corrections \ (ChoiceOf(c).forget \cap corrections) = kept
  OBVIOUS
<1>4. S \subseteq new /\ Cardinality(S) = IF Cardinality(new) < room
                                            THEN Cardinality(new) ELSE room
  BY <1>3 DEF Plans
<1>5. IsFiniteSet(S) /\ kept \cap S = {}
  BY <1>2, <1>4, FS_Subset
<1>6. Cardinality(kept \cup S) = Cardinality(kept) + Cardinality(S) - Cardinality(kept \cap S)
  BY <1>2, <1>5, FS_Union
<1>7. Cardinality(kept \cap S) = 0
  BY <1>5, FS_EmptySet
<1>8. Cardinality(corrections) <= MaxCorrections
  BY DEF CorrectionsWithinQuota
<1> HIDE DEF kept, new
<1>9. Cardinality(kept \cup S) <= MaxCorrections
  BY <1>2, <1>4, <1>6, <1>7, <1>8, Numbers
<1>10. QED
  BY <1>9 DEF kept

\* A step that leaves a confirmation where it is, and adds no correction,
\* keeps what it planned within the quota.
LEMMA PlanKept ==
  ASSUME Typed, [Next]_vars, NEW d \in Client, PlanOK(d),
         corrections' \subseteq corrections,
         pc'[d] = pc[d], asked'[d] = asked[d], plan'[d] = plan[d],
         pc[d] = "record" /\ Intends(d) =>
           \A e \in Client : (pc[e] = "record" /\ Intends(e))' => e = d
  PROVE  PlanOK(d)'
<1>1. CASE pc[d] # "record"
  BY <1>1 DEF PlanOK
<1>2. CASE pc[d] = "record"
  <2>1. ChoiceOf(d)' = ChoiceOf(d) /\ ChoiceOf(d) \in Choice /\ plan[d] \subseteq Label
        /\ corrections \subseteq Label
    BY <1>2, PreviewKept, AskedPreview DEF Asking, Typed
  <2>2. Intends(d)' <=> Intends(d)
    BY <2>1 DEF Intends
  <2>3. Corrected(d)' \subseteq Corrected(d) /\ Corrected(d) \subseteq Label
    BY <2>1 DEF Corrected
  <2>4. CASE ~Intends(d)
    BY <2>2, <2>4 DEF PlanOK
  <2>5. CASE Intends(d)
    <3>1. Cardinality(Corrected(d)') <= MaxCorrections
      BY <1>2, <2>3, <2>5, Fewer DEF PlanOK
    <3>2. QED
      BY <1>2, <2>2, <2>5, <3>1 DEF PlanOK
  <2>6. QED
    BY <2>4, <2>5
<1>3. QED
  BY <1>1, <1>2

LEMMA CorrectionsStep ==
  ASSUME Typed, CorrectionsInv, [Next]_vars
  PROVE  CorrectionsInv'
<1>0. /\ CorrectionsWithinQuota /\ \A d \in Client : PlanOK(d)
      /\ corrections \subseteq Label /\ plan \in [Client -> SUBSET Label]
      /\ pc \in [Client -> Steps]
  BY DEF CorrectionsInv, Typed
<1>1. ASSUME corrections' \subseteq corrections
      PROVE  CorrectionsWithinQuota'
  BY <1>0, <1>1, Fewer DEF CorrectionsWithinQuota
<1>2. ASSUME NEW e \in Client, pc'[e] = pc[e], asked'[e] = asked[e]
      PROVE  (pc[e] = "record" /\ Intends(e))' <=> (pc[e] = "record" /\ Intends(e))
  BY <1>2, PreviewKept DEF Asking, Intends
<1>3. ASSUME corrections' \subseteq corrections, UNCHANGED <<pc, asked, plan>>
      PROVE  CorrectionsInv'
  <2>1. ASSUME NEW d \in Client
        PROVE  PlanOK(d)'
    <3>1. pc[d] = "record" /\ Intends(d) =>
            \A e \in Client : (pc[e] = "record" /\ Intends(e))' => e = d
      BY <1>0, <1>2, <1>3 DEF PlanOK
    <3>2. QED
      BY <1>0, <1>3, <3>1, PlanKept
  <2>2. QED
    BY <1>1, <1>3, <2>1 DEF CorrectionsInv
\* A step of c that plans nothing.
<1>4. ASSUME NEW c \in Client, corrections' \subseteq corrections,
             \A d \in Client \ {c} : pc'[d] = pc[d] /\ asked'[d] = asked[d] /\ plan'[d] = plan[d],
             (pc[c] = "record" /\ Intends(c))' => pc[c] = "record" /\ Intends(c),
             PlanOK(c)'
      PROVE  CorrectionsInv'
  <2>1. ASSUME NEW d \in Client \ {c}
        PROVE  PlanOK(d)'
    <3>1. pc[d] = "record" /\ Intends(d) =>
            \A e \in Client : (pc[e] = "record" /\ Intends(e))' => e = d
      BY <1>0, <1>2, <1>4 DEF PlanOK
    <3>2. QED
      BY <1>0, <1>4, <3>1, PlanKept
  <2>2. QED
    BY <1>1, <1>4, <2>1 DEF CorrectionsInv
<1>5. ASSUME NEW c \in Client, Step(c)
      PROVE  CorrectionsInv'
  <2>1. /\ Asking(c) /\ pc' = [pc EXCEPT ![c] = pc'[c]]
        /\ \A d \in Client \ {c} : pc'[d] = pc[d] /\ asked'[d] = asked[d] /\ plan'[d] = plan[d]
        /\ pc'[c] # "done" => ChoiceOf(c)' = ChoiceOf(c)
    BY <1>5, StepOwn, PreviewKept
  <2>2. pc'[c] # "done" => (Intends(c)' <=> Intends(c))
    BY <2>1 DEF Intends
  <2>3. CASE LockConfirmation(c) \/ LookAgain(c) \/ Evaluate(c) \/ SaveOutcome(c) \/ Discard(c)
               \/ Unlock(c) \/ Fail(c) \/ Crash(c)
    <3>1. /\ corrections' = corrections /\ pc'[c] # "record"
      BY <1>0, <2>1, <2>3 DEF LockConfirmation, LookAgain, Evaluate, Evaluated, SaveOutcome,
         Discard, Unlock, Fail, Crash, Answered, Goes, tables
    <3>2. plan'[c] = {}
      <4>1. CASE LockConfirmation(c) \/ LookAgain(c) \/ Evaluate(c) \/ SaveOutcome(c) \/ Discard(c)
        <5>1. pc[c] # "record" /\ plan'[c] \in {plan[c], {}}
          BY <1>0, <4>1 DEF LockConfirmation, LookAgain, Evaluate, Evaluated, SaveOutcome,
             Discard, Answered
        <5>2. QED
          BY <1>0, <5>1 DEF PlanOK
      <4>2. CASE Unlock(c) \/ Fail(c) \/ Crash(c)
        BY <1>0, <4>2 DEF Unlock, Fail, Crash, Answered
      <4>3. QED
        BY <2>3, <4>1, <4>2
    <3>3. PlanOK(c)'
      BY <3>1, <3>2 DEF PlanOK
    <3>4. QED
      BY <1>4, <2>1, <3>1, <3>3
  <2>4. CASE Hold(c)
    <3>1. /\ pc[c] = "hold" /\ corrections' = corrections /\ plan' = plan
          /\ pc'[c] = "record" => ~Intends(c)
      BY <1>0, <2>4 DEF Hold, Written, Goes, tables
    <3>2. plan'[c] = {}
      BY <1>0, <3>1 DEF PlanOK
    <3>3. PlanOK(c)'
      BY <2>2, <3>1, <3>2 DEF PlanOK
    <3>4. QED
      BY <1>4, <2>1, <2>2, <3>1, <3>3
  <2>5. CASE PlanLabels(c)
    <3>1. /\ pc[c] = "labels" /\ corrections' = corrections /\ pc'[c] = "record"
          /\ \A d \in Client : pc[d] = "record" => ~Intends(d)
      BY <1>0, <2>5 DEF PlanLabels, Goes, tables
    <3>2. PICK S \in Plans(c) : plan'[c] = S
      BY <1>0, <2>5 DEF PlanLabels
    <3>3. Cardinality(Corrected(c)') <= MaxCorrections
      BY <1>0, <2>1, <3>1, <3>2, PlanFits DEF Corrected
    <3>4. \A d \in Client \ {c} : ~(pc[d] = "record" /\ Intends(d))'
      BY <1>2, <2>1, <3>1
    <3>5. plan'[c] = {} \/ Intends(c)'
      <4>1. CASE ~Intends(c)
        <5>1. ChoiceOf(c).remember = {}
          BY <4>1 DEF Intends
        <5>2. S = {}
          BY <3>2, <5>1 DEF Plans
        <5>3. QED
          BY <3>2, <5>2
      <4>2. QED
        BY <2>2, <3>1, <4>1
    <3>6. PlanOK(c)'
      BY <3>1, <3>3, <3>4, <3>5 DEF PlanOK
    <3>7. ASSUME NEW d \in Client \ {c}
          PROVE  PlanOK(d)'
      <4>1. ~(pc[d] = "record" /\ Intends(d))
        BY <3>1
      <4>2. QED
        BY <1>0, <2>1, <3>1, <4>1, PlanKept
    <3>8. QED
      BY <1>1, <3>1, <3>6, <3>7 DEF CorrectionsInv
  <2>6. CASE Record(c)
    <3>1. /\ pc[c] = "record" /\ corrections' = Corrected(c) /\ pc'[c] = "save"
          /\ plan'[c] = {}
      <4>1. /\ pc[c] = "record" /\ Goes(c, "save")
            /\ corrections' = (corrections \ ChoiceOf(c).forget) \cup plan[c]
            /\ plan' = [plan EXCEPT ![c] = {}]
        BY <2>6 DEF Record
      <4>2. QED
        BY <1>0, <4>1 DEF Goes, Corrected
    <3>2. PlanOK(c)'
      BY <3>1 DEF PlanOK
    <3>3. CASE Intends(c)
      <4>1. CorrectionsWithinQuota'
        BY <1>0, <3>1, <3>3 DEF PlanOK, CorrectionsWithinQuota
      <4>2. ASSUME NEW d \in Client \ {c}
            PROVE  PlanOK(d)'
        <5>1. ~(pc[d] = "record" /\ Intends(d)) /\ plan[d] = {}
          BY <1>0, <3>1, <3>3 DEF PlanOK
        <5>2. ~(pc[d] = "record" /\ Intends(d))' /\ plan'[d] = {}
          BY <1>2, <2>1, <5>1
        <5>3. QED
          BY <5>2 DEF PlanOK
      <4>3. QED
        BY <3>2, <4>1, <4>2 DEF CorrectionsInv
    <3>4. CASE ~Intends(c)
      <4>1. corrections' \subseteq corrections
        BY <1>0, <3>1, <3>4 DEF PlanOK, Corrected
      <4>2. QED
        BY <1>4, <2>1, <3>1, <3>2, <4>1
    <3>5. QED
      BY <3>3, <3>4
  <2>7. QED
    BY <1>5, <2>3, <2>4, <2>5, <2>6 DEF Step
<1>6. ASSUME NEW c \in Client, NEW p \in DOMAIN previews, Confirm(c, p)
      PROVE  CorrectionsInv'
  <2>1. /\ pc[c] = "idle" /\ pc'[c] \in {"done", "lock"} /\ UNCHANGED <<corrections, plan>>
        /\ \A d \in Client \ {c} : pc'[d] = pc[d] /\ asked'[d] = asked[d]
    BY <1>0, <1>6 DEF Confirm, Goes, Typed, tables
  <2>2. PlanOK(c)'
    BY <1>0, <2>1 DEF PlanOK
  <2>3. QED
    BY <1>4, <2>1, <2>2
<1>7. CASE \E i \in Import : LockExpires(i)
  BY <1>3, <1>7 DEF LockExpires, tables
<1>8. QED
  BY <1>3, <1>5, <1>6, <1>7, Others

LEMMA CorrectionsStart == Init => CorrectionsInv
<1>1. Init => Cardinality(corrections) = 0 /\ \A c \in Client : pc[c] = "idle" /\ plan[c] = {}
  BY FS_EmptySet DEF Init
<1>2. QED
  BY <1>1, Numbers DEF CorrectionsInv, CorrectionsWithinQuota, PlanOK

\* Two imports of one member never both fit under the quota of corrections
\* when there is room for one (import.writer.ts:155).
THEOREM CorrectionsAlwaysWithinQuota == Spec => []CorrectionsWithinQuota
<1>1. Typed /\ CorrectionsInv /\ [Next]_vars => Typed' /\ CorrectionsInv'
  BY TypedStep, CorrectionsStep
<1>2. CorrectionsInv => CorrectionsWithinQuota
  BY DEF CorrectionsInv
<1>3. QED
  BY TypedStarts, CorrectionsStart, <1>1, <1>2, PTL DEF Spec

-----------------------------------------------------------------------------
(* What an import records.                                                 *)

\* An operation of a that rows can match, and that was not just made to.
Bears(o, a) ==
  o \in DOMAIN operation \ reworked /\ operation[o].account = a /\ operation[o].row # NULL

\* A transaction's account still has the operations that its confirmation
\* worked from, but for those that others deleted or reworked.
UpToDate(c) ==
  InTx(c) =>
    \A o \in DOMAIN operation :
      Bears(o, AccountOf(c)) =>
        /\ o \in DOMAIN seen[c]
        /\ seen[c][o].row = operation[o].row /\ seen[c][o].by = operation[o].by

\* A confirmation writes what its preview showed.
AsShown(c) ==
  pc[c] \in {"hold", "labels", "record"} => seen[c] = previews[asked[c]].revision.recorded

\* What a preview showed was there before it.
ShownBefore ==
  \A p \in DOMAIN previews :
    \A o \in DOMAIN previews[p].revision.recorded : previews[p].revision.recorded[o].by < p

\* A transaction has its account to itself.
Alone == \A c, d \in Client : InTx(c) /\ InTx(d) /\ AccountOf(c) = AccountOf(d) => c = d

RecordingInv ==
  Alone /\ ShownBefore /\ \A c \in Client : AsShown(c) /\ UpToDate(c)

LEMMA RecordingStarts == Init => RecordingInv
<1> SUFFICES ASSUME Init
             PROVE  RecordingInv
  OBVIOUS
<1>1. previews = <<>> /\ \A c \in Client : pc[c] = "idle"
  BY DEF Init
<1>2. DOMAIN previews = {}
  BY <1>1
<1>3. QED
  BY <1>1, <1>2 DEF RecordingInv, Alone, ShownBefore, AsShown, UpToDate, InTx

\* The transactions of a step that starts none are those of before.
LEMMA SameAccount ==
  ASSUME Typed, [Next]_vars, NEW c \in Client, pc[c] \notin {"idle", "done"},
         asked'[c] = asked[c]
  PROVE  AccountOf(c)' = AccountOf(c) /\ previews'[asked'[c]] = previews[asked[c]]
BY PreviewKept DEF Asking

LEMMA ShownBeforeStep ==
  ASSUME Typed, ShownBefore, [Next]_vars
  PROVE  ShownBefore'
<1>1. ASSUME NEW i \in Import, NEW choice \in Choice, ShowPreview(i, choice)
      PROVE  ShownBefore'
  <2> SUFFICES ASSUME NEW p \in DOMAIN previews',
                      NEW o \in DOMAIN previews'[p].revision.recorded
               PROVE  previews'[p].revision.recorded[o].by < p
    BY DEF ShownBefore
  <2>1. CASE p \in DOMAIN previews
    BY <1>1, <2>1, PreviewShown DEF ShownBefore
  <2>2. CASE p \notin DOMAIN previews
    <3>1. p = Len(previews) + 1 /\ previews'[p].revision = Revision(i)
      BY <1>1, <2>2, PreviewShown
    <3>2. o \in DOMAIN operation /\ previews'[p].revision.recorded[o] = operation[o]
      BY <3>1 DEF Revision, RecordedAround
    <3>3. operation[o].by <= Len(previews) /\ operation[o].by \in Nat /\ Len(previews) \in Nat
      <4>1. operation[o] \in OperationRow /\ operation[o].by <= Len(previews)
            /\ Len(previews) \in Nat
        BY <3>2, LenProperties DEF Typed
      <4>2. QED
        BY <4>1, Numbers DEF OperationRow
    <3>4. QED
      BY <3>1, <3>2, <3>3
  <2>3. QED
    BY <2>1, <2>2
<1>2. ASSUME UNCHANGED previews
      PROVE  ShownBefore'
  BY <1>2 DEF ShownBefore
<1>3. ASSUME UNCHANGED vars
      PROVE  UNCHANGED previews
  BY <1>3 DEF vars
<1>4. ASSUME Editing
      PROVE  UNCHANGED previews
  BY <1>4, Edits
<1>5. ASSUME \E d \in Client : Step(d) \/ \E p \in DOMAIN previews : Confirm(d, p)
      PROVE  UNCHANGED previews
  BY <1>5, StepOwn DEF Confirm
<1>6. ASSUME \E i \in Import : LockExpires(i) \/ FileGoes(i) \/ OutcomeGoes(i)
      PROVE  UNCHANGED previews
  BY <1>6 DEF LockExpires, FileGoes, OutcomeGoes
<1>7. QED
  BY <1>1, <1>2, <1>3, <1>4, <1>5, <1>6 DEF Next, Editing

\* Holding keeps Alone; nothing else starts a transaction.
LEMMA AloneStep ==
  ASSUME Typed, Alone, [Next]_vars
  PROVE  Alone'
<1>0. pc \in [Client -> Steps]
  BY DEF Typed
<1>1. ASSUME NEW c \in Client, InTx(c)', asked'[c] = asked[c], InTx(c)
      PROVE  AccountOf(c)' = AccountOf(c)
  BY <1>1, SameAccount DEF InTx
<1>2. ASSUME \A c \in Client : InTx(c)' => InTx(c) /\ asked'[c] = asked[c]
      PROVE  Alone'
  BY <1>1, <1>2 DEF Alone
<1>3. ASSUME NEW c \in Client, Step(c)
      PROVE  Alone'
  <2>1. /\ Asking(c) /\ pc' = [pc EXCEPT ![c] = pc'[c]]
        /\ \A d \in Client \ {c} : pc'[d] = pc[d] /\ asked'[d] = asked[d]
        /\ pc'[c] # "done" => asked'[c] = asked[c]
    BY <1>3, StepOwn
  <2>2. CASE Hold(c)
    <3>1. ~AccountHeld(AccountOf(c)) /\ pc[c] = "hold"
      BY <2>2 DEF Hold
    <3>2. InTx(c)' => AccountOf(c)' = AccountOf(c)
      BY <2>1, <3>1, SameAccount DEF InTx
    <3>3. \A d \in Client \ {c} :
            InTx(d)' => InTx(d) /\ AccountOf(d)' = AccountOf(d) /\ AccountOf(d) # AccountOf(c)
      BY <1>1, <2>1, <3>1 DEF InTx, AccountHeld
    <3>4. QED
      BY <3>2, <3>3 DEF Alone
  <2>3. CASE ~Hold(c)
    <3>1. pc'[c] \in {"labels", "record"} => pc[c] \in {"labels", "record"}
      BY <1>0, <1>3, <2>3 DEF Step, LockConfirmation, LookAgain, Evaluate, Evaluated, PlanLabels,
         Record, SaveOutcome, Discard, Unlock, Fail, Crash, Answered, Goes
    <3>2. QED
      BY <1>2, <2>1, <3>1 DEF InTx
  <2>4. QED
    BY <2>2, <2>3
<1>4. ASSUME NEW c \in Client, NEW p \in DOMAIN previews, Confirm(c, p)
      PROVE  Alone'
  <2>1. /\ pc'[c] \in {"done", "lock"}
        /\ \A d \in Client \ {c} : pc'[d] = pc[d] /\ asked'[d] = asked[d]
    BY <1>0, <1>4 DEF Confirm, Goes, Typed
  <2>2. QED
    BY <1>2, <2>1 DEF InTx
<1>5. CASE UNCHANGED <<pc, asked>>
  BY <1>2, <1>5 DEF InTx
<1>6. CASE \E i \in Import : LockExpires(i)
  BY <1>5, <1>6 DEF LockExpires
<1>7. QED
  BY <1>3, <1>4, <1>5, <1>6, Others

\* What a confirmation works from stays what its preview showed.
LEMMA AsShownStep ==
  ASSUME Typed, [Next]_vars, \A c \in Client : AsShown(c), NEW d \in Client
  PROVE  AsShown(d)'
<1>0. pc \in [Client -> Steps] /\ seen = [c \in Client |-> seen[c]]
  BY DEF Typed
<1>1. ASSUME pc[d] \in {"hold", "labels", "record"}, asked'[d] = asked[d], seen'[d] = seen[d]
      PROVE  AsShown(d)'
  BY <1>1, SameAccount DEF AsShown
<1>2. ASSUME NEW c \in Client, Step(c)
      PROVE  AsShown(d)'
  <2>1. /\ Asking(c) /\ pc' = [pc EXCEPT ![c] = pc'[c]] /\ UNCHANGED <<target, previews>>
        /\ \A x \in Client \ {c} : pc'[x] = pc[x] /\ asked'[x] = asked[x] /\ seen'[x] = seen[x]
        /\ pc'[c] # "done" => asked'[c] = asked[c]
    BY <1>2, StepOwn
  <2>2. CASE d # c
    BY <1>1, <2>1, <2>2 DEF AsShown
  <2>3. CASE d = c /\ Evaluate(c)
    <3>1. ASSUME pc'[c] = "hold"
          PROVE  seen'[c] = previews[asked[c]].revision.recorded
      <4>1. seen'[c] = RecordedAround(AccountOf(c)) /\ Revision(Of(c)) = previews[asked[c]].revision
        BY <1>0, <2>3, <3>1 DEF Evaluate, Evaluated, Goes
      <4>2. QED
        BY <4>1 DEF Revision, AccountOf
    <3>2. pc'[c] \notin {"labels", "record"}
      BY <1>0, <2>3 DEF Evaluate, Evaluated, Goes
    <3>3. QED
      BY <2>1, <2>3, <3>1, <3>2 DEF AsShown
  <2>4. CASE d = c /\ ~Evaluate(c)
    <3>1. pc'[c] \in {"hold", "labels", "record"} =>
            pc[c] \in {"hold", "labels", "record"} /\ seen'[c] = seen[c]
      <4>1. CASE LockConfirmation(c) \/ LookAgain(c) \/ SaveOutcome(c) \/ Discard(c) \/ Unlock(c)
                   \/ Fail(c) \/ Crash(c) \/ Record(c)
        BY <1>0, <4>1 DEF LockConfirmation, LookAgain, SaveOutcome, Discard, Unlock, Fail, Crash,
           Record, Answered, Goes
      <4>2. CASE Hold(c) \/ PlanLabels(c)
        BY <1>0, <4>2 DEF Hold, PlanLabels
      <4>3. QED
        BY <1>2, <2>4, <4>1, <4>2 DEF Step
    <3>2. QED
      BY <1>1, <2>1, <2>4, <3>1 DEF AsShown
  <2>5. QED
    BY <2>2, <2>3, <2>4
<1>3. ASSUME NEW c \in Client, NEW p \in DOMAIN previews, Confirm(c, p)
      PROVE  AsShown(d)'
  <2>1. /\ pc'[c] \in {"done", "lock"} /\ seen' = seen
        /\ \A x \in Client \ {c} : pc'[x] = pc[x] /\ asked'[x] = asked[x]
    BY <1>0, <1>3 DEF Confirm, Goes, Typed
  <2>2. QED
    BY <1>1, <2>1 DEF AsShown
<1>4. CASE UNCHANGED <<pc, asked, seen>>
  BY <1>1, <1>4 DEF AsShown
<1>5. CASE \E i \in Import : LockExpires(i)
  BY <1>4, <1>5 DEF LockExpires
<1>6. QED
  BY <1>2, <1>3, <1>4, <1>5, Others

\* A transaction stays up to date when no operation comes to bear on its
\* account, or is seen to change.
LEMMA UpToDateKept ==
  ASSUME Typed, [Next]_vars, NEW d \in Client, UpToDate(d), InTx(d)' => InTx(d),
         asked'[d] = asked[d], seen'[d] = seen[d],
         InTx(d) =>
           \A o \in DOMAIN operation' :
             Bears(o, AccountOf(d))' =>
               /\ o \in DOMAIN operation \ reworked
               /\ operation[o].account = operation'[o].account
               /\ operation[o].row = operation'[o].row /\ operation[o].by = operation'[o].by
  PROVE  UpToDate(d)'
<1> SUFFICES ASSUME InTx(d)'
             PROVE  UpToDate(d)'
  BY DEF UpToDate
<1>1. InTx(d) /\ AccountOf(d)' = AccountOf(d)
  BY SameAccount DEF InTx
<1>2. ASSUME NEW o \in DOMAIN operation', Bears(o, AccountOf(d))'
      PROVE  /\ o \in DOMAIN seen[d]
             /\ seen[d][o].row = operation'[o].row /\ seen[d][o].by = operation'[o].by
  <2>1. /\ o \in DOMAIN operation \ reworked /\ operation[o].account = operation'[o].account
        /\ operation[o].row = operation'[o].row /\ operation[o].by = operation'[o].by
    BY <1>1, <1>2
  <2>2. Bears(o, AccountOf(d))
    BY <1>1, <1>2, <2>1 DEF Bears
  <2>3. QED
    BY <1>1, <2>1, <2>2 DEF UpToDate
<1>3. QED
  BY <1>1, <1>2 DEF UpToDate

\* What an edit makes of an operation that bears on an account held.
LEMMA EditsOutside ==
  ASSUME Typed, Editing, NEW a, AccountHeld(a), NEW o \in DOMAIN operation',
         o \notin reworked', operation'[o].account = a, operation'[o].row # NULL
  PROVE  /\ o \in DOMAIN operation \ reworked /\ operation[o].account = a
         /\ operation[o].row = operation'[o].row /\ operation[o].by = operation'[o].by
<1>0. operation \in [DOMAIN operation -> OperationRow]
  BY DEF Typed
<1>1. /\ o \in DOMAIN operation => operation'[o].by = operation[o].by
      /\ o \in DOMAIN operation => operation'[o].account = operation[o].account
      /\ o \notin DOMAIN operation => ~AccountHeld(operation'[o].account)
  BY Edits
<1>2. o \in DOMAIN operation /\ operation'[o].by = operation[o].by /\ operation[o].account = a
  BY <1>1
<1>3. o \notin reworked /\ operation'[o].row = operation[o].row
  <2>1. ASSUME NEW b \in Account, NEW r \in Row, Enter(b, r)
        PROVE  o \notin reworked /\ operation'[o].row = operation[o].row
    <3>1. /\ UNCHANGED reworked /\ drawn' = drawn + 1 /\ drawn + 1 \notin DOMAIN operation
          /\ operation' = [x \in DOMAIN operation \cup {drawn + 1} |->
                             IF x = drawn + 1
                               THEN [account |-> b, row |-> r, by |-> 0, reconciled |-> FALSE]
                               ELSE operation[x]]
      BY <2>1 DEF Enter, Typed
    <3>2. QED
      BY <1>2, <3>1
  <2>2. ASSUME NEW x \in Operation, Delete(x)
        PROVE  o \notin reworked /\ operation'[o].row = operation[o].row
    BY <1>2, <2>2 DEF Delete
  <2>3. ASSUME NEW x \in Operation, Reconcile(x)
        PROVE  o \notin reworked /\ operation'[o].row = operation[o].row
    BY <1>0, <1>2, <2>3 DEF Reconcile, OperationRow
  <2>4. ASSUME NEW x \in Operation, NEW r \in Row \cup {NULL}, Rework(x, r)
        PROVE  o \notin reworked /\ operation'[o].row = operation[o].row
    <3>1. x # o
      BY <1>2, <2>4 DEF Rework
    <3>2. QED
      BY <1>0, <1>2, <2>4, <3>1 DEF Rework
  <2>5. ASSUME NEW l \in Label, ForgetCorrection(l)
        PROVE  o \notin reworked /\ operation'[o].row = operation[o].row
    BY <2>5 DEF ForgetCorrection
  <2>6. QED
    BY <2>1, <2>2, <2>3, <2>4, <2>5 DEF Editing
<1>4. QED
  BY <1>2, <1>3

LEMMA UpToDateStep ==
  ASSUME Typed, RecordingInv, [Next]_vars, NEW d \in Client
  PROVE  UpToDate(d)'
<1>0. /\ pc \in [Client -> Steps] /\ UpToDate(d) /\ Alone
      /\ operation \in [DOMAIN operation -> OperationRow]
  BY DEF Typed, RecordingInv
<1>1. ASSUME UNCHANGED <<operation, reworked>>, InTx(d)' => InTx(d), asked'[d] = asked[d],
             seen'[d] = seen[d]
      PROVE  UpToDate(d)'
  <2>1. ASSUME NEW o \in DOMAIN operation', Bears(o, AccountOf(d))'
        PROVE  /\ o \in DOMAIN operation \ reworked
               /\ operation[o].account = operation'[o].account
               /\ operation[o].row = operation'[o].row /\ operation[o].by = operation'[o].by
    BY <1>1, <2>1 DEF Bears
  <2>2. QED
    BY <1>0, <1>1, <2>1, UpToDateKept
<1>2. ASSUME NEW c \in Client, Step(c)
      PROVE  UpToDate(d)'
  <2>1. /\ Asking(c) /\ pc' = [pc EXCEPT ![c] = pc'[c]] /\ UNCHANGED <<target, previews>>
        /\ \A x \in Client \ {c} : pc'[x] = pc[x] /\ asked'[x] = asked[x] /\ seen'[x] = seen[x]
        /\ pc'[c] # "done" => asked'[c] = asked[c]
    BY <1>2, StepOwn
  <2>2. ASSUME d # c, InTx(d)
        PROVE  AccountOf(d)' = AccountOf(d)
    BY <2>1, <2>2, SameAccount DEF InTx
  <2>3. CASE Hold(c)
    <3>1. /\ pc[c] = "hold" /\ ~AccountHeld(AccountOf(c)) /\ UNCHANGED <<operation, seen, asked>>
          /\ reworked' = {o \in reworked : operation[o].account # AccountOf(c)}
          /\ pc'[c] \in {"labels", "record"} => RecordedAround(AccountOf(c)) = seen[c]
      BY <1>0, <2>3 DEF Hold, Goes, Keep, tables
    <3>2. CASE d = c
      <4>1. ASSUME pc'[c] \in {"labels", "record"}, NEW o \in DOMAIN operation,
                   operation[o].account = AccountOf(c), operation[o].row # NULL
            PROVE  /\ o \in DOMAIN seen[c]
                   /\ seen[c][o].row = operation[o].row /\ seen[c][o].by = operation[o].by
        <5>1. o \in DOMAIN RecordedAround(AccountOf(c))
              /\ RecordedAround(AccountOf(c))[o] = operation[o]
          BY <4>1 DEF RecordedAround
        <5>2. QED
          BY <3>1, <4>1, <5>1
      <4>2. AccountOf(c)' = AccountOf(c)
        BY <2>1, <3>1 DEF AccountOf, Of
      <4>3. QED
        BY <3>1, <3>2, <4>1, <4>2 DEF UpToDate, InTx, Bears
    <3>3. CASE d # c
      <4>1. InTx(d) => AccountOf(d) # AccountOf(c)
        BY <3>1 DEF AccountHeld
      <4>2. InTx(d)' => InTx(d)
        BY <2>1, <3>3 DEF InTx
      <4>3. ASSUME InTx(d), NEW o \in DOMAIN operation', Bears(o, AccountOf(d))'
            PROVE  /\ o \in DOMAIN operation \ reworked
                   /\ operation[o].account = operation'[o].account
                   /\ operation[o].row = operation'[o].row /\ operation[o].by = operation'[o].by
        BY <2>2, <3>1, <3>3, <4>1, <4>3 DEF Bears
      <4>4. QED
        BY <1>0, <2>1, <3>3, <4>2, <4>3, UpToDateKept
    <3>4. QED
      BY <3>2, <3>3
  <2>4. CASE Record(c)
    <3>1. pc[c] = "record" /\ pc'[c] = "save" /\ UNCHANGED reworked
      <4>1. pc[c] = "record" /\ Goes(c, "save") /\ UNCHANGED reworked
        BY <2>4 DEF Record
      <4>2. QED
        BY <1>0, <4>1 DEF Goes
    <3>2. CASE d = c
      BY <3>1, <3>2 DEF UpToDate, InTx
    <3>3. CASE d # c
      <4>1. InTx(d) => AccountOf(d) # AccountOf(c)
        BY <1>0, <3>1, <3>3 DEF Alone, InTx
      <4>2. InTx(d)' => InTx(d)
        BY <2>1, <3>3 DEF InTx
      <4>3. ASSUME InTx(d), NEW o \in DOMAIN operation', Bears(o, AccountOf(d))'
            PROVE  /\ o \in DOMAIN operation \ reworked
                   /\ operation[o].account = operation'[o].account
                   /\ operation[o].row = operation'[o].row /\ operation[o].by = operation'[o].by
        <5>1. operation'[o].account = AccountOf(d) /\ o \notin reworked
          BY <2>2, <3>1, <3>3, <4>3 DEF Bears
        <5>2. o \in DOMAIN operation
          BY <2>4, <4>1, <4>3, <5>1, Records
        <5>3. QED
          BY <2>4, <5>1, <5>2, Records
      <4>4. QED
        BY <1>0, <2>1, <3>3, <4>2, <4>3, UpToDateKept
    <3>4. QED
      BY <3>2, <3>3
  <2>5. CASE PlanLabels(c)
    <3>1. UNCHANGED <<operation, reworked, seen, asked>> /\ InTx(c)
      BY <2>5 DEF PlanLabels, Keep, tables, history, InTx
    <3>2. InTx(d)' => InTx(d)
      BY <2>1, <3>1 DEF InTx
    <3>3. QED
      BY <1>1, <3>1, <3>2
  <2>6. CASE LockConfirmation(c) \/ LookAgain(c) \/ Evaluate(c) \/ SaveOutcome(c) \/ Discard(c)
               \/ Unlock(c) \/ Fail(c) \/ Crash(c)
    <3>1. UNCHANGED <<operation, reworked>> /\ pc'[c] \notin {"labels", "record"}
      BY <1>0, <2>6 DEF LockConfirmation, LookAgain, Evaluate, Evaluated, SaveOutcome, Discard,
         Unlock, Fail, Crash, Answered, Goes, tables, history
    <3>2. CASE d = c
      BY <3>1, <3>2 DEF UpToDate, InTx
    <3>3. CASE d # c
      BY <1>1, <2>1, <3>1, <3>3 DEF InTx
    <3>4. QED
      BY <3>2, <3>3
  <2>7. QED
    BY <1>2, <2>3, <2>4, <2>5, <2>6 DEF Step
<1>3. ASSUME NEW c \in Client, NEW p \in DOMAIN previews, Confirm(c, p)
      PROVE  UpToDate(d)'
  <2>1. /\ pc'[c] \in {"done", "lock"} /\ UNCHANGED <<seen, operation, reworked>>
        /\ \A x \in Client \ {c} : pc'[x] = pc[x] /\ asked'[x] = asked[x]
    BY <1>0, <1>3 DEF Confirm, Goes, Typed, tables, history
  <2>2. CASE d = c
    BY <2>1, <2>2 DEF UpToDate, InTx
  <2>3. CASE d # c
    BY <1>1, <2>1, <2>3 DEF InTx
  <2>4. QED
    BY <2>2, <2>3
<1>4. CASE UNCHANGED <<pc, asked, seen, operation, reworked>>
  BY <1>1, <1>4 DEF InTx
<1>5. ASSUME Editing
      PROVE  UpToDate(d)'
  <2>1. UNCHANGED <<target, previews, pc, asked, seen>>
    BY <1>5, Edits
  <2>2. AccountOf(d)' = AccountOf(d) /\ (InTx(d)' <=> InTx(d))
    BY <2>1 DEF AccountOf, Of, InTx
  <2>3. ASSUME InTx(d), NEW o \in DOMAIN operation', Bears(o, AccountOf(d))'
        PROVE  /\ o \in DOMAIN operation \ reworked
               /\ operation[o].account = operation'[o].account
               /\ operation[o].row = operation'[o].row /\ operation[o].by = operation'[o].by
    <3>1. AccountHeld(AccountOf(d))
      BY <2>3 DEF AccountHeld
    <3>2. o \notin reworked' /\ operation'[o].account = AccountOf(d) /\ operation'[o].row # NULL
      BY <2>2, <2>3 DEF Bears
    <3>3. QED
      BY <1>5, <2>3, <3>1, <3>2, EditsOutside
  <2>4. QED
    BY <1>0, <2>1, <2>2, <2>3, UpToDateKept
<1>6. CASE \E i \in Import, choice \in Choice : ShowPreview(i, choice)
  BY <1>4, <1>6 DEF ShowPreview, tables, history
<1>7. CASE \E i \in Import : LockExpires(i) \/ FileGoes(i) \/ OutcomeGoes(i)
  BY <1>4, <1>7 DEF LockExpires, FileGoes, OutcomeGoes, tables, history
<1>8. CASE UNCHANGED vars
  BY <1>4, <1>8 DEF vars, tables, history
<1>9. QED
  BY <1>2, <1>3, <1>5, <1>6, <1>7, <1>8 DEF Next, Editing

LEMMA RecordingStep == Typed /\ RecordingInv /\ [Next]_vars => RecordingInv'
<1> SUFFICES ASSUME Typed, RecordingInv, [Next]_vars
             PROVE  RecordingInv'
  OBVIOUS
<1>1. Alone' /\ ShownBefore'
  BY AloneStep, ShownBeforeStep DEF RecordingInv
<1>2. \A d \in Client : AsShown(d)' /\ UpToDate(d)'
  BY AsShownStep, UpToDateStep DEF RecordingInv
<1>3. QED
  BY <1>1, <1>2 DEF RecordingInv

\* Every variable keeps its type, and the transaction that records an import
\* has its account to itself.
THEOREM TypeCorrect == Spec => []TypeOK
<1>1. Typed /\ RecordingInv => TypeOK
  BY DEF Typed, OperationRow, RecordingInv, Alone, TypeOK
<1>2. QED
  BY TypedStarts, TypedStep, RecordingStarts, RecordingStep, <1>1, PTL DEF Spec

\* Only a confirmation records operations that say which preview they are of.
LEMMA ImportedByRecord ==
  ASSUME Typed, [Next]_vars, NEW o \in Imported
  PROVE  \E c \in Client : Record(c)
<1>1. o \in DOMAIN operation' \ DOMAIN operation /\ operation'[o].by # 0
  BY DEF Imported
<1>2. ~Editing
  BY <1>1, Edits
<1>3. ASSUME NEW c \in Client, Step(c), ~Record(c)
      PROVE  UNCHANGED operation
  BY <1>3 DEF Step, LockConfirmation, LookAgain, Evaluate, Hold, PlanLabels, SaveOutcome,
     Discard, Unlock, Fail, Crash, tables
<1>4. ASSUME \/ \E i \in Import, choice \in Choice : ShowPreview(i, choice)
             \/ \E c \in Client, p \in DOMAIN previews : Confirm(c, p)
             \/ \E i \in Import : LockExpires(i) \/ FileGoes(i) \/ OutcomeGoes(i)
             \/ UNCHANGED vars
      PROVE  UNCHANGED operation
  BY <1>4 DEF ShowPreview, Confirm, LockExpires, FileGoes, OutcomeGoes, vars, tables
<1>5. operation' # operation
  BY <1>1
<1>6. QED
  BY <1>2, <1>3, <1>4, <1>5 DEF Next, Editing

\* What a recorded row finds beside it was seen by its confirmation.
LEMMA DescribedSeen ==
  ASSUME Typed, RecordingInv, [Next]_vars, NEW o \in Imported, NEW x \in Described(o)
  PROVE  /\ operation[x].by # operation'[o].by
         /\ operation'[o].row \in previews[operation'[o].by].choice.included
<1>1. PICK c \in Client : Record(c)
  BY ImportedByRecord
<1>2. pc[c] = "record"
  BY <1>1 DEF Record
<1>3. /\ operation'[o].account = AccountOf(c) /\ operation'[o].by = asked[c]
      /\ operation'[o].row \in ToImport(seen[c], ChoiceOf(c))
  BY <1>1, Records DEF Imported
<1>4. operation'[o].row \in Row /\ NULL \notin Row
  BY <1>3, ToImportRows, ImportAssumption
<1>5. Bears(x, AccountOf(c)) /\ x \in DOMAIN operation /\ operation[x].row = operation'[o].row
  BY <1>3, <1>4 DEF Described, Bears
<1>6. /\ x \in DOMAIN seen[c] /\ seen[c][x].row = operation[x].row
      /\ seen[c][x].by = operation[x].by
  BY <1>2, <1>5 DEF RecordingInv, UpToDate, InTx
<1>7. seen[c] = previews[asked[c]].revision.recorded /\ asked[c] \in DOMAIN previews
  BY <1>2, AskedPreview DEF RecordingInv, AsShown, Asking
<1>8. operation[x].by < asked[c]
  BY <1>6, <1>7 DEF RecordingInv, ShownBefore
<1>9. asked[c] \in Nat /\ operation[x].by \in Nat
  <2>1. DOMAIN previews = 1 .. Len(previews) /\ operation[x] \in OperationRow
    BY <1>5, LenProperties DEF Typed
  <2>2. QED
    BY <1>7, <2>1, Numbers DEF OperationRow
<1>10. x \in Matching(seen[c], operation'[o].row)
  BY <1>5, <1>6 DEF Matching
<1>11. operation'[o].row \in ChoiceOf(c).included
  BY <1>3, <1>10 DEF ToImport
<1>12. QED
  BY <1>3, <1>8, <1>9, <1>11 DEF ChoiceOf

\* However often what a preview showed is confirmed, no row of it is recorded
\* beside its own operation.
THEOREM AlwaysRecordedOnce == Spec => RecordedOnce
<1>1. Typed /\ RecordingInv /\ [Next]_vars =>
        [\A o \in Imported : \A x \in Described(o) : operation[x].by # operation'[o].by]_vars
  BY DescribedSeen
<1>2. QED
  BY TypedStarts, TypedStep, RecordingStarts, RecordingStep, <1>1, PTL DEF Spec, RecordedOnce

\* An import adds no row that an operation of its account already describes,
\* unless the member included it (import.service.ts:276).
THEOREM NeverDuplicateEntry == Spec => NoDuplicateEntry
<1>1. Typed /\ RecordingInv /\ [Next]_vars =>
        [\A o \in Imported :
           operation'[o].row \notin previews[operation'[o].by].choice.included
             => Described(o) = {}]_vars
  BY DescribedSeen
<1>2. QED
  BY TypedStarts, TypedStep, RecordingStarts, RecordingStep, <1>1, PTL DEF Spec, NoDuplicateEntry

-----------------------------------------------------------------------------
(* The page.                                                               *)

\* The previews asked for are numbered in their order.
RunsNumbered ==
  previewRun \in Nat /\ \A c \in calls : c.run \in Nat /\ c.run <= previewRun

\* The newest preview asked for is that of the file shown, ...
NewestOfUpload ==
  \A c \in calls :
    c.to = "preview" /\ c.run = previewRun /\ upload # NULL => c.import = upload

\* ... and so is the one shown.
PreviewOfUpload == upload # NULL /\ preview # NULL => preview.import = upload

\* What the page shows of a preview belongs to it, and so does the revision
\* that a confirmation gives back.
ShownOfPreview ==
  preview # NULL =>
    /\ preview.key = appliedKey
    /\ included \subseteq preview.skipped
    /\ preview.revision[2] = preview.skipped

\* The server gives with a preview the revision of where it put the rows.
AnswersOfRevision ==
  \A c \in calls : c.to = "preview" /\ c.status = "ok" => c.revision[2] = c.skipped

\* A confirmation on its way says what the page showed: the rows that its
\* revision does not skip, and some that it does.
ConfirmsRevision ==
  \A c \in calls :
    c.to = "confirm" /\ c.status = "sent" =>
      /\ c.shown = (Row \ c.revision[2]) \cup c.included
      /\ c.included \subseteq c.revision[2]

RecordedAsShown == \A c \in calls : c.recorded # NULL => c.recorded = c.shown

CallsInv == AnswersOfRevision /\ ConfirmsRevision /\ RecordedAsShown

PageInv ==
  RunsNumbered /\ NewestOfUpload /\ PreviewOfUpload /\ ShownOfPreview /\ CallsInv

LEMMA PageInitial == Page!Init => PageInv
BY DEF Page!Init, PageInv, RunsNumbered, NewestOfUpload, PreviewOfUpload, ShownOfPreview,
       CallsInv, AnswersOfRevision, ConfirmsRevision, RecordedAsShown

-----------------------------------------------------------------------------
(* What happens to the calls.                                              *)

\* Some calls are over, and what was held may be released.
LEMMA CallsEnd ==
  ASSUME PageInv, calls' \subseteq calls \cup Page!Release,
         upload' \in {upload, NULL}, UNCHANGED previewRun
  PROVE  (RunsNumbered /\ NewestOfUpload /\ CallsInv)'
BY DEF PageInv, RunsNumbered, NewestOfUpload, CallsInv, AnswersOfRevision, ConfirmsRevision,
       RecordedAsShown, Page!Release, Page!Call

\* A preview is asked for, of the file that the page shows then.
LEMMA PreviewRuns ==
  ASSUME PageInv, NEW others \in SUBSET (calls \cup Page!Release), NEW import, NEW key,
         NEW chosen, Page!RunPreview(others, import, key, chosen), upload' = import
  PROVE  (RunsNumbered /\ NewestOfUpload /\ CallsInv)'
<1> DEFINE sent == [Page!Call("preview", import) EXCEPT
                       !.run = previewRun + 1, !.key = key, !.picks = chosen]
<1>1. previewRun \in Nat /\ previewRun' = previewRun + 1
  BY DEF Page!RunPreview, PageInv, RunsNumbered
<1>2. /\ sent.to = "preview" /\ sent.import = import /\ sent.run = previewRun + 1
      /\ sent.status = "sent" /\ sent.recorded = NULL
  BY DEF Page!Call
<1>3. calls' = others \cup {sent}
  BY DEF Page!RunPreview
<1>4. \A c \in others :
        /\ c.run \in Nat /\ c.run <= previewRun
        /\ c \in calls \/ (c.to = "release" /\ c.recorded = NULL)
  BY <1>1 DEF Page!Release, Page!Call, PageInv, RunsNumbered
<1> HIDE DEF sent
<1>5. (RunsNumbered /\ NewestOfUpload)'
  BY <1>1, <1>2, <1>3, <1>4 DEF RunsNumbered, NewestOfUpload
<1>6. CallsInv'
  BY <1>2, <1>3, <1>4
     DEF PageInv, CallsInv, AnswersOfRevision, ConfirmsRevision, RecordedAsShown
<1>7. QED
  BY <1>5, <1>6

\* The server, or the network, answers.
LEMMA CallAnswered ==
  ASSUME PageInv, NEW c \in calls, NEW answer, Page!Answers(c, answer),
         UNCHANGED <<Page!page, Page!flags>>,
         answer.to = c.to, answer.run = c.run, answer.status # "sent",
         c.to = "preview" => answer.import = c.import,
         c.to = "preview" /\ answer.status = "ok" => answer.revision[2] = answer.skipped,
         answer.recorded # NULL => answer.recorded = answer.shown
  PROVE  PageInv'
<1>1. \A d \in calls' : d \in calls \/ d = answer
  BY DEF Page!Answers
<1>2. (PreviewOfUpload /\ ShownOfPreview)'
  BY DEF PageInv, PreviewOfUpload, ShownOfPreview, Page!page, Page!flags
<1>3. (RunsNumbered /\ NewestOfUpload)'
  BY <1>1 DEF PageInv, RunsNumbered, NewestOfUpload, Page!page, Page!flags
<1>4. CallsInv'
  BY <1>1 DEF PageInv, CallsInv, AnswersOfRevision, ConfirmsRevision, RecordedAsShown
<1>5. QED
  BY <1>2, <1>3, <1>4 DEF PageInv

\* An answer that only says how it went.
LEMMA AnswersStatus ==
  ASSUME PageInv, NEW c \in calls, NEW status, status # "sent",
         Page!Answers(c, Page!Answered(c, status)), UNCHANGED <<Page!page, Page!flags>>,
         c.to = "preview" => status # "ok"
  PROVE  PageInv'
<1> DEFINE answer == Page!Answered(c, status)
<1>1. /\ answer.to = c.to /\ answer.run = c.run /\ answer.status = status
      /\ answer.import = c.import /\ answer.recorded = NULL
  BY DEF Page!Answered, Page!Call
<1> HIDE DEF answer
<1>2. Page!Answers(c, answer)
  BY DEF answer
<1>3. QED
  BY <1>1, <1>2, CallAnswered

-----------------------------------------------------------------------------
(* The server.                                                             *)

LEMMA UploadServed ==
  ASSUME PageInv, NEW c \in calls, c.to = "upload", Page!ServeUpload(c),
         UNCHANGED <<Page!page, Page!flags>>
  PROVE  PageInv'
<1>1. PICK i \in Page!NewIds : Page!Answers(c, [Page!Answered(c, "ok") EXCEPT !.import = i])
  BY DEF Page!ServeUpload
<1> DEFINE answer == [Page!Answered(c, "ok") EXCEPT !.import = i]
<1>2. /\ answer.to = c.to /\ answer.run = c.run /\ answer.status = "ok"
      /\ answer.recorded = NULL
  BY DEF Page!Answered, Page!Call
<1>3. Page!Answers(c, answer)
  BY <1>1
<1> HIDE DEF answer
<1>4. QED
  BY <1>2, <1>3, CallAnswered

LEMMA PreviewServed ==
  ASSUME PageInv, NEW c \in calls, c.to = "preview", Page!ServePreview(c),
         UNCHANGED <<Page!page, Page!flags>>
  PROVE  PageInv'
<1>1. CASE Page!Answers(c, Page!Answered(c, "not_found"))
  BY <1>1, AnswersStatus
<1>2. ASSUME NEW matched \in Matches,
             Page!Answers(c, [Page!Answered(c, "ok") EXCEPT
                                !.key = c.key, !.skipped = Page!Skipped(matched, c.picks),
                                !.revision = Page!Revision(matched, c.picks)])
      PROVE  PageInv'
  <2> DEFINE skips == Page!Skipped(matched, c.picks)
             revision == Page!Revision(matched, c.picks)
             answer == [Page!Answered(c, "ok") EXCEPT
                          !.key = c.key, !.skipped = skips, !.revision = revision]
  <2>1. revision[2] = skips
    BY DEF Page!Revision
  <2>2. Page!Answers(c, answer)
    BY <1>2
  <2> HIDE DEF skips, revision
  <2>3. /\ answer.to = c.to /\ answer.run = c.run /\ answer.status = "ok"
        /\ answer.import = c.import /\ answer.recorded = NULL
        /\ answer.revision = revision /\ answer.skipped = skips
    BY DEF Page!Answered, Page!Call
  <2> HIDE DEF answer
  <2>4. QED
    BY <2>1, <2>2, <2>3, CallAnswered
<1>3. QED
  BY <1>1, <1>2 DEF Page!ServePreview

\* What is recorded is worked out from the rows' revision, which is the one
\* that the page confirmed.
LEMMA ConfirmServed ==
  ASSUME PageInv, NEW c \in calls, c.to = "confirm", c.status = "sent", Page!ServeConfirm(c),
         UNCHANGED <<Page!page, Page!flags>>
  PROVE  PageInv'
<1>1. ASSUME NEW status \in {"ok", "stale", "not_found"},
             Page!Answers(c, Page!Answered(c, status))
      PROVE  PageInv'
  BY <1>1, AnswersStatus
<1>2. ASSUME NEW matched \in Matches, c.revision = Page!Revision(matched, c.picks),
             Page!Answers(c, [Page!Answered(c, "ok") EXCEPT
               !.shown = c.shown,
               !.recorded = (Row \ Page!Skipped(matched, c.picks))
                              \cup (c.included \cap Page!Skipped(matched, c.picks))])
      PROVE  PageInv'
  <2> DEFINE skips == Page!Skipped(matched, c.picks)
             recorded == (Row \ skips) \cup (c.included \cap skips)
             answer == [Page!Answered(c, "ok") EXCEPT !.shown = c.shown, !.recorded = recorded]
  <2>1. c.revision[2] = skips
    BY <1>2 DEF Page!Revision
  <2>2. Page!Answers(c, answer)
    BY <1>2
  <2> HIDE DEF skips
  <2>3. recorded = c.shown
    BY <2>1 DEF PageInv, CallsInv, ConfirmsRevision
  <2> HIDE DEF recorded
  <2>4. /\ answer.to = c.to /\ answer.run = c.run /\ answer.status = "ok"
        /\ answer.recorded = recorded /\ answer.shown = c.shown
    BY DEF Page!Answered, Page!Call
  <2> HIDE DEF answer
  <2>5. QED
    BY <2>2, <2>3, <2>4, CallAnswered
<1>3. QED
  BY <1>1, <1>2 DEF Page!ServeConfirm

\* Nothing on the page changes.
LEMMA CallsDropped ==
  ASSUME PageInv, calls' \subseteq calls \cup Page!Release, UNCHANGED <<Page!page, Page!flags>>
  PROVE  PageInv'
BY CallsEnd DEF PageInv, PreviewOfUpload, ShownOfPreview, Page!page, Page!flags

LEMMA ServeKeeps ==
  ASSUME PageInv, NEW c \in calls, Page!Serve(c) \/ Page!Fail(c)
  PROVE  PageInv'
<1>1. UNCHANGED <<Page!page, Page!flags>>
  BY DEF Page!Serve, Page!Fail
<1>2. CASE c.status = "sent" /\ c.to = "upload" /\ Page!ServeUpload(c)
  BY <1>1, <1>2, UploadServed
<1>3. CASE c.status = "sent" /\ c.to = "preview" /\ Page!ServePreview(c)
  BY <1>1, <1>3, PreviewServed
<1>4. CASE c.status = "sent" /\ c.to = "confirm" /\ Page!ServeConfirm(c)
  BY <1>1, <1>4, ConfirmServed
<1>5. CASE Page!ServeRelease(c)
  BY <1>1, <1>5, CallsDropped DEF Page!ServeRelease
<1>6. CASE Page!Fail(c)
  <2>1. calls' = calls \ {c} \/ Page!Answers(c, Page!Answered(c, "error"))
    BY <1>6 DEF Page!Fail
  <2>2. QED
    BY <1>1, <2>1, CallsDropped, AnswersStatus
<1>7. QED
  BY <1>2, <1>3, <1>4, <1>5, <1>6 DEF Page!Serve

-----------------------------------------------------------------------------
(* The page and its member.                                                *)

\* Another preview of the file shown is asked for, as the member edits it.
LEMMA EditsKeep ==
  ASSUME PageInv, NEW key, NEW chosen, Page!RunPreview(calls, upload, key, chosen),
         UNCHANGED <<upload, preview, included, appliedKey>>
  PROVE  PageInv'
<1>1. (RunsNumbered /\ NewestOfUpload /\ CallsInv)'
  <2>1. calls \in SUBSET (calls \cup Page!Release) /\ upload' = upload
    OBVIOUS
  <2>2. QED
    BY <2>1, PreviewRuns
<1>2. (PreviewOfUpload /\ ShownOfPreview)'
  BY DEF PageInv, PreviewOfUpload, ShownOfPreview
<1>3. QED
  BY <1>1, <1>2 DEF PageInv

LEMMA ConfirmSent ==
  ASSUME PageInv, Page!Confirm
  PROVE  PageInv'
<1> DEFINE sent == [Page!Call("confirm", upload) EXCEPT
                      !.picks = picks, !.included = included,
                      !.revision = preview.revision, !.shown = Page!Shown]
<1>1. calls' = calls \cup {sent} /\ preview # NULL
      /\ UNCHANGED <<upload, preview, included, appliedKey, previewRun>>
  BY DEF Page!Confirm, Page!Confirmable, Page!Previewable, Page!page
<1>2. /\ sent.to = "confirm" /\ sent.run = 0 /\ sent.recorded = NULL
      /\ sent.included = included /\ sent.revision = preview.revision
      /\ sent.shown = Page!Shown
  BY DEF Page!Call
<1> HIDE DEF sent
<1>3. (RunsNumbered /\ NewestOfUpload)'
  BY <1>1, <1>2 DEF PageInv, RunsNumbered, NewestOfUpload
<1>4. (PreviewOfUpload /\ ShownOfPreview)'
  BY <1>1 DEF PageInv, PreviewOfUpload, ShownOfPreview
<1>5. (AnswersOfRevision /\ RecordedAsShown)'
  BY <1>1, <1>2 DEF PageInv, CallsInv, AnswersOfRevision, RecordedAsShown
<1>6. ConfirmsRevision'
  <2>1. sent.shown = (Row \ sent.revision[2]) \cup sent.included
    BY <1>1, <1>2 DEF PageInv, ShownOfPreview, Page!Shown
  <2>2. sent.included \subseteq sent.revision[2]
    BY <1>1, <1>2 DEF PageInv, ShownOfPreview
  <2>3. QED
    BY <1>1, <2>1, <2>2 DEF PageInv, CallsInv, ConfirmsRevision
<1>7. QED
  BY <1>3, <1>4, <1>5, <1>6 DEF PageInv, CallsInv

LEMMA ToggleKeeps ==
  ASSUME PageInv, NEW line \in Row, Page!ToggleIncluded(line)
  PROVE  PageInv'
<1>1. /\ preview # NULL /\ line \in preview.skipped
      /\ included' = IF line \in included THEN included \ {line} ELSE included \cup {line}
      /\ UNCHANGED <<upload, preview, appliedKey, previewRun, calls>>
  BY DEF Page!ToggleIncluded, Page!flags
<1>2. ShownOfPreview'
  BY <1>1 DEF PageInv, ShownOfPreview
<1>3. QED
  BY <1>1, <1>2
     DEF PageInv, RunsNumbered, NewestOfUpload, PreviewOfUpload, CallsInv, AnswersOfRevision,
         ConfirmsRevision, RecordedAsShown

LEMMA MemberKeeps ==
  ASSUME PageInv,
         \/ Page!UploadFile \/ Page!Retry \/ Page!Confirm \/ Page!Leave
         \/ \E l \in Labels : Page!KeepEdit(l)
         \/ \E line \in Row, choice \in Picked : Page!PickChoice(line, choice)
         \/ \E line \in Row : Page!ToggleIncluded(line)
  PROVE  PageInv'
<1>1. CASE Page!UploadFile
  <2> DEFINE sent == Page!Call("upload", NULL)
  <2>1. calls' = calls \cup {sent}
        /\ UNCHANGED <<upload, preview, included, appliedKey, previewRun>>
    BY <1>1 DEF Page!UploadFile, Page!page
  <2>2. sent.to = "upload" /\ sent.run = 0 /\ sent.recorded = NULL
    BY DEF Page!Call
  <2> HIDE DEF sent
  <2>3. QED
    BY <2>1, <2>2
       DEF PageInv, RunsNumbered, NewestOfUpload, PreviewOfUpload, ShownOfPreview, CallsInv,
           AnswersOfRevision, ConfirmsRevision, RecordedAsShown
<1>2. CASE Page!Retry
  BY <1>2, EditsKeep DEF Page!Retry, Page!page
<1>3. CASE Page!Confirm
  BY <1>3, ConfirmSent
<1>4. CASE Page!Leave
  <2>1. calls' \subseteq calls \cup Page!Release
        /\ UNCHANGED <<upload, preview, included, appliedKey, previewRun>>
    BY <1>4 DEF Page!Leave
  <2>2. QED
    BY <2>1, CallsEnd DEF PageInv, PreviewOfUpload, ShownOfPreview
<1>5. ASSUME NEW l \in Labels, Page!KeepEdit(l) PROVE PageInv'
  <2>1. UNCHANGED <<upload, preview, included, appliedKey>>
    BY <1>5 DEF Page!KeepEdit
  <2>2. CASE Page!RunPreview(calls, upload, l, picks)
    BY <2>1, <2>2, EditsKeep
  <2>3. CASE UNCHANGED <<previewRun, previewing, calls>>
    BY <2>1, <2>3, CallsEnd DEF PageInv, PreviewOfUpload, ShownOfPreview
  <2>4. QED
    BY <1>5, <2>2, <2>3 DEF Page!KeepEdit
<1>6. ASSUME NEW line \in Row, NEW choice \in Picked, Page!PickChoice(line, choice)
      PROVE  PageInv'
  BY <1>6, EditsKeep DEF Page!PickChoice
<1>7. ASSUME NEW line \in Row, Page!ToggleIncluded(line) PROVE PageInv'
  BY <1>7, ToggleKeeps
<1>8. QED
  BY <1>1, <1>2, <1>3, <1>4, <1>5, <1>6, <1>7

-----------------------------------------------------------------------------
(* The answers.                                                            *)

\* A failure leaves what is shown as it was, or nothing of it.
LEMMA FailureKeeps ==
  ASSUME PageInv, NEW c \in calls, Page!Failure(c), calls' \subseteq calls,
         UNCHANGED <<included, appliedKey, previewRun>>
  PROVE  PageInv'
<1>1. \/ upload' = NULL /\ preview' = NULL
      \/ UNCHANGED <<upload, preview>>
  BY DEF Page!Failure
<1>2. (PreviewOfUpload /\ ShownOfPreview)'
  BY <1>1 DEF PageInv, PreviewOfUpload, ShownOfPreview
<1>3. QED
  BY <1>1, <1>2, CallsEnd DEF PageInv

LEMMA PreviewReceived ==
  ASSUME PageInv, NEW c \in calls, Page!Previewed(c)
  PROVE  PageInv'
<1>1. /\ c.to = "preview" /\ c.run = previewRun
      /\ calls' = calls \ {c} /\ UNCHANGED previewRun
  BY DEF Page!Previewed, Page!IsNewest
<1>2. CASE Page!Failure(c) /\ UNCHANGED <<appliedKey, included>>
  BY <1>1, <1>2, FailureKeeps
<1>3. CASE c.status = "ok" /\ UNCHANGED <<upload, heldImportId>>
           /\ preview' = [import |-> c.import, key |-> c.key, skipped |-> c.skipped,
                          revision |-> c.revision]
           /\ appliedKey' = c.key /\ included' = included \cap c.skipped
  <2>1. PreviewOfUpload'
    BY <1>1, <1>3 DEF PageInv, NewestOfUpload, PreviewOfUpload
  <2>2. ShownOfPreview'
    BY <1>1, <1>3 DEF PageInv, CallsInv, AnswersOfRevision, ShownOfPreview
  <2>3. QED
    BY <1>1, <1>3, <2>1, <2>2, CallsEnd DEF PageInv
<1>4. QED
  BY <1>2, <1>3 DEF Page!Previewed

LEMMA ReceiveKeeps ==
  ASSUME PageInv, NEW c \in calls, Page!Receive(c)
  PROVE  PageInv'
<1>1. CASE Page!Uploaded(c)
  <2>1. Page!RunPreview((calls \ {c}) \cup Page!Release, c.import, NoEdit, Page!NoPicks)
        /\ upload' = c.import /\ preview' = NULL
    BY <1>1 DEF Page!Uploaded
  <2>2. (RunsNumbered /\ NewestOfUpload /\ CallsInv)'
    <3>1. (calls \ {c}) \cup Page!Release \in SUBSET (calls \cup Page!Release)
      OBVIOUS
    <3>2. QED
      BY <2>1, <3>1, PreviewRuns
  <2>3. QED
    BY <2>1, <2>2 DEF PageInv, PreviewOfUpload, ShownOfPreview
<1>2. CASE Page!UploadFailed(c)
  <2>1. calls' \subseteq calls /\ UNCHANGED <<upload, preview, included, appliedKey, previewRun>>
    BY <1>2 DEF Page!UploadFailed, Page!page
  <2>2. QED
    BY <2>1, CallsEnd DEF PageInv, PreviewOfUpload, ShownOfPreview
<1>3. CASE Page!Previewed(c)
  BY <1>3, PreviewReceived
<1>4. CASE Page!DropOldPreview(c)
  BY <1>4, CallsDropped DEF Page!DropOldPreview
<1>5. CASE Page!Confirmed(c)
  <2>1. UNCHANGED <<included, appliedKey>>
    BY <1>5 DEF Page!Confirmed
  <2>2. CASE calls' = calls \ {c} /\ UNCHANGED <<upload, preview, previewRun>>
    BY <2>1, <2>2, CallsEnd DEF PageInv, PreviewOfUpload, ShownOfPreview
  <2>3. CASE Page!RunPreview(calls \ {c}, upload, labels, picks) /\ UNCHANGED <<upload, preview>>
    <3>1. calls \ {c} \in SUBSET (calls \cup Page!Release) /\ upload' = upload
      BY <2>3
    <3>2. (RunsNumbered /\ NewestOfUpload /\ CallsInv)'
      BY <2>3, <3>1, PreviewRuns
    <3>3. QED
      BY <2>1, <2>3, <3>2 DEF PageInv, PreviewOfUpload, ShownOfPreview
  <2>4. CASE Page!Failure(c) /\ calls' = calls \ {c} /\ UNCHANGED previewRun
    BY <2>1, <2>4, FailureKeeps
  <2>5. QED
    BY <1>5, <2>2, <2>3, <2>4 DEF Page!Confirmed
<1>6. QED
  BY <1>1, <1>2, <1>3, <1>4, <1>5 DEF Page!Receive

-----------------------------------------------------------------------------
(* Together.                                                               *)

LEMMA PageStep == PageInv /\ [Page!Next]_(Page!vars) => PageInv'
<1> SUFFICES ASSUME PageInv, [Page!Next]_(Page!vars) PROVE PageInv'
  OBVIOUS
<1>1. ASSUME NEW c \in calls, Page!Serve(c) \/ Page!Fail(c) PROVE PageInv'
  BY <1>1, ServeKeeps
<1>2. ASSUME NEW c \in calls, Page!Receive(c) PROVE PageInv'
  BY <1>2, ReceiveKeeps
<1>3. ASSUME NEW i \in Import, Page!Expire(i) PROVE PageInv'
  BY <1>3, CallsDropped DEF Page!Expire
<1>4. CASE UNCHANGED Page!vars
  BY <1>4, CallsDropped DEF Page!vars
<1>5. QED
  BY <1>1, <1>2, <1>3, <1>4, MemberKeeps DEF Page!Next

\* What the page lets the member confirm is what it shows, of the file and the
\* edits shown, whatever order the answers came in; and what the server records
\* is what the page showed then, though the operations it matches have changed
\* or the preview of a later pick failed.
LEMMA PageConfirmsWhatIsShown == PageInv => Page!ConfirmsWhatIsShown
BY DEF PageInv, PreviewOfUpload, ShownOfPreview, CallsInv, RecordedAsShown,
       Page!ConfirmsWhatIsShown, Page!Confirmable, Page!Previewable

\* The page of an import confirms what it shows, and the server records just
\* that, for any files, edits, picks and order of the answers
\* (useImportSession.ts:137, revision.ts:52).
THEOREM AlwaysConfirmsWhatIsShown == ImportSpec => []ConfirmsWhatIsShown
<1> DEFINE PartInv == part = "page" => PageInv
<1>1. ImportInit => PartInv
  BY PageInitial DEF ImportInit
<1>2. PartInv /\ [ConfirmImport \/ ShowImport]_<<part, vars, page>> => PartInv'
  <2> SUFFICES ASSUME PageInv, part' = "page", part = "page",
                      [ConfirmImport \/ ShowImport]_<<part, vars, page>>
               PROVE  PageInv'
    BY DEF ConfirmImport, ShowImport
  <2>1. CASE ShowImport
    BY <2>1, PageStep DEF ShowImport
  <2>2. CASE UNCHANGED page
    BY <2>2, PageStep DEF page, Page!vars, Page!held, Page!page, Page!flags
  <2>3. QED
    BY <2>1, <2>2 DEF ConfirmImport
<1>3. PartInv => ConfirmsWhatIsShown
  BY PageConfirmsWhatIsShown DEF ConfirmsWhatIsShown
<1>4. QED
  BY <1>1, <1>2, <1>3, PTL DEF ImportSpec
=============================================================================
