---------------------------- MODULE BooksProofs ----------------------------
(***************************************************************************)
(* Ledger implements Books, for every instance: read as movements, the     *)
(* rows that a step writes one by one change as one step of Books, or not  *)
(* at all.                                                                 *)
(*                                                                         *)
(* Under the pairs' invariant the live rows that yield one movement are an *)
(* operation and its counterpart.  Three lemmas say what becomes of the    *)
(* set of movements when rows are added, rewritten and lost; each action   *)
(* is then one of the three, or changes no movement.                       *)
(***************************************************************************)
EXTENDS LedgerBooks, LedgerProofs

\* What the invariant says of the movement of a live operation.
LiveFact(o) ==
  LET p == operation[o].transferOperation IN
  /\ o \in DOMAIN operation /\ o \in Operation
  /\ operation[o] \in OperationRow
  /\ operation[o].account \in LiveAccounts
  /\ EndOf(o) \in B!End /\ EndOf(o) # NULL
  /\ EndOf(o).operation = o /\ EndOf(o).account = operation[o].account
  /\ p = NULL => B!Ends(MovementOf(o)) = {EndOf(o)}
  /\ p # NULL =>
       /\ p \in LiveOperations /\ p # o /\ operation[p].transferOperation = o
       /\ operation[p].account = operation[o].transferAccount
       /\ MovementOf(p) = MovementOf(o)
       /\ B!Ends(MovementOf(o)) = {EndOf(o), EndOf(p)}

LEMMA EndFacts ==
  ASSUME NEW o \in Operation, operation[o].account \in Account
  PROVE  /\ EndOf(o) \in B!End /\ EndOf(o) # NULL
         /\ EndOf(o).operation = o /\ EndOf(o).account = operation[o].account
<1>1. EndOf(o) \in [account : Account, operation : Operation]
  BY DEF EndOf
<1>2. QED
  BY <1>1, OutsideAssumption DEF EndOf, B!End

LEMMA LiveFacts == PairsInv => \A o \in LiveOperations : LiveFact(o)
<1> SUFFICES ASSUME PairsInv, NEW o \in LiveOperations
             PROVE  LiveFact(o)
  OBVIOUS
<1> DEFINE p == operation[o].transferOperation
<1>1. /\ o \in DOMAIN operation /\ o \in Operation /\ o # NULL
      /\ RowOK(o) /\ PairOK(o)
      /\ operation[o].account \in LiveAccounts /\ operation[o].account \in Account
      /\ operation[o].side \in Side
  BY TypeGivesRows, LedgerAssumption
     DEF PairsInv, LiveOperations, LiveAccounts, OperationsOK, RowOK, OperationRow
<1>2. /\ EndOf(o) \in B!End /\ EndOf(o) # NULL
      /\ EndOf(o).operation = o /\ EndOf(o).account = operation[o].account
  BY <1>1, EndFacts
<1>3. p = NULL => B!Ends(MovementOf(o)) = {EndOf(o)}
  <2> HAVE p = NULL
  <2>1. OtherEnd(o) = NULL
    BY DEF OtherEnd
  <2>2. QED
    BY <1>2, <2>1 DEF MovementOf, B!Ends
<1>4. ASSUME p # NULL
      PROVE  /\ p \in LiveOperations /\ p # o /\ operation[p].transferOperation = o
             /\ operation[p].account = operation[o].transferAccount
             /\ MovementOf(p) = MovementOf(o)
             /\ B!Ends(MovementOf(o)) = {EndOf(o), EndOf(p)}
  <2>1. /\ p \in DOMAIN operation /\ p \in Operation
        /\ MirrorOf(p, o)
        /\ operation[o].transferAccount # operation[o].account
        /\ NotDeleted(operation[o].transferAccount)
    BY <1>1, <1>4, TypeGivesRows
       DEF PairsInv, PairOK, RowOK, OperationsOK, LiveOperations
  <2>2. /\ p \in LiveOperations /\ p # o /\ operation[p].transferOperation = o
        /\ operation[p].account = operation[o].transferAccount
        /\ operation[p].side = Opposite(operation[o].side)
        /\ operation[p].content = operation[o].content
    BY <2>1 DEF MirrorOf, LiveOperations
  <2>3. EndOf(p) # NULL
    BY <2>1, TypeGivesRows, EndFacts DEF PairsInv, OperationsOK, RowOK, OperationRow
  <2>4. OtherEnd(o) = EndOf(p) /\ OtherEnd(p) = EndOf(o)
    BY <1>1, <1>4, <2>2 DEF OtherEnd
  <2>5. MovementOf(p) = MovementOf(o)
    BY <1>1, <2>2, <2>4 DEF MovementOf, Opposite, Side
  <2>6. B!Ends(MovementOf(o)) = {EndOf(o), EndOf(p)}
    BY <1>2, <2>3, <2>4 DEF MovementOf, B!Ends
  <2>7. QED
    BY <2>2, <2>5, <2>6
<1>5. QED
  BY <1>1, <1>2, <1>3, <1>4 DEF LiveFact, RowOK

LEMMA LiveFactsNext == PairsInv' => (\A o \in LiveOperations : LiveFact(o))'
  BY LiveFacts, PTL

\* Live operations whose movements share an end, or an operation, are an
\* operation and its counterpart.
LEMMA SharedEnd ==
  ASSUME PairsInv, NEW o \in LiveOperations, NEW q \in LiveOperations,
         NEW e \in B!Ends(MovementOf(q)), e.operation = o
  PROVE  /\ o = q \/ operation[q].transferOperation = o
         /\ e = EndOf(o) /\ MovementOf(q) = MovementOf(o)
  BY LiveFacts DEF LiveFact

\* A row whose own columns and whose counterpart's account stay yields the
\* movement it did.
LEMMA SameMovement ==
  ASSUME NEW x,
         operation'[x].account = operation[x].account,
         operation'[x].side = operation[x].side,
         operation'[x].content = operation[x].content,
         operation'[x].transferOperation = operation[x].transferOperation,
         operation[x].transferOperation # NULL =>
           operation'[operation[x].transferOperation].account
             = operation[operation[x].transferOperation].account
  PROVE  MovementOf(x)' = MovementOf(x) /\ EndOf(x)' = EndOf(x)
  BY DEF MovementOf, EndOf, OtherEnd

-----------------------------------------------------------------------------
(* The three ways in which movements change.                               *)

\* A movement without what is gone, column by column.
LEMMA WithoutOf ==
  ASSUME NEW debit, NEW credit, NEW content, NEW gone
  PROVE  B!Without([debit |-> debit, credit |-> credit, content |-> content], gone)
           = [debit |-> IF debit \in gone THEN NULL ELSE debit,
              credit |-> IF credit \in gone THEN NULL ELSE credit,
              content |-> content]
<1> DEFINE mv == [debit |-> debit, credit |-> credit, content |-> content]
           d == IF debit \in gone THEN NULL ELSE debit
           c == IF credit \in gone THEN NULL ELSE credit
<1>1. B!Without(mv, gone) = [mv EXCEPT !.debit = d, !.credit = c]
  BY Zenon DEF B!Without
<1> DEFINE half == [debit |-> d, credit |-> credit, content |-> content]
           whole == [debit |-> d, credit |-> c, content |-> content]
<1>2. [mv EXCEPT !.debit = d, !.credit = c] = whole
  <2> HIDE DEF d, c
  <2>1. [mv EXCEPT !.debit = d] = half
    BY SMT
  <2>2. [half EXCEPT !.credit = c] = whole
    BY SMT
  <2>3. [mv EXCEPT !.debit = d, !.credit = c] = [[mv EXCEPT !.debit = d] EXCEPT !.credit = c]
    <3> HIDE DEF mv
    <3>1. QED
      OBVIOUS
  <2>4. QED
    <3> HIDE DEF mv, half, whole
    <3>1. QED
      BY <2>1, <2>2, <2>3
<1>3. QED
  BY <1>1, <1>2

\* Rows are lost, and those that pointed at them made External.
LEMMA Lost ==
  ASSUME PairsInv, NEW G \in SUBSET LiveOperations, NEW E \in SUBSET B!End,
         LiveOperations' = LiveOperations \ G,
         \A q \in LiveOperations : EndOf(q) \in E <=> q \in G,
         \A x \in LiveOperations \ G :
           /\ operation'[x].account = operation[x].account
           /\ operation'[x].side = operation[x].side
           /\ operation'[x].content = operation[x].content
           /\ operation'[x].transferOperation =
                IF operation[x].transferOperation \in G THEN NULL
                ELSE operation[x].transferOperation
  PROVE  Movements' = B!Remaining(E)
<1>1. ASSUME NEW x \in LiveOperations \ G
      PROVE  /\ MovementOf(x)' = B!Without(MovementOf(x), E)
             /\ ~ (B!Ends(MovementOf(x)) \subseteq E)
  <2> DEFINE p == operation[x].transferOperation
  <2>1. LiveFact(x) /\ EndOf(x) \notin E
    BY LiveFacts
  <2>2. NULL \notin E /\ NULL \notin G
    BY OutsideAssumption, LedgerAssumption, LiveFacts DEF B!End, LiveFact
  <2>3. CASE p \in G
    <3>1. EndOf(p) \in E /\ OtherEnd(x) = EndOf(p)
      BY <2>2, <2>3 DEF OtherEnd
    <3>2. OtherEnd(x)' = NULL /\ EndOf(x)' = EndOf(x)
      BY <2>3 DEF OtherEnd, EndOf
    <3>3. MovementOf(x)' = B!Without(MovementOf(x), E)
      <4>1. CASE operation[x].side = "debit"
        <5>1. /\ MovementOf(x) = [debit |-> EndOf(x), credit |-> OtherEnd(x),
                                  content |-> operation[x].content]
              /\ MovementOf(x)' = [debit |-> EndOf(x), credit |-> NULL,
                                   content |-> operation[x].content]
          BY <3>2, <4>1 DEF MovementOf
        <5>2. QED
          BY <2>1, <3>1, <5>1, WithoutOf
      <4>2. CASE operation[x].side # "debit"
        <5>1. /\ MovementOf(x) = [debit |-> OtherEnd(x), credit |-> EndOf(x),
                                  content |-> operation[x].content]
              /\ MovementOf(x)' = [debit |-> NULL, credit |-> EndOf(x),
                                   content |-> operation[x].content]
          BY <3>2, <4>2 DEF MovementOf
        <5>2. QED
          BY <2>1, <3>1, <5>1, WithoutOf
      <4>3. QED
        BY <4>1, <4>2
    <3>4. QED
      BY <2>1, <3>3 DEF LiveFact
  <2>4. CASE p \notin G
    <3>1. p # NULL => p \in LiveOperations \ G /\ EndOf(p) \notin E
      BY <2>1, <2>4 DEF LiveFact
    <3>2. MovementOf(x)' = MovementOf(x)
      BY <2>4, <3>1, SameMovement
    <3>3. OtherEnd(x) \notin E
      BY <2>2, <3>1 DEF OtherEnd
    <3>4. B!Without(MovementOf(x), E) = MovementOf(x)
      BY <2>1, <3>3 DEF MovementOf, B!Without
    <3>5. QED
      BY <2>1, <3>2, <3>4 DEF LiveFact
  <2>5. QED
    BY <2>3, <2>4
<1>2. ASSUME NEW q \in LiveOperations, ~ (B!Ends(MovementOf(q)) \subseteq E)
      PROVE  \E x \in LiveOperations \ G : MovementOf(x) = MovementOf(q)
  <2>1. CASE q \notin G
    BY <2>1
  <2>2. CASE q \in G
    BY <1>2, <2>2, LiveFacts DEF LiveFact
  <2>3. QED
    BY <2>1, <2>2
<1>3. Movements' = {MovementOf(x)' : x \in LiveOperations \ G}
  BY DEF Movements
<1>4. QED
  BY <1>1, <1>2, <1>3 DEF Movements, B!Remaining

\* A row is added, maybe with its mirror n.
LEMMA Added ==
  ASSUME PairsInv, PairsInv', NEW o, NEW n, o \in LiveOperations', o \notin DOMAIN operation,
         n = operation'[o].transferOperation, n \notin DOMAIN operation,
         LiveOperations' = LiveOperations \cup ({o, n} \ {NULL}),
         \A x \in DOMAIN operation : operation'[x] = operation[x]
  PROVE  /\ Movements' = Movements \cup {MovementOf(o)'}
         /\ \A e \in B!Ends(MovementOf(o)') : B!Fresh(e.operation)
<1>1. LiveFact(o)' /\ o # NULL
  BY LiveFactsNext, LedgerAssumption DEF LiveFact
<1>2. /\ n # NULL => MovementOf(n)' = MovementOf(o)'
      /\ n = NULL => B!Ends(MovementOf(o)') = {EndOf(o)'}
      /\ n # NULL => B!Ends(MovementOf(o)') = {EndOf(o)', EndOf(n)'}
  BY <1>1 DEF LiveFact
<1>3. \A x \in LiveOperations : MovementOf(x)' = MovementOf(x)
  BY LiveFacts, SameMovement DEF LiveFact, LiveOperations
<1>4. Movements' = Movements \cup {MovementOf(o)'}
  <2>1. Movements' = {MovementOf(x)' : x \in LiveOperations'}
    BY DEF Movements
  <2>2. QED
    BY <1>1, <1>2, <1>3, <2>1 DEF Movements
<1>5. ASSUME NEW e \in B!Ends(MovementOf(o)')
      PROVE  B!Fresh(e.operation)
  <2>1. EndOf(o)'.operation = o /\ EndOf(n)'.operation = n
    BY DEF EndOf
  <2>2. e.operation \notin DOMAIN operation
    BY <1>2, <1>5, <2>1
  <2>3. \A q \in LiveOperations : \A f \in B!Ends(MovementOf(q)) : f.operation \in DOMAIN operation
    BY LiveFacts DEF LiveFact
  <2>4. QED
    BY <2>2, <2>3 DEF B!Fresh, Movements
<1>6. QED
  BY <1>4, <1>5

\* A row is rewritten, with the mirror p it had and the mirror n it has.
LEMMA Rewritten ==
  ASSUME PairsInv, PairsInv', NEW o \in LiveOperations, o \in LiveOperations',
         NEW p, p = operation[o].transferOperation,
         NEW n, n = operation'[o].transferOperation,
         LiveOperations' = (LiveOperations \ ({o, p} \ {NULL})) \cup ({o, n} \ {NULL}),
         \A x \in DOMAIN operation \ {o, p} : operation'[x] = operation[x]
  PROVE  Movements' = (Movements \ {MovementOf(o)}) \cup {MovementOf(o)'}
<1> DEFINE rest == LiveOperations \ ({o, p} \ {NULL})
<1>1. LiveFact(o) /\ LiveFact(o)' /\ o # NULL
  BY LiveFacts, LiveFactsNext, LedgerAssumption DEF LiveFact
<1>2. ASSUME NEW x \in rest
      PROVE  MovementOf(x)' = MovementOf(x) /\ MovementOf(x) # MovementOf(o)
  <2>1. LiveFact(x) /\ x # NULL /\ x # o /\ x # p
    BY <1>1, LiveFacts, LedgerAssumption DEF LiveFact
  <2> DEFINE r == operation[x].transferOperation
  <2>2. r # NULL => r \in LiveOperations /\ r # o /\ r # p
    BY <1>1, <2>1 DEF LiveFact
  <2>3. operation'[x] = operation[x] /\ (r # NULL => operation'[r] = operation[r])
    BY <2>1, <2>2 DEF LiveOperations
  <2>4. MovementOf(x)' = MovementOf(x)
    BY <2>3, SameMovement
  <2>5. EndOf(o) \in B!Ends(MovementOf(o)) /\ EndOf(o).operation = o
    BY <1>1 DEF LiveFact
  <2>6. MovementOf(x) # MovementOf(o)
    BY <1>1, <2>1, <2>2, <2>5, SharedEnd
  <2>7. QED
    BY <2>4, <2>6
<1>3. /\ p # NULL => MovementOf(p) = MovementOf(o)
      /\ n # NULL => MovementOf(n)' = MovementOf(o)'
  BY <1>1 DEF LiveFact
<1>4. /\ LiveOperations = rest \cup ({o, p} \ {NULL})
      /\ LiveOperations' = rest \cup ({o, n} \ {NULL})
  BY <1>1 DEF LiveFact
<1> HIDE DEF rest
<1>5. Movements' = {MovementOf(x) : x \in rest} \cup {MovementOf(o)'}
  <2>1. Movements' = {MovementOf(x)' : x \in LiveOperations'}
    BY DEF Movements
  <2>2. QED
    BY <1>1, <1>2, <1>3, <1>4, <2>1
<1>6. Movements \ {MovementOf(o)} = {MovementOf(x) : x \in rest}
  BY <1>1, <1>2, <1>3, <1>4 DEF Movements
<1>7. QED
  BY <1>5, <1>6

\* Rows that keep what movements are made of keep the movements.
LEMMA NothingMoved ==
  ASSUME PairsInv, LiveOperations' = LiveOperations,
         \A x \in LiveOperations :
           /\ operation'[x].account = operation[x].account
           /\ operation'[x].side = operation[x].side
           /\ operation'[x].content = operation[x].content
           /\ operation'[x].transferOperation = operation[x].transferOperation
  PROVE  Movements' = Movements
<1>1. \A x \in LiveOperations : MovementOf(x)' = MovementOf(x)
  BY LiveFacts, SameMovement DEF LiveFact
<1>2. QED
  BY <1>1 DEF Movements

-----------------------------------------------------------------------------
(* What each kind of request is in the books.                              *)

\* A request that writes no column the books are made of.
LEMMA NothingChanged ==
  ASSUME PairsInv, UNCHANGED <<accounts, closed, deleted>>,
         DOMAIN operation' = DOMAIN operation,
         \A x \in DOMAIN operation :
           /\ operation'[x].account = operation[x].account
           /\ operation'[x].side = operation[x].side
           /\ operation'[x].content = operation[x].content
           /\ operation'[x].transferOperation = operation[x].transferOperation
  PROVE  UNCHANGED B!books
<1>1. LiveAccounts' = LiveAccounts /\ OpenAccounts' = OpenAccounts
  BY DEF LiveAccounts, OpenAccounts, FullyActive, NotDeleted
<1>2. LiveOperations' = LiveOperations
  BY DEF LiveOperations, NotDeleted
<1>3. Movements' = Movements
  BY <1>2, NothingMoved DEF LiveOperations
<1>4. QED
  BY <1>1, <1>3 DEF B!books

\* The accounts of gone are deleted, with their bank or alone.
LEMMA DeletionStep ==
  ASSUME PairsInv, NEW gone \in SUBSET accounts,
         ConvertReferencesToExternal(gone), UNCHANGED <<accounts, closed>>,
         \A a \in accounts : NotDeleted(a)' <=> NotDeleted(a) /\ a \notin gone
  PROVE  [B!Next]_(B!books)
<1> DEFINE A == gone \cap LiveAccounts
           G == {o \in LiveOperations : operation[o].account \in A}
           E == {e \in B!End : e.account \in A}
<1>1. LiveAccounts' = LiveAccounts \ A /\ OpenAccounts' = OpenAccounts \ A
  BY DEF LiveAccounts, OpenAccounts, FullyActive
<1>2. /\ DOMAIN operation' = DOMAIN operation
      /\ \A x \in DOMAIN operation :
           /\ operation[x].account \in accounts
           /\ operation'[x] = IF operation[x].transferAccount \in gone
                              THEN External(operation[x]) ELSE operation[x]
           /\ operation'[x].account = operation[x].account
           /\ operation'[x].side = operation[x].side
           /\ operation'[x].content = operation[x].content
           /\ operation[x].transferAccount \in gone
                => operation'[x].transferOperation = NULL
  BY TypeGivesRows, ExternalType
     DEF PairsInv, OperationsOK, RowOK, ConvertReferencesToExternal
<1>3. LiveOperations' = LiveOperations \ G
  BY <1>2 DEF LiveOperations, LiveAccounts
<1>4. \A q \in LiveOperations : EndOf(q) \in E <=> q \in G
  BY LiveFacts DEF LiveFact
<1>5. ASSUME NEW x \in LiveOperations \ G
      PROVE  operation'[x].transferOperation =
               IF operation[x].transferOperation \in G THEN NULL
               ELSE operation[x].transferOperation
  <2> DEFINE p == operation[x].transferOperation
  <2>1. LiveFact(x) /\ x \in DOMAIN operation /\ NULL \notin G
    BY LiveFacts, LedgerAssumption DEF LiveFact
  <2>2. p # NULL => /\ p \in LiveOperations
                    /\ operation[p].account = operation[x].transferAccount
                    /\ operation[p].account \in LiveAccounts
    BY <2>1, LiveFacts DEF LiveFact
  <2>3. p # NULL => (p \in G <=> operation[x].transferAccount \in gone)
    BY <2>2
  <2>4. QED
    BY <1>2, <2>1, <2>3
<1>6. CASE A = {}
  <2>1. G = {}
    BY <1>6
  <2> HIDE DEF A, G, E
  <2>2. LiveOperations' = LiveOperations
    BY <1>3, <2>1
  <2>3. \A x \in LiveOperations :
          x \in DOMAIN operation
          /\ operation'[x].transferOperation = operation[x].transferOperation
    BY <1>5, <2>1 DEF LiveOperations
  <2>4. Movements' = Movements
    BY <1>2, <2>2, <2>3, NothingMoved
  <2>5. QED
    BY <1>1, <1>6, <2>4 DEF B!books
<1>7. CASE A # {}
  <2>1. Movements' = B!Remaining(E)
    <3>1. G \in SUBSET LiveOperations /\ E \in SUBSET B!End
      OBVIOUS
    <3> HIDE DEF A, G, E
    <3>2. \A x \in LiveOperations \ G : x \in DOMAIN operation
      BY DEF LiveOperations
    <3>3. QED
      BY <1>2, <1>3, <1>4, <1>5, <3>1, <3>2, Lost
  <2>2. B!Delete(A) /\ A \in SUBSET LiveAccounts
    BY <1>1, <1>7, <2>1 DEF B!Delete
  <2>3. QED
    BY <2>2 DEF B!Next
<1>8. QED
  BY <1>6, <1>7

\* Operations of open accounts are deleted.
LEMMA BatchDeleteStep ==
  ASSUME PairsInv, NEW m \in Member, NEW D \in SUBSET Operation, BatchDelete(m, D)
  PROVE  [B!Next]_(B!books)
<1> DEFINE E == {e \in B!End : e.operation \in D}
<1>1. /\ UNCHANGED <<accounts, closed, deleted>> /\ D # {}
      /\ \A o \in D : o \in LiveOperations /\ operation[o].account \in OpenAccounts
  BY DEF BatchDelete, OnlyOperation, Editable, Writable, FullyActive, LiveOperations,
         OpenAccounts
<1>2. LiveAccounts' = LiveAccounts /\ OpenAccounts' = OpenAccounts
  BY <1>1 DEF LiveAccounts, OpenAccounts, FullyActive, NotDeleted
<1>3. /\ DOMAIN operation' = DOMAIN operation \ D
      /\ \A x \in DOMAIN operation \ D :
           /\ operation'[x] = IF x \in SurvivorsOfDeleted(D)
                              THEN External(operation[x]) ELSE operation[x]
           /\ operation'[x].account = operation[x].account
           /\ operation'[x].side = operation[x].side
           /\ operation'[x].content = operation[x].content
           /\ x \in SurvivorsOfDeleted(D) => operation'[x].transferOperation = NULL
  BY TypeGivesRows, ExternalType DEF PairsInv, OperationsOK, RowOK, BatchDelete
<1>4. LiveOperations' = LiveOperations \ D
  BY <1>1, <1>3 DEF LiveOperations, NotDeleted
<1>5. \A q \in LiveOperations : EndOf(q) \in E <=> q \in D
  BY LiveFacts DEF LiveFact
<1>6. ASSUME NEW x \in LiveOperations \ D
      PROVE  operation'[x].transferOperation =
               IF operation[x].transferOperation \in D THEN NULL
               ELSE operation[x].transferOperation
  <2>1. LiveFact(x) /\ x \in DOMAIN operation /\ x # NULL
    BY LiveFacts, LedgerAssumption DEF LiveFact
  <2>2. x \in SurvivorsOfDeleted(D) <=> operation[x].transferOperation \in D
    <3>1. ASSUME x \in SurvivorsOfDeleted(D)
          PROVE  operation[x].transferOperation \in D
      <4>1. PICK o \in D : x = operation[o].transferOperation
        BY <3>1 DEF SurvivorsOfDeleted
      <4>2. LiveFact(o)
        BY <1>1, LiveFacts
      <4>3. QED
        BY <2>1, <4>1, <4>2 DEF LiveFact
    <3>2. ASSUME operation[x].transferOperation \in D
          PROVE  x \in SurvivorsOfDeleted(D)
      <4>1. operation[x].transferOperation # NULL
        BY <3>2, LedgerAssumption
      <4>2. operation[operation[x].transferOperation].transferOperation = x
        BY <2>1, <4>1 DEF LiveFact
      <4>3. QED
        BY <2>1, <3>2, <4>2 DEF SurvivorsOfDeleted
    <3>3. QED
      BY <3>1, <3>2
  <2>3. QED
    BY <1>3, <2>1, <2>2
<1>7. Movements' = B!Remaining(E)
  <2>1. D \in SUBSET LiveOperations /\ E \in SUBSET B!End
    BY <1>1
  <2> HIDE DEF E
  <2>2. \A x \in LiveOperations \ D : x \in DOMAIN operation \ D
    BY DEF LiveOperations
  <2>3. QED
    BY <1>3, <1>4, <1>5, <1>6, <2>1, <2>2, Lost
<1>8. ASSUME NEW mv \in Movements, NEW e \in B!Ends(mv), e.operation \in D
      PROVE  e.account \in OpenAccounts
  <2>1. PICK q \in LiveOperations : mv = MovementOf(q)
    BY DEF Movements
  <2>2. e = EndOf(e.operation) /\ e.operation \in LiveOperations
    BY <1>1, <1>8, <2>1, SharedEnd
  <2>3. QED
    BY <1>1, <1>8, <2>2, LiveFacts DEF LiveFact
<1>9. D \in SUBSET {e.operation : e \in UNION {B!Ends(mv) : mv \in Movements}}
  <2> SUFFICES ASSUME NEW o \in D
               PROVE  \E e \in UNION {B!Ends(mv) : mv \in Movements} : o = e.operation
    OBVIOUS
  <2>1. EndOf(o) \in B!Ends(MovementOf(o)) /\ EndOf(o).operation = o
    BY <1>1, LiveFacts DEF LiveFact
  <2>2. MovementOf(o) \in Movements
    BY <1>1 DEF Movements
  <2>3. QED
    BY <2>1, <2>2
<1>10. B!Erase(D)
  BY <1>1, <1>2, <1>7, <1>8 DEF B!Erase
<1>11. QED
  BY <1>9, <1>10 DEF B!Next

\* An operation is inserted in an open account, maybe with its mirror.
LEMMA InsertStep ==
  ASSUME PairsInv, PairsInv', OnlyOperation,
         NEW m \in Member, NEW o \in Operation, NEW n \in Operation,
         NEW row \in OperationRow,
         FullyActive(row.account), OwnerOf[BankOf[row.account]] = m,
         row.transferOperation = NULL,
         InsertWithMirror(m, o, n, row)
  PROVE  [B!Next]_(B!books)
<1> DEFINE a == row.account
           t == row.transferAccount
<1>1. /\ UNCHANGED <<accounts, closed, deleted>>
      /\ a \in OpenAccounts /\ NotDeleted(a) /\ o \notin DOMAIN operation
      /\ o # NULL /\ n # NULL /\ NULL \notin DOMAIN operation
  BY TypeGivesRows, LedgerAssumption
     DEF PairsInv, OperationsOK, OnlyOperation, FullyActive, OpenAccounts, InsertWithMirror
<1>2. LiveAccounts' = LiveAccounts /\ OpenAccounts' = OpenAccounts
  BY <1>1 DEF LiveAccounts, OpenAccounts, FullyActive, NotDeleted
<1>3. \E p \in {n, NULL} :
        /\ p = operation'[o].transferOperation /\ p \notin DOMAIN operation
        /\ operation'[o].account = a
        /\ DOMAIN operation' = DOMAIN operation \cup ({o, p} \ {NULL})
        /\ \A x \in DOMAIN operation : operation'[x] = operation[x]
        /\ p # NULL => /\ operation'[p].account = t
                       /\ EligibleTarget(m, a, t)
  <2>1. CASE t = NULL
    <3>1. operation' = [x \in DOMAIN operation \cup {o} |->
                          IF x = o THEN row ELSE operation[x]]
      BY <2>1 DEF InsertWithMirror
    <3>2. WITNESS NULL \in {n, NULL}
    <3>3. QED
      BY <1>1, <3>1
  <2>2. CASE t # NULL
    <3>1. /\ EligibleTarget(m, a, t) /\ n \notin DOMAIN operation \cup {o}
          /\ operation' =
               [x \in DOMAIN operation \cup {o, n} |->
                  CASE x = o -> [row EXCEPT !.transferOperation = n]
                    [] x = n -> NewMirror(o, row)
                    [] OTHER -> operation[x]]
      BY <2>2 DEF InsertWithMirror
    <3>2. NewMirror(o, row).account = t
      BY <2>2, NewMirrorType DEF OperationRow
    <3>3. [row EXCEPT !.transferOperation = n].account = a
          /\ [row EXCEPT !.transferOperation = n].transferOperation = n
      BY DEF OperationRow
    <3> HIDE DEF a, t
    <3>4. WITNESS n \in {n, NULL}
    <3>5. QED
      BY <1>1, <3>1, <3>2, <3>3
  <2>3. QED
    BY <2>1, <2>2
<1>4. PICK p \in {n, NULL} :
        /\ p = operation'[o].transferOperation /\ p \notin DOMAIN operation
        /\ operation'[o].account = a
        /\ DOMAIN operation' = DOMAIN operation \cup ({o, p} \ {NULL})
        /\ \A x \in DOMAIN operation : operation'[x] = operation[x]
        /\ p # NULL => operation'[p].account = t /\ EligibleTarget(m, a, t)
  BY <1>3
<1> HIDE DEF a, t
<1>5. p # NULL => t \in B!Open(a) /\ NotDeleted(t)
  BY <1>1, <1>4 DEF EligibleTarget, FullyActive, Reachable, OpenAccounts, B!Open, Group, a
<1>6. LiveOperations' = LiveOperations \cup ({o, p} \ {NULL})
  BY <1>1, <1>4, <1>5 DEF LiveOperations, NotDeleted
<1>7. o \in LiveOperations'
  BY <1>1, <1>6
<1>8. /\ Movements' = Movements \cup {MovementOf(o)'}
      /\ \A e \in B!Ends(MovementOf(o)') : B!Fresh(e.operation)
  BY <1>1, <1>4, <1>6, <1>7, Added
<1>9. LiveFact(o)'
  BY <1>7, LiveFactsNext
<1>10. \E e \in B!Ends(MovementOf(o)') :
         /\ e.account \in OpenAccounts
         /\ \A f \in B!Ends(MovementOf(o)') \ {e} : f.account \in B!Open(e.account)
  <2>1. EndOf(o)' \in B!Ends(MovementOf(o)') /\ EndOf(o)'.account = a
    BY <1>4, <1>9 DEF LiveFact, EndOf
  <2>2. \A f \in B!Ends(MovementOf(o)') \ {EndOf(o)'} : p # NULL /\ f.account = t
    BY <1>4, <1>9 DEF LiveFact, EndOf
  <2>3. QED
    BY <1>1, <1>5, <2>1, <2>2
<1>11. B!Record(MovementOf(o)') /\ MovementOf(o)' \in Movements'
  BY <1>2, <1>8, <1>10 DEF B!Record
<1>12. QED
  BY <1>11 DEF B!Next

LEMMA CreateAccountStep ==
  ASSUME PairsInv, PairsInv', NEW a \in Account, NEW o \in Operation,
         NEW side \in Opening, NEW content \in Content,
         CreateAccount(a, o, side, content)
  PROVE  [B!Next]_(B!books)
<1>1. /\ UNCHANGED <<closed, deleted>> /\ accounts' = accounts \cup {a}
      /\ a \notin accounts /\ a \notin closed \cup deleted
      /\ BankOf[a] \in banks \ (closed \cup deleted)
      /\ o # NULL
  BY LedgerAssumption DEF CreateAccount, PairsInv, TypeOK
<1>2. /\ a \in Account \ LiveAccounts
      /\ LiveAccounts' = LiveAccounts \cup {a}
      /\ OpenAccounts' = OpenAccounts \cup {a}
  BY <1>1 DEF LiveAccounts, OpenAccounts, FullyActive, NotDeleted
<1>3. CASE UNCHANGED operation
  <2>1. LiveOperations' = LiveOperations
    BY <1>1, <1>3 DEF LiveOperations, NotDeleted
  <2>2. Movements' = Movements
    BY <1>3, <2>1, NothingMoved
  <2>3. B!OpenAccount(a, {})
    BY <1>2, <2>2 DEF B!OpenAccount
  <2>4. QED
    BY <2>3 DEF B!Next
<1>4. CASE /\ o \notin DOMAIN operation
           /\ operation' =
                [x \in DOMAIN operation \cup {o} |->
                   IF x = o
                     THEN [account |-> a, transferAccount |-> NULL,
                           transferOperation |-> NULL, scheduler |-> NULL,
                           method |-> "initial_balance", side |-> side,
                           content |-> content, reconciled |-> TRUE]
                     ELSE operation[x]]
  <2>1. /\ DOMAIN operation' = DOMAIN operation \cup {o}
        /\ operation'[o].account = a /\ operation'[o].transferOperation = NULL
        /\ \A x \in DOMAIN operation : operation'[x] = operation[x]
        /\ NULL \notin DOMAIN operation
    BY <1>4, TypeGivesRows, LedgerAssumption DEF PairsInv, OperationsOK
  <2>2. LiveOperations' = LiveOperations \cup ({o, NULL} \ {NULL})
    BY <1>1, <2>1 DEF LiveOperations, NotDeleted
  <2>3. o \in LiveOperations'
    BY <1>1, <2>2
  <2>4. Movements' = Movements \cup {MovementOf(o)'}
    BY <1>4, <2>1, <2>2, <2>3, Added
  <2>5. B!Ends(MovementOf(o)') = {EndOf(o)'}
    BY <2>1, <2>3, LiveFactsNext DEF LiveFact
  <2>6. EndOf(o)' = [account |-> a, operation |-> o]
    BY <2>1 DEF EndOf
  <2>7. B!OpenAccount(a, {MovementOf(o)'}) /\ MovementOf(o)' \in Movements'
    BY <1>2, <2>4, <2>5, <2>6 DEF B!OpenAccount
  <2>8. QED
    BY <2>7 DEF B!Next
<1>5. QED
  BY <1>3, <1>4 DEF CreateAccount

\* The row of o is saved, with the mirror p it had and the mirror n it has.
LEMMA RewriteStep ==
  ASSUME PairsInv, PairsInv', OnlyOperation,
         NEW o \in LiveOperations, FullyActive(operation[o].account),
         NEW p, p = operation[o].transferOperation,
         NEW n, n = operation'[o].transferOperation,
         operation'[o].account = operation[o].account,
         DOMAIN operation' = (DOMAIN operation \ ({o, p} \ {NULL})) \cup ({o, n} \ {NULL}),
         \A x \in DOMAIN operation \ {o, p} : operation'[x] = operation[x],
         n # NULL => \/ n = p /\ operation'[n].account = operation[n].account
                     \/ /\ n = p \/ n \notin DOMAIN operation
                        /\ operation'[n].account \in B!Open(operation[o].account)
  PROVE  [B!Next]_(B!books)
<1>1. /\ UNCHANGED <<accounts, closed, deleted>>
      /\ LiveFact(o) /\ o \in DOMAIN operation' /\ o # NULL
      /\ operation[o].account \in OpenAccounts /\ NotDeleted(operation[o].account)
  BY LiveFacts, LedgerAssumption DEF OnlyOperation, LiveFact, FullyActive, OpenAccounts
<1>2. LiveAccounts' = LiveAccounts /\ OpenAccounts' = OpenAccounts
  BY <1>1 DEF LiveAccounts, OpenAccounts, FullyActive, NotDeleted
<1>3. o \in LiveOperations' /\ LiveFact(o)'
  BY <1>1, LiveFactsNext DEF LiveOperations, NotDeleted
<1>4. /\ n # NULL => n \in LiveOperations'
      /\ p # NULL => p \in LiveOperations
  BY <1>1, <1>3 DEF LiveFact
<1>5. LiveOperations' = (LiveOperations \ ({o, p} \ {NULL})) \cup ({o, n} \ {NULL})
  <2>1. NULL \notin LiveOperations /\ NULL \notin LiveOperations'
    BY LiveFacts, LiveFactsNext, LedgerAssumption DEF LiveFact
  <2>2. ASSUME NEW x, x \notin {o, p, n}
        PROVE  x \in LiveOperations' <=> x \in LiveOperations
    BY <1>1, <2>2 DEF LiveOperations, NotDeleted
  <2>3. p # NULL /\ p # n /\ p # o => p \notin LiveOperations'
    BY DEF LiveOperations
  <2>4. QED
    BY <1>3, <1>4, <2>1, <2>2, <2>3
<1>6. Movements' = (Movements \ {MovementOf(o)}) \cup {MovementOf(o)'}
  BY <1>3, <1>5, Rewritten
<1>7. EndOf(o)' = EndOf(o) /\ EndOf(o).account = operation[o].account
  BY DEF EndOf
<1>8. /\ EndOf(o) \in B!Ends(MovementOf(o))
      /\ EndOf(o) \in B!Ends(MovementOf(o)')
  BY <1>1, <1>3, <1>7 DEF LiveFact
<1>9. ASSUME NEW f \in B!Ends(MovementOf(o)') \ B!Ends(MovementOf(o))
      PROVE  /\ f.account \in B!Open(operation[o].account)
             /\ \/ B!Fresh(f.operation)
                \/ \E g \in B!Ends(MovementOf(o)) \ {EndOf(o)} : f.operation = g.operation
  <2>1. n # NULL /\ f = EndOf(n)'
    BY <1>3, <1>8, <1>9 DEF LiveFact, EndOf
  <2>2. f.operation = n /\ f.account = operation'[n].account
    BY <2>1 DEF EndOf
  <2>3. CASE n = p
    <3>1. /\ EndOf(p) \in B!Ends(MovementOf(o))
          /\ EndOf(p).operation = p /\ EndOf(p).account = operation[p].account
          /\ EndOf(p) # EndOf(o)
      BY <1>1, <2>1, <2>3 DEF LiveFact, EndOf
    <3>2. operation'[n].account # operation[n].account
      BY <1>9, <2>1, <2>3, <3>1 DEF EndOf
    <3>3. QED
      BY <2>1, <2>2, <2>3, <3>1, <3>2
  <2>4. CASE n # p
    <3>1. n \notin DOMAIN operation /\ f.account \in B!Open(operation[o].account)
      BY <2>1, <2>2, <2>4
    <3>2. \A q \in LiveOperations :
            \A h \in B!Ends(MovementOf(q)) : h.operation \in DOMAIN operation
      BY LiveFacts DEF LiveFact
    <3>3. B!Fresh(n)
      BY <3>1, <3>2 DEF B!Fresh, Movements
    <3>4. QED
      BY <2>2, <3>1, <3>3
  <2>5. QED
    BY <2>3, <2>4
<1>10. \E e \in B!Ends(MovementOf(o)) \cap B!Ends(MovementOf(o)') :
         /\ e.account \in OpenAccounts
         /\ \A f \in B!Ends(MovementOf(o)') \ B!Ends(MovementOf(o)) :
              /\ f.account \in B!Open(e.account)
              /\ \/ B!Fresh(f.operation)
                 \/ \E g \in B!Ends(MovementOf(o)) \ {e} : f.operation = g.operation
  BY <1>1, <1>7, <1>8, <1>9
<1>11. B!Rewrite(MovementOf(o), MovementOf(o)')
  BY <1>2, <1>6, <1>10 DEF B!Rewrite
<1>12. MovementOf(o) \in Movements /\ MovementOf(o)' \in Movements'
  BY <1>6 DEF Movements
<1>13. QED
  BY <1>11, <1>12 DEF B!Next

LEMMA UpdateOperationStep ==
  ASSUME PairsInv, PairsInv', NEW m \in Member, NEW o \in Operation, NEW e \in Entry,
         NEW t \in Account \cup {NULL}, NEW n \in Operation,
         UpdateOperation(m, o, e, t, n)
  PROVE  [B!Next]_(B!books)
<1> DEFINE want == TransferAccountFor(e, t)
           mirror == operation[o].transferOperation
           edit == ClassifyPairingEdit(operation[o], want)
           a == operation[o].account
<1>1. /\ TypeOK /\ OnlyOperation /\ OperationsOK
      /\ o \in DOMAIN operation /\ o # NULL /\ n # NULL
      /\ want \in Account \cup {NULL}
      /\ mirror \in DOMAIN operation \cup {NULL}
      /\ mirror \in Operation \cup {NULL}
      /\ NULL \notin DOMAIN operation
      /\ FullyActive(a) /\ OwnerOf[BankOf[a]] = m
  BY UpdateOperationFacts, TypeGivesRows, LedgerAssumption
     DEF PairsInv, UpdateOperation, Editable, Writable, Reachable, OperationsOK
<1>2. o \in LiveOperations /\ LiveFact(o)
  BY <1>1, LiveFacts DEF LiveOperations, FullyActive
<1>3. \A w \in Account \cup {NULL}, q \in Operation \cup {NULL} :
        /\ Saved(o, e, w, q) \in OperationRow
        /\ Saved(o, e, w, q).account = a
        /\ Saved(o, e, w, q).transferAccount = w
        /\ Saved(o, e, w, q).transferOperation = q
  BY <1>1, SavedType
<1>4. EligibleTarget(m, a, want) => want \in B!Open(a)
  BY <1>1 DEF EligibleTarget, FullyActive, Reachable, OpenAccounts, B!Open, Group
<1>5. CASE edit = "none" /\ SyncNone(o, e)
  <2>1. operation' = [operation EXCEPT ![o] = Saved(o, e, NULL, NULL)]
    BY <1>5 DEF SyncNone
  <2>2. mirror = NULL
    BY <1>5 DEF ClassifyPairingEdit
  <2>3. /\ operation'[o] = Saved(o, e, NULL, NULL)
        /\ DOMAIN operation' = DOMAIN operation
        /\ \A x \in DOMAIN operation \ {o, mirror} : operation'[x] = operation[x]
    BY <1>1, <2>1
  <2>4. operation'[o].account = a /\ operation'[o].transferOperation = NULL
    BY <1>3, <2>3
  <2> HIDE DEF mirror
  <2>5. DOMAIN operation' =
          (DOMAIN operation \ ({o, mirror} \ {NULL})) \cup ({o, NULL} \ {NULL})
    BY <1>1, <2>2, <2>3
  <2>6. QED
    BY <1>1, <1>2, <2>3, <2>4, <2>5, RewriteStep DEF mirror
<1>6. CASE edit = "detach" /\ SyncDetach(o, e, mirror)
  <2>1. operation' = [x \in DOMAIN operation \ {mirror} |->
                        IF x = o THEN Saved(o, e, NULL, NULL) ELSE operation[x]]
    BY <1>6 DEF SyncDetach
  <2>2. mirror # NULL /\ mirror # o
    BY <1>2, <1>6 DEF ClassifyPairingEdit, LiveFact
  <2>3. /\ operation'[o].account = a /\ operation'[o].transferOperation = NULL
        /\ DOMAIN operation' = DOMAIN operation \ {mirror}
        /\ \A x \in DOMAIN operation \ {o, mirror} : operation'[x] = operation[x]
    BY <1>1, <1>3, <2>1, <2>2
  <2> HIDE DEF mirror
  <2>4. DOMAIN operation' =
          (DOMAIN operation \ ({o, mirror} \ {NULL})) \cup ({o, NULL} \ {NULL})
    BY <1>1, <2>2, <2>3
  <2>5. QED
    BY <1>1, <1>2, <2>3, <2>4, RewriteStep DEF mirror
<1>7. CASE edit = "refresh" /\ SyncRefresh(o, e, want, mirror)
  <2> DEFINE fresh == MirrorFields(operation[mirror], Saved(o, e, want, mirror))
  <2>1. want # NULL /\ mirror # NULL /\ mirror # o /\ mirror \in DOMAIN operation
    BY <1>1, <1>2, <1>7 DEF ClassifyPairingEdit, LiveFact
  <2>2. operation' = [x \in DOMAIN operation |->
                        IF x = o THEN Saved(o, e, want, mirror)
                        ELSE IF x = mirror THEN fresh ELSE operation[x]]
    BY <1>7 DEF SyncRefresh
  <2>3. fresh.account = operation[mirror].account
    BY <1>1, <1>3, <2>1, MirrorFieldsType DEF OperationsOK, RowOK
  <2>4. /\ operation'[o].account = a /\ operation'[o].transferOperation = mirror
        /\ operation'[mirror].account = operation[mirror].account
        /\ DOMAIN operation' = DOMAIN operation
        /\ \A x \in DOMAIN operation \ {o, mirror} : operation'[x] = operation[x]
    <3> HIDE DEF fresh, want
    <3>1. QED
      BY <1>1, <1>3, <2>1, <2>2, <2>3
  <2> HIDE DEF mirror
  <2>5. DOMAIN operation' =
          (DOMAIN operation \ ({o, mirror} \ {NULL})) \cup ({o, mirror} \ {NULL})
    BY <1>1, <2>1, <2>4
  <2>6. QED
    BY <1>1, <1>2, <2>4, <2>5, RewriteStep DEF mirror
<1>8. CASE edit = "retarget" /\ SyncRetarget(m, o, e, want, mirror)
  <2> DEFINE fresh == MirrorFields(operation[mirror], Saved(o, e, want, mirror))
             moved == [fresh EXCEPT !.account = want]
  <2>1. want # NULL /\ mirror # NULL /\ mirror # o /\ mirror \in DOMAIN operation
    BY <1>1, <1>2, <1>8 DEF ClassifyPairingEdit, LiveFact
  <2>2. /\ EligibleTarget(m, a, want)
        /\ operation' = [x \in DOMAIN operation |->
                           IF x = o THEN Saved(o, e, want, mirror)
                           ELSE IF x = mirror THEN moved ELSE operation[x]]
    BY <1>8 DEF SyncRetarget
  <2>3. fresh \in OperationRow
    BY <1>1, <1>3, <2>1, MirrorFieldsType DEF OperationsOK, RowOK
  <2>4. moved.account = want
    BY <2>3 DEF OperationRow
  <2>5. /\ operation'[o].account = a /\ operation'[o].transferOperation = mirror
        /\ operation'[mirror].account \in B!Open(a)
        /\ DOMAIN operation' = DOMAIN operation
        /\ \A x \in DOMAIN operation \ {o, mirror} : operation'[x] = operation[x]
    <3> HIDE DEF fresh, moved, want
    <3>1. QED
      BY <1>1, <1>3, <1>4, <2>1, <2>2, <2>4
  <2> HIDE DEF mirror
  <2>6. DOMAIN operation' =
          (DOMAIN operation \ ({o, mirror} \ {NULL})) \cup ({o, mirror} \ {NULL})
    BY <1>1, <2>1, <2>5
  <2>7. QED
    BY <1>1, <1>2, <2>5, <2>6, RewriteStep DEF mirror
<1>9. CASE edit = "attach" /\ SyncAttach(m, o, e, want, n)
  <2> DEFINE saved == Saved(o, e, want, n)
  <2>1. want # NULL /\ mirror = NULL
    BY <1>9 DEF ClassifyPairingEdit
  <2>2. /\ EligibleTarget(m, a, want) /\ n \notin DOMAIN operation
        /\ operation' = [x \in DOMAIN operation \cup {n} |->
                           CASE x = o -> saved
                             [] x = n -> NewMirror(o, saved)
                             [] OTHER -> operation[x]]
    BY <1>9 DEF SyncAttach
  <2>3. /\ saved \in OperationRow /\ saved.account = a
        /\ saved.transferAccount = want /\ saved.transferOperation = n
    BY <1>1, <1>3
  <2> HIDE DEF saved
  <2>4. NewMirror(o, saved).account = want
    BY <1>1, <2>1, <2>3, NewMirrorType
  <2>5. /\ operation'[o].account = a /\ operation'[o].transferOperation = n
        /\ operation'[n].account \in B!Open(a)
        /\ DOMAIN operation' = DOMAIN operation \cup {n}
        /\ \A x \in DOMAIN operation \ {o, mirror} : operation'[x] = operation[x]
    <3> HIDE DEF want
    <3>1. QED
      BY <1>1, <1>4, <2>2, <2>3, <2>4
  <2> HIDE DEF mirror
  <2>6. DOMAIN operation' =
          (DOMAIN operation \ ({o, mirror} \ {NULL})) \cup ({o, n} \ {NULL})
    BY <1>1, <2>1, <2>5
  <2>7. n \notin DOMAIN operation
    BY <2>2
  <2>8. QED
    BY <1>1, <1>2, <2>5, <2>6, <2>7, RewriteStep DEF mirror
<1>10. QED
  BY <1>5, <1>6, <1>7, <1>8, <1>9 DEF UpdateOperation

-----------------------------------------------------------------------------
(* The refinement.                                                         *)

LEMMA LedgerStep == PairsInv /\ PairsInv' /\ [Next]_vars => [B!Next]_(B!books)
<1> SUFFICES ASSUME PairsInv, PairsInv', [Next]_vars
             PROVE  [B!Next]_(B!books)
  OBVIOUS
<1>1. TypeOK /\ OperationsOK
  BY TypeGivesRows DEF PairsInv
<1>2. ASSUME NEW b \in Bank, ChooseBank(b) PROVE [B!Next]_(B!books)
  BY <1>2, NothingChanged DEF ChooseBank
<1>3. ASSUME NEW A \in SUBSET OpenAccounts, OpenAccounts' = OpenAccounts \ A,
             UNCHANGED <<accounts, deleted, operation>>
      PROVE  [B!Next]_(B!books)
  <2>1. LiveAccounts' = LiveAccounts /\ LiveOperations' = LiveOperations
    BY <1>3 DEF LiveAccounts, LiveOperations, NotDeleted
  <2>2. Movements' = Movements
    BY <1>3, <2>1, NothingMoved
  <2>3. CASE A = {}
    BY <1>3, <2>1, <2>2, <2>3 DEF B!books
  <2>4. CASE A # {}
    BY <1>3, <2>1, <2>2, <2>4 DEF B!Next, B!Close
  <2>5. QED
    BY <2>3, <2>4
<1>4. ASSUME NEW b \in Bank, CloseBank(b) PROVE [B!Next]_(B!books)
  <2> DEFINE A == {a \in OpenAccounts : BankOf[a] = b}
  <2>1. OpenAccounts' = OpenAccounts \ A
    BY <1>1, <1>4, LedgerAssumption
       DEF CloseBank, OpenAccounts, FullyActive, NotDeleted, TypeOK
  <2>2. QED
    BY <1>3, <1>4, <2>1 DEF CloseBank
<1>5. ASSUME NEW a \in Account, CloseAccount(a) PROVE [B!Next]_(B!books)
  <2>1. OpenAccounts' = OpenAccounts \ {a} /\ a \in OpenAccounts
    BY <1>1, <1>5, LedgerAssumption
       DEF CloseAccount, OpenAccounts, FullyActive, NotDeleted, TypeOK
  <2>2. QED
    BY <1>3, <1>5, <2>1 DEF CloseAccount
<1>6. ASSUME NEW b \in Bank, RemoveBank(b) PROVE [B!Next]_(B!books)
  <2> DEFINE gone == {a \in accounts : BankOf[a] = b}
  <2>1. \A a \in accounts : NotDeleted(a)' <=> NotDeleted(a) /\ a \notin gone
    BY <1>1, <1>6, LedgerAssumption DEF RemoveBank, NotDeleted, TypeOK
  <2>2. gone \in SUBSET accounts /\ ConvertReferencesToExternal(gone)
        /\ UNCHANGED <<accounts, closed>>
    BY <1>6 DEF RemoveBank
  <2> HIDE DEF gone
  <2>3. QED
    BY <2>1, <2>2, DeletionStep
<1>7. ASSUME NEW a \in Account, RemoveAccount(a) PROVE [B!Next]_(B!books)
  <2>1. \A x \in accounts : NotDeleted(x)' <=> NotDeleted(x) /\ x \notin {a}
    BY <1>1, <1>7, LedgerAssumption DEF RemoveAccount, NotDeleted, TypeOK
  <2>2. {a} \in SUBSET accounts /\ ConvertReferencesToExternal({a})
        /\ UNCHANGED <<accounts, closed>>
    BY <1>7 DEF RemoveAccount
  <2>3. QED
    BY <2>1, <2>2, DeletionStep
<1>8. ASSUME NEW m \in Member, NEW a \in Account, NEW e \in Entry,
             NEW t \in Account \cup {NULL}, NEW o \in Operation, NEW n \in Operation,
             CreateOperation(m, a, e, t, o, n)
      PROVE  [B!Next]_(B!books)
  <2> DEFINE row == [account |-> a, transferAccount |-> TransferAccountFor(e, t),
                     transferOperation |-> NULL, scheduler |-> NULL,
                     method |-> e.method, side |-> e.side, content |-> e.content,
                     reconciled |-> e.reconciled]
  <2>1. e \in EntryType
    BY LedgerAssumption
  <2>2. row \in OperationRow /\ row.account = a /\ row.transferOperation = NULL
    BY <2>1 DEF EntryType, OperationRow, TransferAccountFor
  <2>3. /\ OwnerOf[BankOf[a]] = m /\ FullyActive(a)
        /\ OnlyOperation /\ InsertWithMirror(m, o, n, row)
    BY <1>8 DEF CreateOperation, Writable, Reachable
  <2> HIDE DEF row
  <2>4. QED
    BY <2>2, <2>3, InsertStep
<1>9. ASSUME NEW s \in Scheduler, NEW o \in Operation, NEW n \in Operation,
             GenerateOccurrence(s, o, n)
      PROVE  [B!Next]_(B!books)
  <2> DEFINE a == scheduler[s].account
             m == OwnerOf[BankOf[a]]
             row == [account |-> a, transferAccount |-> scheduler[s].transferAccount,
                     transferOperation |-> NULL, scheduler |-> s,
                     method |-> scheduler[s].method, side |-> scheduler[s].side,
                     content |-> scheduler[s].content,
                     reconciled |-> scheduler[s].reconciled]
  <2>1. /\ s \in DOMAIN scheduler /\ OnlyOperation /\ FullyActive(a)
        /\ InsertWithMirror(m, o, n, row)
    BY <1>9 DEF GenerateOccurrence
  <2>2. scheduler[s] \in SchedulerRow
    BY <1>1, <2>1 DEF TypeOK
  <2>3. m \in Member
    BY <2>2, LedgerAssumption DEF SchedulerRow
  <2>4. row \in OperationRow /\ row.account = a /\ row.transferOperation = NULL
    BY <2>2 DEF SchedulerRow, OperationRow
  <2> HIDE DEF row, a
  <2>5. QED
    BY <2>1, <2>3, <2>4, InsertStep
<1>10. ASSUME NEW m \in Member, NEW D \in SUBSET Operation, BatchReconcile(m, D)
       PROVE  [B!Next]_(B!books)
  <2>1. /\ UNCHANGED <<accounts, closed, deleted>>
        /\ DOMAIN operation' = DOMAIN operation
        /\ \A x \in DOMAIN operation :
             /\ operation'[x].account = operation[x].account
             /\ operation'[x].side = operation[x].side
             /\ operation'[x].content = operation[x].content
             /\ operation'[x].transferOperation = operation[x].transferOperation
    BY <1>1, <1>10
       DEF BatchReconcile, OnlyOperation, OperationsOK, RowOK, OperationRow
  <2>2. QED
    BY <2>1, NothingChanged
<1>11. ASSUME NEW m \in Member, NEW S \in SUBSET Scheduler, RemoveSchedulers(m, S)
       PROVE  [B!Next]_(B!books)
  <2>1. /\ UNCHANGED <<accounts, closed, deleted>>
        /\ DOMAIN operation' = DOMAIN operation
        /\ \A x \in DOMAIN operation :
             /\ operation'[x].account = operation[x].account
             /\ operation'[x].side = operation[x].side
             /\ operation'[x].content = operation[x].content
             /\ operation'[x].transferOperation = operation[x].transferOperation
    BY <1>1, <1>11 DEF RemoveSchedulers, OperationsOK, RowOK, OperationRow
  <2>2. QED
    BY <2>1, NothingChanged
<1>12. CASE UNCHANGED <<banks, accounts, closed, deleted, operation>>
  BY <1>12, NothingChanged
<1>13. ASSUME NEW m \in Member, NEW s \in Scheduler, NEW a, NEW e, NEW t, NEW previous,
              SaveScheduler(m, s, a, e, t, previous)
       PROVE  [B!Next]_(B!books)
  BY <1>12, <1>13 DEF SaveScheduler
<1>14. QED
  BY <1>2, <1>4, <1>5, <1>6, <1>7, <1>8, <1>9, <1>10, <1>11, <1>12, <1>13,
     CreateAccountStep, UpdateOperationStep, BatchDeleteStep
     DEF Next, vars, CreateScheduler, UpdateScheduler

\* Every request, generation and deletion, which write the rows of a transfer
\* one by one, is one step on whole movements or none, for every history.
THEOREM LedgerKeepsBooks == Spec => KeepsBooks
<1>1. Init => B!Init
  BY DEF Init, B!Init, LiveAccounts, OpenAccounts, Movements, LiveOperations, FullyActive
<1>2. PairsInv /\ PairsInv' /\ [Next]_vars => [B!Next]_(B!books)
  BY LedgerStep
<1>3. QED
  BY <1>1, <1>2, PairsCorrect, PTL DEF Spec, KeepsBooks, B!Spec
=============================================================================
