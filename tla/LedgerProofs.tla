---------------------------- MODULE LedgerProofs ----------------------------
(***************************************************************************)
(* Theorems about module Ledger, for every set of members, banks, accounts *)
(* and operations: its types, the pairs, and what a step may never do.  It *)
(* never rewrites the books of a deleted account, touches those of a       *)
(* closed one only through a counterpart in an open one, and leaves        *)
(* opening balances as they are: one lemma says the ways in which a step   *)
(* can touch an operation at all, and those theorems follow from it and    *)
(* the pairs' invariant.                                                   *)
(***************************************************************************)
EXTENDS Ledger, TLAPS

\* The columns a mirror takes from its source have their types.
LEMMA MirrorFieldsType ==
  ASSUME NEW row \in OperationRow, NEW source \in OperationRow
  PROVE  /\ MirrorFields(row, source) \in OperationRow
         /\ MirrorFields(row, source).account = row.account
         /\ MirrorFields(row, source).transferAccount = row.transferAccount
         /\ MirrorFields(row, source).transferOperation = row.transferOperation
         /\ MirrorFields(row, source).scheduler = source.scheduler
         /\ MirrorFields(row, source).method = Flip(source.method)
         /\ MirrorFields(row, source).side = Opposite(source.side)
         /\ MirrorFields(row, source).content = source.content
         /\ MirrorFields(row, source).reconciled = row.reconciled
<1>1. Flip(source.method) \in Method /\ Opposite(source.side) \in Side
  BY DEF Flip, Opposite, Method, TransferMethod, Side
<1>2. QED
  BY <1>1 DEF MirrorFields, OperationRow

\* A new mirror is a row, in the target's books, that points back at its source.
LEMMA NewMirrorType ==
  ASSUME NEW o \in Operation, NEW source \in OperationRow,
         source.transferAccount \in Account
  PROVE  /\ NewMirror(o, source) \in OperationRow
         /\ NewMirror(o, source).account = source.transferAccount
         /\ NewMirror(o, source).transferAccount = source.account
         /\ NewMirror(o, source).transferOperation = o
         /\ NewMirror(o, source).scheduler = source.scheduler
         /\ NewMirror(o, source).method = Flip(source.method)
         /\ NewMirror(o, source).side = Opposite(source.side)
         /\ NewMirror(o, source).content = source.content
<1> DEFINE base == [source EXCEPT !.account = source.transferAccount,
                                  !.transferAccount = source.account,
                                  !.transferOperation = o,
                                  !.reconciled = FALSE]
<1>1. /\ base \in OperationRow
      /\ base.account = source.transferAccount
      /\ base.transferAccount = source.account
      /\ base.transferOperation = o
  BY DEF OperationRow
<1>2. NewMirror(o, source) = MirrorFields(base, source)
  BY DEF NewMirror
<1> HIDE DEF base
<1>3. QED
  BY <1>1, <1>2, MirrorFieldsType

LEMMA ExternalType ==
  ASSUME NEW row \in OperationRow
  PROVE  /\ External(row) \in OperationRow
         /\ External(row).transferAccount = NULL
         /\ External(row).transferOperation = NULL
         /\ External(row).account = row.account
         /\ External(row).scheduler = row.scheduler
         /\ External(row).method = row.method
         /\ External(row).side = row.side
         /\ External(row).content = row.content
  BY DEF External, OperationRow

\* What a save writes over a row keeps its account and scheduler.
LEMMA SavedType ==
  ASSUME TypeOK, NEW o \in DOMAIN operation, NEW e \in Entry
  PROVE  \A want \in Account \cup {NULL}, mirror \in Operation \cup {NULL} :
           /\ Saved(o, e, want, mirror) \in OperationRow
           /\ Saved(o, e, want, mirror).account = operation[o].account
           /\ Saved(o, e, want, mirror).scheduler = operation[o].scheduler
           /\ Saved(o, e, want, mirror).transferAccount = want
           /\ Saved(o, e, want, mirror).transferOperation = mirror
           /\ Saved(o, e, want, mirror).method = e.method
           /\ Saved(o, e, want, mirror).side = e.side
           /\ Saved(o, e, want, mirror).content = e.content
<1>1. e \in EntryType
  BY LedgerAssumption
<1>2. operation[o] \in OperationRow
  BY DEF TypeOK
<1>3. QED
  BY <1>1, <1>2 DEF Saved, EntryType, OperationRow

-----------------------------------------------------------------------------
(* Type correctness.                                                       *)

\* What TypeOK says of one row of the operation table.
RowOK(o) ==
  /\ operation[o] \in OperationRow
  /\ operation[o].account \in accounts
  /\ operation[o].transferAccount \in accounts \cup {NULL}
  /\ operation[o].transferOperation \in DOMAIN operation \cup {NULL}
  /\ operation[o].scheduler \in DOMAIN scheduler \cup {NULL}

OperationsOK ==
  /\ DOMAIN operation \subseteq Operation
  /\ operation = [o \in DOMAIN operation |-> operation[o]]
  /\ \A o \in DOMAIN operation : RowOK(o)

\* A request that writes the operation table only is well typed when the rows
\* it leaves are.
LEMMA OnlyOperationType ==
  ASSUME TypeOK, OnlyOperation, OperationsOK'
  PROVE  TypeOK'
  BY DEF TypeOK, OnlyOperation, OperationsOK, RowOK

LEMMA TypeGivesRows ==
  ASSUME TypeOK
  PROVE  OperationsOK
  BY DEF TypeOK, OperationsOK, RowOK

LEMMA InsertWithMirrorType ==
  ASSUME TypeOK, OnlyOperation,
         NEW m \in Member, NEW o \in Operation, NEW n \in Operation,
         NEW row \in OperationRow,
         row.account \in accounts, row.transferOperation = NULL,
         row.scheduler \in DOMAIN scheduler \cup {NULL},
         InsertWithMirror(m, o, n, row)
  PROVE  TypeOK'
<1>1. OperationsOK /\ UNCHANGED <<accounts, scheduler>>
  BY TypeGivesRows DEF OnlyOperation
<1>2. CASE row.transferAccount = NULL
  <2>1. operation' = [x \in DOMAIN operation \cup {o} |->
                        IF x = o THEN row ELSE operation[x]]
    BY <1>2 DEF InsertWithMirror
  <2>2. OperationsOK'
    BY <1>1, <1>2, <2>1 DEF OperationsOK, RowOK
  <2>3. QED
    BY <2>2, OnlyOperationType
<1>3. CASE row.transferAccount # NULL
  <2> DEFINE t == row.transferAccount
             source == [row EXCEPT !.transferOperation = n]
  <2>1. /\ t \in accounts
        /\ n # o
        /\ operation' =
             [x \in DOMAIN operation \cup {o, n} |->
                CASE x = o -> source
                  [] x = n -> NewMirror(o, row)
                  [] OTHER -> operation[x]]
    BY <1>3 DEF InsertWithMirror, EligibleTarget, FullyActive
  <2>2. t \in Account
    BY <1>3 DEF OperationRow
  <2>3. /\ NewMirror(o, row) \in OperationRow
        /\ NewMirror(o, row).account = t
        /\ NewMirror(o, row).transferAccount = row.account
        /\ NewMirror(o, row).transferOperation = o
        /\ NewMirror(o, row).scheduler = row.scheduler
    BY <2>2, NewMirrorType
  <2>4. /\ source \in OperationRow
        /\ source.account = row.account
        /\ source.transferAccount = t
        /\ source.transferOperation = n
        /\ source.scheduler = row.scheduler
    BY DEF OperationRow
  <2> HIDE DEF t, source
  <2>5. ASSUME NEW x \in DOMAIN operation'
        PROVE  RowOK(x)'
    BY <1>1, <2>1, <2>3, <2>4 DEF OperationsOK, RowOK
  <2>6. OperationsOK'
    BY <1>1, <2>1, <2>5 DEF OperationsOK
  <2>7. QED
    BY <2>6, OnlyOperationType
<1>4. QED
  BY <1>2, <1>3

LEMMA CreateOperationType ==
  ASSUME TypeOK, NEW m \in Member, NEW a \in Account, NEW e \in Entry,
         NEW t \in Account \cup {NULL}, NEW o \in Operation, NEW n \in Operation,
         CreateOperation(m, a, e, t, o, n)
  PROVE  TypeOK'
<1> DEFINE row == [account |-> a, transferAccount |-> TransferAccountFor(e, t),
                   transferOperation |-> NULL, scheduler |-> NULL,
                   method |-> e.method, side |-> e.side, content |-> e.content,
                   reconciled |-> e.reconciled]
<1>1. e \in EntryType
  BY LedgerAssumption
<1>2. /\ row \in OperationRow
      /\ row.account = a /\ row.transferOperation = NULL /\ row.scheduler = NULL
  BY <1>1 DEF EntryType, OperationRow, TransferAccountFor
<1>3. a \in accounts /\ OnlyOperation /\ InsertWithMirror(m, o, n, row)
  BY DEF CreateOperation, Writable, Reachable
<1> HIDE DEF row
<1>4. QED
  BY <1>2, <1>3, InsertWithMirrorType

LEMMA GenerateOccurrenceType ==
  ASSUME TypeOK, NEW s \in Scheduler, NEW o \in Operation, NEW n \in Operation,
         GenerateOccurrence(s, o, n)
  PROVE  TypeOK'
<1> DEFINE a == scheduler[s].account
           m == OwnerOf[BankOf[a]]
           row == [account |-> a, transferAccount |-> scheduler[s].transferAccount,
                   transferOperation |-> NULL, scheduler |-> s,
                   method |-> scheduler[s].method, side |-> scheduler[s].side,
                   content |-> scheduler[s].content,
                   reconciled |-> scheduler[s].reconciled]
<1>1. s \in DOMAIN scheduler /\ OnlyOperation /\ InsertWithMirror(m, o, n, row)
  BY DEF GenerateOccurrence
<1>2. scheduler[s] \in SchedulerRow /\ a \in accounts
  BY <1>1 DEF TypeOK
<1>3. m \in Member
  BY <1>2, LedgerAssumption DEF SchedulerRow
<1>4. /\ row \in OperationRow
      /\ row.account = a /\ row.transferOperation = NULL /\ row.scheduler = s
  BY <1>2 DEF SchedulerRow, OperationRow
<1> HIDE DEF row, m, a
<1>5. QED
  BY <1>1, <1>2, <1>3, <1>4, InsertWithMirrorType

\* The facts about a save that each pairing edit starts from.
LEMMA UpdateOperationFacts ==
  ASSUME TypeOK, NEW m \in Member, NEW o \in Operation, NEW e \in Entry,
         NEW t \in Account \cup {NULL}, NEW n \in Operation,
         UpdateOperation(m, o, e, t, n)
  PROVE  /\ o \in DOMAIN operation
         /\ FullyActive(operation[o].account)
         /\ TransferAccountFor(e, t) \in Account \cup {NULL}
         /\ TransferAccountFor(e, t) # NULL => e.method \in TransferMethod
         /\ operation[o].transferOperation \in DOMAIN operation \cup {NULL}
         /\ operation[o].transferOperation \in Operation \cup {NULL}
  BY DEF UpdateOperation, Editable, Writable, TransferAccountFor, TypeOK

LEMMA UpdateOperationType ==
  ASSUME TypeOK, NEW m \in Member, NEW o \in Operation, NEW e \in Entry,
         NEW t \in Account \cup {NULL}, NEW n \in Operation,
         UpdateOperation(m, o, e, t, n)
  PROVE  TypeOK'
<1> DEFINE want == TransferAccountFor(e, t)
           mirror == operation[o].transferOperation
           edit == ClassifyPairingEdit(operation[o], want)
<1>1. /\ OnlyOperation /\ UNCHANGED <<accounts, scheduler>>
      /\ OperationsOK
      /\ o \in DOMAIN operation
      /\ want \in Account \cup {NULL}
      /\ mirror \in DOMAIN operation \cup {NULL}
      /\ mirror \in Operation \cup {NULL}
      /\ NULL \notin Operation
  BY UpdateOperationFacts, TypeGivesRows, LedgerAssumption
     DEF UpdateOperation, OnlyOperation
<1>2. \A w \in Account \cup {NULL}, p \in Operation \cup {NULL} :
         /\ Saved(o, e, w, p) \in OperationRow
         /\ Saved(o, e, w, p).account = operation[o].account
         /\ Saved(o, e, w, p).scheduler = operation[o].scheduler
         /\ Saved(o, e, w, p).transferAccount = w
         /\ Saved(o, e, w, p).transferOperation = p
  BY <1>1, SavedType
<1>3. CASE edit = "none" /\ SyncNone(o, e)
  <2>1. operation' = [operation EXCEPT ![o] = Saved(o, e, NULL, NULL)]
    BY <1>3 DEF SyncNone
  <2>2. /\ Saved(o, e, NULL, NULL) \in OperationRow
        /\ Saved(o, e, NULL, NULL).account = operation[o].account
        /\ Saved(o, e, NULL, NULL).scheduler = operation[o].scheduler
        /\ Saved(o, e, NULL, NULL).transferAccount = NULL
        /\ Saved(o, e, NULL, NULL).transferOperation = NULL
    BY <1>2
  <2>3. ASSUME NEW x \in DOMAIN operation'
        PROVE  RowOK(x)'
    BY <1>1, <2>1, <2>2 DEF OperationsOK, RowOK
  <2>4. OperationsOK'
    BY <1>1, <2>1, <2>3 DEF OperationsOK
  <2>5. QED
    BY <1>1, <2>4, OnlyOperationType
<1>4. CASE edit = "detach" /\ SyncDetach(o, e, mirror)
  <2>1. /\ PointingAt({mirror}) \subseteq {o}
        /\ operation' = [x \in DOMAIN operation \ {mirror} |->
                           IF x = o THEN Saved(o, e, NULL, NULL) ELSE operation[x]]
    BY <1>4 DEF SyncDetach
  <2>2. /\ Saved(o, e, NULL, NULL) \in OperationRow
        /\ Saved(o, e, NULL, NULL).account = operation[o].account
        /\ Saved(o, e, NULL, NULL).scheduler = operation[o].scheduler
        /\ Saved(o, e, NULL, NULL).transferAccount = NULL
        /\ Saved(o, e, NULL, NULL).transferOperation = NULL
    BY <1>1, <1>2
  <2>3. ASSUME NEW x \in DOMAIN operation'
        PROVE  RowOK(x)'
    BY <1>1, <2>1, <2>2 DEF OperationsOK, RowOK, PointingAt
  <2>4. OperationsOK'
    BY <1>1, <2>1, <2>3 DEF OperationsOK
  <2>5. QED
    BY <1>1, <2>4, OnlyOperationType
<1>5. CASE edit = "refresh" /\ SyncRefresh(o, e, want, mirror)
  <2> DEFINE saved == Saved(o, e, want, mirror)
             fresh == MirrorFields(operation[mirror], saved)
  <2>1. /\ want # NULL /\ mirror # NULL
        /\ operation[o].transferAccount = want
    BY <1>5 DEF ClassifyPairingEdit
  <2>2. operation' = [x \in DOMAIN operation |->
                        IF x = o THEN saved ELSE IF x = mirror THEN fresh ELSE operation[x]]
    BY <1>5 DEF SyncRefresh
  <2>3. /\ saved \in OperationRow
        /\ saved.account = operation[o].account
        /\ saved.scheduler = operation[o].scheduler
        /\ saved.transferAccount = want
        /\ saved.transferOperation = mirror
    BY <1>1, <1>2
  <2>4. operation[mirror] \in OperationRow /\ mirror \in DOMAIN operation
    BY <1>1, <2>1 DEF OperationsOK, RowOK
  <2> HIDE DEF saved
  <2>5. /\ fresh \in OperationRow
        /\ fresh.account = operation[mirror].account
        /\ fresh.transferAccount = operation[mirror].transferAccount
        /\ fresh.transferOperation = operation[mirror].transferOperation
        /\ fresh.scheduler = saved.scheduler
    BY <2>3, <2>4, MirrorFieldsType
  <2> HIDE DEF fresh
  <2>6. ASSUME NEW x \in DOMAIN operation'
        PROVE  RowOK(x)'
    BY <1>1, <2>1, <2>2, <2>3, <2>4, <2>5 DEF OperationsOK, RowOK
  <2>7. OperationsOK'
    BY <1>1, <2>2, <2>6 DEF OperationsOK
  <2>8. QED
    BY <1>1, <2>7, OnlyOperationType
<1>6. CASE edit = "retarget" /\ SyncRetarget(m, o, e, want, mirror)
  <2> DEFINE saved == Saved(o, e, want, mirror)
             fresh == MirrorFields(operation[mirror], saved)
             moved == [fresh EXCEPT !.account = want]
  <2>1. /\ want # NULL /\ mirror # NULL
        /\ EligibleTarget(m, operation[o].account, want)
    BY <1>6 DEF SyncRetarget, ClassifyPairingEdit
  <2>2. operation' = [x \in DOMAIN operation |->
                        IF x = o THEN saved ELSE IF x = mirror THEN moved ELSE operation[x]]
    BY <1>6 DEF SyncRetarget
  <2>3. /\ saved \in OperationRow
        /\ saved.account = operation[o].account
        /\ saved.scheduler = operation[o].scheduler
        /\ saved.transferAccount = want
        /\ saved.transferOperation = mirror
    BY <1>1, <1>2
  <2>4. operation[mirror] \in OperationRow /\ mirror \in DOMAIN operation
    BY <1>1, <2>1 DEF OperationsOK, RowOK
  <2>5. want \in accounts
    BY <2>1 DEF EligibleTarget, FullyActive
  <2> HIDE DEF saved
  <2>6. /\ fresh \in OperationRow
        /\ fresh.transferAccount = operation[mirror].transferAccount
        /\ fresh.transferOperation = operation[mirror].transferOperation
        /\ fresh.scheduler = saved.scheduler
    BY <2>3, <2>4, MirrorFieldsType
  <2> HIDE DEF fresh
  <2>7. /\ moved \in OperationRow
        /\ moved.account = want
        /\ moved.transferAccount = operation[mirror].transferAccount
        /\ moved.transferOperation = operation[mirror].transferOperation
        /\ moved.scheduler = saved.scheduler
    BY <1>1, <2>1, <2>6 DEF OperationRow
  <2> HIDE DEF moved
  <2>8. ASSUME NEW x \in DOMAIN operation'
        PROVE  RowOK(x)'
    BY <1>1, <2>2, <2>3, <2>4, <2>5, <2>7 DEF OperationsOK, RowOK
  <2>9. OperationsOK'
    BY <1>1, <2>2, <2>8 DEF OperationsOK
  <2>10. QED
    BY <1>1, <2>9, OnlyOperationType
<1>7. CASE edit = "attach" /\ SyncAttach(m, o, e, want, n)
  <2> DEFINE saved == Saved(o, e, want, n)
  <2>1. /\ want # NULL
        /\ EligibleTarget(m, operation[o].account, want)
        /\ n \notin DOMAIN operation
        /\ operation' = [x \in DOMAIN operation \cup {n} |->
                           CASE x = o -> saved
                             [] x = n -> NewMirror(o, saved)
                             [] OTHER -> operation[x]]
    BY <1>7 DEF SyncAttach, ClassifyPairingEdit
  <2>2. /\ saved \in OperationRow
        /\ saved.account = operation[o].account
        /\ saved.scheduler = operation[o].scheduler
        /\ saved.transferAccount = want
        /\ saved.transferOperation = n
    BY <1>1, <1>2
  <2>3. want \in accounts
    BY <2>1 DEF EligibleTarget, FullyActive
  <2> HIDE DEF saved
  <2>4. /\ NewMirror(o, saved) \in OperationRow
        /\ NewMirror(o, saved).account = want
        /\ NewMirror(o, saved).transferAccount = saved.account
        /\ NewMirror(o, saved).transferOperation = o
        /\ NewMirror(o, saved).scheduler = saved.scheduler
    BY <1>1, <2>1, <2>2, NewMirrorType
  <2>5. ASSUME NEW x \in DOMAIN operation'
        PROVE  RowOK(x)'
    BY <1>1, <2>1, <2>2, <2>3, <2>4 DEF OperationsOK, RowOK
  <2>6. OperationsOK'
    BY <1>1, <2>1, <2>5 DEF OperationsOK
  <2>7. QED
    BY <1>1, <2>6, OnlyOperationType
<1>8. QED
  BY <1>3, <1>4, <1>5, <1>6, <1>7 DEF UpdateOperation

LEMMA BatchDeleteType ==
  ASSUME TypeOK, NEW m \in Member, NEW D \in SUBSET Operation, BatchDelete(m, D)
  PROVE  TypeOK'
<1> DEFINE S == SurvivorsOfDeleted(D)
<1>1. /\ OnlyOperation /\ UNCHANGED <<accounts, scheduler>>
      /\ OperationsOK
      /\ PointingAt(D) \subseteq D \cup S
      /\ operation' = [o \in DOMAIN operation \ D |->
                         IF o \in S THEN External(operation[o]) ELSE operation[o]]
  BY TypeGivesRows DEF BatchDelete, OnlyOperation
<1>2. \A o \in DOMAIN operation :
        /\ External(operation[o]) \in OperationRow
        /\ External(operation[o]).transferAccount = NULL
        /\ External(operation[o]).transferOperation = NULL
        /\ External(operation[o]).account = operation[o].account
        /\ External(operation[o]).scheduler = operation[o].scheduler
  BY <1>1, ExternalType DEF OperationsOK, RowOK
<1> HIDE DEF S
<1>3. ASSUME NEW o \in DOMAIN operation'
      PROVE  RowOK(o)'
  BY <1>1, <1>2 DEF OperationsOK, RowOK, PointingAt
<1>4. OperationsOK'
  BY <1>1, <1>3 DEF OperationsOK
<1>5. QED
  BY <1>1, <1>4, OnlyOperationType

LEMMA BatchReconcileType ==
  ASSUME TypeOK, NEW m \in Member, NEW D \in SUBSET Operation, BatchReconcile(m, D)
  PROVE  TypeOK'
<1>1. /\ OnlyOperation /\ UNCHANGED <<accounts, scheduler>>
      /\ OperationsOK
      /\ operation' = [o \in DOMAIN operation |->
                         IF o \in D THEN [operation[o] EXCEPT !.reconciled = TRUE]
                         ELSE operation[o]]
  BY TypeGivesRows DEF BatchReconcile, OnlyOperation
<1>2. ASSUME NEW o \in DOMAIN operation
      PROVE  LET row == [operation[o] EXCEPT !.reconciled = TRUE]
             IN  /\ row \in OperationRow
                 /\ row.account = operation[o].account
                 /\ row.transferAccount = operation[o].transferAccount
                 /\ row.transferOperation = operation[o].transferOperation
                 /\ row.scheduler = operation[o].scheduler
  BY <1>1 DEF OperationsOK, RowOK, OperationRow
<1>3. ASSUME NEW o \in DOMAIN operation'
      PROVE  RowOK(o)'
  BY <1>1, <1>2 DEF OperationsOK, RowOK
<1>4. OperationsOK'
  BY <1>1, <1>3 DEF OperationsOK
<1>5. QED
  BY <1>1, <1>4, OnlyOperationType

LEMMA SaveSchedulerType ==
  ASSUME TypeOK, NEW m \in Member, NEW s \in Scheduler, NEW a \in Account,
         NEW e \in Entry, NEW t \in Account \cup {NULL},
         NEW previous \in accounts \cup {NULL},
         SaveScheduler(m, s, a, e, t, previous)
  PROVE  TypeOK'
<1> DEFINE want == TransferAccountFor(e, t)
           row == [account |-> a, transferAccount |-> want,
                   method |-> e.method, side |-> e.side,
                   content |-> e.content, reconciled |-> e.reconciled]
<1>1. e \in EntryType
  BY LedgerAssumption
<1>2. want \in accounts \cup {NULL} /\ a \in accounts
  BY DEF SaveScheduler, SchedulerTargetValid, EligibleTarget, FullyActive,
         Writable, Reachable
<1>3. row \in SchedulerRow /\ row.account = a /\ row.transferAccount = want
  BY <1>1, <1>2 DEF EntryType, SchedulerRow, TypeOK
<1>4. scheduler' = [x \in DOMAIN scheduler \cup {s} |->
                      IF x = s THEN row ELSE scheduler[x]]
  BY DEF SaveScheduler
<1>5. UNCHANGED <<banks, accounts, closed, deleted, operation>>
  BY DEF SaveScheduler
<1> HIDE DEF row, want
<1>6. QED
  BY <1>2, <1>3, <1>4, <1>5 DEF TypeOK

LEMMA RemoveSchedulersType ==
  ASSUME TypeOK, NEW m \in Member, NEW S \in SUBSET Scheduler, RemoveSchedulers(m, S)
  PROVE  TypeOK'
<1>1. /\ UNCHANGED <<banks, accounts, closed, deleted>>
      /\ OperationsOK
      /\ scheduler' = [s \in DOMAIN scheduler \ S |-> scheduler[s]]
      /\ operation' = [o \in DOMAIN operation |->
                         IF operation[o].scheduler \in S
                           THEN [operation[o] EXCEPT !.scheduler = NULL]
                           ELSE operation[o]]
  BY TypeGivesRows DEF RemoveSchedulers
<1>2. ASSUME NEW o \in DOMAIN operation
      PROVE  LET row == [operation[o] EXCEPT !.scheduler = NULL]
             IN  /\ row \in OperationRow
                 /\ row.account = operation[o].account
                 /\ row.transferAccount = operation[o].transferAccount
                 /\ row.transferOperation = operation[o].transferOperation
                 /\ row.scheduler = NULL
  BY <1>1 DEF OperationsOK, RowOK, OperationRow
<1>3. ASSUME NEW o \in DOMAIN operation'
      PROVE  RowOK(o)'
  BY <1>1, <1>2 DEF OperationsOK, RowOK
<1>4. OperationsOK'
  BY <1>1, <1>3 DEF OperationsOK
<1>5. QED
  BY <1>1, <1>4 DEF TypeOK, OperationsOK, RowOK

LEMMA ConvertReferencesType ==
  ASSUME TypeOK, NEW gone, ConvertReferencesToExternal(gone),
         UNCHANGED <<banks, accounts, closed>>,
         deleted' \subseteq banks \cup accounts
  PROVE  TypeOK'
<1>1. /\ OperationsOK
      /\ operation' = [o \in DOMAIN operation |->
                         IF operation[o].transferAccount \in gone
                           THEN External(operation[o]) ELSE operation[o]]
      /\ scheduler' = [s \in DOMAIN scheduler |->
                         IF scheduler[s].transferAccount \in gone
                           THEN [scheduler[s] EXCEPT !.transferAccount = NULL]
                           ELSE scheduler[s]]
  BY TypeGivesRows DEF ConvertReferencesToExternal
<1>2. \A o \in DOMAIN operation :
        /\ External(operation[o]) \in OperationRow
        /\ External(operation[o]).transferAccount = NULL
        /\ External(operation[o]).transferOperation = NULL
        /\ External(operation[o]).account = operation[o].account
        /\ External(operation[o]).scheduler = operation[o].scheduler
  BY <1>1, ExternalType DEF OperationsOK, RowOK
<1>3. ASSUME NEW o \in DOMAIN operation'
      PROVE  RowOK(o)'
  BY <1>1, <1>2 DEF OperationsOK, RowOK
<1>4. OperationsOK'
  BY <1>1, <1>3 DEF OperationsOK
<1>5. ASSUME NEW s \in DOMAIN scheduler
      PROVE  LET row == [scheduler[s] EXCEPT !.transferAccount = NULL]
             IN  /\ row \in SchedulerRow
                 /\ row.account = scheduler[s].account
                 /\ row.transferAccount = NULL
  BY DEF TypeOK, SchedulerRow
<1>6. /\ scheduler' \in [DOMAIN scheduler' -> SchedulerRow]
      /\ \A s \in DOMAIN scheduler' :
           /\ scheduler'[s].account \in accounts
           /\ scheduler'[s].transferAccount \in accounts \cup {NULL}
  BY <1>1, <1>5 DEF TypeOK
<1>7. QED
  BY <1>1, <1>4, <1>6 DEF TypeOK, OperationsOK, RowOK

LEMMA CreateAccountType ==
  ASSUME TypeOK, NEW a \in Account, NEW o \in Operation, NEW side \in Opening,
         NEW content \in Content, CreateAccount(a, o, side, content)
  PROVE  TypeOK'
<1> DEFINE row == [account |-> a, transferAccount |-> NULL,
                   transferOperation |-> NULL, scheduler |-> NULL,
                   method |-> "initial_balance", side |-> side,
                   content |-> content, reconciled |-> TRUE]
<1>1. /\ UNCHANGED <<banks, closed, deleted, scheduler>>
      /\ BankOf[a] \in banks
      /\ accounts' = accounts \cup {a}
      /\ OperationsOK
  BY TypeGivesRows DEF CreateAccount
<1>2. CASE side = NULL /\ UNCHANGED operation
  BY <1>1, <1>2 DEF TypeOK
<1>3. CASE /\ side # NULL
           /\ operation' = [x \in DOMAIN operation \cup {o} |->
                              IF x = o THEN row ELSE operation[x]]
  <2>1. side \in Side
    BY <1>3, LedgerAssumption
  <2>2. /\ row \in OperationRow
        /\ row.account = a /\ row.transferAccount = NULL
        /\ row.transferOperation = NULL /\ row.scheduler = NULL
    BY <2>1 DEF OperationRow, Method
  <2> HIDE DEF row
  <2>3. ASSUME NEW x \in DOMAIN operation'
        PROVE  RowOK(x)'
    BY <1>1, <1>3, <2>2 DEF OperationsOK, RowOK
  <2>4. OperationsOK'
    BY <1>1, <1>3, <2>3 DEF OperationsOK
  <2>5. QED
    BY <1>1, <2>4 DEF TypeOK, OperationsOK, RowOK
<1>4. QED
  BY <1>2, <1>3 DEF CreateAccount

\* Every request leaves the tables well typed and every foreign key pointing
\* at a row, although none of them checks the keys of the rows it deletes.
LEMMA TypeStep == TypeOK /\ [Next]_vars => TypeOK'
<1> SUFFICES ASSUME TypeOK, [Next]_vars
             PROVE  TypeOK'
  OBVIOUS
<1>1. ASSUME NEW b \in Bank, ChooseBank(b) PROVE TypeOK'
  BY <1>1 DEF ChooseBank, TypeOK
<1>2. ASSUME NEW b \in Bank, CloseBank(b) PROVE TypeOK'
  BY <1>2 DEF CloseBank, TypeOK
<1>3. ASSUME NEW b \in Bank, RemoveBank(b) PROVE TypeOK'
  <2>1. deleted' \subseteq banks \cup accounts
    BY <1>3 DEF RemoveBank, TypeOK
  <2>2. QED
    BY <1>3, <2>1, ConvertReferencesType DEF RemoveBank
<1>4. ASSUME NEW a \in Account, CloseAccount(a) PROVE TypeOK'
  BY <1>4 DEF CloseAccount, FullyActive, TypeOK
<1>5. ASSUME NEW a \in Account, RemoveAccount(a) PROVE TypeOK'
  <2>1. deleted' \subseteq banks \cup accounts
    BY <1>5 DEF RemoveAccount, TypeOK
  <2>2. QED
    BY <1>5, <2>1, ConvertReferencesType DEF RemoveAccount
<1>6. ASSUME NEW m \in Member, NEW s \in Scheduler, NEW a \in Account,
             NEW e \in Entry, NEW t \in Account \cup {NULL},
             CreateScheduler(m, s, a, e, t)
      PROVE  TypeOK'
  BY <1>6, SaveSchedulerType DEF CreateScheduler
<1>7. ASSUME NEW m \in Member, NEW s \in Scheduler, NEW e \in Entry,
             NEW t \in Account \cup {NULL}, UpdateScheduler(m, s, e, t)
      PROVE  TypeOK'
  <2>1. /\ scheduler[s].account \in Account
        /\ scheduler[s].transferAccount \in accounts \cup {NULL}
    BY <1>7 DEF UpdateScheduler, TypeOK, SchedulerRow
  <2>2. QED
    BY <1>7, <2>1, SaveSchedulerType DEF UpdateScheduler
<1>8. CASE UNCHANGED vars
  BY <1>8 DEF vars, TypeOK
<1>9. QED
  BY <1>1, <1>2, <1>3, <1>4, <1>5, <1>6, <1>7, <1>8, CreateAccountType,
     CreateOperationType, UpdateOperationType, BatchDeleteType,
     BatchReconcileType, RemoveSchedulersType, GenerateOccurrenceType
     DEF Next

\* Type correctness and referential integrity of the four tables, in every
\* state any sequence of requests and generations can reach.
THEOREM TypeCorrect == Spec => []TypeOK
<1>1. Init => TypeOK
  BY DEF Init, TypeOK
<1>2. QED
  BY <1>1, TypeStep, PTL DEF Spec

-----------------------------------------------------------------------------
(* The pairs.  Each property of a pair rests on the others: a pair is      *)
(* broken only by deleting one side, which is harmless because no edit     *)
(* reaches the other side through a reference to a deleted account.        *)

\* What the pairing properties say of one operation.
PairOK(o) ==
  /\ operation[o].transferOperation = NULL <=> operation[o].transferAccount = NULL
  /\ operation[o].transferAccount # NULL =>
       /\ operation[o].method \in TransferMethod
       /\ operation[o].transferAccount # operation[o].account
       /\ OwnerOf[BankOf[operation[o].transferAccount]] = OwnerOf[BankOf[operation[o].account]]
       /\ CurrencyOf[operation[o].transferAccount] = CurrencyOf[operation[o].account]
       /\ NotDeleted(operation[o].transferAccount)
       /\ NotDeleted(operation[o].account) =>
            MirrorOf(operation[o].transferOperation, o)

SchedulerOK(s) ==
  scheduler[s].transferAccount # NULL =>
    /\ scheduler[s].method \in TransferMethod
    /\ scheduler[s].transferAccount # scheduler[s].account
    /\ OwnerOf[BankOf[scheduler[s].transferAccount]] = OwnerOf[BankOf[scheduler[s].account]]
    /\ CurrencyOf[scheduler[s].transferAccount] = CurrencyOf[scheduler[s].account]
    /\ NotDeleted(scheduler[s].transferAccount)

\* The inductive invariant.
PairsInv ==
  /\ TypeOK
  /\ \A o \in DOMAIN operation : PairOK(o)
  /\ MirrorsUnshared
  /\ \A s \in DOMAIN scheduler : SchedulerOK(s)

LEMMA FlipTwice ==
  /\ \A side \in Side : Opposite(side) \in Side /\ Opposite(Opposite(side)) = side
  /\ \A method \in TransferMethod : Flip(Flip(method)) = method
  /\ \A method : Flip(method) \in TransferMethod
  BY DEF Side, Opposite, TransferMethod, Flip

\* A request that writes the operation table only keeps the invariant when
\* the pairs it leaves are sound.
LEMMA OnlyOperationPairs ==
  ASSUME PairsInv, TypeOK', OnlyOperation,
         \A o \in DOMAIN operation' : PairOK(o)', MirrorsUnshared'
  PROVE  PairsInv'
  BY DEF PairsInv, OnlyOperation, SchedulerOK, NotDeleted

LEMMA InsertWithMirrorPairs ==
  ASSUME PairsInv, TypeOK', OnlyOperation,
         NEW m \in Member, NEW o \in Operation, NEW n \in Operation,
         NEW row \in OperationRow,
         OwnerOf[BankOf[row.account]] = m, FullyActive(row.account),
         row.transferOperation = NULL,
         row.transferAccount # NULL => row.method \in TransferMethod,
         InsertWithMirror(m, o, n, row)
  PROVE  PairsInv'
<1>1. /\ UNCHANGED <<accounts, deleted, scheduler>>
      /\ OperationsOK
      /\ o \notin DOMAIN operation
      /\ NULL \notin Operation
      /\ \A x \in DOMAIN operation : PairOK(x)
      /\ MirrorsUnshared
  BY TypeGivesRows, LedgerAssumption DEF PairsInv, OnlyOperation, InsertWithMirror
<1>2. CASE row.transferAccount = NULL
  <2>1. operation' = [x \in DOMAIN operation \cup {o} |->
                        IF x = o THEN row ELSE operation[x]]
    BY <1>2 DEF InsertWithMirror
  <2>2. ASSUME NEW x \in DOMAIN operation'
        PROVE  PairOK(x)'
    BY <1>1, <1>2, <2>1, <2>2
       DEF PairOK, MirrorOf, NotDeleted, OperationsOK, RowOK
  <2>3. MirrorsUnshared'
    BY <1>1, <2>1 DEF MirrorsUnshared, OperationsOK, RowOK
  <2>4. QED
    BY <2>2, <2>3, OnlyOperationPairs
<1>3. CASE row.transferAccount # NULL
  <2> DEFINE t == row.transferAccount
             source == [row EXCEPT !.transferOperation = n]
             mirror == NewMirror(o, row)
  <2>1. /\ EligibleTarget(m, row.account, t)
        /\ n \notin DOMAIN operation /\ n # o
        /\ operation' =
             [x \in DOMAIN operation \cup {o, n} |->
                CASE x = o -> source [] x = n -> mirror [] OTHER -> operation[x]]
    BY <1>3 DEF InsertWithMirror
  <2>2. t \in Account
    BY <1>3 DEF OperationRow
  <2>3. /\ mirror.account = t
        /\ mirror.transferAccount = row.account
        /\ mirror.transferOperation = o
        /\ mirror.scheduler = row.scheduler
        /\ mirror.method = Flip(row.method)
        /\ mirror.side = Opposite(row.side)
        /\ mirror.content = row.content
    BY <2>2, NewMirrorType
  <2>4. /\ source.account = row.account
        /\ source.transferAccount = t
        /\ source.transferOperation = n
        /\ source.scheduler = row.scheduler
        /\ source.method = row.method /\ row.method \in TransferMethod
        /\ source.side = row.side /\ row.side \in Side
        /\ source.content = row.content
    BY <1>3 DEF OperationRow
  <2>5. /\ t # row.account /\ t # NULL /\ row.account # NULL
        /\ NotDeleted(t) /\ NotDeleted(row.account)
        /\ OwnerOf[BankOf[t]] = OwnerOf[BankOf[row.account]]
        /\ CurrencyOf[t] = CurrencyOf[row.account]
    BY <2>1, <1>3, LedgerAssumption
       DEF EligibleTarget, Reachable, FullyActive, OperationRow
  <2> HIDE DEF t, source, mirror
  <2>6. /\ DOMAIN operation' = DOMAIN operation \cup {o, n}
        /\ operation'[o] = source /\ operation'[n] = mirror
        /\ \A x \in DOMAIN operation : operation'[x] = operation[x]
    BY <1>1, <2>1
  <2>7. PairOK(o)' /\ PairOK(n)'
    BY <1>1, <2>1, <2>3, <2>4, <2>5, <2>6, FlipTwice DEF PairOK, MirrorOf, NotDeleted
  <2>8. ASSUME NEW x \in DOMAIN operation
        PROVE  PairOK(x)'
    BY <1>1, <2>6 DEF PairOK, MirrorOf, NotDeleted, OperationsOK, RowOK
  <2>9. MirrorsUnshared'
    BY <1>1, <2>1, <2>3, <2>4, <2>6 DEF MirrorsUnshared, OperationsOK, RowOK
  <2>10. QED
    BY <2>6, <2>7, <2>8, <2>9, OnlyOperationPairs
<1>4. QED
  BY <1>2, <1>3

LEMMA UpdateOperationPairs ==
  ASSUME PairsInv, TypeOK', NEW m \in Member, NEW o \in Operation, NEW e \in Entry,
         NEW t \in Account \cup {NULL}, NEW n \in Operation,
         UpdateOperation(m, o, e, t, n)
  PROVE  PairsInv'
<1> DEFINE want == TransferAccountFor(e, t)
           mirror == operation[o].transferOperation
           edit == ClassifyPairingEdit(operation[o], want)
<1>1. /\ OnlyOperation /\ UNCHANGED <<accounts, deleted, scheduler>>
      /\ TypeOK /\ OperationsOK
      /\ o \in DOMAIN operation
      /\ want \in Account \cup {NULL}
      /\ want # NULL => e.method \in TransferMethod
      /\ mirror \in DOMAIN operation \cup {NULL}
      /\ mirror \in Operation \cup {NULL}
      /\ NULL \notin Operation
      /\ operation[o].account # NULL
      /\ \A x \in DOMAIN operation : PairOK(x)
      /\ MirrorsUnshared
  <2>1. TypeOK
    BY DEF PairsInv
  <2>2. operation[o].account \in Account
    BY <2>1, UpdateOperationFacts DEF TypeOK, OperationRow
  <2>3. QED
    BY <2>1, <2>2, UpdateOperationFacts, TypeGivesRows, LedgerAssumption
       DEF UpdateOperation, OnlyOperation, PairsInv
<1>2. /\ NotDeleted(operation[o].account)
      /\ OwnerOf[BankOf[operation[o].account]] = m
      /\ operation[o].side \in Side /\ e.side \in Side
  BY <1>1, LedgerAssumption
     DEF UpdateOperation, Editable, Writable, Reachable, OperationsOK, RowOK,
         OperationRow, EntryType
<1>3. \A w \in Account \cup {NULL}, p \in Operation \cup {NULL} :
         /\ Saved(o, e, w, p) \in OperationRow
         /\ Saved(o, e, w, p).account = operation[o].account
         /\ Saved(o, e, w, p).scheduler = operation[o].scheduler
         /\ Saved(o, e, w, p).transferAccount = w
         /\ Saved(o, e, w, p).transferOperation = p
         /\ Saved(o, e, w, p).method = e.method
         /\ Saved(o, e, w, p).side = e.side
         /\ Saved(o, e, w, p).content = e.content
  BY <1>1, SavedType
<1>4. mirror # NULL =>
        /\ mirror # o /\ MirrorOf(mirror, o)
        /\ operation[mirror] \in OperationRow
  BY <1>1, <1>2 DEF PairOK, MirrorOf, OperationsOK, RowOK
<1>5. CASE edit = "none" /\ SyncNone(o, e)
  <2> DEFINE saved == Saved(o, e, NULL, NULL)
  <2>1. mirror = NULL
    BY <1>5 DEF ClassifyPairingEdit
  <2>2. /\ DOMAIN operation' = DOMAIN operation
        /\ operation'[o] = saved
        /\ \A x \in DOMAIN operation : x # o => operation'[x] = operation[x]
    BY <1>1, <1>5 DEF SyncNone, OperationsOK
  <2>3. /\ saved.account = operation[o].account
        /\ saved.transferAccount = NULL /\ saved.transferOperation = NULL
    BY <1>3
  <2> HIDE DEF saved
  <2>4. ASSUME NEW x \in DOMAIN operation'
        PROVE  PairOK(x)'
    BY <1>1, <2>1, <2>2, <2>3 DEF PairOK, MirrorOf, NotDeleted, OperationsOK, RowOK
  <2>5. MirrorsUnshared'
    BY <1>1, <2>2, <2>3 DEF MirrorsUnshared
  <2>6. QED
    BY <1>1, <2>4, <2>5, OnlyOperationPairs
<1>6. CASE edit = "detach" /\ SyncDetach(o, e, mirror)
  <2> DEFINE saved == Saved(o, e, NULL, NULL)
  <2>1. mirror # NULL
    BY <1>6 DEF ClassifyPairingEdit
  <2>2. /\ PointingAt({mirror}) \subseteq {o}
        /\ DOMAIN operation' = DOMAIN operation \ {mirror}
        /\ operation'[o] = saved
        /\ \A x \in DOMAIN operation' : x # o => operation'[x] = operation[x]
    BY <1>1, <1>4, <1>6, <2>1 DEF SyncDetach
  <2>3. /\ saved.account = operation[o].account
        /\ saved.transferAccount = NULL /\ saved.transferOperation = NULL
    BY <1>3
  <2> HIDE DEF saved
  <2>4. ASSUME NEW x \in DOMAIN operation'
        PROVE  PairOK(x)'
    BY <1>1, <1>4, <2>1, <2>2, <2>3
       DEF PairOK, MirrorOf, NotDeleted, OperationsOK, RowOK, PointingAt
  <2>5. MirrorsUnshared'
    BY <1>1, <2>2, <2>3 DEF MirrorsUnshared
  <2>6. QED
    BY <1>1, <2>4, <2>5, OnlyOperationPairs
<1>7. CASE edit = "refresh" /\ SyncRefresh(o, e, want, mirror)
  <2> DEFINE saved == Saved(o, e, want, mirror)
             fresh == MirrorFields(operation[mirror], saved)
  <2>1. want # NULL /\ mirror # NULL /\ operation[o].transferAccount = want
    BY <1>7 DEF ClassifyPairingEdit
  <2>2. /\ DOMAIN operation' = DOMAIN operation
        /\ operation'[o] = saved /\ operation'[mirror] = fresh
        /\ \A x \in DOMAIN operation : x # o /\ x # mirror => operation'[x] = operation[x]
    BY <1>1, <1>4, <1>7, <2>1 DEF SyncRefresh
  <2>3. /\ saved \in OperationRow
        /\ saved.account = operation[o].account
        /\ saved.scheduler = operation[o].scheduler
        /\ saved.transferAccount = want /\ saved.transferOperation = mirror
        /\ saved.method = e.method /\ saved.side = e.side /\ saved.content = e.content
    BY <1>1, <1>3
  <2> HIDE DEF saved
  <2>4. /\ fresh.account = operation[mirror].account
        /\ fresh.transferAccount = operation[mirror].transferAccount
        /\ fresh.transferOperation = operation[mirror].transferOperation
        /\ fresh.scheduler = saved.scheduler
        /\ fresh.method = Flip(saved.method)
        /\ fresh.side = Opposite(saved.side)
        /\ fresh.content = saved.content
    BY <1>4, <2>1, <2>3, MirrorFieldsType
  <2> HIDE DEF fresh
  <2>5. /\ MirrorOf(mirror, o) /\ PairOK(o) /\ PairOK(mirror)
        /\ NotDeleted(want) /\ want # operation[o].account
    BY <1>1, <1>2, <1>4, <2>1 DEF PairOK
  <2>6. PairOK(o)' /\ PairOK(mirror)'
    BY <1>1, <1>2, <1>4, <2>1, <2>2, <2>3, <2>4, <2>5, FlipTwice
       DEF PairOK, MirrorOf, NotDeleted
  <2>7. ASSUME NEW x \in DOMAIN operation, x # o, x # mirror
        PROVE  PairOK(x)'
    BY <1>1, <2>2, <2>5, <2>7
       DEF PairOK, MirrorOf, NotDeleted, OperationsOK, RowOK
  <2>8. MirrorsUnshared'
    BY <1>1, <2>1, <2>2, <2>3, <2>4, <2>5 DEF MirrorsUnshared, MirrorOf
  <2>9. QED
    <3>1. mirror' = mirror
      BY <2>2, <2>3
    <3>2. \A x \in DOMAIN operation' : PairOK(x)'
      BY <2>2, <2>6, <2>7, <3>1
    <3>3. QED
      BY <1>1, <2>8, <3>2, OnlyOperationPairs
<1>8. CASE edit = "retarget" /\ SyncRetarget(m, o, e, want, mirror)
  <2> DEFINE saved == Saved(o, e, want, mirror)
             fresh == MirrorFields(operation[mirror], saved)
             moved == [fresh EXCEPT !.account = want]
  <2>1. want # NULL /\ mirror # NULL /\ EligibleTarget(m, operation[o].account, want)
    BY <1>8 DEF ClassifyPairingEdit, SyncRetarget
  <2>2. /\ DOMAIN operation' = DOMAIN operation
        /\ operation'[o] = saved /\ operation'[mirror] = moved
        /\ \A x \in DOMAIN operation : x # o /\ x # mirror => operation'[x] = operation[x]
    BY <1>1, <1>4, <1>8, <2>1 DEF SyncRetarget
  <2>3. /\ saved \in OperationRow
        /\ saved.account = operation[o].account
        /\ saved.scheduler = operation[o].scheduler
        /\ saved.transferAccount = want /\ saved.transferOperation = mirror
        /\ saved.method = e.method /\ saved.side = e.side /\ saved.content = e.content
    BY <1>1, <1>3
  <2> HIDE DEF saved
  <2>4. /\ fresh \in OperationRow
        /\ fresh.transferAccount = operation[mirror].transferAccount
        /\ fresh.transferOperation = operation[mirror].transferOperation
        /\ fresh.scheduler = saved.scheduler
        /\ fresh.method = Flip(saved.method)
        /\ fresh.side = Opposite(saved.side)
        /\ fresh.content = saved.content
    BY <1>4, <2>1, <2>3, MirrorFieldsType
  <2> HIDE DEF fresh
  <2>5. /\ moved.account = want
        /\ moved.transferAccount = operation[mirror].transferAccount
        /\ moved.transferOperation = operation[mirror].transferOperation
        /\ moved.scheduler = saved.scheduler
        /\ moved.method = Flip(saved.method)
        /\ moved.side = Opposite(saved.side)
        /\ moved.content = saved.content
    BY <2>4 DEF OperationRow
  <2> HIDE DEF moved
  <2>6. MirrorOf(mirror, o) /\ PairOK(o) /\ PairOK(mirror)
    BY <1>1, <1>2, <1>4, <2>1
  <2>7. /\ want # operation[o].account /\ NotDeleted(want)
        /\ OwnerOf[BankOf[want]] = OwnerOf[BankOf[operation[o].account]]
        /\ CurrencyOf[want] = CurrencyOf[operation[o].account]
    BY <1>2, <2>1 DEF EligibleTarget, Reachable
  <2>8. PairOK(o)' /\ PairOK(mirror)'
    BY <1>1, <1>2, <1>4, <2>1, <2>2, <2>3, <2>5, <2>6, <2>7, FlipTwice
       DEF PairOK, MirrorOf, NotDeleted
  <2>9. ASSUME NEW x \in DOMAIN operation, x # o, x # mirror
        PROVE  PairOK(x)'
    BY <1>1, <2>2, <2>6, <2>9
       DEF PairOK, MirrorOf, NotDeleted, OperationsOK, RowOK
  <2>10. MirrorsUnshared'
    BY <1>1, <2>1, <2>2, <2>3, <2>5, <2>6 DEF MirrorsUnshared, MirrorOf
  <2>11. QED
    <3>1. mirror' = mirror
      BY <2>2, <2>3
    <3>2. \A x \in DOMAIN operation' : PairOK(x)'
      BY <2>2, <2>8, <2>9, <3>1
    <3>3. QED
      BY <1>1, <2>10, <3>2, OnlyOperationPairs
<1>9. CASE edit = "attach" /\ SyncAttach(m, o, e, want, n)
  <2> DEFINE saved == Saved(o, e, want, n)
             new == NewMirror(o, saved)
  <2>1. /\ want # NULL /\ mirror = NULL
        /\ EligibleTarget(m, operation[o].account, want)
        /\ n \notin DOMAIN operation /\ n # o
        /\ PointingAt({o}) = {}
    BY <1>1, <1>9 DEF ClassifyPairingEdit, SyncAttach
  <2>2. /\ DOMAIN operation' = DOMAIN operation \cup {n}
        /\ operation'[o] = saved /\ operation'[n] = new
        /\ \A x \in DOMAIN operation : x # o => operation'[x] = operation[x]
    BY <1>1, <1>9, <2>1 DEF SyncAttach
  <2>3. /\ saved \in OperationRow
        /\ saved.account = operation[o].account
        /\ saved.scheduler = operation[o].scheduler
        /\ saved.transferAccount = want /\ saved.transferOperation = n
        /\ saved.method = e.method /\ saved.side = e.side /\ saved.content = e.content
    BY <1>1, <1>3
  <2> HIDE DEF saved
  <2>4. /\ new.account = want
        /\ new.transferAccount = saved.account
        /\ new.transferOperation = o
        /\ new.scheduler = saved.scheduler
        /\ new.method = Flip(saved.method)
        /\ new.side = Opposite(saved.side)
        /\ new.content = saved.content
    BY <1>1, <2>1, <2>3, NewMirrorType
  <2> HIDE DEF new
  <2>5. /\ want # operation[o].account /\ NotDeleted(want)
        /\ OwnerOf[BankOf[want]] = OwnerOf[BankOf[operation[o].account]]
        /\ CurrencyOf[want] = CurrencyOf[operation[o].account]
    BY <1>2, <2>1 DEF EligibleTarget, Reachable
  <2>6. PairOK(o)' /\ PairOK(n)'
    BY <1>1, <1>2, <2>1, <2>2, <2>3, <2>4, <2>5, FlipTwice
       DEF PairOK, MirrorOf, NotDeleted
  <2>7. ASSUME NEW x \in DOMAIN operation, x # o
        PROVE  PairOK(x)'
    BY <1>1, <2>1, <2>2, <2>7
       DEF PairOK, MirrorOf, NotDeleted, OperationsOK, RowOK, PointingAt
  <2>8. MirrorsUnshared'
    BY <1>1, <2>1, <2>2, <2>3, <2>4 DEF MirrorsUnshared, PointingAt, OperationsOK, RowOK
  <2>9. QED
    BY <1>1, <2>2, <2>6, <2>7, <2>8, OnlyOperationPairs
<1>10. QED
  BY <1>5, <1>6, <1>7, <1>8, <1>9 DEF UpdateOperation

LEMMA BatchDeletePairs ==
  ASSUME PairsInv, TypeOK', NEW m \in Member, NEW D \in SUBSET Operation,
         BatchDelete(m, D)
  PROVE  PairsInv'
<1> DEFINE S == SurvivorsOfDeleted(D)
<1>1. /\ OnlyOperation /\ UNCHANGED <<accounts, deleted, scheduler>>
      /\ OperationsOK
      /\ \A x \in DOMAIN operation : PairOK(x)
      /\ MirrorsUnshared
      /\ \A x \in D : x \in DOMAIN operation /\ NotDeleted(operation[x].account)
      /\ PointingAt(D) \subseteq D \cup S
      /\ operation' = [x \in DOMAIN operation \ D |->
                         IF x \in S THEN External(operation[x]) ELSE operation[x]]
  BY TypeGivesRows
     DEF PairsInv, BatchDelete, Editable, Writable, FullyActive, OnlyOperation
<1>2. NULL \notin Operation
  BY LedgerAssumption
\* A survivor is the counterpart of one operation only, which is deleted.
<1>3. \A x \in S : \E d \in D : operation[d].transferOperation = x
                                 /\ operation[x].transferOperation = d
  BY <1>1, <1>2 DEF SurvivorsOfDeleted, PairOK, MirrorOf, OperationsOK, RowOK
<1>4. \A x \in DOMAIN operation :
        /\ External(operation[x]).transferAccount = NULL
        /\ External(operation[x]).transferOperation = NULL
        /\ External(operation[x]).account = operation[x].account
  BY <1>1, ExternalType DEF OperationsOK, RowOK
<1> HIDE DEF S
<1>5. /\ DOMAIN operation' = DOMAIN operation \ D
      /\ \A x \in DOMAIN operation' :
           IF x \in S THEN operation'[x] = External(operation[x])
           ELSE operation'[x] = operation[x]
  BY <1>1
<1>6. ASSUME NEW x \in DOMAIN operation'
      PROVE  PairOK(x)'
  <2>1. CASE x \in S
    BY <1>1, <1>4, <1>5, <2>1 DEF PairOK
  <2>2. CASE x \notin S
    <3>1. operation'[x] = operation[x] /\ PairOK(x)
      BY <1>1, <1>5, <2>2
    <3>2. ASSUME operation[x].transferAccount # NULL, NotDeleted(operation[x].account)
          PROVE  /\ operation[x].transferOperation \in DOMAIN operation'
                 /\ operation[x].transferOperation \notin S
      BY <1>1, <1>2, <1>3, <1>5, <2>2, <3>1, <3>2
         DEF PairOK, MirrorOf, PointingAt, OperationsOK, RowOK
    <3>3. QED
      BY <1>1, <1>5, <3>1, <3>2 DEF PairOK, MirrorOf, NotDeleted
  <2>3. QED
    BY <2>1, <2>2
<1>7. MirrorsUnshared'
  BY <1>1, <1>4, <1>5 DEF MirrorsUnshared
<1>8. QED
  BY <1>1, <1>6, <1>7, OnlyOperationPairs

\* A row whose pairing columns, amounts and scheduler stay keeps its pair.
LEMMA BatchReconcilePairs ==
  ASSUME PairsInv, TypeOK', NEW m \in Member, NEW D \in SUBSET Operation,
         BatchReconcile(m, D)
  PROVE  PairsInv'
<1>1. /\ OnlyOperation /\ UNCHANGED <<accounts, deleted, scheduler>>
      /\ OperationsOK
      /\ \A x \in DOMAIN operation : PairOK(x)
      /\ MirrorsUnshared
  BY TypeGivesRows DEF PairsInv, BatchReconcile, OnlyOperation
<1>2. /\ DOMAIN operation' = DOMAIN operation
      /\ \A x \in DOMAIN operation :
           /\ operation'[x].account = operation[x].account
           /\ operation'[x].transferAccount = operation[x].transferAccount
           /\ operation'[x].transferOperation = operation[x].transferOperation
           /\ operation'[x].scheduler = operation[x].scheduler
           /\ operation'[x].method = operation[x].method
           /\ operation'[x].side = operation[x].side
           /\ operation'[x].content = operation[x].content
  BY <1>1 DEF BatchReconcile, OperationsOK, RowOK, OperationRow
<1>3. ASSUME NEW x \in DOMAIN operation'
      PROVE  PairOK(x)'
  BY <1>1, <1>2 DEF PairOK, MirrorOf, NotDeleted, OperationsOK, RowOK
<1>4. MirrorsUnshared'
  BY <1>1, <1>2 DEF MirrorsUnshared
<1>5. QED
  BY <1>1, <1>3, <1>4, OnlyOperationPairs

LEMMA SaveSchedulerPairs ==
  ASSUME PairsInv, TypeOK', NEW m \in Member, NEW s \in Scheduler, NEW a \in Account,
         NEW e \in Entry, NEW t \in Account \cup {NULL}, NEW previous,
         previous # NULL =>
           /\ s \in DOMAIN scheduler
           /\ scheduler[s].account = a /\ scheduler[s].transferAccount = previous,
         SaveScheduler(m, s, a, e, t, previous)
  PROVE  PairsInv'
<1> DEFINE want == TransferAccountFor(e, t)
           row == [account |-> a, transferAccount |-> want,
                   method |-> e.method, side |-> e.side,
                   content |-> e.content, reconciled |-> e.reconciled]
<1>1. /\ UNCHANGED <<banks, accounts, closed, deleted, operation>>
      /\ Writable(m, a) /\ SchedulerTargetValid(m, a, previous, want)
      /\ scheduler' = [x \in DOMAIN scheduler \cup {s} |->
                         IF x = s THEN row ELSE scheduler[x]]
  BY DEF SaveScheduler
<1>2. want # NULL => e.method \in TransferMethod
  BY DEF TransferAccountFor
<1>3. row.account = a /\ row.transferAccount = want /\ row.method = e.method
  OBVIOUS
<1> HIDE DEF row, want
<1>4. SchedulerOK(s)'
  BY <1>1, <1>2, <1>3
     DEF PairsInv, SchedulerOK, SchedulerTargetValid, EligibleTarget, Writable,
         Reachable, NotDeleted
<1>5. ASSUME NEW x \in DOMAIN scheduler', x # s
      PROVE  SchedulerOK(x)'
  BY <1>1, <1>5 DEF PairsInv, SchedulerOK, NotDeleted
<1>6. \A x \in DOMAIN operation' : PairOK(x)'
  BY <1>1 DEF PairsInv, PairOK, MirrorOf, NotDeleted
<1>7. MirrorsUnshared'
  BY <1>1 DEF PairsInv, MirrorsUnshared
<1>8. QED
  BY <1>4, <1>5, <1>6, <1>7 DEF PairsInv

LEMMA RemoveSchedulersPairs ==
  ASSUME PairsInv, TypeOK', NEW m \in Member, NEW S \in SUBSET Scheduler,
         RemoveSchedulers(m, S)
  PROVE  PairsInv'
<1>1. /\ UNCHANGED <<banks, accounts, closed, deleted>>
      /\ OperationsOK
      /\ \A x \in DOMAIN operation : PairOK(x)
      /\ MirrorsUnshared
      /\ scheduler' = [s \in DOMAIN scheduler \ S |-> scheduler[s]]
  BY TypeGivesRows DEF PairsInv, RemoveSchedulers
<1>2. /\ DOMAIN operation' = DOMAIN operation
      /\ \A x \in DOMAIN operation :
           /\ operation'[x].account = operation[x].account
           /\ operation'[x].transferAccount = operation[x].transferAccount
           /\ operation'[x].transferOperation = operation[x].transferOperation
           /\ operation'[x].scheduler =
                IF operation[x].scheduler \in S THEN NULL ELSE operation[x].scheduler
           /\ operation'[x].method = operation[x].method
           /\ operation'[x].side = operation[x].side
           /\ operation'[x].content = operation[x].content
  BY <1>1 DEF RemoveSchedulers, OperationsOK, RowOK, OperationRow
<1>3. ASSUME NEW x \in DOMAIN operation'
      PROVE  PairOK(x)'
  BY <1>1, <1>2 DEF PairOK, MirrorOf, NotDeleted, OperationsOK, RowOK
<1>4. MirrorsUnshared'
  BY <1>1, <1>2 DEF MirrorsUnshared
<1>5. \A s \in DOMAIN scheduler' : SchedulerOK(s)'
  BY <1>1 DEF PairsInv, SchedulerOK, NotDeleted
<1>6. QED
  BY <1>3, <1>4, <1>5 DEF PairsInv

\* gone are the accounts that the request deletes, with their bank or alone.
LEMMA ConvertReferencesPairs ==
  ASSUME PairsInv, TypeOK', NEW gone \in SUBSET accounts,
         ConvertReferencesToExternal(gone), UNCHANGED accounts,
         \A a \in accounts : NotDeleted(a)' <=> NotDeleted(a) /\ a \notin gone
  PROVE  PairsInv'
<1>1. /\ OperationsOK
      /\ NULL \notin accounts
      /\ \A x \in DOMAIN operation : PairOK(x)
      /\ MirrorsUnshared
      /\ operation' = [o \in DOMAIN operation |->
                         IF operation[o].transferAccount \in gone
                           THEN External(operation[o]) ELSE operation[o]]
      /\ scheduler' = [s \in DOMAIN scheduler |->
                         IF scheduler[s].transferAccount \in gone
                           THEN [scheduler[s] EXCEPT !.transferAccount = NULL]
                           ELSE scheduler[s]]
  BY TypeGivesRows, LedgerAssumption
     DEF PairsInv, TypeOK, ConvertReferencesToExternal
<1>2. \A o \in DOMAIN operation :
        /\ External(operation[o]).transferAccount = NULL
        /\ External(operation[o]).transferOperation = NULL
        /\ External(operation[o]).account = operation[o].account
  BY <1>1, ExternalType DEF OperationsOK, RowOK
<1>3. ASSUME NEW x \in DOMAIN operation'
      PROVE  PairOK(x)'
  <2>1. CASE operation[x].transferAccount \in gone
    BY <1>1, <1>2, <2>1 DEF PairOK
  <2>2. CASE operation[x].transferAccount \notin gone
    <3>1. operation'[x] = operation[x] /\ PairOK(x) /\ RowOK(x)
      BY <1>1, <2>2 DEF OperationsOK
    <3>2. ASSUME operation[x].transferAccount # NULL, NotDeleted(operation[x].account)'
          PROVE  /\ MirrorOf(operation[x].transferOperation, x)
                 /\ operation'[operation[x].transferOperation]
                      = operation[operation[x].transferOperation]
      <4>1. NotDeleted(operation[x].account) /\ operation[x].account \notin gone
        BY <3>1, <3>2 DEF RowOK
      <4>2. QED
        BY <1>1, <3>1, <3>2, <4>1 DEF PairOK, MirrorOf, RowOK
    <3>3. operation[x].transferAccount # NULL => NotDeleted(operation[x].transferAccount)'
      BY <2>2, <3>1 DEF PairOK, RowOK
    <3>4. QED
      BY <3>1, <3>2, <3>3 DEF PairOK, MirrorOf
  <2>3. QED
    BY <2>1, <2>2
<1>4. MirrorsUnshared'
  BY <1>1, <1>2 DEF MirrorsUnshared
<1>5. ASSUME NEW s \in DOMAIN scheduler'
      PROVE  SchedulerOK(s)'
  <2>1. SchedulerOK(s) /\ scheduler[s] \in SchedulerRow
        /\ scheduler[s].transferAccount \in accounts \cup {NULL}
    BY <1>1 DEF PairsInv, TypeOK
  <2>2. CASE scheduler[s].transferAccount \in gone
    BY <1>1, <2>1, <2>2 DEF SchedulerOK, SchedulerRow
  <2>3. CASE scheduler[s].transferAccount \notin gone
    BY <1>1, <2>1, <2>3 DEF SchedulerOK
  <2>4. QED
    BY <2>2, <2>3
<1>6. QED
  BY <1>3, <1>4, <1>5 DEF PairsInv

LEMMA CreateAccountPairs ==
  ASSUME PairsInv, TypeOK', NEW a \in Account, NEW o \in Operation,
         NEW side \in Opening, NEW content \in Content,
         CreateAccount(a, o, side, content)
  PROVE  PairsInv'
<1> DEFINE row == [account |-> a, transferAccount |-> NULL,
                   transferOperation |-> NULL, scheduler |-> NULL,
                   method |-> "initial_balance", side |-> side,
                   content |-> content, reconciled |-> TRUE]
<1>1. /\ UNCHANGED <<banks, closed, deleted, scheduler>>
      /\ OperationsOK
      /\ \A x \in DOMAIN operation : PairOK(x)
      /\ MirrorsUnshared
  BY TypeGivesRows DEF PairsInv, CreateAccount
<1>2. row.transferAccount = NULL /\ row.transferOperation = NULL
  OBVIOUS
<1> HIDE DEF row
<1>3. \A s \in DOMAIN scheduler' : SchedulerOK(s)'
  BY <1>1 DEF PairsInv, SchedulerOK, NotDeleted
<1>4. CASE UNCHANGED operation
  <2>1. \A x \in DOMAIN operation' : PairOK(x)'
    BY <1>1, <1>4 DEF PairOK, MirrorOf, NotDeleted
  <2>2. QED
    BY <1>1, <1>3, <1>4, <2>1 DEF PairsInv, MirrorsUnshared
<1>5. CASE /\ o \notin DOMAIN operation
           /\ operation' = [x \in DOMAIN operation \cup {o} |->
                              IF x = o THEN row ELSE operation[x]]
  <2>1. ASSUME NEW x \in DOMAIN operation'
        PROVE  PairOK(x)'
    BY <1>1, <1>2, <1>5, LedgerAssumption
       DEF PairOK, MirrorOf, NotDeleted, OperationsOK, RowOK
  <2>2. MirrorsUnshared'
    BY <1>1, <1>2, <1>5 DEF MirrorsUnshared
  <2>3. QED
    BY <1>3, <2>1, <2>2 DEF PairsInv
<1>6. QED
  BY <1>4, <1>5 DEF CreateAccount, row

\* A request that leaves the pairing columns and the deleted flags alone.
LEMMA FlagsOnlyPairs ==
  ASSUME PairsInv, TypeOK', UNCHANGED <<deleted, scheduler, operation>>
  PROVE  PairsInv'
  BY DEF PairsInv, PairOK, SchedulerOK, MirrorsUnshared, MirrorOf, NotDeleted

LEMMA PairsStep == PairsInv /\ [Next]_vars => PairsInv'
<1> SUFFICES ASSUME PairsInv, [Next]_vars
             PROVE  PairsInv'
  OBVIOUS
<1>1. TypeOK /\ TypeOK'
  BY TypeStep DEF PairsInv
<1>2. ASSUME NEW b \in Bank, ChooseBank(b) \/ CloseBank(b) PROVE PairsInv'
  BY <1>1, <1>2, FlagsOnlyPairs DEF ChooseBank, CloseBank
<1>3. ASSUME NEW b \in Bank, RemoveBank(b) PROVE PairsInv'
  <2> DEFINE gone == {a \in accounts : BankOf[a] = b}
  <2>1. \A a \in accounts : NotDeleted(a)' <=> NotDeleted(a) /\ a \notin gone
    BY <1>1, <1>3, LedgerAssumption DEF RemoveBank, NotDeleted, TypeOK
  <2>2. QED
    BY <1>1, <1>3, <2>1, ConvertReferencesPairs DEF RemoveBank
<1>4. ASSUME NEW a \in Account, CloseAccount(a) PROVE PairsInv'
  BY <1>1, <1>4, FlagsOnlyPairs DEF CloseAccount
<1>5. ASSUME NEW a \in Account, RemoveAccount(a) PROVE PairsInv'
  <2>1. \A x \in accounts : NotDeleted(x)' <=> NotDeleted(x) /\ x \notin {a}
    BY <1>1, <1>5, LedgerAssumption DEF RemoveAccount, NotDeleted, TypeOK
  <2>2. QED
    BY <1>1, <1>5, <2>1, ConvertReferencesPairs DEF RemoveAccount
<1>6. ASSUME NEW m \in Member, NEW a \in Account, NEW e \in Entry,
             NEW t \in Account \cup {NULL}, NEW o \in Operation, NEW n \in Operation,
             CreateOperation(m, a, e, t, o, n)
      PROVE  PairsInv'
  <2> DEFINE row == [account |-> a, transferAccount |-> TransferAccountFor(e, t),
                     transferOperation |-> NULL, scheduler |-> NULL,
                     method |-> e.method, side |-> e.side, content |-> e.content,
                     reconciled |-> e.reconciled]
  <2>1. e \in EntryType
    BY LedgerAssumption
  <2>2. /\ row \in OperationRow
        /\ row.account = a /\ row.transferOperation = NULL
        /\ row.transferAccount # NULL => row.method \in TransferMethod
    BY <2>1 DEF EntryType, OperationRow, TransferAccountFor
  <2>3. /\ OwnerOf[BankOf[a]] = m /\ FullyActive(a)
        /\ OnlyOperation /\ InsertWithMirror(m, o, n, row)
    BY <1>6 DEF CreateOperation, Writable, Reachable
  <2> HIDE DEF row
  <2>4. QED
    BY <1>1, <2>2, <2>3, InsertWithMirrorPairs
<1>7. ASSUME NEW s \in Scheduler, NEW o \in Operation, NEW n \in Operation,
             GenerateOccurrence(s, o, n)
      PROVE  PairsInv'
  <2> DEFINE a == scheduler[s].account
             m == OwnerOf[BankOf[a]]
             row == [account |-> a, transferAccount |-> scheduler[s].transferAccount,
                     transferOperation |-> NULL, scheduler |-> s,
                     method |-> scheduler[s].method, side |-> scheduler[s].side,
                     content |-> scheduler[s].content,
                     reconciled |-> scheduler[s].reconciled]
  <2>1. /\ s \in DOMAIN scheduler /\ OnlyOperation /\ FullyActive(a)
        /\ InsertWithMirror(m, o, n, row)
    BY <1>7 DEF GenerateOccurrence
  <2>2. scheduler[s] \in SchedulerRow /\ SchedulerOK(s)
    BY <1>1, <2>1 DEF PairsInv, TypeOK
  <2>3. m \in Member
    BY <2>2, LedgerAssumption DEF SchedulerRow
  <2>4. /\ row \in OperationRow
        /\ row.account = a /\ row.transferOperation = NULL
        /\ row.transferAccount # NULL => row.method \in TransferMethod
    BY <2>2 DEF SchedulerRow, OperationRow, SchedulerOK
  <2> HIDE DEF row, a
  <2>5. QED
    BY <1>1, <2>1, <2>3, <2>4, InsertWithMirrorPairs
<1>8. ASSUME NEW m \in Member, NEW s \in Scheduler, NEW a \in Account,
             NEW e \in Entry, NEW t \in Account \cup {NULL},
             CreateScheduler(m, s, a, e, t)
      PROVE  PairsInv'
  BY <1>1, <1>8, SaveSchedulerPairs DEF CreateScheduler
<1>9. ASSUME NEW m \in Member, NEW s \in Scheduler, NEW e \in Entry,
             NEW t \in Account \cup {NULL}, UpdateScheduler(m, s, e, t)
      PROVE  PairsInv'
  <2>1. s \in DOMAIN scheduler /\ scheduler[s].account \in Account
    BY <1>1, <1>9 DEF UpdateScheduler, TypeOK, SchedulerRow
  <2>2. SaveScheduler(m, s, scheduler[s].account, e, t, scheduler[s].transferAccount)
    BY <1>9 DEF UpdateScheduler
  <2>3. QED
    BY <1>1, <2>1, <2>2, SaveSchedulerPairs
<1>10. CASE UNCHANGED vars
  BY <1>1, <1>10, FlagsOnlyPairs DEF vars
<1>11. QED
  BY <1>1, <1>2, <1>3, <1>4, <1>5, <1>6, <1>7, <1>8, <1>9, <1>10,
     CreateAccountPairs, UpdateOperationPairs, BatchDeletePairs,
     BatchReconcilePairs, RemoveSchedulersPairs
     DEF Next

LEMMA PairsCorrect == Spec => []PairsInv
<1>1. Init => PairsInv
  BY DEF Init, PairsInv, TypeOK, MirrorsUnshared
<1>2. QED
  BY <1>1, PairsStep, PTL DEF Spec

\* The sides of a transfer reflect each other exactly as long as the account
\* of either is not deleted, for every history of requests.
THEOREM PairsAlwaysMirror == Spec => []PairsMirror
<1>1. PairsInv => PairsMirror
  BY DEF PairsInv, PairOK, PairsMirror
<1>2. QED
  BY <1>1, PairsCorrect, PTL

\* The two columns of a pairing are set and cleared together.
THEOREM PairingAlwaysComplete == Spec => []PairingComplete
<1>1. PairsInv => PairingComplete
  BY DEF PairsInv, PairOK, PairingComplete
<1>2. QED
  BY <1>1, PairsCorrect, PTL

\* The ends of a transfer, made or scheduled, are distinct accounts of one
\* member in one currency.
THEOREM TransferEndsAlwaysMatch == Spec => []TransferEndsMatch
<1>1. PairsInv => TransferEndsMatch
  BY DEF PairsInv, PairOK, SchedulerOK, TransferEndsMatch
<1>2. QED
  BY <1>1, PairsCorrect, PTL

\* Nothing refers to a deleted account.
THEOREM NeverDeletedTarget == Spec => []NoDeletedTarget
<1>1. PairsInv => NoDeletedTarget
  BY DEF PairsInv, PairOK, SchedulerOK, NoDeletedTarget
<1>2. QED
  BY <1>1, PairsCorrect, PTL

\* No two operations share a mirror, although only one action is guarded by
\* the unique index.
THEOREM MirrorsNeverShared == Spec => []MirrorsUnshared
<1>1. PairsInv => MirrorsUnshared
  BY DEF PairsInv
<1>2. QED
  BY <1>1, PairsCorrect, PTL

-----------------------------------------------------------------------------
(* What a step may do to an operation.                                     *)

\* The row of x is left alone.
Kept(x) == x \in DOMAIN operation' /\ operation'[x] = operation[x]

\* x is an operation that requests may edit.
Own(x) == FullyActive(operation[x].account) /\ operation[x].method # "initial_balance"

\* x is the mirror of an operation that requests may edit.
Followed(x) ==
  /\ operation[x].transferOperation \in DOMAIN operation
  /\ FullyActive(operation[operation[x].transferOperation].account)
  /\ NotDeleted(operation[x].account)
  /\ operation[x].method \in TransferMethod

\* The row of x, a transfer, becomes an External one.
Freed(x) ==
  /\ operation[x].method \in TransferMethod
  /\ x \in DOMAIN operation' /\ operation'[x] = External(operation[x])

\* The scheduler of x is gone.
Unscheduled(x) ==
  /\ operation[x].scheduler # NULL
  /\ x \in DOMAIN operation' /\ operation'[x] = [operation[x] EXCEPT !.scheduler = NULL]

Touches(x) == Kept(x) \/ Own(x) \/ Followed(x) \/ Freed(x) \/ Unscheduled(x)

LEMMA InsertTouches ==
  ASSUME NEW m, NEW o, NEW n, NEW row, InsertWithMirror(m, o, n, row),
         NEW x \in DOMAIN operation
  PROVE  Kept(x)
<1>1. CASE row.transferAccount = NULL
  BY <1>1 DEF InsertWithMirror, Kept
<1>2. CASE row.transferAccount # NULL
  BY <1>2 DEF InsertWithMirror, Kept
<1>3. QED
  BY <1>1, <1>2

\* The mirror of an editable operation is followed by it.
LEMMA MirrorIsFollowed ==
  ASSUME PairsInv, NEW o \in DOMAIN operation, Own(o),
         operation[o].transferOperation # NULL
  PROVE  /\ operation[o].transferOperation \in DOMAIN operation
         /\ Followed(operation[o].transferOperation)
<1>1. PairOK(o) /\ RowOK(o) /\ o # NULL
  BY TypeGivesRows, LedgerAssumption DEF PairsInv, OperationsOK
<1>2. NotDeleted(operation[o].account)
  BY DEF Own, FullyActive
<1>3. QED
  BY <1>1, <1>2, FlipTwice DEF PairOK, RowOK, MirrorOf, Followed, Own

LEMMA UpdateTouches ==
  ASSUME PairsInv, NEW m \in Member, NEW o \in Operation, NEW e \in Entry,
         NEW t \in Account \cup {NULL}, NEW n \in Operation,
         UpdateOperation(m, o, e, t, n),
         NEW x \in DOMAIN operation
  PROVE  Touches(x)
<1> DEFINE want == TransferAccountFor(e, t)
           mirror == operation[o].transferOperation
           edit == ClassifyPairingEdit(operation[o], want)
<1>1. o \in DOMAIN operation /\ Own(o)
  BY DEF UpdateOperation, Editable, Writable, Own
<1>2. x = o => Own(x)
  BY <1>1
<1>3. x = mirror => Followed(x)
  BY <1>1, MirrorIsFollowed, LedgerAssumption DEF PairsInv, TypeOK
<1>4. x # o /\ x # mirror => Kept(x)
  <2>1. CASE SyncNone(o, e)
    BY <2>1 DEF SyncNone, Kept
  <2>2. CASE SyncDetach(o, e, mirror)
    BY <2>2 DEF SyncDetach, Kept
  <2>3. CASE SyncRefresh(o, e, want, mirror)
    BY <2>3 DEF SyncRefresh, Kept
  <2>4. CASE SyncRetarget(m, o, e, want, mirror)
    BY <2>4 DEF SyncRetarget, Kept
  <2>5. CASE SyncAttach(m, o, e, want, n)
    BY <2>5 DEF SyncAttach, Kept
  <2>6. QED
    BY <2>1, <2>2, <2>3, <2>4, <2>5 DEF UpdateOperation
<1>5. QED
  BY <1>2, <1>3, <1>4 DEF Touches

LEMMA BatchDeleteTouches ==
  ASSUME PairsInv, NEW m \in Member, NEW D \in SUBSET Operation, BatchDelete(m, D),
         NEW x \in DOMAIN operation
  PROVE  Touches(x)
<1>1. x \in D => Own(x)
  BY DEF BatchDelete, Editable, Writable, Own
<1>2. x \in SurvivorsOfDeleted(D) => Followed(x)
  <2>1. ASSUME x \in SurvivorsOfDeleted(D)
        PROVE  \E d \in D : x = operation[d].transferOperation /\ x # NULL
    BY <2>1 DEF SurvivorsOfDeleted
  <2>2. \A d \in D : d \in DOMAIN operation /\ Own(d)
    BY DEF BatchDelete, Editable, Writable, Own
  <2>3. QED
    BY <2>1, <2>2, MirrorIsFollowed
<1>3. x \notin D /\ x \notin SurvivorsOfDeleted(D) => Kept(x)
  BY DEF BatchDelete, Kept
<1>4. QED
  BY <1>1, <1>2, <1>3 DEF Touches

LEMMA ConvertTouches ==
  ASSUME PairsInv, NEW gone \in SUBSET accounts, ConvertReferencesToExternal(gone),
         NEW x \in DOMAIN operation
  PROVE  Touches(x)
<1>1. PairOK(x) /\ NULL \notin gone
  BY LedgerAssumption DEF PairsInv, TypeOK
<1>2. CASE operation[x].transferAccount \in gone
  BY <1>1, <1>2 DEF PairOK, ConvertReferencesToExternal, Touches, Freed
<1>3. CASE operation[x].transferAccount \notin gone
  BY <1>3 DEF ConvertReferencesToExternal, Touches, Kept
<1>4. QED
  BY <1>2, <1>3

\* The ways in which a step may touch an operation.
LEMMA StepTouches ==
  ASSUME PairsInv, [Next]_vars, NEW x \in DOMAIN operation
  PROVE  Touches(x)
<1>1. ASSUME UNCHANGED operation
      PROVE  Touches(x)
  BY <1>1 DEF Touches, Kept
<1>2. ASSUME NEW b \in Bank, ChooseBank(b) \/ CloseBank(b) PROVE Touches(x)
  BY <1>1, <1>2 DEF ChooseBank, CloseBank
<1>3. ASSUME NEW b \in Bank, RemoveBank(b) PROVE Touches(x)
  BY <1>3, ConvertTouches DEF RemoveBank
<1>4. ASSUME NEW a \in Account, NEW o \in Operation, NEW side \in Opening,
             NEW c \in Content, CreateAccount(a, o, side, c)
      PROVE  Touches(x)
  <2>1. CASE side = NULL
    BY <1>1, <1>4, <2>1 DEF CreateAccount
  <2>2. CASE side # NULL
    BY <1>4, <2>2 DEF CreateAccount, Touches, Kept
  <2>3. QED
    BY <2>1, <2>2
<1>5. ASSUME NEW a \in Account, CloseAccount(a) PROVE Touches(x)
  BY <1>1, <1>5 DEF CloseAccount
<1>6. ASSUME NEW a \in Account, RemoveAccount(a) PROVE Touches(x)
  BY <1>6, ConvertTouches DEF RemoveAccount
<1>7. ASSUME NEW m \in Member, NEW a \in Account, NEW e \in Entry,
             NEW t \in Account \cup {NULL}, NEW o \in Operation, NEW n \in Operation,
             CreateOperation(m, a, e, t, o, n)
      PROVE  Touches(x)
  BY <1>7, InsertTouches DEF CreateOperation, Touches
<1>8. ASSUME NEW s \in Scheduler, NEW o \in Operation, NEW n \in Operation,
             GenerateOccurrence(s, o, n)
      PROVE  Touches(x)
  BY <1>8, InsertTouches DEF GenerateOccurrence, Touches
<1>9. ASSUME NEW m \in Member, NEW D \in SUBSET Operation, BatchReconcile(m, D)
      PROVE  Touches(x)
  BY <1>9 DEF BatchReconcile, Editable, Writable, Touches, Own, Kept
<1>10. ASSUME NEW m \in Member, NEW S \in SUBSET Scheduler, RemoveSchedulers(m, S)
       PROVE  Touches(x)
  <2>1. NULL \notin S
    BY LedgerAssumption
  <2>2. QED
    BY <1>10, <2>1 DEF RemoveSchedulers, Touches, Unscheduled, Kept
<1>11. ASSUME NEW m \in Member, NEW s \in Scheduler, NEW a \in Account, NEW e \in Entry,
              NEW t \in Account \cup {NULL}, CreateScheduler(m, s, a, e, t)
       PROVE  Touches(x)
  BY <1>1, <1>11 DEF CreateScheduler, SaveScheduler
<1>12. ASSUME NEW m \in Member, NEW s \in Scheduler, NEW e \in Entry,
              NEW t \in Account \cup {NULL}, UpdateScheduler(m, s, e, t)
       PROVE  Touches(x)
  BY <1>1, <1>12 DEF UpdateScheduler, SaveScheduler
<1>13. CASE UNCHANGED vars
  BY <1>1, <1>13 DEF vars
<1>14. QED
  BY <1>2, <1>3, <1>4, <1>5, <1>6, <1>7, <1>8, <1>9, <1>10, <1>11, <1>12, <1>13,
     UpdateTouches, BatchDeleteTouches
     DEF Next

-----------------------------------------------------------------------------
(* Deleted and closed books.                                               *)

\* What a deletion or the loss of a scheduler leaves of a row.
LEMMA FreedKeepsBooks ==
  ASSUME NEW row \in OperationRow
  PROVE  /\ \A field \in {"account", "method", "side", "content", "reconciled"} :
              /\ External(row)[field] = row[field]
              /\ [row EXCEPT !.scheduler = NULL][field] = row[field]
         /\ External(row).account = row.account /\ External(row).side = row.side
         /\ External(row).content = row.content
         /\ External(row).reconciled = row.reconciled
  BY DEF External, OperationRow

LEMMA DeletedBooksFrozenStep ==
  ASSUME PairsInv, [Next]_vars, NEW o \in DOMAIN operation,
         ~NotDeleted(operation[o].account)
  PROVE  /\ o \in DOMAIN operation'
         /\ \A field \in {"account", "method", "side", "content", "reconciled"} :
              operation'[o][field] = operation[o][field]
<1>1. Touches(o) /\ ~Own(o) /\ ~Followed(o)
  BY StepTouches DEF Own, Followed, FullyActive
<1>2. operation[o] \in OperationRow
  BY TypeGivesRows DEF PairsInv, OperationsOK, RowOK
<1>3. QED
  BY <1>1, <1>2, FreedKeepsBooks DEF Touches, Kept, Freed, Unscheduled

\* Once an account is deleted, no request, generation or later deletion
\* changes what its books say.
THEOREM DeletedBooksAlwaysFrozen == Spec => DeletedBooksFrozen
<1>1. PairsInv /\ [Next]_vars =>
        \A o \in DOMAIN operation : ~NotDeleted(operation[o].account) =>
          /\ o \in DOMAIN operation'
          /\ \A field \in {"account", "method", "side", "content", "reconciled"} :
               operation'[o][field] = operation[o][field]
  BY DeletedBooksFrozenStep
<1>2. QED
  BY <1>1, PairsCorrect, PTL DEF Spec, DeletedBooksFrozen

LEMMA ClosedBooksStep ==
  ASSUME PairsInv, [Next]_vars, NEW o \in DOMAIN operation,
         ~FullyActive(operation[o].account),
         o \in DOMAIN operation' => \/ operation'[o].content # operation[o].content
                                    \/ operation'[o].side # operation[o].side
                                    \/ operation'[o].account # operation[o].account
                                    \/ operation'[o].reconciled # operation[o].reconciled
  PROVE  /\ operation[o].transferOperation # NULL
         /\ FullyActive(operation[operation[o].transferOperation].account)
<1>1. operation[o] \in OperationRow
  BY TypeGivesRows DEF PairsInv, OperationsOK, RowOK
<1>2. /\ External(operation[o]).account = operation[o].account
      /\ External(operation[o]).side = operation[o].side
      /\ External(operation[o]).content = operation[o].content
      /\ External(operation[o]).reconciled = operation[o].reconciled
  BY <1>1, FreedKeepsBooks
<1>3. LET row == [operation[o] EXCEPT !.scheduler = NULL]
      IN  /\ row.account = operation[o].account /\ row.side = operation[o].side
          /\ row.content = operation[o].content
          /\ row.reconciled = operation[o].reconciled
  BY <1>1 DEF OperationRow
<1>4. ~Kept(o) /\ ~Freed(o) /\ ~Unscheduled(o) /\ ~Own(o)
  BY <1>2, <1>3 DEF Kept, Freed, Unscheduled, Own
<1>5. Followed(o)
  BY <1>4, StepTouches DEF Touches
<1>6. QED
  BY <1>5, LedgerAssumption DEF Followed, PairsInv, TypeOK

\* A closed account's books change through a counterpart in an open account,
\* or not at all.
THEOREM ClosedBooksAlwaysFollow == Spec => ClosedBooksFollowCounterpart
<1>1. PairsInv /\ [Next]_vars =>
        \A o \in DOMAIN operation :
          LET row == operation[o]
              Touched == o \in DOMAIN operation' =>
                           \/ operation'[o].content # row.content
                           \/ operation'[o].side # row.side
                           \/ operation'[o].account # row.account
                           \/ operation'[o].reconciled # row.reconciled
          IN  Touched /\ ~FullyActive(row.account) =>
                row.transferOperation # NULL
                /\ FullyActive(operation[row.transferOperation].account)
  BY ClosedBooksStep
<1>2. QED
  BY <1>1, PairsCorrect, PTL DEF Spec, ClosedBooksFollowCounterpart

-----------------------------------------------------------------------------
(* Opening balances.  A scheduler could take one for its own, and its      *)
(* removal would then write to it, were it not for what saves check.       *)

\* No scheduler makes opening balances, and none owns one.
OpeningInv ==
  /\ \A o \in DOMAIN operation :
       operation[o].method = "initial_balance" => operation[o].scheduler = NULL
  /\ \A s \in DOMAIN scheduler : scheduler[s].method # "initial_balance"

\* A request with a valid method never writes an opening balance.
LEMMA ValidIsNotOpening ==
  ASSUME NEW e \in Entry, TypedRefsValid(e)
  PROVE  e.method # "initial_balance"
<1>1. e.side \in Side
  BY LedgerAssumption DEF EntryType
<1>2. QED
  BY <1>1 DEF TypedRefsValid, TypeOf, Side

LEMMA FlipIsNotOpening ==
  /\ \A method : Flip(method) # "initial_balance"
  /\ "initial_balance" \notin TransferMethod
  BY DEF Flip, TransferMethod

LEMMA MirrorIsNotOpening ==
  ASSUME NEW row \in OperationRow, NEW source \in OperationRow
  PROVE  MirrorFields(row, source).method # "initial_balance"
  BY FlipIsNotOpening DEF MirrorFields, OperationRow

LEMMA InsertOpening ==
  ASSUME PairsInv, OpeningInv, OnlyOperation,
         NEW m \in Member, NEW o \in Operation, NEW n \in Operation,
         NEW row \in OperationRow,
         row.transferOperation = NULL,
         row.method # "initial_balance", InsertWithMirror(m, o, n, row)
  PROVE  OpeningInv'
<1>1. CASE row.transferAccount = NULL
  BY <1>1 DEF InsertWithMirror, OpeningInv, OnlyOperation
<1>2. CASE row.transferAccount # NULL
  <2> DEFINE source == [row EXCEPT !.transferOperation = n]
             mirror == NewMirror(o, row)
  <2>1. row.transferAccount \in Account
    BY <1>2 DEF OperationRow
  <2>2. mirror.method = Flip(row.method) /\ source.method = row.method
    BY <2>1, NewMirrorType DEF OperationRow
  <2>3. operation' = [x \in DOMAIN operation \cup {o, n} |->
                        CASE x = o -> source [] x = n -> mirror [] OTHER -> operation[x]]
    BY <1>2 DEF InsertWithMirror
  <2>4. o \notin DOMAIN operation /\ n \notin DOMAIN operation \cup {o}
    BY <1>2 DEF InsertWithMirror
  <2> HIDE DEF source, mirror
  <2>5. QED
    BY <2>2, <2>3, <2>4, FlipIsNotOpening DEF OpeningInv, OnlyOperation
<1>3. QED
  BY <1>1, <1>2

LEMMA UpdateOpening ==
  ASSUME PairsInv, OpeningInv, NEW m \in Member, NEW o \in Operation, NEW e \in Entry,
         NEW t \in Account \cup {NULL}, NEW n \in Operation,
         UpdateOperation(m, o, e, t, n)
  PROVE  OpeningInv'
<1> DEFINE want == TransferAccountFor(e, t)
           mirror == operation[o].transferOperation
           edit == ClassifyPairingEdit(operation[o], want)
<1>1. /\ TypeOK /\ OperationsOK /\ UNCHANGED scheduler /\ o \in DOMAIN operation
      /\ NULL \notin Operation
      /\ e.method # "initial_balance" /\ want \in Account \cup {NULL}
      /\ mirror \in Operation \cup {NULL}
  BY UpdateOperationFacts, TypeGivesRows, ValidIsNotOpening, LedgerAssumption
     DEF PairsInv, UpdateOperation, OnlyOperation
<1>2. \A w \in Account \cup {NULL}, p \in Operation \cup {NULL} :
         /\ Saved(o, e, w, p) \in OperationRow
         /\ Saved(o, e, w, p).transferAccount = w
         /\ Saved(o, e, w, p).method # "initial_balance"
  BY <1>1, SavedType
<1>3. \A x \in DOMAIN operation :
        /\ operation[x] \in OperationRow
        /\ operation[x].method = "initial_balance" => operation[x].scheduler = NULL
  BY <1>1 DEF OpeningInv, OperationsOK, RowOK
<1>4. CASE edit = "none" /\ SyncNone(o, e)
  BY <1>1, <1>2, <1>3, <1>4 DEF SyncNone, OpeningInv
<1>5. CASE edit = "detach" /\ SyncDetach(o, e, mirror)
  BY <1>1, <1>2, <1>3, <1>5 DEF SyncDetach, OpeningInv
<1>6. CASE edit = "refresh" /\ SyncRefresh(o, e, want, mirror)
  <2> DEFINE saved == Saved(o, e, want, mirror)
  <2>1. \A x \in DOMAIN operation : MirrorFields(operation[x], saved).method # "initial_balance"
    BY <1>1, <1>2, <1>3, MirrorIsNotOpening
  <2>2. QED
    BY <1>1, <1>2, <1>3, <1>6, <2>1 DEF SyncRefresh, OpeningInv
<1>7. CASE edit = "retarget" /\ SyncRetarget(m, o, e, want, mirror)
  <2> DEFINE saved == Saved(o, e, want, mirror)
             moved(x) == [MirrorFields(operation[x], saved) EXCEPT !.account = want]
  <2>1. \A x \in DOMAIN operation :
          /\ MirrorFields(operation[x], saved) \in OperationRow
          /\ MirrorFields(operation[x], saved).method # "initial_balance"
    BY <1>1, <1>2, <1>3, MirrorIsNotOpening, MirrorFieldsType
  <2>2. \A x \in DOMAIN operation : moved(x).method # "initial_balance"
    BY <2>1 DEF OperationRow
  <2>3. operation' = [x \in DOMAIN operation |->
                        IF x = o THEN saved ELSE IF x = mirror THEN moved(x) ELSE operation[x]]
    BY <1>7 DEF SyncRetarget
  <2> HIDE DEF moved
  <2>4. QED
    BY <1>1, <1>2, <1>3, <2>2, <2>3 DEF OpeningInv
<1>8. CASE edit = "attach" /\ SyncAttach(m, o, e, want, n)
  <2> DEFINE saved == Saved(o, e, want, n)
             new == NewMirror(o, saved)
  <2>1. want # NULL
    BY <1>1, <1>8 DEF ClassifyPairingEdit
  <2>2. saved \in OperationRow /\ saved.transferAccount \in Account
    BY <1>1, <1>2, <2>1
  <2>3. saved.method # "initial_balance"
    BY <1>1, <1>2
  <2>4. operation' = [x \in DOMAIN operation \cup {n} |->
                        CASE x = o -> saved [] x = n -> new [] OTHER -> operation[x]]
    BY <1>8 DEF SyncAttach
  <2> HIDE DEF saved
  <2>5. new.method # "initial_balance"
    BY <1>1, <2>2, NewMirrorType, FlipIsNotOpening
  <2> HIDE DEF new
  <2>6. QED
    BY <1>1, <1>3, <2>3, <2>4, <2>5 DEF OpeningInv
<1>9. QED
  BY <1>4, <1>5, <1>6, <1>7, <1>8 DEF UpdateOperation

\* A deletion, a reconciliation or the loss of a scheduler keeps the method of
\* a row, and its scheduler or nothing.
LEMMA KeptRowsOpening ==
  ASSUME OpeningInv, DOMAIN operation' \subseteq DOMAIN operation,
         DOMAIN scheduler' \subseteq DOMAIN scheduler,
         \A s \in DOMAIN scheduler' : scheduler'[s].method = scheduler[s].method,
         \A o \in DOMAIN operation' :
           /\ operation'[o].method = operation[o].method
           /\ operation'[o].scheduler \in {operation[o].scheduler, NULL}
  PROVE  OpeningInv'
  BY DEF OpeningInv

LEMMA RowsKeepMethod ==
  ASSUME NEW row \in OperationRow
  PROVE  /\ External(row).method = row.method /\ External(row).scheduler = row.scheduler
         /\ [row EXCEPT !.reconciled = TRUE].method = row.method
         /\ [row EXCEPT !.reconciled = TRUE].scheduler = row.scheduler
         /\ [row EXCEPT !.scheduler = NULL].method = row.method
         /\ [row EXCEPT !.scheduler = NULL].scheduler = NULL
  BY DEF External, OperationRow

LEMMA OpeningStep == PairsInv /\ OpeningInv /\ [Next]_vars => OpeningInv'
<1> SUFFICES ASSUME PairsInv, OpeningInv, [Next]_vars
             PROVE  OpeningInv'
  OBVIOUS
<1>1. /\ TypeOK /\ OperationsOK
      /\ \A x \in DOMAIN operation :
           /\ External(operation[x]).method = operation[x].method
           /\ External(operation[x]).scheduler = operation[x].scheduler
           /\ [operation[x] EXCEPT !.reconciled = TRUE].method = operation[x].method
           /\ [operation[x] EXCEPT !.reconciled = TRUE].scheduler = operation[x].scheduler
           /\ [operation[x] EXCEPT !.scheduler = NULL].method = operation[x].method
           /\ [operation[x] EXCEPT !.scheduler = NULL].scheduler = NULL
  BY TypeGivesRows, RowsKeepMethod DEF PairsInv, OperationsOK, RowOK
<1>2. ASSUME UNCHANGED <<scheduler, operation>>
      PROVE  OpeningInv'
  BY <1>2 DEF OpeningInv
<1>3. ASSUME NEW gone, ConvertReferencesToExternal(gone)
      PROVE  OpeningInv'
  <2>1. \A s \in DOMAIN scheduler :
          [scheduler[s] EXCEPT !.transferAccount = NULL].method = scheduler[s].method
    BY <1>1 DEF TypeOK, SchedulerRow
  <2>2. /\ DOMAIN operation' = DOMAIN operation /\ DOMAIN scheduler' = DOMAIN scheduler
        /\ \A o \in DOMAIN operation : operation'[o] \in {operation[o], External(operation[o])}
        /\ \A s \in DOMAIN scheduler :
             scheduler'[s] \in {scheduler[s], [scheduler[s] EXCEPT !.transferAccount = NULL]}
    BY <1>3 DEF ConvertReferencesToExternal
  <2>3. QED
    BY <1>1, <2>1, <2>2, KeptRowsOpening
<1>4. ASSUME NEW b \in Bank, ChooseBank(b) \/ CloseBank(b) \/ RemoveBank(b)
      PROVE  OpeningInv'
  BY <1>2, <1>3, <1>4 DEF ChooseBank, CloseBank, RemoveBank
<1>5. ASSUME NEW a \in Account, CloseAccount(a) \/ RemoveAccount(a)
      PROVE  OpeningInv'
  BY <1>2, <1>3, <1>5 DEF CloseAccount, RemoveAccount
<1>6. ASSUME NEW a \in Account, NEW o \in Operation, NEW side \in Opening,
             NEW c \in Content, CreateAccount(a, o, side, c)
      PROVE  OpeningInv'
  BY <1>2, <1>6 DEF CreateAccount, OpeningInv
<1>7. ASSUME NEW m \in Member, NEW a \in Account, NEW e \in Entry,
             NEW t \in Account \cup {NULL}, NEW o \in Operation, NEW n \in Operation,
             CreateOperation(m, a, e, t, o, n)
      PROVE  OpeningInv'
  <2> DEFINE row == [account |-> a, transferAccount |-> TransferAccountFor(e, t),
                     transferOperation |-> NULL, scheduler |-> NULL,
                     method |-> e.method, side |-> e.side, content |-> e.content,
                     reconciled |-> e.reconciled]
  <2>1. e \in EntryType
    BY LedgerAssumption
  <2>2. row \in OperationRow /\ row.method = e.method /\ row.transferOperation = NULL
    BY <2>1 DEF EntryType, OperationRow, TransferAccountFor
  <2>3. OnlyOperation /\ TypedRefsValid(e) /\ InsertWithMirror(m, o, n, row)
    BY <1>7 DEF CreateOperation
  <2> HIDE DEF row
  <2>4. QED
    BY <2>2, <2>3, ValidIsNotOpening, InsertOpening
<1>8. ASSUME NEW s \in Scheduler, NEW o \in Operation, NEW n \in Operation,
             GenerateOccurrence(s, o, n)
      PROVE  OpeningInv'
  <2> DEFINE a == scheduler[s].account
             row == [account |-> a, transferAccount |-> scheduler[s].transferAccount,
                     transferOperation |-> NULL, scheduler |-> s,
                     method |-> scheduler[s].method, side |-> scheduler[s].side,
                     content |-> scheduler[s].content,
                     reconciled |-> scheduler[s].reconciled]
  <2>1. /\ s \in DOMAIN scheduler /\ OnlyOperation
        /\ InsertWithMirror(OwnerOf[BankOf[a]], o, n, row)
    BY <1>8 DEF GenerateOccurrence
  <2>2. scheduler[s] \in SchedulerRow /\ scheduler[s].method # "initial_balance"
    BY <1>1, <2>1 DEF TypeOK, OpeningInv
  <2>3. OwnerOf[BankOf[a]] \in Member
    BY <2>2, LedgerAssumption DEF SchedulerRow
  <2>4. /\ row \in OperationRow /\ row.transferOperation = NULL
        /\ row.method # "initial_balance"
    BY <2>2 DEF SchedulerRow, OperationRow
  <2> HIDE DEF row, a
  <2>5. QED
    BY <2>1, <2>3, <2>4, InsertOpening
<1>9. ASSUME NEW m \in Member, NEW D \in SUBSET Operation,
             BatchDelete(m, D) \/ BatchReconcile(m, D)
      PROVE  OpeningInv'
  BY <1>1, <1>9, KeptRowsOpening DEF BatchDelete, BatchReconcile, OnlyOperation
<1>10. ASSUME NEW m \in Member, NEW S \in SUBSET Scheduler, RemoveSchedulers(m, S)
       PROVE  OpeningInv'
  BY <1>1, <1>10, KeptRowsOpening DEF RemoveSchedulers
<1>11. ASSUME NEW m \in Member, NEW s \in Scheduler, NEW a, NEW e \in Entry,
              NEW t, NEW previous, SaveScheduler(m, s, a, e, t, previous)
       PROVE  OpeningInv'
  BY <1>11, ValidIsNotOpening DEF SaveScheduler, OpeningInv
<1>12. CASE UNCHANGED vars
  BY <1>2, <1>12 DEF vars
<1>13. QED
  BY <1>4, <1>5, <1>6, <1>7, <1>8, <1>9, <1>10, <1>11, <1>12, UpdateOpening
     DEF Next, CreateScheduler, UpdateScheduler

\* An opening balance is no transfer, has no scheduler and is not editable, so
\* that no request ever touches it.
THEOREM OpeningBalanceAlwaysKept == Spec => OpeningBalanceKept
<1>1. Init => OpeningInv
  BY DEF Init, OpeningInv
<1>2. Spec => []OpeningInv
  BY <1>1, PairsCorrect, OpeningStep, PTL DEF Spec
<1>3. PairsInv /\ OpeningInv /\ [Next]_vars =>
        \A o \in DOMAIN operation : operation[o].method = "initial_balance" =>
          o \in DOMAIN operation' /\ operation'[o] = operation[o]
  <2> SUFFICES ASSUME PairsInv, OpeningInv, [Next]_vars, NEW o \in DOMAIN operation,
                      operation[o].method = "initial_balance"
               PROVE  o \in DOMAIN operation' /\ operation'[o] = operation[o]
    OBVIOUS
  <2>1. ~Own(o) /\ ~Followed(o) /\ ~Freed(o) /\ ~Unscheduled(o)
    BY FlipIsNotOpening DEF Own, Followed, Freed, Unscheduled, OpeningInv
  <2>2. QED
    BY <2>1, StepTouches DEF Touches, Kept
<1>4. QED
  BY <1>2, <1>3, PairsCorrect, PTL DEF Spec, OpeningBalanceKept
=============================================================================
