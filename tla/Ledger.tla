------------------------------- MODULE Ledger -------------------------------
(***************************************************************************)
(* The ledger of the API: the bank, account, scheduler and operation       *)
(* tables, and every request that writes them, one transaction per step.   *)
(*                                                                         *)
(* A transfer between two accounts of a member is a pair of operations     *)
(* that point at each other (transferOperation) and name each other's      *)
(* account (transferAccount).  An operation paid by a transfer method with *)
(* neither is an External transfer.                                        *)
(*                                                                         *)
(* A transaction that a constraint of the database refuses (the foreign    *)
(* key or the unique index on transferOperation) is rolled back: it is no  *)
(* step of this module.  The interleaving of the statements of concurrent  *)
(* transactions is the subject of module LedgerTx.                         *)
(***************************************************************************)
EXTENDS Naturals, FiniteSets

CONSTANTS
  Member, Bank, Account, Operation, Scheduler,  \* primary keys
  Currency, Content,  \* Content: amount, third party, value date and notes
  Entry,              \* what the requests to save an entry may carry
  Opening,            \* signs of the opening balances asked for, NULL for zero
  OwnerOf, BankOf, CurrencyOf,  \* columns that no statement ever updates
  NULL

Side == {"debit", "credit"}
TransferMethod == {"transfer_debit", "transfer_credit"}
Method == TransferMethod \cup {"other_debit", "other_credit", "initial_balance"}

\* The type of a payment method; the opening balance's has none.
TypeOf(method) ==
  CASE method \in {"transfer_debit", "other_debit"} -> "debit"
    [] method \in {"transfer_credit", "other_credit"} -> "credit"
    [] OTHER -> "none"

EntryType ==
  [side: Side, method: Method, content: Content, reconciled: BOOLEAN]

ASSUME LedgerAssumption ==
  /\ NULL \notin Account \cup Operation \cup Scheduler
  /\ Account \cap Bank = {}
  /\ OwnerOf \in [Bank -> Member]
  /\ BankOf \in [Account -> Bank]
  /\ CurrencyOf \in [Account -> Currency]
  /\ Entry \subseteq EntryType
  /\ Opening \subseteq Side \cup {NULL}

VARIABLES
  banks, accounts,   \* the rows of the two tables
  closed, deleted,   \* the banks and accounts with the flag set
  scheduler,         \* the scheduler table, by id
  operation          \* the operation table, by id

vars == <<banks, accounts, closed, deleted, scheduler, operation>>

OperationRow ==
  [account: Account, transferAccount: Account \cup {NULL},
   transferOperation: Operation \cup {NULL}, scheduler: Scheduler \cup {NULL},
   method: Method, side: Side, content: Content, reconciled: BOOLEAN]

SchedulerRow ==
  [account: Account, transferAccount: Account \cup {NULL},
   method: Method, side: Side, content: Content, reconciled: BOOLEAN]

Init ==
  /\ banks = {} /\ accounts = {}
  /\ closed = {} /\ deleted = {}
  /\ scheduler = [s \in {} |-> NULL]
  /\ operation = [o \in {} |-> NULL]

-----------------------------------------------------------------------------
(* Who may touch what.                                                     *)

\* Not deleted, nor the bank above it.
NotDeleted(a) == a \notin deleted /\ BankOf[a] \notin deleted

Reachable(m, a) == a \in accounts /\ OwnerOf[BankOf[a]] = m /\ NotDeleted(a)

FullyActive(a) ==
  a \in accounts /\ NotDeleted(a) /\ a \notin closed /\ BankOf[a] \notin closed

\* The account of a request to write an entry: owned, then fully active.
Writable(m, a) == Reachable(m, a) /\ FullyActive(a)

\* Mutant: the account itself is as good a target as another.
EligibleTargetOrItself(m, a, t) ==
  Reachable(m, t) /\ FullyActive(t) /\ CurrencyOf[t] = CurrencyOf[a]

\* A new transfer target, for an entry of account a of member m.
EligibleTarget(m, a, t) ==
  /\ t # a
  /\ Reachable(m, t)
  /\ FullyActive(t)
  /\ CurrencyOf[t] = CurrencyOf[a]

\* The transfer account a request asks for counts only with a transfer method.
TransferAccountFor(e, t) == IF e.method \in TransferMethod THEN t ELSE NULL

TypedRefsValid(e) == TypeOf(e.method) = e.side

-----------------------------------------------------------------------------
(* Pairing.                                                                *)

Flip(method) ==
  IF method = "transfer_debit" THEN "transfer_credit" ELSE "transfer_debit"

Opposite(side) == IF side = "debit" THEN "credit" ELSE "debit"

\* The columns of a mirror that follow its source, written over row.
MirrorFields(row, source) ==
  [row EXCEPT !.method = Flip(source.method),
              !.side = Opposite(source.side),
              !.content = source.content,
              !.scheduler = source.scheduler]

\* The new mirror of operation o, whose row is source.
NewMirror(o, source) ==
  MirrorFields([source EXCEPT !.account = source.transferAccount,
                              !.transferAccount = source.account,
                              !.transferOperation = o,
                              !.reconciled = FALSE], source)

\* Mutant: the link to the counterpart outlives the transfer account.
ExternalStillLinked(row) == [row EXCEPT !.transferAccount = NULL]

External(row) == [row EXCEPT !.transferAccount = NULL, !.transferOperation = NULL]

\* previous is the row before the save, want the target the save asks for.
ClassifyPairingEdit(previous, want) ==
  IF previous.transferOperation = NULL
    THEN IF want = NULL THEN "none" ELSE "attach"
    ELSE IF want = NULL THEN "detach"
         ELSE IF previous.transferAccount = want THEN "refresh" ELSE "retarget"

\* The rows that point at one of the operations of S.
PointingAt(S) == {o \in DOMAIN operation : operation[o].transferOperation \in S}

\* Inserts row as o, with its mirror as n when it is a transfer.
InsertWithMirror(m, o, n, row) ==
  /\ o \notin DOMAIN operation
  /\ \/ /\ row.transferAccount = NULL
        /\ operation' = [x \in DOMAIN operation \cup {o} |->
                           IF x = o THEN row ELSE operation[x]]
     \/ /\ row.transferAccount # NULL
        /\ EligibleTarget(m, row.account, row.transferAccount)
        /\ n \notin DOMAIN operation \cup {o}
        /\ operation' =
             [x \in DOMAIN operation \cup {o, n} |->
                CASE x = o -> [row EXCEPT !.transferOperation = n]
                  [] x = n -> NewMirror(o, row)
                  [] OTHER -> operation[x]]

-----------------------------------------------------------------------------
(* Banks and accounts.                                                     *)

ChooseBank(b) ==
  /\ b \notin banks
  /\ banks' = banks \cup {b}
  /\ UNCHANGED <<accounts, closed, deleted, scheduler, operation>>

CloseBank(b) ==
  /\ b \in banks \ (closed \cup deleted)
  /\ closed' = closed \cup {b}
  /\ UNCHANGED <<banks, accounts, deleted, scheduler, operation>>

\* Mutant: schedulers keep their target.
ConvertOperationsOnly(gone) ==
  /\ operation' = [o \in DOMAIN operation |->
                     IF operation[o].transferAccount \in gone
                       THEN External(operation[o]) ELSE operation[o]]
  /\ UNCHANGED scheduler

\* Every reference to one of the accounts of gone becomes External.
ConvertReferencesToExternal(gone) ==
  /\ operation' = [o \in DOMAIN operation |->
                     IF operation[o].transferAccount \in gone
                       THEN External(operation[o]) ELSE operation[o]]
  /\ scheduler' = [s \in DOMAIN scheduler |->
                     IF scheduler[s].transferAccount \in gone
                       THEN [scheduler[s] EXCEPT !.transferAccount = NULL]
                       ELSE scheduler[s]]

RemoveBank(b) ==
  /\ b \in banks \ deleted
  /\ deleted' = deleted \cup {b}
  /\ ConvertReferencesToExternal({a \in accounts : BankOf[a] = b})
  /\ UNCHANGED <<banks, accounts, closed>>

\* side is the sign of the opening balance.
CreateAccount(a, o, side, content) ==
  /\ a \notin accounts
  /\ BankOf[a] \in banks \ (closed \cup deleted)
  /\ accounts' = accounts \cup {a}
  /\ \/ side = NULL /\ UNCHANGED operation
     \/ /\ side # NULL
        /\ o \notin DOMAIN operation
        /\ operation' =
             [x \in DOMAIN operation \cup {o} |->
                IF x = o
                  THEN [account |-> a, transferAccount |-> NULL,
                        transferOperation |-> NULL, scheduler |-> NULL,
                        method |-> "initial_balance", side |-> side,
                        content |-> content, reconciled |-> TRUE]
                  ELSE operation[x]]
  /\ UNCHANGED <<banks, closed, deleted, scheduler>>

CloseAccount(a) ==
  /\ FullyActive(a)
  /\ closed' = closed \cup {a}
  /\ UNCHANGED <<banks, accounts, deleted, scheduler, operation>>

\* Mutant: the flag alone is set.
RemoveAccountUnconverted(a) ==
  /\ a \in accounts /\ NotDeleted(a)
  /\ deleted' = deleted \cup {a}
  /\ UNCHANGED <<banks, accounts, closed, scheduler, operation>>

\* A closed account may be deleted too.
RemoveAccount(a) ==
  /\ a \in accounts /\ NotDeleted(a)
  /\ deleted' = deleted \cup {a}
  /\ ConvertReferencesToExternal({a})
  /\ UNCHANGED <<banks, accounts, closed>>

-----------------------------------------------------------------------------
(* Operations.                                                             *)

OnlyOperation == UNCHANGED <<banks, accounts, closed, deleted, scheduler>>

CreateOperation(m, a, e, t, o, n) ==
  /\ Writable(m, a)
  /\ TypedRefsValid(e)
  /\ InsertWithMirror(m, o, n,
       [account |-> a, transferAccount |-> TransferAccountFor(e, t),
        transferOperation |-> NULL, scheduler |-> NULL,
        method |-> e.method, side |-> e.side, content |-> e.content,
        reconciled |-> e.reconciled])
  /\ OnlyOperation

\* Mutant: the opening balance is an operation like another.
EditableOpeningBalance(m, o) ==
  o \in DOMAIN operation /\ Writable(m, operation[o].account)

\* Mutant: owning the account is enough, were it closed.
EditableWhenClosed(m, o) ==
  /\ o \in DOMAIN operation
  /\ Reachable(m, operation[o].account)
  /\ operation[o].method # "initial_balance"

\* What a save may edit: an operation of a writable account, never the
\* opening balance.
Editable(m, o) ==
  /\ o \in DOMAIN operation
  /\ Writable(m, operation[o].account)
  /\ operation[o].method # "initial_balance"

\* The row of o once the save of e with target want is written over it.
Saved(o, e, want, mirror) ==
  [operation[o] EXCEPT !.method = e.method, !.side = e.side,
                       !.content = e.content, !.reconciled = e.reconciled,
                       !.transferAccount = want, !.transferOperation = mirror]

SyncNone(o, e) ==
  operation' = [operation EXCEPT ![o] = Saved(o, e, NULL, NULL)]

\* Mutant: the mirror stays in the other account's books.
SyncDetachSourceOnly(o, e, mirror) ==
  operation' = [operation EXCEPT ![o] = Saved(o, e, NULL, NULL)]

\* The source is unlinked before the mirror is deleted, so that only another
\* row pointing at the mirror could block the deletion.
SyncDetach(o, e, mirror) ==
  /\ PointingAt({mirror}) \subseteq {o}
  /\ operation' = [x \in DOMAIN operation \ {mirror} |->
                     IF x = o THEN Saved(o, e, NULL, NULL) ELSE operation[x]]

\* Mutant: the mirror is left as it was.
SyncRefreshSourceOnly(o, e, want, mirror) ==
  operation' = [operation EXCEPT ![o] = Saved(o, e, want, mirror)]

SyncRefresh(o, e, want, mirror) ==
  operation' = [x \in DOMAIN operation |->
                  IF x = o THEN Saved(o, e, want, mirror)
                  ELSE IF x = mirror
                    THEN MirrorFields(operation[x], Saved(o, e, want, mirror))
                  ELSE operation[x]]

\* The mirror moves to the new target's books.
SyncRetarget(m, o, e, want, mirror) ==
  /\ EligibleTarget(m, operation[o].account, want)
  /\ operation' = [x \in DOMAIN operation |->
                     IF x = o THEN Saved(o, e, want, mirror)
                     ELSE IF x = mirror
                       THEN [MirrorFields(operation[x], Saved(o, e, want, mirror))
                               EXCEPT !.account = want]
                     ELSE operation[x]]

\* Mutant: no unique index on transferOperation.
SyncAttachUnindexed(m, o, e, want, n) ==
  /\ EligibleTarget(m, operation[o].account, want)
  /\ n \notin DOMAIN operation
  /\ operation' = [x \in DOMAIN operation \cup {n} |->
                     CASE x = o -> Saved(o, e, want, n)
                       [] x = n -> NewMirror(o, Saved(o, e, want, n))
                       [] OTHER -> operation[x]]

\* The unique index lets one row only point at o.
SyncAttach(m, o, e, want, n) ==
  /\ EligibleTarget(m, operation[o].account, want)
  /\ n \notin DOMAIN operation
  /\ PointingAt({o}) = {}
  /\ operation' = [x \in DOMAIN operation \cup {n} |->
                     CASE x = o -> Saved(o, e, want, n)
                       [] x = n -> NewMirror(o, Saved(o, e, want, n))
                       [] OTHER -> operation[x]]

UpdateOperation(m, o, e, t, n) ==
  /\ Editable(m, o)
  /\ TypedRefsValid(e)
  /\ LET want == TransferAccountFor(e, t)
         mirror == operation[o].transferOperation
         edit == ClassifyPairingEdit(operation[o], want)
     IN  \/ edit = "none" /\ SyncNone(o, e)
         \/ edit = "detach" /\ SyncDetach(o, e, mirror)
         \/ edit = "refresh" /\ SyncRefresh(o, e, want, mirror)
         \/ edit = "retarget" /\ SyncRetarget(m, o, e, want, mirror)
         \/ edit = "attach" /\ SyncAttach(m, o, e, want, n)
  /\ OnlyOperation

\* The counterparts of the operations of D that D leaves behind.
SurvivorsOfDeleted(D) ==
  {operation[o].transferOperation : o \in D} \ (D \cup {NULL})

\* D is what is left of the request's ids once foreign, inactive and opening
\* ones are dropped.  A row that still points at D blocks the deletion.
BatchDelete(m, D) ==
  /\ D # {} /\ \A o \in D : Editable(m, o)
  /\ PointingAt(D) \subseteq D \cup SurvivorsOfDeleted(D)
  /\ operation' = [o \in DOMAIN operation \ D |->
                     IF o \in SurvivorsOfDeleted(D)
                       THEN External(operation[o]) ELSE operation[o]]
  /\ OnlyOperation

BatchReconcile(m, D) ==
  /\ D # {} /\ \A o \in D : Editable(m, o)
  /\ operation' = [o \in DOMAIN operation |->
                     IF o \in D THEN [operation[o] EXCEPT !.reconciled = TRUE]
                     ELSE operation[o]]
  /\ OnlyOperation

-----------------------------------------------------------------------------
(* Schedulers: only what ties them to the ledger.  When they generate is   *)
(* the subject of module Generation.                                       *)

\* A new target is checked, an unchanged one is not.
SchedulerTargetValid(m, a, previous, want) ==
  want \in {NULL, previous} \/ EligibleTarget(m, a, want)

SaveScheduler(m, s, a, e, t, previous) ==
  /\ Writable(m, a)
  /\ TypedRefsValid(e)
  /\ SchedulerTargetValid(m, a, previous, TransferAccountFor(e, t))
  /\ scheduler' = [x \in DOMAIN scheduler \cup {s} |->
                     IF x = s
                       THEN [account |-> a,
                             transferAccount |-> TransferAccountFor(e, t),
                             method |-> e.method, side |-> e.side,
                             content |-> e.content, reconciled |-> e.reconciled]
                       ELSE scheduler[x]]
  /\ UNCHANGED <<banks, accounts, closed, deleted, operation>>

CreateScheduler(m, s, a, e, t) ==
  s \notin DOMAIN scheduler /\ SaveScheduler(m, s, a, e, t, NULL)

UpdateScheduler(m, s, e, t) ==
  /\ s \in DOMAIN scheduler
  /\ SaveScheduler(m, s, scheduler[s].account, e, t, scheduler[s].transferAccount)

\* One scheduler or a batch of them: the generated operations survive.
RemoveSchedulers(m, S) ==
  /\ S # {} /\ S \subseteq DOMAIN scheduler
  /\ \A s \in S : Writable(m, scheduler[s].account)
  /\ operation' = [o \in DOMAIN operation |->
                     IF operation[o].scheduler \in S
                       THEN [operation[o] EXCEPT !.scheduler = NULL]
                       ELSE operation[o]]
  /\ scheduler' = [s \in DOMAIN scheduler \ S |-> scheduler[s]]
  /\ UNCHANGED <<banks, accounts, closed, deleted>>

\* One occurrence of s, inserted as o with mirror n.
GenerateOccurrence(s, o, n) ==
  /\ s \in DOMAIN scheduler
  /\ LET row == scheduler[s]
     IN  /\ FullyActive(row.account)
         /\ row.transferAccount # NULL => FullyActive(row.transferAccount)
         /\ InsertWithMirror(OwnerOf[BankOf[row.account]], o, n,
              [account |-> row.account, transferAccount |-> row.transferAccount,
               transferOperation |-> NULL, scheduler |-> s,
               method |-> row.method, side |-> row.side,
               content |-> row.content, reconciled |-> row.reconciled])
  /\ OnlyOperation

-----------------------------------------------------------------------------

Next ==
  \/ \E b \in Bank : ChooseBank(b) \/ CloseBank(b) \/ RemoveBank(b)
  \/ \E a \in Account, o \in Operation, side \in Opening, c \in Content :
       CreateAccount(a, o, side, c)
  \/ \E a \in Account : CloseAccount(a) \/ RemoveAccount(a)
  \/ \E m \in Member, a \in Account, e \in Entry, t \in Account \cup {NULL},
        o, n \in Operation : CreateOperation(m, a, e, t, o, n)
  \/ \E m \in Member, o, n \in Operation, e \in Entry, t \in Account \cup {NULL} :
       UpdateOperation(m, o, e, t, n)
  \/ \E m \in Member, D \in SUBSET Operation : BatchDelete(m, D)
  \/ \E m \in Member, D \in SUBSET Operation : BatchReconcile(m, D)
  \/ \E m \in Member, s \in Scheduler, a \in Account, e \in Entry,
        t \in Account \cup {NULL} : CreateScheduler(m, s, a, e, t)
  \/ \E m \in Member, s \in Scheduler, e \in Entry, t \in Account \cup {NULL} :
       UpdateScheduler(m, s, e, t)
  \/ \E m \in Member, S \in SUBSET Scheduler : RemoveSchedulers(m, S)
  \/ \E s \in Scheduler, o, n \in Operation : GenerateOccurrence(s, o, n)

Spec == Init /\ [][Next]_vars

-----------------------------------------------------------------------------
(* Properties.                                                             *)

\* Every row has its columns' types, and every foreign key names a row.
TypeOK ==
  /\ banks \subseteq Bank
  /\ accounts \subseteq {a \in Account : BankOf[a] \in banks}
  /\ closed \subseteq banks \cup accounts
  /\ deleted \subseteq banks \cup accounts
  /\ DOMAIN scheduler \subseteq Scheduler
  /\ scheduler \in [DOMAIN scheduler -> SchedulerRow]
  /\ DOMAIN operation \subseteq Operation
  /\ operation \in [DOMAIN operation -> OperationRow]
  /\ \A o \in DOMAIN operation :
       /\ operation[o].account \in accounts
       /\ operation[o].transferAccount \in accounts \cup {NULL}
       /\ operation[o].transferOperation \in DOMAIN operation \cup {NULL}
       /\ operation[o].scheduler \in DOMAIN scheduler \cup {NULL}
  /\ \A s \in DOMAIN scheduler :
       /\ scheduler[s].account \in accounts
       /\ scheduler[s].transferAccount \in accounts \cup {NULL}

\* p is the exact reflection of o: they point at each other, name each
\* other's account, and carry opposite amounts by opposite methods.
MirrorOf(p, o) ==
  /\ operation[p].transferOperation = o
  /\ operation[p].account = operation[o].transferAccount
  /\ operation[p].transferAccount = operation[o].account
  /\ operation[p].side = Opposite(operation[o].side)
  /\ operation[p].method = Flip(operation[o].method)
  /\ operation[p].content = operation[o].content
  /\ operation[p].scheduler = operation[o].scheduler

\* Money moved between two accounts is in the books of both: whatever edits,
\* batches, generations and deletions came before, an operation that has a
\* counterpart and whose account is not deleted is reflected by it exactly.
PairsMirror ==
  \A o \in DOMAIN operation :
    operation[o].transferOperation # NULL /\ NotDeleted(operation[o].account)
      => MirrorOf(operation[o].transferOperation, o)

\* "Both null or both set" (transfer.service.ts:42), and only a transfer
\* method carries a pairing, although each save writes the columns apart.
PairingComplete ==
  \A o \in DOMAIN operation :
    /\ operation[o].transferOperation = NULL <=> operation[o].transferAccount = NULL
    /\ operation[o].transferOperation # NULL => operation[o].method \in TransferMethod

\* Both ends of a transfer, made or scheduled, are distinct accounts of one
\* member in one currency, although a retarget moves the mirror to an account
\* that was checked against the edited side only.
TransferEndsMatch ==
  \A row \in {operation[o] : o \in DOMAIN operation}
             \cup {scheduler[s] : s \in DOMAIN scheduler} :
    row.transferAccount # NULL =>
      /\ row.transferAccount # row.account
      /\ OwnerOf[BankOf[row.transferAccount]] = OwnerOf[BankOf[row.account]]
      /\ CurrencyOf[row.transferAccount] = CurrencyOf[row.account]

\* Deleting an account, or the bank above it, leaves no operation or
\* scheduler that transfers to it, and none ever does again.
NoDeletedTarget ==
  /\ \A o \in DOMAIN operation : operation[o].transferAccount # NULL
       => NotDeleted(operation[o].transferAccount)
  /\ \A s \in DOMAIN scheduler : scheduler[s].transferAccount # NULL
       => NotDeleted(scheduler[s].transferAccount)

\* At most one operation points back at any counterpart: the mirror of a
\* pair is never shared.
MirrorsUnshared ==
  \A o, p \in DOMAIN operation :
    operation[o].transferOperation = operation[p].transferOperation
      /\ operation[o].transferOperation # NULL => o = p

\* The books of a deleted account are final: whatever happens to the
\* counterparts its operations had, their amounts and account stay.
DeletedBooksFrozen ==
  [][\A o \in DOMAIN operation : ~NotDeleted(operation[o].account) =>
       /\ o \in DOMAIN operation'
       /\ \A field \in {"account", "method", "side", "content", "reconciled"} :
            operation'[o][field] = operation[o][field]]_vars

\* An entry of a closed account is out of reach of every request of its own:
\* its books change only when the counterpart in an open account is saved or
\* deleted.
ClosedBooksFollowCounterpart ==
  [][\A o \in DOMAIN operation :
       LET row == operation[o]
           Touched == o \in DOMAIN operation' =>
                        \/ operation'[o].content # row.content
                        \/ operation'[o].side # row.side
                        \/ operation'[o].account # row.account
                        \/ operation'[o].reconciled # row.reconciled
       IN  Touched /\ ~FullyActive(row.account) =>
             row.transferOperation # NULL
             /\ FullyActive(operation[row.transferOperation].account)]_vars

\* The opening balance of an account is never lost, edited or paired.
OpeningBalanceKept ==
  [][\A o \in DOMAIN operation : operation[o].method = "initial_balance" =>
       o \in DOMAIN operation' /\ operation'[o] = operation[o]]_vars

-----------------------------------------------------------------------------
(* What a comment of the code says and the code does not do.               *)

\* A new mirror is attached "only for a source with no mirror yet"
\* (transfer.service.ts:263): no editable operation that shows no counterpart
\* is still pointed at.
AttachedSourceHasNoMirror ==
  \A m \in Member, o \in DOMAIN operation :
    Editable(m, o) /\ operation[o].transferOperation = NULL
      => PointingAt({o}) = {}
=============================================================================
