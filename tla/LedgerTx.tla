------------------------------ MODULE LedgerTx ------------------------------
(***************************************************************************)
(* The statements of the requests that write paired operations, as         *)
(* concurrent clients interleave them in the database: what module Ledger  *)
(* takes as one step each.                                                 *)
(*                                                                         *)
(* The database runs at READ COMMITTED.  A statement sees the committed    *)
(* rows and its own transaction's; a row it writes or selects FOR UPDATE   *)
(* is locked to the end of the transaction, and a statement that meets a   *)
(* locked row waits, then takes the row as it is by then.  A foreign key   *)
(* locks the row it names against deletion and FOR UPDATE only.  The locks *)
(* of one statement are taken together here; steps that touch only rows    *)
(* the transaction already holds are merged into the next.                 *)
(***************************************************************************)
EXTENDS Naturals, FiniteSets

CONSTANTS
  Client,             \* the requests in flight at once, one each
  Request,            \* what a client may ask
  Account, Bank, Operation, Content,
  BankOf,
  Initial,            \* the operation tables to start from
  NULL

ASSUME LedgerTxAssumption ==
  /\ NULL \notin Account \cup Operation
  /\ Account \cap Bank = {} /\ Account \cap Operation = {} /\ Bank \cap Operation = {}
  /\ BankOf \in [Account -> Bank]
  /\ \A table \in Initial :
       /\ DOMAIN table \subseteq Operation
       /\ Cardinality(Operation \ DOMAIN table) >= 2 * Cardinality(Client)

VARIABLES
  deleted,    \* the accounts whose flag is committed
  operation,  \* the committed rows, by id
  drawn,      \* ids drawn so far: none is drawn twice
  request,    \* what each client is asking
  pc,         \* its next statement
  read,       \* what an earlier statement of its transaction returned
  wrote,      \* its uncommitted rows, NULL for a deleted one
  held        \* its locks: pairs of a row and a mode

vars == <<deleted, operation, drawn, request, pc, read, wrote, held>>

Row ==
  [account: Account, transferAccount: Account \cup {NULL},
   transferOperation: Operation \cup {NULL}, content: Content]

ASSUME NoRowAssumption == NULL \notin Row

Empty == [o \in {} |-> NULL]

\* What a client may ask.
Creation ==
  [kind: {"create"}, account: Account, target: Account \cup {NULL}, content: Content]
Edition ==
  [kind: {"update"}, operation: Operation, account: Account,
   target: Account \cup {NULL}, content: Content]
BatchDeletion == [kind: {"batch_delete"}, operations: SUBSET Operation]
Removal == [kind: {"remove"}, account: Account]

ASSUME RequestAssumption ==
  Request \subseteq Creation \cup Edition \cup BatchDeletion \cup Removal

\* The row that reflects row, whose id is o.
Reflection(o, row) ==
  [account |-> row.transferAccount, transferAccount |-> row.account,
   transferOperation |-> o, content |-> row.content]

\* What Ledger keeps true of its tables between requests, no account being
\* deleted yet.
ASSUME InitialAssumption ==
  \A table \in Initial :
    /\ table \in [DOMAIN table -> Row]
    /\ \A o \in DOMAIN table :
         LET mirror == table[o].transferOperation
         IN  mirror # NULL =>
               mirror \in DOMAIN table \ {o} /\ table[mirror] = Reflection(o, table[o])

Init ==
  /\ deleted = {} /\ operation \in Initial /\ drawn = DOMAIN operation
  /\ request = [c \in Client |-> NULL]
  /\ pc = [c \in Client |-> "idle"]
  /\ read = [c \in Client |-> NULL]
  /\ wrote = [c \in Client |-> Empty]
  /\ held = [c \in Client |-> {}]

-----------------------------------------------------------------------------
(* Locks and the rows a transaction sees.                                  *)

\* "key": a foreign key's; "no_key": UPDATE of other columns; "update":
\* DELETE, FOR UPDATE, and UPDATE of the uniquely indexed link.
Conflict(mode, other) ==
  \/ "update" \in {mode, other}
  \/ mode = "no_key" /\ other = "no_key"

Blockers(c, locks) ==
  {d \in Client \ {c} : \E l \in locks, k \in held[d] :
                          l[1] = k[1] /\ Conflict(l[2], k[2])}

\* The operation table as c sees it, w being its writes.
View(w) ==
  [o \in {x \in DOMAIN operation \cup DOMAIN w : x \in DOMAIN w => w[x] # NULL} |->
     IF o \in DOMAIN w THEN w[o] ELSE operation[o]]

Also(w, v) == [o \in DOMAIN w \cup DOMAIN v |-> IF o \in DOMAIN v THEN v[o] ELSE w[o]]
Row1(o, row) == [x \in {o} |-> row]

\* Ids are drawn in an order of their own: which is next does not matter.
\* A bound: Operation holds two ids for each client beyond the initial ones.
NewId == CHOOSE o \in Operation : o \notin drawn

\* Of the ids S, the rows that are there.
There(S) == S \cap DOMAIN operation

PointingAt(rows, S) == {o \in DOMAIN rows : rows[o].transferOperation \in S}

External(row) == [row EXCEPT !.transferAccount = NULL, !.transferOperation = NULL]

Edit(previous, want) ==
  IF previous.transferOperation = NULL
    THEN IF want = NULL THEN "none" ELSE "attach"
    ELSE IF want = NULL THEN "detach"
         ELSE IF previous.transferAccount = want THEN "refresh" ELSE "retarget"

\* The locks that the next statement of c takes.
Needs(c) ==
  LET r == request[c]
  IN  CASE pc[c] = "lock_account" ->
             {<<r.account, "update">>, <<BankOf[r.account], "update">>}
        [] pc[c] = "lock_operation" -> {<<r.operation, "update">>}
        [] pc[c] = "delete_mirror" -> {<<read[c].transferOperation, "update">>}
        [] pc[c] = "write_mirror" ->
             {<<read[c].transferOperation, "no_key">>}
               \cup (IF Edit(read[c], r.target) = "retarget"
                       THEN {<<r.target, "key">>} ELSE {})
        [] pc[c] \in {"insert", "insert_mirror"} -> {<<a, "key">> : a \in {r.target} \ {NULL}}
        [] pc[c] = "save" /\ r.kind = "update" -> {<<r.operation, "update">>}
        [] pc[c] \in {"clear_survivors", "convert"} ->
             {<<o, "update">> : o \in There(read[c])}
        [] pc[c] = "delete_rows" -> {<<o, "update">> : o \in There(r.operations)}
        [] pc[c] = "flag" -> {<<r.account, "no_key">>}
        [] OTHER -> {}

-----------------------------------------------------------------------------
(* One statement.                                                          *)

\* c runs the statement at label: it holds its locks from now on.
At(c, label) ==
  /\ pc[c] = label
  /\ Blockers(c, Needs(c)) = {}

\* The statement succeeds: the next one is at label, having read v and
\* written w so far.
Then(c, label, v, w) ==
  /\ pc' = [pc EXCEPT ![c] = label]
  /\ read' = [read EXCEPT ![c] = v]
  /\ wrote' = [wrote EXCEPT ![c] = w]
  /\ held' = [held EXCEPT ![c] = @ \cup Needs(c)]
  /\ UNCHANGED <<deleted, operation, request>>

End(c) ==
  /\ pc' = [pc EXCEPT ![c] = "done"]
  /\ UNCHANGED request
  /\ read' = [read EXCEPT ![c] = NULL]
  /\ wrote' = [wrote EXCEPT ![c] = Empty]
  /\ held' = [held EXCEPT ![c] = {}]

Rollback(c) == End(c) /\ UNCHANGED <<deleted, operation, drawn>>

\* The rows w and the flags of the accounts gone are committed.
Commit(c, w, gone) ==
  /\ operation' = View(w)
  /\ deleted' = deleted \cup gone
  /\ End(c) /\ UNCHANGED drawn

\* Mutant: a statement waits for ever.
NeverCancelled(c) == FALSE /\ Rollback(c)

\* A statement that waits is cancelled: as the victim of a deadlock, or by
\* statement_timeout.
Cancelled(c) == Blockers(c, Needs(c)) # {} /\ Rollback(c)

-----------------------------------------------------------------------------
(* The checks made outside the transaction.                                *)

Active(a) == a \notin deleted

Start(c, r, label) ==
  /\ pc[c] = "idle"
  /\ request' = [request EXCEPT ![c] = r]
  /\ pc' = [pc EXCEPT ![c] = label]
  /\ UNCHANGED <<deleted, operation, drawn, read, wrote, held>>

BeginCreate(c, r) ==
  r.kind = "create" /\ Active(r.account) /\ Start(c, r, "lock_account")

BeginUpdate(c, r) ==
  /\ r.kind = "update"
  /\ r.operation \in DOMAIN operation
  /\ operation[r.operation].account = r.account /\ Active(r.account)
  /\ Start(c, r, "lock_account")

BeginBatchDelete(c, r) ==
  /\ r.kind = "batch_delete"
  /\ LET owned == {o \in There(r.operations) : Active(operation[o].account)}
     IN  owned # {} /\ Start(c, [r EXCEPT !.operations = owned], "read_links")

BeginRemove(c, r) ==
  r.kind = "remove" /\ Active(r.account) /\ Start(c, r, "flag")

-----------------------------------------------------------------------------
(* Saving an operation.                                                    *)

\* The account row and the bank row, as they are once locked.
LockAccount(c) ==
  /\ At(c, "lock_account")
  /\ IF Active(request[c].account)
       THEN /\ Then(c, IF request[c].kind = "create" THEN "insert" ELSE "lock_operation",
                    NULL, Empty)
            /\ UNCHANGED drawn
       ELSE Rollback(c)

AfterRead(row, want) ==
  CASE Edit(row, want) = "none" -> "save"
    [] Edit(row, want) = "detach" -> "delete_mirror"
    [] Edit(row, want) = "refresh" -> "write_mirror"
    [] OTHER -> "check_target"

\* Mutant: the operation is read without being locked.
ReadOperation(c) ==
  /\ pc[c] = "lock_operation"
  /\ LET o == request[c].operation
     IN  IF o \in DOMAIN operation
           THEN /\ pc' = [pc EXCEPT ![c] = AfterRead(operation[o], request[c].target)]
                /\ read' = [read EXCEPT ![c] = operation[o]]
                /\ UNCHANGED <<deleted, operation, drawn, request, wrote, held>>
           ELSE Rollback(c)

\* The pairing comes from the locked row.
LockOperation(c) ==
  /\ At(c, "lock_operation")
  /\ LET o == request[c].operation
     IN  IF o \in DOMAIN operation
           THEN /\ Then(c, AfterRead(operation[o], request[c].target), operation[o], Empty)
                /\ UNCHANGED drawn
           ELSE Rollback(c)

Saved(c) ==
  [read[c] EXCEPT !.content = request[c].content,
                  !.transferAccount = request[c].target]

\* The source is unlinked, then the mirror is deleted unless a row still
\* points at it.
DeleteMirror(c) ==
  /\ At(c, "delete_mirror")
  /\ LET mirror == read[c].transferOperation
         w == Also(Row1(request[c].operation, External(read[c])), Row1(mirror, NULL))
     IN  IF PointingAt(View(w), {mirror}) = {}
           THEN Then(c, "save", External(read[c]), w) /\ UNCHANGED drawn
           ELSE Rollback(c)

\* Neither the account row nor the bank row of the target is locked.
CheckTarget(c) ==
  /\ At(c, "check_target")
  /\ IF Active(request[c].target) /\ request[c].target # read[c].account
       THEN /\ Then(c, IF read[c].transferOperation = NULL
                         THEN "insert_mirror" ELSE "write_mirror", read[c], wrote[c])
            /\ UNCHANGED drawn
       ELSE Rollback(c)

\* Refresh and retarget alike: a mirror that has gone is no row to update.
WriteMirror(c) ==
  /\ At(c, "write_mirror")
  /\ LET mirror == read[c].transferOperation
         w == IF mirror \in DOMAIN operation
                THEN Row1(mirror,
                       [operation[mirror] EXCEPT
                          !.content = request[c].content,
                          !.account = IF Edit(read[c], request[c].target) = "refresh"
                                        THEN @ ELSE request[c].target])
                ELSE Empty
     IN  Then(c, "save", read[c], w) /\ UNCHANGED drawn

\* The operation being saved: the one just inserted, or the one named.
Source(c) ==
  IF request[c].kind = "create"
    THEN CHOOSE o \in DOMAIN wrote[c] : wrote[c][o].account = request[c].account
    ELSE request[c].operation

\* The unique index refuses a second row that points at the source.
InsertMirror(c) ==
  /\ At(c, "insert_mirror")
  /\ drawn # Operation
  /\ IF PointingAt(operation, {Source(c)}) = {}
       THEN /\ Then(c, "save", [read[c] EXCEPT !.transferOperation = NewId],
                    Also(wrote[c],
                         Row1(NewId, [account |-> request[c].target,
                                      transferAccount |-> read[c].account,
                                      transferOperation |-> Source(c),
                                      content |-> request[c].content])))
            /\ drawn' = drawn \cup {NewId}
       ELSE Rollback(c)

\* The row is written last, and the transaction committed.
Save(c) ==
  At(c, "save") /\ Commit(c, Also(wrote[c], Row1(Source(c), Saved(c))), {})

\* A new operation, not yet linked to a mirror.
Insert(c) ==
  /\ At(c, "insert")
  /\ drawn # Operation /\ drawn' = drawn \cup {NewId}
  /\ LET row == [account |-> request[c].account, transferAccount |-> request[c].target,
                 transferOperation |-> NULL, content |-> request[c].content]
     IN  Then(c, IF request[c].target = NULL THEN "save" ELSE "check_target",
              row, Row1(NewId, row))

-----------------------------------------------------------------------------
(* Deleting a batch of operations.                                         *)

\* The counterparts that the batch leaves behind, read without a lock.
ReadLinks(c) ==
  /\ At(c, "read_links")
  /\ LET D == request[c].operations
     IN  Then(c, "clear_survivors",
              {operation[o].transferOperation : o \in There(D)} \ (D \cup {NULL}), Empty)
  /\ UNCHANGED drawn

ClearSurvivors(c) ==
  /\ At(c, "clear_survivors")
  /\ Then(c, "delete_rows", NULL, [o \in There(read[c]) |-> External(operation[o])])
  /\ UNCHANGED drawn

\* A row that still points at one of them blocks the deletion.
DeleteRows(c) ==
  /\ At(c, "delete_rows")
  /\ LET w == Also(wrote[c], [o \in There(request[c].operations) |-> NULL])
     IN  IF PointingAt(View(w), request[c].operations) = {}
           THEN Commit(c, w, {}) ELSE Rollback(c)

-----------------------------------------------------------------------------
(* Deleting an account.                                                    *)

Flag(c) == At(c, "flag") /\ Then(c, "scan", NULL, Empty) /\ UNCHANGED drawn

\* The statement converts what its snapshot matches: here are the rows it
\* has yet to lock.
Scan(c) ==
  /\ At(c, "scan")
  /\ Then(c, "convert",
          {o \in DOMAIN operation : operation[o].transferAccount = request[c].account},
          Empty)
  /\ UNCHANGED drawn

\* A row that no longer matches once its lock is granted is left alone.
Convert(c) ==
  /\ At(c, "convert")
  /\ Commit(c, [o \in {x \in There(read[c]) :
                         operation[x].transferAccount = request[c].account}
                  |-> External(operation[o])],
            {request[c].account})

-----------------------------------------------------------------------------

Begin(c) ==
  \E r \in Request :
    BeginCreate(c, r) \/ BeginUpdate(c, r) \/ BeginBatchDelete(c, r) \/ BeginRemove(c, r)

Step(c) ==
  \/ LockAccount(c) \/ LockOperation(c)
  \/ DeleteMirror(c) \/ CheckTarget(c) \/ WriteMirror(c)
  \/ Insert(c) \/ InsertMirror(c) \/ Save(c)
  \/ ReadLinks(c) \/ ClearSurvivors(c) \/ DeleteRows(c)
  \/ Flag(c) \/ Scan(c) \/ Convert(c)
  \/ Cancelled(c)

Next == \E c \in Client : Begin(c) \/ Step(c)

\* The database serves every statement, or cancels it; nothing makes a
\* client ask.
Spec == Init /\ [][Next]_vars /\ \A c \in Client : WF_vars(Step(c))

-----------------------------------------------------------------------------
(* Properties.                                                             *)

\* Whatever statements interleave, the committed foreign keys name rows.
TypeOK ==
  /\ deleted \subseteq Account
  /\ DOMAIN operation \subseteq drawn /\ drawn \subseteq Operation
  /\ operation \in [DOMAIN operation -> Row]
  /\ \A o \in DOMAIN operation :
       operation[o].transferOperation \in DOMAIN operation \cup {NULL}

\* Two members of a pair saved at once, a pair saved while the account of
\* one is deleted: in what is committed, an operation of live books that has
\* a counterpart is reflected by it.
PairsMirror ==
  \A o \in DOMAIN operation :
    LET row == operation[o]
        mirror == row.transferOperation
    IN  mirror # NULL /\ Active(row.account) =>
          mirror \in DOMAIN operation /\ operation[mirror] = Reflection(o, row)

\* Every request is answered, although creations of transfers in opposite
\* directions lock each other's accounts.
RequestsEnd == \A c \in Client : pc[c] # "idle" ~> pc[c] = "done"

\* "Soft-deleting an account turns every operation/scheduler transfer
\* reference to it into External, irreversibly" (transfer.service.ts:370).
NoDeletedTarget ==
  \A o \in DOMAIN operation :
    operation[o].transferAccount # NULL => Active(operation[o].transferAccount)
=============================================================================
