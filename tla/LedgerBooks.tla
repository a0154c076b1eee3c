----------------------------- MODULE LedgerBooks -----------------------------
(***************************************************************************)
(* The tables of the ledger, read as the books of module Books: the two    *)
(* operations of a pair are the two ends of one movement.                  *)
(***************************************************************************)
EXTENDS Ledger

\* The outside is no operation of an account.
ASSUME OutsideAssumption == NULL \notin [account : Account, operation : Operation]

EndOf(o) == [account |-> operation[o].account, operation |-> o]

\* The other end of the movement of o: its counterpart, or the outside.
OtherEnd(o) ==
  IF operation[o].transferOperation = NULL THEN NULL
  ELSE EndOf(operation[o].transferOperation)

MovementOf(o) ==
  IF operation[o].side = "debit"
  THEN [debit |-> EndOf(o), credit |-> OtherEnd(o), content |-> operation[o].content]
  ELSE [debit |-> OtherEnd(o), credit |-> EndOf(o), content |-> operation[o].content]

\* The operations a member can still see.
LiveOperations == {o \in DOMAIN operation : NotDeleted(operation[o].account)}

LiveAccounts == {a \in accounts : NotDeleted(a)}
OpenAccounts == {a \in accounts : FullyActive(a)}
Movements == {MovementOf(o) : o \in LiveOperations}

Group(a) == <<OwnerOf[BankOf[a]], CurrencyOf[a]>>

B == INSTANCE Books
       WITH GroupOf <- Group, OUTSIDE <- NULL,
            live <- LiveAccounts, open <- OpenAccounts, movements <- Movements

\* Every request, generation and deletion, which write the rows of a transfer
\* one by one, is a step on whole movements: no request ever leaves one book
\* of a transfer behind the other.
KeepsBooks == B!Spec
=============================================================================
