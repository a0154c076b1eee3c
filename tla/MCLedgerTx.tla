----------------------------- MODULE MCLedgerTx -----------------------------
(* Small instances of LedgerTx for TLC. *)
EXTENDS LedgerTx, TLC

CONSTANTS a1, a2, a3, b1, b2, o1, o2, o3, old, new

\* a2 and a3 share a bank row.
Banks == (a1 :> b1 @@ a2 :> b2 @@ a3 :> b2)

AnOperation(a, t, p) ==
  [account |-> a, transferAccount |-> t, transferOperation |-> p, content |-> old]

\* A transfer from a1 to a2, and an operation of a1 that is none.
Pair == (o1 :> AnOperation(a1, a2, o2) @@ o2 :> AnOperation(a2, a1, o1))
PairAndExternal == Pair @@ (o3 :> AnOperation(a1, NULL, NULL))

OnePair == {Pair}
Tables == {Pair, PairAndExternal}

Creates ==
  [kind: {"create"}, account: Account, target: Account \cup {NULL}, content: {new}]

Updates ==
  [kind: {"update"}, operation: Operation, account: Account,
   target: Account \cup {NULL}, content: {old, new}]

Removes == [kind: {"remove"}, account: Account]

Batches(S) == [kind: {"batch_delete"}, operations: S]

AnyRequest == Creates \cup Updates \cup Removes \cup Batches(SUBSET {o1, o2, o3} \ {{}})

SameBatchAndUpdates == Batches({{o1}}) \cup Updates

Symmetry == Permutations(Client)
=============================================================================
