------------------------------ MODULE MCImport ------------------------------
(***************************************************************************)
(* Small instances of the confirmations of imports, and of the page that   *)
(* asks for them, checked by one run: the initial state says which of the  *)
(* two is at work, and the variables of the other do not change.           *)
(***************************************************************************)
EXTENDS Imports, TLC

CONSTANTS i1, i2, a1, a2, r1, l1, l2

-----------------------------------------------------------------------------
(* ImportConfirm: two clients that confirm two uploads of one row.         *)

\* The same account twice, or one each.
Targets == {[i \in Import |-> a1], [i \in Import |-> IF i = i1 THEN a1 ELSE a2]}

Asks(anyway, reconcile, remember, forget) ==
  [included |-> anyway, reconcile |-> reconcile, remember |-> remember, forget |-> forget]

\* The rows as they come, a skipped row imported anyway or reconciled, a
\* label corrected or forgotten.
AskedChoices ==
  {Asks({}, {}, {l1}, {}), Asks({r1}, {}, {}, {}), Asks({}, {r1}, {l2}, {l1})}

\* Nothing yet, or an operation that no row describes.
EnteredBefore ==
  LET other == [account |-> a1, row |-> NULL, by |-> 0, reconciled |-> FALSE]
  IN  {<<>>, <<other>>}

Symmetry == Permutations(Client)

-----------------------------------------------------------------------------
(* ImportPage: two uploads, of one row that an operation may match unless  *)
(* it is a transfer.                                                       *)

MayMatch == {{}, {<<r1, "other">>}}

\* The page needs no more than one of the first states of the confirmations.
MCInit ==
  /\ part \in {"confirm", "page"}
  /\ ImportInit
  /\ part = "page" => operation = <<>> /\ target = [i \in Import |-> a1]

MCSpec == MCInit /\ [][ConfirmImport \/ ShowImport]_<<part, vars, page>>
=============================================================================
