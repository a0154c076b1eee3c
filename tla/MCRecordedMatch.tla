--------------------------- MODULE MCRecordedMatch ---------------------------
(* A small instance of RecordedMatch for TLC. *)
EXTENDS RecordedMatch

At(date, name, label, reference, transfer) ==
  [date |-> date, amount |-> 1, name |-> name, label |-> label, reference |-> reference,
   transfer |-> transfer]

\* Rows with and without a reference or a label, of one name or two, apart by
\* less than a tolerance and by more.
Rows ==
  {At(10, "shop", "pos", NULL, FALSE), At(12, "shop", "shop", "ref", FALSE),
   At(40, "cafe", NULL, NULL, FALSE), At(11, "bank", "virement", NULL, TRUE)}

With(row, reconciled) ==
  [date |-> row.date, amount |-> row.amount, name |-> row.name, label |-> row.label,
   reference |-> row.reference, transfer |-> row.transfer, reconciled |-> reconciled]

Operations ==
  {With(At(10, "shop", NULL, NULL, FALSE), FALSE), With(At(12, "shop", "pos", NULL, FALSE), TRUE),
   With(At(40, "cafe", "shop", "ref", FALSE), TRUE), With(At(9, "me", NULL, NULL, TRUE), FALSE)}
=============================================================================
