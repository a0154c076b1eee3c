----------------------------- MODULE MCServices -----------------------------
(***************************************************************************)
(* Small instances of the services that share no state with one another,   *)
(* checked by one run.  The initial state says which of them is at work,   *)
(* and the variables of the others stay NULL.                              *)
(***************************************************************************)
EXTENDS Services, TLC

-----------------------------------------------------------------------------
(* Quota: one member, two accounts and one of the rest.                    *)

OneMember == [c \in Client |-> "m1"]
SmallQuotas == [k \in Kind |-> IF k = "accounts" THEN 2 ELSE 1]

-----------------------------------------------------------------------------
(* Members: one who has an address, another who may sign up.  RateLimit:   *)
(* two requests at once that draw on one address, which has one point.     *)

FirstAddresses == {"m1" :> "e1" @@ "m2" :> NULL}

OneKey == {<<"ip">>}
OnePoint == [k \in Key |-> 1]

-----------------------------------------------------------------------------
(* Interval: anchors at the ends of months, short and leap ones included.  *)

Rules ==
  {[anchor |-> anchor, unit |-> interval[1], value |-> interval[2], limit |-> limit] :
     anchor \in {<<2023, 1, 31>>, <<2024, 2, 29>>},
     interval \in {<<"day", 200>>, <<"week", 30>>, <<"month", 1>>, <<"month", 5>>, <<"year", 1>>},
     limit \in {NULL, <<2024, 3, 30>>}}

Days == {<<2023, 2, 28>>, <<2024, 2, 28>>, <<2024, 3, 31>>, <<2025, 3, 1>>}
FarDay == <<2029, 12, 31>>

-----------------------------------------------------------------------------
(* RecordedMatch: rows with and without a reference or a label, of one     *)
(* name or two, apart by less than a tolerance and by more.                *)

RowOf(date, name, label, reference, transfer) ==
  [date |-> date, amount |-> 1, name |-> name, label |-> label, reference |-> reference,
   transfer |-> transfer]

RecordedRow(row, reconciled) ==
  [date |-> row.date, amount |-> row.amount, name |-> row.name, label |-> row.label,
   reference |-> row.reference, transfer |-> row.transfer, reconciled |-> reconciled]

FileRows ==
  {RowOf(10, "shop", "pos", NULL, FALSE), RowOf(12, "shop", "shop", "ref", FALSE),
   RowOf(40, "cafe", NULL, NULL, FALSE), RowOf(11, "bank", "virement", NULL, TRUE)}

RecordedRows ==
  {RecordedRow(RowOf(10, "shop", NULL, NULL, FALSE), FALSE),
   RecordedRow(RowOf(12, "shop", "pos", NULL, FALSE), TRUE),
   RecordedRow(RowOf(40, "cafe", "shop", "ref", FALSE), TRUE),
   RecordedRow(RowOf(9, "me", NULL, NULL, TRUE), FALSE)}

-----------------------------------------------------------------------------
(* Charts: months before, in and after a window; labels that tie, and none.*)

Currencies == [a \in {"current", "savings", "dollars"} |-> IF a = "dollars" THEN "USD" ELSE "EUR"]

EntryOf(account, month, label, amount) ==
  [account |-> account, month |-> month, label |-> label, amount |-> amount]

Entries ==
  {EntryOf("current", 0, 1, 5), EntryOf("current", 2, 2, 5), EntryOf("savings", 5, NULL, 3),
   EntryOf("savings", 4, 1, -2), EntryOf("dollars", 3, 2, -7)}

ReportOf(grouping, limit, linked) == [grouping |-> grouping, limit |-> limit, linked |-> linked]

Reports ==
  {ReportOf("month", 1, {}), ReportOf("quarter", 1, {"current", "dollars"}),
   ReportOf(ALL, 2, {"savings"})}

Windows == {2, ALL}

-----------------------------------------------------------------------------
(* One of them is at work.                                                 *)

Parts == {"quota", "interval", "match", "charts", "members", "rate_limit", "uploads"}

MCInit == part \in Parts /\ ServicesInit

MCSpec == MCInit /\ [][ServicesNext]_servicesVars /\ ServicesFairness
=============================================================================
