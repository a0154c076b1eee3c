------------------------------ MODULE MCLedger ------------------------------
(* Small instances of Ledger for TLC. *)
EXTENDS LedgerBooks, TLC

CONSTANTS m1, m2, b1, b2, a1, a2, a3, eur

\* One bank with three accounts in one currency.
OneOwner == [b \in Bank |-> m1]
OneBank == [a \in Account |-> b1]
OneCurrency == [a \in Account |-> eur]

\* Two banks of one member with one account each.
TwoBanks == (a1 :> b1 @@ a2 :> b2)

An(method, content, reconciled) ==
  [side |-> TypeOf(method), method |-> method, content |-> content,
   reconciled |-> reconciled]

\* The saves of a transfer and of a plain entry.
DebitEntries ==
  {An("transfer_debit", c, FALSE) : c \in Content}
    \cup {An("other_credit", CHOOSE c \in Content : TRUE, FALSE)}

\* A transfer may also be turned round.
BothWaysEntries ==
  DebitEntries \cup {An("transfer_credit", CHOOSE c \in Content : TRUE, FALSE)}

\* Transfers only: one without a target is as good as a plain entry.
TransferEntries == {e \in BothWaysEntries : e.method \in TransferMethod}

\* With one bank and one currency, accounts are interchangeable too.
OneBankSymmetry == Permutations(Operation) \cup Permutations(Account)
Symmetry == Permutations(Operation)
=============================================================================
