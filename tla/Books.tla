-------------------------------- MODULE Books --------------------------------
(***************************************************************************)
(* What the ledger promises a member: books of movements.  A movement of   *)
(* money is debited from one end and credited to the other.  An end is an  *)
(* operation of an account, or OUTSIDE.  A transfer between two accounts   *)
(* is one movement, in the books of both: there is no half of one to       *)
(* write, to move or to lose.  Only the deletion of an account, or of an   *)
(* operation, makes of a transfer a movement with the outside.             *)
(***************************************************************************)
CONSTANTS
  Account, Operation,
  GroupOf(_),   \* money moves within a group: a member's accounts in a currency
  OUTSIDE

VARIABLES
  live, open,   \* the accounts not deleted, and those that may be written to
  movements

books == <<live, open, movements>>

End == [account : Account, operation : Operation]

Ends(mv) == {mv.debit, mv.credit} \ {OUTSIDE}

\* Accounts a movement of a may be with.
Open(a) == {t \in open \ {a} : GroupOf(t) = GroupOf(a)}

Fresh(o) == \A mv \in movements : \A e \in Ends(mv) : e.operation # o

Init == live = {} /\ open = {} /\ movements = {}

-----------------------------------------------------------------------------
(* Accounts.                                                               *)

\* An account opens, with a movement from or to the outside or without one.
OpenAccount(a, opening) ==
  /\ a \in Account \ live
  /\ live' = live \cup {a} /\ open' = open \cup {a}
  /\ movements' = movements \cup opening
  /\ \A mv \in opening : \E o \in Operation : Ends(mv) = {[account |-> a, operation |-> o]}

Close(A) ==
  A # {} /\ open' = open \ A /\ UNCHANGED <<live, movements>>

\* A movement without the ends that are gone.
Without(mv, gone) ==
  [mv EXCEPT !.debit = IF @ \in gone THEN OUTSIDE ELSE @,
             !.credit = IF @ \in gone THEN OUTSIDE ELSE @]

Remaining(gone) ==
  {Without(mv, gone) : mv \in {m \in movements : ~ (Ends(m) \subseteq gone)}}

\* Accounts are deleted: a transfer stays in the books of the other one.
Delete(A) ==
  /\ A # {}
  /\ live' = live \ A /\ open' = open \ A
  /\ movements' = Remaining({e \in End : e.account \in A})

-----------------------------------------------------------------------------
(* Movements.                                                              *)

\* A movement is recorded in an open account, and in another one at once.
Record(mv) ==
  /\ UNCHANGED <<live, open>>
  /\ movements' = movements \cup {mv}
  /\ \E e \in Ends(mv) : /\ e.account \in open
                         /\ \A f \in Ends(mv) \ {e} : f.account \in Open(e.account)
  /\ \A e \in Ends(mv) : Fresh(e.operation)

\* A movement is rewritten from an end e in an open account, where it stays:
\* its other end stays too, leaves, moves to another account or comes new.
Rewrite(old, mv) ==
  /\ UNCHANGED <<live, open>>
  /\ movements' = (movements \ {old}) \cup {mv}
  /\ \E e \in Ends(old) \cap Ends(mv) :
       /\ e.account \in open
       /\ \A f \in Ends(mv) \ Ends(old) :
            /\ f.account \in Open(e.account)
            /\ Fresh(f.operation) \/ \E g \in Ends(old) \ {e} : f.operation = g.operation

\* Operations of open accounts are deleted: a transfer stays in the other book.
Erase(D) ==
  /\ D # {} /\ UNCHANGED <<live, open>>
  /\ \A mv \in movements : \A e \in Ends(mv) : e.operation \in D => e.account \in open
  /\ movements' = Remaining({e \in End : e.operation \in D})

\* The movement that an action writes is one of the next state.
Next ==
  \/ \E A \in SUBSET open : Close(A)
  \/ \E A \in SUBSET live : Delete(A)
  \/ \E a \in Account : OpenAccount(a, {}) \/ \E mv \in movements' : OpenAccount(a, {mv})
  \/ \E mv \in movements' : Record(mv) \/ \E old \in movements : Rewrite(old, mv)
  \/ \E D \in SUBSET {e.operation : e \in UNION {Ends(mv) : mv \in movements}} : Erase(D)

Spec == Init /\ [][Next]_books
=============================================================================
