-------------------------------- MODULE Quota --------------------------------
(***************************************************************************)
(* Creating the things a member may hold only so many of.  A creation is   *)
(* checked by a statement on a connection of its own, then runs in a       *)
(* transaction that locks the member's row and, while it holds that row    *)
(* and the transaction's connection, counts what the member holds over     *)
(* another connection of the same pool.                                    *)
(*                                                                         *)
(* A statement outside a transaction is one step, which takes a connection *)
(* and gives it back; a transaction keeps its connection.  A member has    *)
(* one bank here: whatever two requests lock, they lock the same row.      *)
(***************************************************************************)
EXTENDS Naturals, Sequences, FiniteSets

CONSTANTS
  Member,
  Client, ClientOf,   \* requests in flight at once, and whose they are
  PoolSize,           \* connections of the pool
  Quota,              \* MEMBER_QUOTAS
  NULL

Kind == {"banks", "accounts", "schedulers", "reports"}

ASSUME QuotaAssumption ==
  /\ IsFiniteSet(Client) /\ ClientOf \in [Client -> Member]
  /\ PoolSize \in Nat \ {0} /\ Quota \in [Kind -> Nat]
  /\ NULL \notin Kind

VARIABLES
  held,      \* how many of each kind a member holds
  kind,      \* what each request is to create
  pc,        \* what it does next
  pending,   \* the requests waiting for a connection, first come first served
  inTx,      \* those whose transaction holds one
  memberRow, bankRow   \* those that locked the row of their member, of its bank

rows == <<memberRow, bankRow>>
vars == <<held, kind, pc, pending, inTx, rows>>

Init ==
  /\ held = [m \in Member |-> [k \in Kind |-> 0]]
  /\ kind = [c \in Client |-> NULL]
  /\ pc = [c \in Client |-> "idle"]
  /\ pending = <<>> /\ inTx = {} /\ memberRow = {} /\ bankRow = {}

-----------------------------------------------------------------------------
(* Connections and row locks.                                              *)

\* The pool has a connection for c.
Granted(c) == pending # <<>> /\ Head(pending) = c /\ Cardinality(inTx) < PoolSize

Goes(c, label) == pc' = [pc EXCEPT ![c] = label]

\* c queues for a connection again, or for the first time.
Queues(c, label, others) == Goes(c, label) /\ pending' = Append(others, c)

\* A row that another request of c's member holds.
Taken(row, c) == \E d \in row \ {c} : ClientOf[d] = ClientOf[c]

\* What goes out of a member's reach with a thing of kind k.
Under(k) ==
  {l \in Kind : <<k, l>> \in {<<"banks", "accounts">>, <<"banks", "schedulers">>,
                              <<"accounts", "schedulers">>}}

\* There may be a bank, or an account, to create in.
Reachable(c) == \A k \in Kind : kind[c] \in Under(k) => held[ClientOf[c]][k] > 0

\* The transaction of c ends: with it its connection and its locks go.
Ends(c) ==
  /\ Goes(c, "idle") /\ kind' = [kind EXCEPT ![c] = NULL]
  /\ inTx' = inTx \ {c} /\ memberRow' = memberRow \ {c} /\ bankRow' = bankRow \ {c}

-----------------------------------------------------------------------------
(* One creation.                                                           *)

\* A bank is created by its name: there is nothing to check.
Ask(c, k) ==
  /\ pc[c] = "idle"
  /\ kind' = [kind EXCEPT ![c] = k]
  /\ Queues(c, IF k = "banks" THEN "begin" ELSE "check", pending)
  /\ UNCHANGED <<held, inTx, rows>>

\* The bank or the account it names may not be the member's, or not active.
Check(c) ==
  /\ pc[c] = "check" /\ Granted(c)
  /\ \/ Reachable(c) /\ Queues(c, "begin", Tail(pending)) /\ UNCHANGED <<kind, inTx, rows>>
     \/ kind[c] # "reports" /\ Ends(c) /\ pending' = Tail(pending)
  /\ UNCHANGED held

\* A scheduler's account and bank are locked before the member, a new
\* account's bank after.
Begin(c) ==
  /\ pc[c] = "begin" /\ Granted(c)
  /\ Goes(c, IF kind[c] = "schedulers" THEN "lock_bank" ELSE "lock_member")
  /\ pending' = Tail(pending) /\ inTx' = inTx \cup {c}
  /\ UNCHANGED <<held, kind, rows>>

\* The bank, or the scheduler's account, may have gone inactive since.
LockBank(c) ==
  /\ pc[c] = "lock_bank" /\ ~Taken(bankRow, c)
  /\ \/ /\ Reachable(c)
        /\ Goes(c, IF kind[c] = "schedulers" THEN "lock_member" ELSE "insert")
        /\ bankRow' = bankRow \cup {c}
        /\ UNCHANGED <<kind, inTx, memberRow>>
     \/ Ends(c)
  /\ UNCHANGED <<held, pending>>

\* Mutant: the member's row is read, not locked.
ReadMember(c) ==
  /\ pc[c] = "lock_member"
  /\ Queues(c, "count", pending)
  /\ UNCHANGED <<held, kind, inTx, rows>>

LockMember(c) ==
  /\ pc[c] = "lock_member" /\ ~Taken(memberRow, c)
  /\ memberRow' = memberRow \cup {c}
  /\ Queues(c, "count", pending)
  /\ UNCHANGED <<held, kind, inTx, bankRow>>

\* The count runs on the pool, not on the transaction's connection.
Count(c) ==
  /\ pc[c] = "count" /\ Granted(c)
  /\ pending' = Tail(pending)
  /\ IF held[ClientOf[c]][kind[c]] < Quota[kind[c]]
       THEN /\ Goes(c, IF kind[c] = "accounts" THEN "lock_bank" ELSE "insert")
            /\ UNCHANGED <<kind, inTx, rows>>
       ELSE Ends(c)
  /\ UNCHANGED held

Insert(c) ==
  /\ pc[c] = "insert"
  /\ held' = [held EXCEPT ![ClientOf[c]][kind[c]] = @ + 1]
  /\ Ends(c)
  /\ UNCHANGED pending

\* Mutant: a statement waits for its row for ever.
NeverCancelled(c) == FALSE /\ UNCHANGED vars

\* A statement that waits for a row is cancelled, by the deadlock detector
\* or by statement_timeout.  Nothing ends the wait for a connection.
Cancelled(c) ==
  /\ \/ pc[c] = "lock_member" /\ Taken(memberRow, c)
     \/ pc[c] = "lock_bank" /\ Taken(bankRow, c)
  /\ Ends(c)
  /\ UNCHANGED <<held, pending>>

\* One is deleted.  What was in it is out of reach, and what was in that: a
\* scheduler that is left is in an account that is left.  Its row is updated,
\* which waits for those who locked it: what they create in is left too.
Remove(m, k) ==
  /\ held[m][k] > 0
  /\ \E left \in [Under(k) -> 0 .. Quota["accounts"] + Quota["schedulers"]] :
       /\ \A l \in Under(k) : left[l] <= IF held[m][k] = 1 THEN 0 ELSE held[m][l]
       /\ \A l \in Under(k) : left[l] = 0 => \A j \in Under(l) : left[j] = 0
       /\ held' = [held EXCEPT ![m] =
                     [l \in Kind |-> IF l = k THEN @[l] - 1
                                     ELSE IF l \in Under(k) THEN left[l] ELSE @[l]]]
  /\ UNCHANGED <<kind, pc, pending, inTx, rows>>
  /\ \A c \in bankRow : Reachable(c)'

-----------------------------------------------------------------------------

Step(c) ==
  \/ Check(c) \/ Begin(c) \/ LockBank(c) \/ LockMember(c)
  \/ Count(c) \/ Insert(c) \/ Cancelled(c)

Next ==
  \/ \E c \in Client : Step(c) \/ \E k \in Kind : Ask(c, k)
  \/ \E m \in Member, k \in Kind : Remove(m, k)

\* The database serves every statement that waits for nothing, and cancels
\* every other; nothing makes a member ask or delete.
Spec == Init /\ [][Next]_vars /\ \A c \in Client : WF_vars(Step(c))

-----------------------------------------------------------------------------
(* Properties.                                                             *)

\* Every variable has its type; a request waits for one connection at a time
\* and holds one, within the pool's number, exactly while its transaction
\* lasts.
TypeOK ==
  /\ held \in [Member -> [Kind -> Nat]] /\ kind \in [Client -> Kind \cup {NULL}]
  /\ pc \in [Client -> {"idle", "check", "begin", "lock_member", "count", "lock_bank",
                        "insert"}]
  /\ pending \in Seq(Client) /\ \A i, j \in DOMAIN pending : i # j => pending[i] # pending[j]
  /\ inTx = {c \in Client : pc[c] \in {"lock_member", "count", "lock_bank", "insert"}}
  /\ Cardinality(inTx) <= PoolSize
  /\ memberRow \subseteq inTx /\ bankRow \subseteq inTx

\* "concurrent creates of any kind queue up behind it and can't both pass
\* the count" (ownership.service.ts:93): a member never holds more of a kind
\* than its quota, whatever is created and deleted at once.
WithinQuota == \A m \in Member, k \in Kind : held[m][k] <= Quota[k]

\* The lock "pins the bank's active status until the insert commits"
\* (account.service.ts:77): no account is added to a bank that is deleted
\* meanwhile, no scheduler to an account.
CreatedInReach ==
  \A m \in Member, k \in Kind : \A l \in Under(k) : held[m][l] > 0 => held[m][k] > 0

\* A creation is answered, whatever it waits for.
CreationsEnd == \A c \in Client : pc[c] # "idle" ~> pc[c] = "idle"

\* No transaction holds one of "the pool's few connections -- which every
\* member's requests share -- indefinitely" (db.module.ts:11).
ConnectionsReturn == \A c \in Client : c \in inTx ~> c \notin inTx
=============================================================================
