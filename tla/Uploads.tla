------------------------------- MODULE Uploads -------------------------------
(***************************************************************************)
(* What a member has uploaded and not imported yet.  The store holds a     *)
(* file under a key that expires, and the member's files in a set sorted   *)
(* by when their hold ends: an upload past the limit evicts the oldest     *)
(* ones, in a second command, by the number it counted in the first.       *)
(***************************************************************************)
EXTENDS Naturals, FiniteSets

CONSTANTS
  Client,       \* uploads at once
  MaxUploads,   \* bounds the uploads; the n-th saved has the id n, in the order of scores
  MAX_PENDING_IMPORTS

VARIABLES
  files,      \* the uploads whose file is held
  pending,    \* the member's set of them
  given,      \* the last id given
  task,       \* what each client's upload does next, with what
  cut         \* one ended before it evicted, and none was saved since

vars == <<files, pending, given, task, cut>>

UploadsAssumption == MaxUploads \in Nat /\ MAX_PENDING_IMPORTS \in Nat

Idle == [pc |-> "idle", count |-> 0, oldest |-> {}]

Init ==
  /\ files = {} /\ pending = {} /\ given = 0
  /\ task = [c \in Client |-> Idle] /\ cut = FALSE

Done(c) == task' = [task EXCEPT ![c] = Idle]

\* One command of the store: the file, the set without what expired, the count.
Save(c) ==
  /\ task[c].pc = "idle" /\ given < MaxUploads
  /\ given' = given + 1 /\ cut' = FALSE
  /\ files' = files \cup {given'}
  /\ pending' = (pending \cap files) \cup {given'}
  /\ LET held == Cardinality(pending') IN
     IF held > MAX_PENDING_IMPORTS
     THEN task' = [task EXCEPT ![c].pc = "read", ![c].count = held - MAX_PENDING_IMPORTS]
     ELSE UNCHANGED task

\* The ids at the ranks below count: they end before those that are left.
FirstRanks(ids, count) ==
  /\ Cardinality(ids) = IF count < Cardinality(pending) THEN count ELSE Cardinality(pending)
  /\ \A u \in ids, v \in pending \ ids : u < v

\* Mutant: one only, whatever the upload counted.
OldestOne(ids, count) == FirstRanks(ids, 1)

\* The ids to evict: as many of the oldest as the upload counted too many.
Oldest(ids, count) == FirstRanks(ids, count)

ReadOldest(c) ==
  /\ task[c].pc = "read"
  /\ \E oldest \in SUBSET pending :
       /\ Oldest(oldest, task[c].count)
       /\ IF oldest = {} THEN Done(c)
          ELSE task' = [task EXCEPT ![c].pc = "evict", ![c].oldest = oldest]
  /\ UNCHANGED <<files, pending, given, cut>>

Evict(c) ==
  /\ task[c].pc = "evict"
  /\ files' = files \ task[c].oldest /\ pending' = pending \ task[c].oldest
  /\ Done(c) /\ UNCHANGED <<given, cut>>

\* A command fails, or the process dies: the upload stays held.
Stop(c) ==
  /\ task[c].pc # "idle" /\ Done(c) /\ cut' = TRUE
  /\ UNCHANGED <<files, pending, given>>

\* The member cancels or imports the file.
Discard(u) ==
  /\ files' = files \ {u} /\ pending' = pending \ {u}
  /\ UNCHANGED <<given, task, cut>>

\* The file expires; the set forgets it at the next upload.
Expire(u) ==
  /\ u \in files /\ files' = files \ {u}
  /\ UNCHANGED <<pending, given, task, cut>>

Next ==
  \/ \E c \in Client : Save(c) \/ ReadOldest(c) \/ Evict(c) \/ Stop(c)
  \/ \E u \in files \cup pending : Discard(u) \/ Expire(u)

Spec == Init /\ [][Next]_vars

-----------------------------------------------------------------------------
(* Properties.                                                             *)

\* Once no upload is being answered, no more files are held than a member may
\* have waiting, however many uploads evicted at once, unless one was cut short
\* and no other came since; and the set names them all.
UploadsLimited ==
  /\ (~cut /\ \A c \in Client : task[c] = Idle) => Cardinality(files) <= MAX_PENDING_IMPORTS
  /\ files \subseteq pending
=============================================================================
