---------------------------- MODULE ServiceProofs ----------------------------
(***************************************************************************)
(* Theorems about the services that module Services puts side by side, for *)
(* any members, requests, keys and uploads, any bounds, and any size of    *)
(* the pool, of the quotas and of the budgets: quotas, then uploads, rate  *)
(* limiting, addresses and dates.  Each service's invariant is kept by its *)
(* own steps, and its theorem follows for the services together.           *)
(***************************************************************************)
EXTENDS Services, FiniteSetTheorems, SequenceTheorems, WellFoundedInduction, TLAPS

-----------------------------------------------------------------------------
(* Quota.                                                                  *)

Label ==
  {"idle", "check", "begin", "lock_member", "count", "lock_bank", "insert"}

\* The types that the theorems need; the pool's queue plays no part in them.
RowsType ==
  /\ held \in [Member -> [Kind -> Nat]] /\ kind \in [Client -> Kind \cup {NULL}]
  /\ pc \in [Client -> Label]
  /\ memberRow \subseteq Client /\ bankRow \subseteq Client

\* A request that has been let through the count, and not been answered.
LetThrough(c) == pc[c] = "insert" \/ (pc[c] = "lock_bank" /\ kind[c] # "schedulers")

\* What a request does next is of the kind that it creates.
KindOfStep ==
  \A c \in Client :
    /\ pc[c] # "idle" => kind[c] \in Kind
    /\ pc[c] = "lock_bank" => kind[c] \in {"accounts", "schedulers"}

\* A member's row is locked from before the count to the end.
Counted ==
  /\ \A c \in Client : pc[c] = "count" \/ LetThrough(c) => c \in memberRow
  /\ \A c, d \in memberRow : ClientOf[c] = ClientOf[d] => c = d

\* Nothing is created between the count and the insertion that it lets through.
RoomLeft ==
  \A c \in Client : LetThrough(c) => held[ClientOf[c]][kind[c]] < Quota[kind[c]]

QuotaInv == RowsType /\ KindOfStep /\ Counted /\ RoomLeft /\ WithinQuota

LEMMA QuotaInit == Init => QuotaInv
BY QuotaAssumption
   DEF Init, QuotaInv, RowsType, Label, KindOfStep, Counted, RoomLeft, LetThrough, WithinQuota

\* A request that ends keeps nothing.
LEMMA EndsKeeps ==
  ASSUME QuotaInv, NEW c \in Client, Ends(c), UNCHANGED held
  PROVE  QuotaInv'
BY QuotaAssumption
   DEF Ends, Goes, QuotaInv, RowsType, Label, KindOfStep, Counted, RoomLeft, LetThrough,
       WithinQuota

LEMMA QuotaStep == QuotaInv /\ [Next]_vars => QuotaInv'
<1> SUFFICES ASSUME QuotaInv, [Next]_vars PROVE QuotaInv'
  OBVIOUS
<1> USE QuotaAssumption
<1> USE DEF QuotaInv, RowsType, Label, KindOfStep, Counted, RoomLeft, LetThrough, WithinQuota
<1>1. ASSUME NEW c \in Client, NEW k \in Kind, Ask(c, k) PROVE QuotaInv'
  BY <1>1 DEF Ask, Queues, Goes, rows
<1>2. ASSUME NEW c \in Client, Check(c) PROVE QuotaInv'
  BY <1>2, EndsKeeps DEF Check, Queues, Goes, rows
<1>3. ASSUME NEW c \in Client, Begin(c) PROVE QuotaInv'
  BY <1>3 DEF Begin, Goes, rows
<1>4. ASSUME NEW c \in Client, LockBank(c) PROVE QuotaInv'
  BY <1>4, EndsKeeps DEF LockBank, Goes
<1>5. ASSUME NEW c \in Client, LockMember(c) PROVE QuotaInv'
  BY <1>5 DEF LockMember, Queues, Goes, Taken
<1>6. ASSUME NEW c \in Client, Count(c) PROVE QuotaInv'
  BY <1>6, EndsKeeps DEF Count, Goes, rows
<1>7. ASSUME NEW c \in Client, Insert(c) PROVE QuotaInv'
  BY <1>7 DEF Insert, Ends, Goes
<1>8. ASSUME NEW c \in Client, Cancelled(c) PROVE QuotaInv'
  BY <1>8, EndsKeeps DEF Cancelled
<1>9. ASSUME NEW m \in Member, NEW k \in Kind, Remove(m, k) PROVE QuotaInv'
  BY <1>9 DEF Remove, rows, Under, Kind
<1>10. CASE UNCHANGED vars
  BY <1>10 DEF vars, rows
<1>11. QED
  BY <1>1, <1>2, <1>3, <1>4, <1>5, <1>6, <1>7, <1>8, <1>9, <1>10 DEF Next, Step

\* "Concurrent creates of any kind queue up behind it and can't both pass the
\* count": no member ever holds more of a kind than its quota, however many
\* requests create and delete at once and however many connections there are.
THEOREM NeverOverQuota == Spec => []WithinQuota
<1>1. QuotaInv => WithinQuota
  BY DEF QuotaInv
<1>2. QED
  BY QuotaInit, QuotaStep, <1>1, PTL DEF Spec

-----------------------------------------------------------------------------

\* What a request creates in is locked, and still there, from when it locks
\* it to the end.
Pinned ==
  \A c \in Client :
    /\ kind[c] = "accounts" /\ pc[c] = "insert" => c \in bankRow
    /\ kind[c] = "schedulers" /\ pc[c] \in {"lock_member", "count", "insert"} => c \in bankRow
    /\ c \in bankRow => pc[c] # "idle" /\ Reachable(c)

ReachInv == RowsType /\ KindOfStep /\ Pinned /\ CreatedInReach

\* Banks and reports are in nothing; what goes with what goes with a thing
\* goes with it too, and nothing is in itself.
LEMMA UnderFacts ==
  /\ \A k \in Kind : Under(k) \subseteq Kind \cap {"accounts", "schedulers"} /\ k \notin Under(k)
  /\ \A k \in Kind : \A l \in Under(k) : Under(l) \subseteq Under(k)
BY DEF Under, Kind

LEMMA ReachInit == Init => ReachInv
BY QuotaAssumption, UnderFacts
   DEF Init, ReachInv, RowsType, Label, KindOfStep, Pinned, CreatedInReach

LEMMA EndsPinned ==
  ASSUME ReachInv, NEW c \in Client, Ends(c), UNCHANGED held
  PROVE  ReachInv'
BY QuotaAssumption, UnderFacts
   DEF Ends, Goes, ReachInv, RowsType, Label, KindOfStep, Pinned, CreatedInReach, Reachable

LEMMA ReachStep == ReachInv /\ [Next]_vars => ReachInv'
<1> SUFFICES ASSUME ReachInv, [Next]_vars PROVE ReachInv'
  OBVIOUS
<1> USE QuotaAssumption, UnderFacts
<1> USE DEF ReachInv, RowsType, Label, KindOfStep, Pinned, CreatedInReach, Reachable
<1>1. ASSUME NEW c \in Client, NEW k \in Kind, Ask(c, k) PROVE ReachInv'
  BY <1>1 DEF Ask, Queues, Goes, rows
<1>2. ASSUME NEW c \in Client, Check(c) PROVE ReachInv'
  BY <1>2, EndsPinned DEF Check, Queues, Goes, rows
<1>3. ASSUME NEW c \in Client, Begin(c) PROVE ReachInv'
  BY <1>3 DEF Begin, Goes, rows
<1>4. ASSUME NEW c \in Client, LockBank(c) PROVE ReachInv'
  BY <1>4, EndsPinned DEF LockBank, Goes
<1>5. ASSUME NEW c \in Client, LockMember(c) PROVE ReachInv'
  BY <1>5 DEF LockMember, Queues, Goes, Taken
<1>6. ASSUME NEW c \in Client, Count(c) PROVE ReachInv'
  <2>1. CASE Ends(c)
    BY <1>6, <2>1, EndsPinned DEF Count
  <2>2. CASE /\ Goes(c, IF kind[c] = "accounts" THEN "lock_bank" ELSE "insert")
             /\ UNCHANGED <<held, kind, inTx, rows>>
    BY <1>6, <2>2 DEF Count, Goes, rows
  <2>3. QED
    BY <1>6, <2>1, <2>2 DEF Count
<1>7. ASSUME NEW c \in Client, Insert(c) PROVE ReachInv'
  <2>1. kind[c] \in Kind /\ pc[c] = "insert"
    BY <1>7 DEF Insert
  <2>2. Reachable(c)
    BY <2>1
  <2>3. (RowsType /\ KindOfStep)'
    BY <1>7, <2>1 DEF Insert, Ends, Goes
  <2>4. \A m \in Member, k \in Kind :
          held'[m][k] = IF m = ClientOf[c] /\ k = kind[c] THEN held[m][k] + 1 ELSE held[m][k]
    BY <1>7, <2>1 DEF Insert
  <2>5. CreatedInReach'
    BY <2>1, <2>2, <2>4
  <2>6. Pinned'
    BY <1>7, <2>1, <2>4 DEF Insert, Ends, Goes
  <2>7. QED
    BY <2>3, <2>5, <2>6
<1>8. ASSUME NEW c \in Client, Cancelled(c) PROVE ReachInv'
  BY <1>8, EndsPinned DEF Cancelled
<1>9. ASSUME NEW m \in Member, NEW k \in Kind, Remove(m, k) PROVE ReachInv'
  <2>1. PICK left \in [Under(k) -> 0 .. Quota["accounts"] + Quota["schedulers"]] :
          /\ \A l \in Under(k) : left[l] <= IF held[m][k] = 1 THEN 0 ELSE held[m][l]
          /\ \A l \in Under(k) : left[l] = 0 => \A j \in Under(l) : left[j] = 0
          /\ held' = [held EXCEPT ![m] =
                        [l \in Kind |-> IF l = k THEN @[l] - 1
                                        ELSE IF l \in Under(k) THEN left[l] ELSE @[l]]]
    BY <1>9 DEF Remove
  <2>2. held[m][k] > 0 /\ UNCHANGED <<kind, pc, rows>> /\ \A c \in bankRow : Reachable(c)'
    BY <1>9 DEF Remove
  <2>3. \A l \in Under(k) : left[l] \in Nat
    <3>1. "accounts" \in Kind /\ "schedulers" \in Kind
      BY DEF Kind
    <3>2. QED
      BY <2>1, <3>1
  <2>4. RowsType'
    BY <2>1, <2>2, <2>3 DEF rows
  <2>5. (KindOfStep /\ Pinned)'
    BY <2>2 DEF rows
  <2>6. ASSUME NEW n \in Member, NEW j \in Kind, NEW l \in Under(j), held'[n][l] > 0
        PROVE  held'[n][j] > 0
    <3>1. CASE n # m
      BY <2>1, <2>6, <3>1
    <3>2. CASE n = m /\ j = k
      BY <2>1, <2>2, <2>3, <2>6, <3>2
    <3>3. CASE n = m /\ j \in Under(k)
      BY <2>1, <2>2, <2>3, <2>6, <3>3
    <3>4. CASE n = m /\ j # k /\ j \notin Under(k)
      BY <2>1, <2>2, <2>3, <2>6, <3>4
    <3>5. QED
      BY <3>1, <3>2, <3>3, <3>4
  <2>7. QED
    BY <2>4, <2>5, <2>6
<1>10. CASE UNCHANGED vars
  BY <1>10 DEF vars, rows
<1>11. QED
  BY <1>1, <1>2, <1>3, <1>4, <1>5, <1>6, <1>7, <1>8, <1>9, <1>10 DEF Next, Step

\* The lock "pins the bank's active status until the insert commits": nothing
\* is ever left in a bank or an account that has been deleted.
THEOREM AlwaysInReach == Spec => []CreatedInReach
<1>1. ReachInv => CreatedInReach
  BY DEF ReachInv
<1>2. QED
  BY ReachInit, ReachStep, <1>1, PTL DEF Spec

-----------------------------------------------------------------------------
(* The services together.                                                  *)

\* Their steps are those of the one at work, or leave it alone.
LEMMA OneAtWork ==
  ASSUME [ServicesNext]_servicesVars
  PROVE  /\ part' = part
         /\ part = "uploads" => [Store!Next]_(Store!vars)
         /\ part = "rate_limit" => [Guard!Next]_(Guard!vars)
         /\ part = "members" => [Mail!Next]_(Mail!vars)
         /\ part = "interval" => [Dates!Next]_(Dates!vars)
         /\ part = "match" => [Match!Next]_(Match!vars)
         /\ part = "charts" => [Drawn!Next]_(Drawn!vars)
BY DEF ServicesNext, CreateAndRemove, RegisterAndChange, Throttle, Hold, Occur, MatchAndImport,
       Draw, At, servicesVars, store, guard, members, dates, match, drawn, Store!vars,
       Guard!vars, Guard!store, Guard!watch, Guard!lockouts, Mail!vars, Mail!rows, Mail!mail,
       Dates!vars, Match!vars, Drawn!vars

-----------------------------------------------------------------------------
(* Uploads.                                                                *)

UploadTask == [pc : {"idle", "read", "evict"}, count : Nat, oldest : SUBSET Nat]

UploadsType ==
  /\ given \in Nat
  /\ waiting \subseteq 1 .. given /\ files \subseteq waiting
  /\ task \in [Client -> UploadTask]

\* An upload on its way that evicts what is too many.
Evicts(c) ==
  \/ task[c].pc = "read" /\ Cardinality(waiting) <= MAX_PENDING_IMPORTS + task[c].count
  \/ task[c].pc = "evict" /\ Cardinality(waiting \ task[c].oldest) <= MAX_PENDING_IMPORTS

EvictionComes ==
  cut \/ Cardinality(waiting) <= MAX_PENDING_IMPORTS \/ \E c \in Client : Evicts(c)

UploadsInv == UploadsType /\ EvictionComes

\* The instance counts as this module does.
LEMMA StoreCardinality == \A S : Store!Cardinality(S) = Cardinality(S)
BY DEF Store!Cardinality, Cardinality

LEMMA WaitingIsFinite == UploadsType => IsFiniteSet(waiting)
<1> SUFFICES ASSUME UploadsType PROVE IsFiniteSet(waiting)
  OBVIOUS
<1>1. IsFiniteSet(1 .. given)
  BY FS_Interval DEF UploadsType
<1>2. waiting \in SUBSET (1 .. given)
  BY DEF UploadsType
<1>3. QED
  BY <1>1, <1>2, FS_Subset

\* Whatever leaves the set, as many or fewer stay.
LEMMA WaitingShrinks ==
  ASSUME UploadsType, waiting' \subseteq waiting
  PROVE  /\ IsFiniteSet(waiting) /\ Cardinality(waiting) \in Nat
         /\ IsFiniteSet(waiting') /\ Cardinality(waiting') \in Nat
         /\ Cardinality(waiting') <= Cardinality(waiting)
         /\ \A ids : /\ Cardinality(waiting \ ids) \in Nat
                     /\ Cardinality(waiting' \ ids) \in Nat
                     /\ Cardinality(waiting' \ ids) <= Cardinality(waiting \ ids)
<1>1. IsFiniteSet(waiting)
  BY WaitingIsFinite
<1>2. \A ids : IsFiniteSet(waiting \ ids) /\ waiting' \ ids \in SUBSET (waiting \ ids)
  BY <1>1, FS_Difference
<1>3. \A ids : /\ IsFiniteSet(waiting' \ ids)
               /\ Cardinality(waiting' \ ids) <= Cardinality(waiting \ ids)
  BY <1>2, FS_Subset
<1>4. IsFiniteSet(waiting') /\ Cardinality(waiting') <= Cardinality(waiting)
  BY <1>1, FS_Subset
<1>5. QED
  BY <1>1, <1>2, <1>3, <1>4, FS_CardinalityType

LEMMA UploadsInitial == Store!Init => UploadsInv
<1> SUFFICES ASSUME Store!Init PROVE UploadsInv
  OBVIOUS
<1>1. UploadsType
  BY DEF Store!Init, Store!Idle, UploadsType, UploadTask
<1>2. waiting = {} /\ MAX_PENDING_IMPORTS \in Nat
  BY UploadsAssumption DEF Store!Init, Store!UploadsAssumption
<1>3. QED
  BY <1>1, <1>2, FS_EmptySet DEF UploadsInv, EvictionComes

\* An upload counts what is held once it is: from then on it evicts the rest.
LEMMA SaveEvicts ==
  ASSUME UploadsInv, NEW c \in Client, Store!Save(c)
  PROVE  UploadsInv'
<1>1. given' = given + 1 /\ given \in Nat /\ cut' = FALSE
  BY DEF Store!Save, UploadsInv, UploadsType
<1>2. waiting' \subseteq 1 .. given' /\ files' \subseteq waiting'
  BY <1>1 DEF Store!Save, UploadsInv, UploadsType
<1>3. Cardinality(waiting') \in Nat /\ MAX_PENDING_IMPORTS \in Nat
  <2>1. IsFiniteSet(1 .. given') /\ waiting' \in SUBSET (1 .. given')
    BY <1>1, <1>2, FS_Interval
  <2>2. Cardinality(waiting') \in Nat
    BY <2>1, FS_Subset, FS_CardinalityType
  <2>3. QED
    BY <2>2, UploadsAssumption DEF Store!UploadsAssumption
<1>4. CASE Cardinality(waiting') > MAX_PENDING_IMPORTS
  <2> DEFINE n == Cardinality(waiting') - MAX_PENDING_IMPORTS
  <2>1. task' = [task EXCEPT ![c].pc = "read", ![c].count = n]
    BY <1>4, StoreCardinality DEF Store!Save
  <2>2. n \in Nat /\ Cardinality(waiting') <= MAX_PENDING_IMPORTS + n
    BY <1>3, <1>4
  <2> HIDE DEF n
  <2>3. task \in [Client -> UploadTask] /\ task' \in [Client -> UploadTask]
        /\ task'[c].pc = "read" /\ task'[c].count = n
    BY <2>1, <2>2 DEF UploadsInv, UploadsType, UploadTask
  <2>4. UploadsType'
    BY <1>1, <1>2, <2>3 DEF UploadsType
  <2>5. Evicts(c)'
    BY <2>2, <2>3 DEF Evicts
  <2>6. QED
    BY <2>4, <2>5 DEF UploadsInv, EvictionComes
<1>5. CASE Cardinality(waiting') <= MAX_PENDING_IMPORTS
  <2>1. task' = task
    BY <1>3, <1>5, StoreCardinality DEF Store!Save
  <2>2. UploadsType'
    BY <1>1, <1>2, <2>1 DEF UploadsInv, UploadsType
  <2>3. QED
    BY <1>5, <2>2 DEF UploadsInv, EvictionComes
<1>6. QED
  BY <1>3, <1>4, <1>5

\* The oldest that an upload reads are as many as it counted, or all.
LEMMA ReadEvicts ==
  ASSUME UploadsInv, NEW c \in Client, Store!ReadOldest(c)
  PROVE  UploadsInv'
<1>1. PICK oldest \in SUBSET waiting :
        /\ Store!Oldest(oldest, task[c].count)
        /\ IF oldest = {} THEN Store!Done(c)
           ELSE task' = [task EXCEPT ![c].pc = "evict", ![c].oldest = oldest]
  BY DEF Store!ReadOldest
<1>2. task[c].pc = "read" /\ UNCHANGED <<files, waiting, given, cut>>
  BY DEF Store!ReadOldest
<1>3. UploadsType'
  BY <1>1, <1>2 DEF Store!Done, Store!Idle, UploadsInv, UploadsType, UploadTask
<1>4. IsFiniteSet(waiting) /\ Cardinality(waiting) \in Nat
  BY <1>2, WaitingShrinks DEF UploadsInv
<1>5. IsFiniteSet(oldest) /\ Cardinality(oldest) \in Nat
      /\ Cardinality(waiting \ oldest) = Cardinality(waiting) - Cardinality(oldest)
  <2>1. IsFiniteSet(oldest) /\ waiting \cap oldest = oldest
    BY <1>4, FS_Subset
  <2>2. Cardinality(waiting \ oldest) = Cardinality(waiting) - Cardinality(waiting \cap oldest)
    BY <1>4, FS_Difference
  <2>3. QED
    BY <2>1, <2>2, FS_CardinalityType
<1>6. Cardinality(oldest) = IF task[c].count < Cardinality(waiting)
                            THEN task[c].count ELSE Cardinality(waiting)
  BY <1>1, StoreCardinality DEF Store!Oldest, Store!FirstRanks
<1>7. task[c].count \in Nat /\ MAX_PENDING_IMPORTS \in Nat
  BY UploadsAssumption DEF Store!UploadsAssumption, UploadsInv, UploadsType, UploadTask
<1>8. ASSUME NEW d \in Client, Evicts(d), Cardinality(waiting) > MAX_PENDING_IMPORTS
      PROVE  Evicts(d)'
  <2>1. CASE d # c
    BY <1>1, <1>2, <1>8, <2>1 DEF Store!Done, Evicts, UploadsInv, UploadsType
  <2>2. CASE d = c
    <3>1. Cardinality(waiting) <= MAX_PENDING_IMPORTS + task[c].count
      BY <1>2, <1>8, <2>2 DEF Evicts
    <3>2. Cardinality(waiting \ oldest) <= MAX_PENDING_IMPORTS
      BY <1>4, <1>5, <1>6, <1>7, <3>1
    <3>3. oldest # {}
      BY <1>4, <1>6, <1>7, <1>8, <3>1, FS_EmptySet
    <3>4. task'[c].pc = "evict" /\ task'[c].oldest = oldest
      BY <1>1, <3>3 DEF UploadsInv, UploadsType, UploadTask
    <3>5. QED
      BY <1>2, <2>2, <3>2, <3>4 DEF Evicts
  <2>3. QED
    BY <2>1, <2>2
<1>9. EvictionComes'
  BY <1>2, <1>4, <1>7, <1>8 DEF UploadsInv, EvictionComes
<1>10. QED
  BY <1>3, <1>9 DEF UploadsInv

LEMMA EvictsStill ==
  ASSUME UploadsInv, waiting' \subseteq waiting,
         NEW c \in Client, Evicts(c), task'[c] = task[c]
  PROVE  Evicts(c)'
<1>1. task[c].count \in Nat /\ MAX_PENDING_IMPORTS \in Nat
  BY UploadsAssumption DEF Store!UploadsAssumption, UploadsInv, UploadsType, UploadTask
<1>2. /\ Cardinality(waiting) \in Nat /\ Cardinality(waiting') \in Nat
      /\ Cardinality(waiting') <= Cardinality(waiting)
      /\ Cardinality(waiting \ task[c].oldest) \in Nat
      /\ Cardinality(waiting' \ task[c].oldest) \in Nat
      /\ Cardinality(waiting' \ task[c].oldest) <= Cardinality(waiting \ task[c].oldest)
  BY WaitingShrinks DEF UploadsInv
<1>3. QED
  BY <1>1, <1>2 DEF Evicts

\* What leaves the set leaves those that evict as they were.
LEMMA LeavingKeeps ==
  ASSUME UploadsInv, waiting' \subseteq waiting, files' \subseteq waiting', given' = given,
         UNCHANGED <<task, cut>>
  PROVE  UploadsInv'
<1>1. UploadsType'
  BY DEF UploadsInv, UploadsType
<1>2. task \in [Client -> UploadTask] /\ MAX_PENDING_IMPORTS \in Nat
  BY UploadsAssumption DEF Store!UploadsAssumption, UploadsInv, UploadsType
<1>3. ASSUME NEW c \in Client, Evicts(c) PROVE Evicts(c)'
  BY <1>2, <1>3, EvictsStill
<1>4. EvictionComes'
  BY <1>2, <1>3, WaitingShrinks DEF UploadsInv, EvictionComes
<1>5. QED
  BY <1>1, <1>4 DEF UploadsInv

LEMMA EvictKeeps ==
  ASSUME UploadsInv, NEW c \in Client, Store!Evict(c)
  PROVE  UploadsInv'
<1>1. /\ task[c].pc = "evict"
      /\ files' = files \ task[c].oldest /\ waiting' = waiting \ task[c].oldest
      /\ task' = [task EXCEPT ![c] = Store!Idle]
      /\ UNCHANGED <<given, cut>>
  BY DEF Store!Evict, Store!Done
<1>2. UploadsType'
  BY <1>1 DEF Store!Idle, UploadsInv, UploadsType, UploadTask
<1>3. task \in [Client -> UploadTask] /\ MAX_PENDING_IMPORTS \in Nat
  BY UploadsAssumption DEF Store!UploadsAssumption, UploadsInv, UploadsType
<1>4. waiting' \subseteq waiting
  BY <1>1
<1>5. ASSUME NEW d \in Client, d # c, Evicts(d) PROVE Evicts(d)'
  BY <1>1, <1>3, <1>4, <1>5, EvictsStill
<1>6. Evicts(c) => Cardinality(waiting') <= MAX_PENDING_IMPORTS
  BY <1>1 DEF Evicts
<1>7. EvictionComes'
  BY <1>1, <1>3, <1>4, <1>5, <1>6, WaitingShrinks DEF UploadsInv, EvictionComes
<1>8. QED
  BY <1>2, <1>7 DEF UploadsInv

LEMMA UploadsStep == UploadsInv /\ [Store!Next]_(Store!vars) => UploadsInv'
<1> SUFFICES ASSUME UploadsInv, [Store!Next]_(Store!vars) PROVE UploadsInv'
  OBVIOUS
<1>1. ASSUME NEW c \in Client, Store!Stop(c) PROVE UploadsInv'
  BY <1>1 DEF Store!Stop, Store!Done, Store!Idle, UploadsInv, UploadsType, UploadTask,
              EvictionComes
<1>2. ASSUME NEW u, Store!Discard(u) PROVE UploadsInv'
  BY <1>2, LeavingKeeps DEF Store!Discard, UploadsInv, UploadsType
<1>3. ASSUME NEW u, Store!Expire(u) PROVE UploadsInv'
  BY <1>3, LeavingKeeps DEF Store!Expire, UploadsInv, UploadsType
<1>4. CASE UNCHANGED Store!vars
  BY <1>4, LeavingKeeps DEF Store!vars, UploadsInv, UploadsType
<1>5. QED
  BY <1>1, <1>2, <1>3, <1>4, SaveEvicts, ReadEvicts, EvictKeeps DEF Store!Next

\* Once every upload has evicted what it counted, no more wait than may.
LEMMA UploadsKeepLimit == UploadsInv => Store!UploadsLimited
<1> SUFFICES ASSUME UploadsInv, ~cut, \A c \in Client : task[c] = Store!Idle
             PROVE  Cardinality(files) <= MAX_PENDING_IMPORTS
  BY StoreCardinality DEF UploadsInv, UploadsType, Store!UploadsLimited
<1>1. Cardinality(waiting) <= MAX_PENDING_IMPORTS
  <2>1. \A c \in Client : ~ Evicts(c)
    BY DEF Evicts, Store!Idle
  <2>2. QED
    BY <2>1 DEF UploadsInv, EvictionComes
<1>2. IsFiniteSet(waiting) /\ files \in SUBSET waiting
  BY WaitingIsFinite DEF UploadsInv, UploadsType
<1>3. Cardinality(files) <= Cardinality(waiting)
      /\ Cardinality(files) \in Nat /\ Cardinality(waiting) \in Nat
  BY <1>2, FS_Subset, FS_CardinalityType
<1>4. QED
  BY <1>1, <1>3, UploadsAssumption DEF Store!UploadsAssumption

\* "The oldest are evicted": once nothing is on its way, a member has no more
\* files waiting than it may, for any uploads, expiries and cancellations at
\* once, unless the last upload was cut short (import.store.ts:102).
THEOREM UploadsAlwaysLimited == ServicesSpec => []UploadsLimited
<1> DEFINE PartInv == part = "uploads" => UploadsInv
<1>1. ServicesInit => PartInv
  BY UploadsInitial DEF ServicesInit
<1>2. PartInv /\ [ServicesNext]_servicesVars => PartInv'
  BY OneAtWork, UploadsStep
<1>3. PartInv => UploadsLimited
  BY UploadsKeepLimit DEF UploadsLimited
<1>4. QED
  BY <1>1, <1>2, <1>3, PTL DEF ServicesSpec

-----------------------------------------------------------------------------
(* Numbers, and functions defined by recursion on them.                    *)

\* A set of numbers that has the first, and with each the next, has them all.
LEMMA AllNaturals ==
  ASSUME NEW T \in SUBSET Nat, 0 \in T, \A n \in T : n + 1 \in T
  PROVE  T = Nat
<1> SUFFICES ASSUME Nat \ T # {} PROVE FALSE
  OBVIOUS
<1>1. \E n \in Nat \ T : \A k \in Nat \ T : ~ (<<k, n>> \in OpToRel(<, Nat))
  <2>1. Nat \ T \subseteq Nat
    OBVIOUS
  <2>2. QED
    BY <2>1, NatLessThanWellFounded, WFMin
<1>2. PICK n \in Nat \ T : \A k \in Nat \ T : ~ (k < n)
  BY <1>1 DEF OpToRel
<1>3. n # 0 /\ n - 1 \in Nat /\ n - 1 < n /\ (n - 1) + 1 = n
  BY <1>2
<1>4. n - 1 \in T
  BY <1>2, <1>3
<1>5. QED
  BY <1>3, <1>4

\* What each step makes of the step before it makes a function.
Iterated(S, base, next) ==
  \E f \in [Nat -> S] : f[0] = base /\ \A n \in Nat \ {0} : f[n] = next[n][f[n - 1]]

LEMMA FunctionByRecursion ==
  ASSUME NEW S, NEW base \in S, NEW next \in [Nat -> [S -> S]]
  PROVE  Iterated(S, base, next)
<1> DEFINE Starts(f, n) ==
             /\ f \in [Nat -> S] /\ f[0] = base
             /\ \A i \in 1 .. n : f[i] = next[i][f[i - 1]]
           T == {n \in Nat : \E f : Starts(f, n)}
<1>1. 0 \in T
  <2>1. Starts([n \in Nat |-> base], 0)
    OBVIOUS
  <2>2. QED
    BY <2>1
<1>2. ASSUME NEW n \in T PROVE n + 1 \in T
  <2>1. PICK f : Starts(f, n)
    OBVIOUS
  <2> DEFINE g == [f EXCEPT ![n + 1] = next[n + 1][f[n]]]
  <2>2. n \in Nat /\ n + 1 \in Nat /\ n + 1 # 0 /\ (n + 1) - 1 = n
    OBVIOUS
  <2>3. g \in [Nat -> S] /\ g[0] = base /\ g[n + 1] = next[n + 1][g[n]]
    BY <2>1, <2>2
  <2>4. ASSUME NEW i \in 1 .. n + 1 PROVE g[i] = next[i][g[i - 1]]
    <3>1. CASE i = n + 1
      BY <2>2, <2>3, <3>1
    <3>2. CASE i # n + 1
      <4>1. i \in 1 .. n /\ i - 1 # n + 1 /\ i \in Nat /\ i - 1 \in Nat
        BY <2>2, <3>2
      <4>2. g[i] = f[i] /\ g[i - 1] = f[i - 1]
        BY <2>1, <4>1, <3>2
      <4>3. QED
        BY <2>1, <4>1, <4>2
    <3>3. QED
      BY <3>1, <3>2
  <2>5. Starts(g, n + 1)
    BY <2>3, <2>4
  <2>6. QED
    BY <2>2, <2>5
<1>3. T = Nat
  <2> HIDE DEF T
  <2>1. T \in SUBSET Nat
    BY DEF T
  <2>2. QED
    BY <1>1, <1>2, <2>1, AllNaturals
<1> DEFINE start(n) == CHOOSE f : Starts(f, n)
           g == [n \in Nat |-> start(n)[n]]
<1>4. \A n \in Nat : Starts(start(n), n)
  BY <1>3
<1>5. ASSUME NEW m \in Nat, NEW n \in Nat, m <= n PROVE start(n)[m] = start(m)[m]
  <2> DEFINE U == {i \in Nat : i <= m => start(n)[i] = start(m)[i]}
  <2> HIDE DEF start
  <2>1. 0 \in U
    BY <1>4
  <2>2. ASSUME NEW i \in U PROVE i + 1 \in U
    <3> SUFFICES ASSUME i + 1 <= m PROVE start(n)[i + 1] = start(m)[i + 1]
      OBVIOUS
    <3>1. i + 1 \in 1 .. m /\ i + 1 \in 1 .. n /\ (i + 1) - 1 = i /\ i <= m
      BY <1>5
    <3>2. QED
      <4>1. /\ start(n)[i + 1] = next[i + 1][start(n)[i]]
            /\ start(m)[i + 1] = next[i + 1][start(m)[i]]
        BY <1>4, <3>1
      <4>2. QED
        BY <3>1, <4>1
  <2>3. U = Nat
    <3> HIDE DEF U
    <3>1. U \in SUBSET Nat
      BY DEF U
    <3>2. QED
      BY <2>1, <2>2, <3>1, AllNaturals
  <2>4. QED
    BY <1>5, <2>3
<1>6. g \in [Nat -> S] /\ g[0] = base
  <2> HIDE DEF start
  <2>1. \A n \in Nat : start(n)[n] \in S
    BY <1>4
  <2>2. QED
    BY <1>4, <2>1
<1>7. ASSUME NEW n \in Nat \ {0} PROVE g[n] = next[n][g[n - 1]]
  <2> HIDE DEF start
  <2>1. n - 1 \in Nat /\ n - 1 <= n /\ n \in 1 .. n
    OBVIOUS
  <2>2. start(n)[n - 1] = start(n - 1)[n - 1]
    BY <1>5, <2>1
  <2>3. QED
    BY <1>4, <2>1, <2>2
<1> HIDE DEF g
<1>8. QED
  BY <1>6, <1>7 DEF Iterated

-----------------------------------------------------------------------------
(* Rate limiting: powers of two, by which lockouts grow.                   *)

\* The function that the guard's model defines by recursion is there.
LEMMA PowersDefined ==
  Guard!PowerOfTwo = [n \in Nat |-> IF n = 0 THEN 1 ELSE 2 * Guard!PowerOfTwo[n - 1]]
<1> DEFINE twice == [n \in Nat |-> [power \in Nat |-> 2 * power]]
<1>1. PICK f \in [Nat -> Nat] : f[0] = 1 /\ \A n \in Nat \ {0} : f[n] = twice[n][f[n - 1]]
  <2>1. twice \in [Nat -> [Nat -> Nat]] /\ 1 \in Nat
    OBVIOUS
  <2> HIDE DEF twice
  <2>2. Iterated(Nat, 1, twice)
    BY <2>1, FunctionByRecursion
  <2>3. QED
    BY <2>2 DEF Iterated
<1>2. ASSUME NEW n \in Nat \ {0} PROVE f[n] = 2 * f[n - 1]
  <2>1. n - 1 \in Nat /\ f[n - 1] \in Nat
    BY <1>1
  <2>2. QED
    BY <1>1, <2>1
<1>3. f = [n \in Nat |-> IF n = 0 THEN 1 ELSE 2 * f[n - 1]]
  BY <1>1, <1>2
<1>4. QED
  BY <1>3 DEF Guard!PowerOfTwo

LEMMA PowersPositive ==
  /\ Guard!PowerOfTwo[0] = 1
  /\ \A n \in Nat : Guard!PowerOfTwo[n] \in Nat \ {0}
<1> DEFINE T == {n \in Nat : Guard!PowerOfTwo[n] \in Nat \ {0}}
<1>1. Guard!PowerOfTwo[0] = 1
  BY PowersDefined
<1>2. ASSUME NEW n \in T PROVE n + 1 \in T
  <2>1. n + 1 \in Nat /\ n + 1 # 0 /\ (n + 1) - 1 = n
    OBVIOUS
  <2>2. Guard!PowerOfTwo[n + 1] = 2 * Guard!PowerOfTwo[n]
    BY <2>1, PowersDefined
  <2>3. QED
    BY <2>1, <2>2
<1>3. 0 \in T /\ T \in SUBSET Nat
  BY <1>1
<1> HIDE DEF T
<1>4. T = Nat
  BY <1>2, <1>3, AllNaturals
<1>5. QED
  BY <1>1, <1>4 DEF T

LEMMA PowersGrow ==
  \A n \in Nat : \A m \in 0 .. n : Guard!PowerOfTwo[m] <= Guard!PowerOfTwo[n]
<1> DEFINE T == {n \in Nat : \A m \in 0 .. n : Guard!PowerOfTwo[m] <= Guard!PowerOfTwo[n]}
<1>1. 0 \in T /\ T \in SUBSET Nat
  BY PowersPositive
<1>2. ASSUME NEW n \in T PROVE n + 1 \in T
  <2>1. n \in Nat /\ n + 1 \in Nat /\ n + 1 # 0 /\ (n + 1) - 1 = n
    OBVIOUS
  <2>2. Guard!PowerOfTwo[n + 1] = 2 * Guard!PowerOfTwo[n]
    BY <2>1, PowersDefined
  <2>3. ASSUME NEW m \in 0 .. n + 1
        PROVE  Guard!PowerOfTwo[m] <= Guard!PowerOfTwo[n + 1]
    <3>1. CASE m = n + 1
      BY <2>1, <3>1, PowersPositive
    <3>2. CASE m \in 0 .. n
      <4>1. /\ Guard!PowerOfTwo[m] <= Guard!PowerOfTwo[n]
            /\ Guard!PowerOfTwo[m] \in Nat /\ Guard!PowerOfTwo[n] \in Nat
        BY <2>1, <3>2, PowersPositive
      <4>2. QED
        BY <2>2, <4>1
    <3>3. QED
      BY <2>1, <2>3, <3>1, <3>2
  <2>4. QED
    BY <2>1, <2>3
<1> HIDE DEF T
<1>3. T = Nat
  BY <1>1, <1>2, AllNaturals
<1>4. QED
  BY <1>3 DEF T

-----------------------------------------------------------------------------
(* Rate limiting.                                                          *)

Throttled ==
  [pc : {"idle", "look", "consume", "strike", "expire", "block"}, keys : Seq(Key), strike : Nat]

\* A request that is on its way has keys left, and counted a strike before it
\* locks out.
RequestsTyped ==
  /\ request \in [Request -> Throttled]
  /\ \A r \in Request :
       /\ request[r].pc # "idle" => request[r].keys # <<>>
       /\ request[r].pc \in {"expire", "block"} => request[r].strike > 0

KeysTyped ==
  /\ block \in [Key -> Nat] /\ quiet \in [Key -> 0 .. STRIKE_RESET]
  /\ strikes \in [Key -> [count : Nat, ttl : Int]]

\* Strikes have a time to live that is over once they were quiet for the reset
\* time, or wait for the request that counted the first to give them one.
StrikesExpire ==
  \A k \in Key : strikes[k].count > 0 =>
    \/ /\ strikes[k].ttl = Guard!Never
       /\ \/ k \in orphaned
          \/ \E r \in Request : request[r].pc = "expire" /\ Head(request[r].keys) = k
    \/ strikes[k].ttl > 0 /\ strikes[k].ttl + quiet[k] <= STRIKE_RESET

\* A lockout is no longer than the strike that it is for asks, and a request that
\* looked at its key after it was set found the key open.
LockoutsKnown ==
  /\ lockedBy \in [Key -> Nat]
  /\ \A k \in Key :
       block[k] > 0 => lockedBy[k] > 0 /\ block[k] <= Guard!BlockFor(lockedBy[k])
  /\ \A r \in Request, k \in Key :
       Guard!PastLook(r, k) /\ r \notin overtaken => block[k] = 0

GuardInv == RequestsTyped /\ KeysTyped /\ LockoutsKnown /\ StrikesExpire

\* A lockout is never shorter than that of an earlier strike.
LEMMA LockoutsGrow ==
  ASSUME NEW strike \in Nat, strike > 0, NEW later \in Nat, strike <= later
  PROVE  /\ Guard!BlockFor(strike) \in Nat /\ Guard!BlockFor(later) \in Nat
         /\ Guard!BlockFor(strike) <= Guard!BlockFor(later)
<1> DEFINE power == Guard!PowerOfTwo[strike - 1]
           laterPower == Guard!PowerOfTwo[later - 1]
<1>1. strike - 1 \in 0 .. later - 1 /\ strike - 1 \in Nat /\ later - 1 \in Nat
  OBVIOUS
<1>2. power \in Nat /\ laterPower \in Nat /\ power <= laterPower
  BY <1>1, PowersPositive, PowersGrow
<1>3. Guard!Doubled(strike) = Duration * power /\ Guard!Doubled(later) = Duration * laterPower
  BY DEF Guard!Doubled
<1>4. Duration \in Nat /\ MAX_BLOCK \in Nat
  BY RateLimitAssumption DEF Guard!RateLimitAssumption
<1> HIDE DEF power, laterPower
<1>5. /\ Duration * power \in Nat /\ Duration * laterPower \in Nat
      /\ Duration * power <= Duration * laterPower
  <2>1. PICK rest \in Nat : laterPower = power + rest
    <3>1. laterPower - power \in Nat /\ laterPower = power + (laterPower - power)
      BY <1>2
    <3>2. QED
      BY <3>1
  <2>2. /\ Duration * (power + rest) = Duration * power + Duration * rest
        /\ Duration * power \in Nat /\ Duration * rest \in Nat
    BY <1>2, <1>4
  <2>3. QED
    BY <1>2, <2>1, <2>2
<1>6. QED
  BY <1>3, <1>4, <1>5 DEF Guard!BlockFor

LEMMA GuardInitial == Guard!Init => GuardInv
BY RateLimitAssumption
   DEF Guard!RateLimitAssumption, Guard!Init, Guard!Idle, Guard!Nothing, GuardInv,
       RequestsTyped, Throttled, KeysTyped, LockoutsKnown, StrikesExpire,
       Guard!PastLook, Guard!At

\* Whether a request is past its look is up to its own entry.
LEMMA PastLookOf ==
  ASSUME NEW r \in Request, NEW k \in Key
  PROVE  /\ Guard!PastLook(r, k) <=>
              /\ request[r].pc \in {"consume", "strike", "expire", "block"}
              /\ k = Head(request[r].keys)
         /\ Guard!PastLook(r, k)' <=>
              /\ request'[r].pc \in {"consume", "strike", "expire", "block"}
              /\ k = Head(request'[r].keys)
BY DEF Guard!PastLook, Guard!At

\* What a request that neither locks out nor lets strikes expire does: it may go
\* past its look at a key that is open.
LEMMA RequestMoves ==
  ASSUME GuardInv, NEW r \in Request, request[r].pc # "expire",
         \A q \in Request \ {r} : request'[q] = request[q], RequestsTyped',
         UNCHANGED <<strikes, block, lockedBy, quiet, orphaned>>,
         overtaken' \in {overtaken, overtaken \ {r}},
         \A k \in Key :
           Guard!PastLook(r, k)' => block[k] = 0 \/ (Guard!PastLook(r, k) /\ UNCHANGED overtaken)
  PROVE  GuardInv'
<1>1. StrikesExpire'
  BY DEF GuardInv, StrikesExpire
<1>2. ASSUME NEW q \in Request, NEW k \in Key, Guard!PastLook(q, k)', q \notin overtaken'
      PROVE  block[k] = 0
  <2>1. CASE q = r
    BY <1>2, <2>1 DEF GuardInv, LockoutsKnown
  <2>2. CASE q # r
    <3>1. Guard!PastLook(q, k) /\ q \notin overtaken
      BY <1>2, <2>2, PastLookOf
    <3>2. QED
      BY <3>1 DEF GuardInv, LockoutsKnown
  <2>3. QED
    BY <2>1, <2>2
<1>3. LockoutsKnown'
  BY <1>2 DEF GuardInv, LockoutsKnown
<1>4. QED
  BY <1>1, <1>3 DEF GuardInv, KeysTyped

LEMMA IdleThrottled == Guard!Idle \in Throttled /\ Guard!Idle.pc = "idle"
BY DEF Guard!Idle, Throttled

\* A request that is answered, or goes on to what needs no strike.
LEMMA RequestsStayTyped ==
  ASSUME GuardInv, NEW r \in Request, request[r].pc # "idle",
         Guard!Answered(r) \/ Guard!Goes(r, "consume") \/ Guard!Goes(r, "strike")
  PROVE  RequestsTyped' /\ \A q \in Request \ {r} : request'[q] = request[q]
<1>1. CASE Guard!Answered(r)
  BY <1>1, IdleThrottled DEF Guard!Answered, GuardInv, RequestsTyped
<1>2. CASE Guard!Goes(r, "consume") \/ Guard!Goes(r, "strike")
  BY <1>2 DEF Guard!Goes, GuardInv, RequestsTyped, Throttled
<1>3. QED
  BY <1>1, <1>2

LEMMA ArriveKeeps ==
  ASSUME GuardInv, NEW r \in Request, NEW keys \in Dimensions, Guard!Arrive(r, keys)
  PROVE  GuardInv'
<1>1. keys \in Seq(Key) /\ keys # <<>>
  BY RateLimitAssumption DEF Guard!RateLimitAssumption
<1>2. request' = [request EXCEPT ![r].pc = "look", ![r].keys = keys]
  BY DEF Guard!Arrive
<1>3. RequestsTyped'
  BY <1>1, <1>2 DEF GuardInv, RequestsTyped, Throttled
<1>4. request'[r].pc = "look" /\ \A q \in Request \ {r} : request'[q] = request[q]
  BY <1>2 DEF GuardInv, RequestsTyped, Throttled
<1>5. \A k \in Key : ~ Guard!PastLook(r, k)'
  BY <1>4, PastLookOf
<1>6. QED
  BY <1>3, <1>4, <1>5, RequestMoves
     DEF Guard!Arrive, Guard!store, Guard!watch, Guard!lockouts

LEMMA LookKeeps ==
  ASSUME GuardInv, NEW r \in Request, NEW k \in Key, Guard!Look(r, k)
  PROVE  GuardInv'
<1>1. RequestsTyped' /\ \A q \in Request \ {r} : request'[q] = request[q]
  BY RequestsStayTyped DEF Guard!Look, Guard!At
<1>2. ASSUME NEW j \in Key, Guard!PastLook(r, j)' PROVE block[j] = 0
  <2>1. CASE Guard!Answered(r)
    BY <1>2, <2>1, PastLookOf DEF Guard!Answered, Guard!Idle, GuardInv, RequestsTyped
  <2>2. CASE block[k] <= 0 /\ Guard!Goes(r, "consume")
    <3>1. Head(request'[r].keys) = Head(request[r].keys)
      BY <2>2 DEF Guard!Goes, GuardInv, RequestsTyped, Throttled
    <3>2. j = k
      BY <1>2, <3>1, PastLookOf DEF Guard!Look, Guard!At
    <3>3. QED
      BY <2>2, <3>2 DEF GuardInv, KeysTyped
  <2>3. QED
    BY <2>1, <2>2 DEF Guard!Look, GuardInv, KeysTyped
<1>3. request[r].pc # "expire" /\ overtaken' \in {overtaken, overtaken \ {r}}
      /\ UNCHANGED <<strikes, block, lockedBy, quiet, orphaned>>
  BY DEF Guard!Look, Guard!At, Guard!store
<1>4. QED
  BY <1>1, <1>2, <1>3, RequestMoves

LEMMA ConsumeKeeps ==
  ASSUME GuardInv, NEW r \in Request, NEW k \in Key, Guard!Consume(r, k)
  PROVE  GuardInv'
<1>1. request[r].keys \in Seq(Key) /\ request[r].keys # <<>> /\ request[r].pc = "consume"
  BY DEF Guard!Consume, Guard!At, GuardInv, RequestsTyped, Throttled
<1>0. UNCHANGED <<strikes, block, lockedBy, overtaken, quiet, orphaned>>
  BY DEF Guard!Consume, Guard!watch, Guard!lockouts
<1>2. CASE Guard!Goes(r, "strike") \/ Guard!Answered(r)
  <2>1. RequestsTyped' /\ \A q \in Request \ {r} : request'[q] = request[q]
    BY <1>1, <1>2, RequestsStayTyped
  <2>2. ASSUME NEW j \in Key, Guard!PastLook(r, j)' PROVE Guard!PastLook(r, j)
    <3>1. CASE Guard!Answered(r)
      BY <2>2, <3>1, PastLookOf DEF Guard!Answered, Guard!Idle, GuardInv, RequestsTyped
    <3>2. CASE Guard!Goes(r, "strike")
      <4>1. Head(request'[r].keys) = Head(request[r].keys)
        BY <3>2 DEF Guard!Goes, GuardInv, RequestsTyped, Throttled
      <4>2. QED
        BY <1>1, <2>2, <4>1, PastLookOf
    <3>3. QED
      BY <1>2, <3>1, <3>2
  <2>3. QED
    BY <1>0, <1>1, <2>1, <2>2, RequestMoves
<1>3. CASE request' = [request EXCEPT ![r].pc = "look", ![r].keys = Tail(@)]
           /\ Len(request[r].keys) # 1
  <2> DEFINE rest == Tail(request[r].keys)
  <2>1. rest \in Seq(Key) /\ rest # <<>>
    <3>1. rest \in Seq(Key) /\ Len(rest) = Len(request[r].keys) - 1
      BY <1>1, HeadTailProperties
    <3>2. Len(request[r].keys) \in Nat
      BY <1>1, LenProperties
    <3> HIDE DEF rest
    <3>3. Len(rest) # 0
      BY <1>3, <3>1, <3>2
    <3>4. QED
      BY <3>1, <3>3, EmptySeq
  <2>2. request' = [request EXCEPT ![r].pc = "look", ![r].keys = rest]
    BY <1>3
  <2> HIDE DEF rest
  <2>3. RequestsTyped' /\ \A q \in Request \ {r} : request'[q] = request[q]
    BY <2>1, <2>2 DEF GuardInv, RequestsTyped, Throttled
  <2>4. request'[r].pc = "look"
    BY <2>2 DEF GuardInv, RequestsTyped, Throttled
  <2>5. \A j \in Key : ~ Guard!PastLook(r, j)'
    BY <2>4, PastLookOf
  <2>6. QED
    BY <1>0, <1>1, <2>3, <2>5, RequestMoves
<1>4. QED
  BY <1>2, <1>3 DEF Guard!Consume

\* The strike that starts the count is the one to let it expire, and others
\* start the reset time again.
LEMMA StrikeKeeps ==
  ASSUME GuardInv, NEW r \in Request, NEW k \in Key, Guard!Strike(r, k)
  PROVE  GuardInv'
<1> DEFINE old == strikes[k].count
           n == IF Guard!Doubled(old + 1) >= 2 * MAX_BLOCK THEN old ELSE old + 1
<1>1. strikes' = [strikes EXCEPT ![k] =
        IF @.count = 0 THEN [count |-> 1, ttl |-> Guard!Never] ELSE [@ EXCEPT !.count = n]]
  BY DEF Guard!Strike
<1>2. request' = [request EXCEPT ![r].pc = IF n = 1 THEN "expire" ELSE "block", ![r].strike = n]
  BY DEF Guard!Strike
<1>3. /\ request[r].pc = "strike" /\ k = Head(request[r].keys)
      /\ quiet' = [quiet EXCEPT ![k] = 0] /\ UNCHANGED <<block, lockedBy, overtaken, orphaned>>
  BY DEF Guard!Strike, Guard!At, Guard!Disturbed, Guard!lockouts
<1>4. old \in Nat /\ n \in {old, old + 1}
  BY DEF GuardInv, KeysTyped
<1>5. old = 0 => n = 1
  <2>1. Guard!Doubled(1) = Duration * Guard!PowerOfTwo[0]
    BY DEF Guard!Doubled
  <2>2. Guard!Doubled(1) = Duration /\ Duration \in Nat /\ MAX_BLOCK \in Nat
        /\ Duration < MAX_BLOCK
    BY <2>1, PowersPositive, RateLimitAssumption DEF Guard!RateLimitAssumption
  <2>3. QED
    BY <2>2
<1>6. n \in Nat /\ n > 0
  BY <1>4, <1>5
<1> HIDE DEF n
<1>7. RequestsTyped'
  BY <1>2, <1>3, <1>6 DEF GuardInv, RequestsTyped, Throttled
<1>8. KeysTyped'
  <2>1. Guard!Never \in Int /\ STRIKE_RESET \in Nat
    BY RateLimitAssumption DEF Guard!Never, Guard!RateLimitAssumption
  <2>2. strikes' \in [Key -> [count : Nat, ttl : Int]]
    BY <1>1, <1>6, <2>1 DEF GuardInv, KeysTyped
  <2>3. quiet' \in [Key -> 0 .. STRIKE_RESET]
    BY <1>3, <2>1 DEF GuardInv, KeysTyped
  <2>4. QED
    BY <1>3, <2>2, <2>3 DEF GuardInv, KeysTyped
<1>10. request'[r].keys = request[r].keys
       /\ (request'[r].pc = IF n = 1 THEN "expire" ELSE "block")
       /\ \A q \in Request \ {r} : request'[q] = request[q]
  BY <1>2 DEF GuardInv, RequestsTyped, Throttled
<1>11. ASSUME NEW j \in Key, strikes'[j].count > 0
       PROVE  \/ /\ strikes'[j].ttl = Guard!Never
                 /\ \/ j \in orphaned'
                    \/ \E q \in Request : request'[q].pc = "expire" /\ Head(request'[q].keys) = j
              \/ strikes'[j].ttl > 0 /\ strikes'[j].ttl + quiet'[j] <= STRIKE_RESET
  <2>1. CASE j # k
    <3>1. strikes'[j] = strikes[j] /\ quiet'[j] = quiet[j]
      BY <1>1, <1>3, <2>1 DEF GuardInv, KeysTyped
    <3>2. QED
      BY <1>3, <1>10, <1>11, <3>1 DEF GuardInv, StrikesExpire
  <2>2. CASE j = k /\ old = 0
    <3>1. strikes'[k] = [count |-> 1, ttl |-> Guard!Never]
      BY <1>1, <2>2 DEF GuardInv, KeysTyped
    <3>2. request'[r].pc = "expire" /\ Head(request'[r].keys) = k
      BY <1>3, <1>5, <1>10, <2>2
    <3>3. QED
      BY <2>2, <3>1, <3>2
  <2>3. CASE j = k /\ old # 0
    <3>1. strikes'[k].ttl = strikes[k].ttl /\ quiet'[k] = 0
          /\ quiet[k] \in Nat /\ strikes[k].ttl \in Int /\ old > 0
      BY <1>1, <1>3, <1>4, <2>3 DEF GuardInv, KeysTyped
    <3>2. CASE strikes[k].ttl > 0 /\ strikes[k].ttl + quiet[k] <= STRIKE_RESET
      <4>1. strikes[k].ttl + 0 <= STRIKE_RESET
        BY <3>1, <3>2, RateLimitAssumption DEF Guard!RateLimitAssumption
      <4>2. QED
        BY <2>3, <3>1, <3>2, <4>1
    <3>3. CASE /\ strikes[k].ttl = Guard!Never
               /\ \/ k \in orphaned
                  \/ \E q \in Request : request[q].pc = "expire" /\ Head(request[q].keys) = k
      BY <1>3, <1>10, <2>3, <3>1, <3>3
    <3>4. QED
      BY <3>1, <3>2, <3>3 DEF GuardInv, StrikesExpire
  <2>4. QED
    BY <2>1, <2>2, <2>3
<1>12. StrikesExpire'
  BY <1>11 DEF StrikesExpire
<1>13. \A q \in Request, j \in Key : Guard!PastLook(q, j)' => Guard!PastLook(q, j)
  BY <1>3, <1>10, PastLookOf
<1>14. LockoutsKnown'
  BY <1>3, <1>13 DEF GuardInv, LockoutsKnown
<1>15. QED
  BY <1>7, <1>8, <1>12, <1>14 DEF GuardInv

LEMMA ExpireKeeps ==
  ASSUME GuardInv, NEW r \in Request, NEW k \in Key, Guard!Expire(r, k)
  PROVE  GuardInv'
<1>1. /\ request[r].pc = "expire" /\ k = Head(request[r].keys)
      /\ strikes' = [strikes EXCEPT ![k] =
           IF @.count = 0 THEN @ ELSE [@ EXCEPT !.ttl = STRIKE_RESET]]
      /\ request' = [request EXCEPT ![r].pc = "block"]
      /\ quiet' = [quiet EXCEPT ![k] = 0] /\ UNCHANGED <<block, lockedBy, overtaken, orphaned>>
  BY DEF Guard!Expire, Guard!At, Guard!Goes, Guard!Disturbed, Guard!lockouts
<1>2. STRIKE_RESET \in Nat /\ STRIKE_RESET > 0
  BY RateLimitAssumption DEF Guard!RateLimitAssumption
<1>3. RequestsTyped'
  BY <1>1 DEF GuardInv, RequestsTyped, Throttled
<1>4. KeysTyped'
  BY <1>1, <1>2 DEF GuardInv, KeysTyped
<1>5. LockoutsKnown'
  <2>1. request'[r].keys = request[r].keys /\ \A q \in Request \ {r} : request'[q] = request[q]
    BY <1>1 DEF GuardInv, RequestsTyped, Throttled
  <2>2. \A q \in Request, j \in Key : Guard!PastLook(q, j)' => Guard!PastLook(q, j)
    BY <1>1, <2>1, PastLookOf
  <2>3. QED
    BY <1>1, <2>2 DEF GuardInv, LockoutsKnown
<1>6. ASSUME NEW j \in Key, strikes'[j].count > 0
      PROVE  \/ /\ strikes'[j].ttl = Guard!Never
                /\ \/ j \in orphaned'
                   \/ \E q \in Request : request'[q].pc = "expire" /\ Head(request'[q].keys) = j
             \/ strikes'[j].ttl > 0 /\ strikes'[j].ttl + quiet'[j] <= STRIKE_RESET
  <2>1. CASE j # k
    <3>1. strikes'[j] = strikes[j] /\ quiet'[j] = quiet[j]
          /\ \A q \in Request \ {r} : request'[q] = request[q]
      BY <1>1, <2>1 DEF GuardInv, KeysTyped, RequestsTyped
    <3>2. QED
      BY <1>1, <1>6, <2>1, <3>1 DEF GuardInv, StrikesExpire
  <2>2. CASE j = k
    <3>1. strikes'[k].ttl = STRIKE_RESET /\ quiet'[k] = 0
      BY <1>1, <1>6, <2>2 DEF GuardInv, KeysTyped
    <3>2. QED
      BY <1>2, <2>2, <3>1
  <2>3. QED
    BY <2>1, <2>2
<1>7. StrikesExpire'
  BY <1>6 DEF StrikesExpire
<1>8. QED
  BY <1>3, <1>4, <1>5, <1>7 DEF GuardInv

LEMMA BlockKeeps ==
  ASSUME GuardInv, NEW r \in Request, NEW k \in Key, Guard!Block(r, k)
  PROVE  GuardInv'
<1>1. /\ request[r].pc = "block"
      /\ block' = [block EXCEPT ![k] = Guard!BlockFor(request[r].strike)]
      /\ lockedBy' = [lockedBy EXCEPT ![k] = request[r].strike]
      /\ overtaken' = (overtaken \cup {q \in Request : Guard!PastLook(q, k)}) \ {r}
      /\ request' = [request EXCEPT ![r] = Guard!Idle]
      /\ UNCHANGED <<strikes, quiet, orphaned>>
  BY DEF Guard!Block, Guard!At, Guard!Answered
<1>2. request[r].strike \in Nat /\ request[r].strike > 0
  BY <1>1 DEF GuardInv, RequestsTyped, Throttled
<1>3. Guard!BlockFor(request[r].strike) \in Nat
  BY <1>2, LockoutsGrow
<1>4. RequestsTyped' /\ \A q \in Request \ {r} : request'[q] = request[q]
  BY <1>1 DEF GuardInv, RequestsTyped, Throttled, Guard!Idle
<1>5. KeysTyped'
  BY <1>1, <1>3 DEF GuardInv, KeysTyped
<1>6. LockoutsKnown'
  <2>1. lockedBy' \in [Key -> Nat]
    BY <1>1, <1>2 DEF GuardInv, LockoutsKnown
  <2>2. ASSUME NEW j \in Key, block'[j] > 0
        PROVE  lockedBy'[j] > 0 /\ block'[j] <= Guard!BlockFor(lockedBy'[j])
    <3>1. CASE j = k
      <4>1. block'[k] = Guard!BlockFor(request[r].strike) /\ lockedBy'[k] = request[r].strike
        BY <1>1 DEF GuardInv, KeysTyped, LockoutsKnown
      <4>2. QED
        BY <1>2, <1>3, <3>1, <4>1
    <3>2. CASE j # k
      BY <1>1, <2>2, <3>2 DEF GuardInv, KeysTyped, LockoutsKnown
    <3>3. QED
      BY <3>1, <3>2
  <2>3. ASSUME NEW q \in Request, NEW j \in Key, Guard!PastLook(q, j)', q \notin overtaken'
        PROVE  block'[j] = 0
    <3>1. q # r
      BY <1>1, <2>3, PastLookOf DEF Guard!Idle, GuardInv, RequestsTyped
    <3>2. Guard!PastLook(q, j)
      BY <1>4, <2>3, <3>1, PastLookOf
    <3>3. j # k /\ q \notin overtaken
      BY <1>1, <2>3, <3>1, <3>2
    <3>4. block'[j] = block[j]
      BY <1>1, <3>3 DEF GuardInv, KeysTyped
    <3>5. QED
      BY <3>2, <3>3, <3>4 DEF GuardInv, LockoutsKnown
  <2>4. QED
    BY <2>1, <2>2, <2>3 DEF LockoutsKnown
<1>7. StrikesExpire'
  BY <1>1, <1>4 DEF GuardInv, StrikesExpire
<1>8. QED
  BY <1>4, <1>5, <1>6, <1>7 DEF GuardInv

LEMMA StopKeeps ==
  ASSUME GuardInv, NEW r \in Request, Guard!Stop(r)
  PROVE  GuardInv'
<1>1. /\ request' = [request EXCEPT ![r] = Guard!Idle]
      /\ orphaned' = orphaned \cup
           (IF request[r].pc = "expire" THEN {Head(request[r].keys)} ELSE {})
      /\ UNCHANGED <<strikes, block, lockedBy, overtaken, quiet>>
  BY DEF Guard!Stop, Guard!Answered, Guard!store, Guard!lockouts
<1>2. RequestsTyped' /\ \A q \in Request \ {r} : request'[q] = request[q]
  BY <1>1 DEF GuardInv, RequestsTyped, Throttled, Guard!Idle
<1>3. KeysTyped' /\ LockoutsKnown'
  <2>1. request'[r].pc = "idle"
    BY <1>1 DEF GuardInv, RequestsTyped, Guard!Idle
  <2>2. \A q \in Request, k \in Key : Guard!PastLook(q, k)' => Guard!PastLook(q, k)
    BY <1>2, <2>1, PastLookOf
  <2>3. QED
    BY <1>1, <2>2 DEF GuardInv, KeysTyped, LockoutsKnown
<1>4. StrikesExpire'
  BY <1>1, <1>2 DEF GuardInv, StrikesExpire
<1>5. QED
  BY <1>2, <1>3, <1>4 DEF GuardInv

\* A tick brings strikes as much nearer to their end as it makes them quiet.
LEMMA TickKeeps ==
  ASSUME GuardInv, Guard!Tick
  PROVE  GuardInv'
<1>1. /\ strikes' = [k \in Key |-> Guard!Aged(strikes[k])]
      /\ block' = [k \in Key |-> Guard!Less(block[k])]
      /\ quiet' = [k \in Key |-> IF quiet[k] < STRIKE_RESET THEN quiet[k] + 1 ELSE quiet[k]]
      /\ orphaned' = {k \in orphaned : strikes'[k].count > 0}
      /\ request' = request /\ UNCHANGED <<lockedBy, overtaken>>
  BY DEF Guard!Tick, Guard!lockouts
<1>2. STRIKE_RESET \in Nat
  BY RateLimitAssumption DEF Guard!RateLimitAssumption
<1>3. RequestsTyped'
  BY <1>1 DEF GuardInv, RequestsTyped
<1>4. \A k \in Key :
        /\ block[k] \in Nat
        /\ quiet[k] \in 0 .. STRIKE_RESET
        /\ strikes[k] \in [count : Nat, ttl : Int]
  BY DEF GuardInv, KeysTyped
<1>5. \A k \in Key : Guard!Less(block[k]) \in Nat /\ Guard!Less(block[k]) <= block[k]
  BY <1>4 DEF Guard!Less
<1>6. \A entry \in [count : Nat, ttl : Int] :
        /\ Guard!Aged(entry) \in [count : Nat, ttl : Int]
        /\ entry.ttl = 1 => Guard!Aged(entry).count = 0
        /\ entry.ttl # 1 => Guard!Aged(entry).count = entry.count
        /\ entry.ttl > 1 => Guard!Aged(entry).ttl = entry.ttl - 1
        /\ entry.ttl = Guard!Never => Guard!Aged(entry).ttl = Guard!Never
  BY DEF Guard!Aged, Guard!Less, Guard!Nothing, Guard!Never
<1>7. KeysTyped'
  <2>1. quiet' \in [Key -> 0 .. STRIKE_RESET]
    BY <1>1, <1>2, <1>4
  <2>2. block' \in [Key -> Nat]
    BY <1>1, <1>5
  <2>3. strikes' \in [Key -> [count : Nat, ttl : Int]]
    BY <1>1, <1>4, <1>6
  <2>4. QED
    BY <2>1, <2>2, <2>3 DEF KeysTyped
<1>8. LockoutsKnown'
  <2>1. ASSUME NEW k \in Key, block'[k] > 0
        PROVE  lockedBy'[k] > 0 /\ block'[k] <= Guard!BlockFor(lockedBy'[k])
    <3>1. /\ block'[k] = Guard!Less(block[k]) /\ block[k] \in Nat
          /\ Guard!Less(block[k]) \in Nat /\ Guard!Less(block[k]) <= block[k]
      BY <1>1, <1>4, <1>5
    <3>2. /\ lockedBy[k] \in Nat /\ lockedBy[k] > 0
          /\ block[k] <= Guard!BlockFor(lockedBy[k])
      BY <2>1, <3>1 DEF GuardInv, LockoutsKnown
    <3>3. Guard!BlockFor(lockedBy[k]) \in Nat
      BY <3>2, LockoutsGrow
    <3>4. QED
      BY <1>1, <3>1, <3>2, <3>3
  <2>2. \A r \in Request, k \in Key : Guard!PastLook(r, k)' => Guard!PastLook(r, k)
    BY <1>1, PastLookOf
  <2>3. \A k \in Key : block[k] = 0 => block'[k] = 0
    BY <1>1, <1>4, <1>5
  <2>4. QED
    BY <1>1, <2>1, <2>2, <2>3 DEF GuardInv, LockoutsKnown
<1>9. ASSUME NEW k \in Key, strikes'[k].count > 0
      PROVE  \/ /\ strikes'[k].ttl = Guard!Never
                /\ \/ k \in orphaned'
                   \/ \E r \in Request : request'[r].pc = "expire" /\ Head(request'[r].keys) = k
             \/ strikes'[k].ttl > 0 /\ strikes'[k].ttl + quiet'[k] <= STRIKE_RESET
  <2>1. strikes'[k] = Guard!Aged(strikes[k]) /\ strikes[k] \in [count : Nat, ttl : Int]
    BY <1>1, <1>4
  <2>2. strikes[k].ttl # 1 /\ strikes[k].count > 0
    BY <1>6, <1>9, <2>1
  <2>3. CASE strikes[k].ttl > 0 /\ strikes[k].ttl + quiet[k] <= STRIKE_RESET
    <3>1. strikes'[k].ttl = strikes[k].ttl - 1
      BY <1>6, <2>1, <2>2, <2>3
    <3>2. quiet'[k] <= quiet[k] + 1 /\ quiet'[k] \in Nat /\ quiet[k] \in Nat
      BY <1>1, <1>2, <1>4
    <3>3. QED
      BY <1>2, <2>1, <2>2, <2>3, <3>1, <3>2
  <2>4. CASE /\ strikes[k].ttl = Guard!Never
             /\ \/ k \in orphaned
                \/ \E r \in Request : request[r].pc = "expire" /\ Head(request[r].keys) = k
    BY <1>1, <1>6, <1>9, <2>1, <2>4
  <2>5. QED
    BY <2>2, <2>3, <2>4 DEF GuardInv, StrikesExpire
<1>10. StrikesExpire'
  BY <1>9 DEF StrikesExpire
<1>11. QED
  BY <1>3, <1>7, <1>8, <1>10 DEF GuardInv

LEMMA GuardStep == GuardInv /\ [Guard!Next]_(Guard!vars) => GuardInv'
<1> SUFFICES ASSUME GuardInv, [Guard!Next]_(Guard!vars) PROVE GuardInv'
  OBVIOUS
<1>1. CASE UNCHANGED Guard!vars
  BY <1>1 DEF Guard!vars, Guard!store, Guard!watch, Guard!lockouts, GuardInv, RequestsTyped,
              KeysTyped, LockoutsKnown, StrikesExpire, Guard!PastLook, Guard!At
<1>2. QED
  BY <1>1, TickKeeps, StopKeeps, ArriveKeeps, LookKeeps, ConsumeKeeps, StrikeKeeps, ExpireKeeps,
     BlockKeeps
     DEF Guard!Next

LEMMA GuardInvariant == ServicesSpec => [](part = "rate_limit" => GuardInv)
<1> DEFINE PartInv == part = "rate_limit" => GuardInv
<1>1. ServicesInit => PartInv
  BY GuardInitial DEF ServicesInit
<1>2. PartInv /\ [ServicesNext]_servicesVars => PartInv'
  BY OneAtWork, GuardStep
<1>3. QED
  BY <1>1, <1>2, PTL DEF ServicesSpec

\* Only the end of a violation writes a lockout; the rest of the guard leaves
\* it, and time makes it wear off.
LEMMA BlockOrWearOff ==
  ASSUME GuardInv, [Guard!Next]_(Guard!vars)
  PROVE  \/ \E r \in Request, k \in Key : Guard!Block(r, k)
         \/ \A k \in Key : block'[k] \in Nat /\ block'[k] >= Guard!Less(block[k])
<1>1. \A k \in Key : block[k] \in Nat /\ Guard!Less(block[k]) \in Nat
                     /\ Guard!Less(block[k]) <= block[k]
  BY DEF GuardInv, KeysTyped, Guard!Less
<1>2. CASE Guard!Tick
  BY <1>1, <1>2 DEF Guard!Tick
<1>3. CASE UNCHANGED block
  BY <1>1, <1>3
<1>4. ASSUME NEW r \in Request,
             \/ Guard!Stop(r) \/ \E keys \in Dimensions : Guard!Arrive(r, keys)
             \/ \E k \in Key : \/ Guard!Look(r, k) \/ Guard!Consume(r, k)
                              \/ Guard!Strike(r, k) \/ Guard!Expire(r, k)
      PROVE  UNCHANGED block
  BY <1>4 DEF Guard!Stop, Guard!Arrive, Guard!Look, Guard!Consume, Guard!Strike, Guard!Expire,
              Guard!store
<1>5. QED
  BY <1>2, <1>3, <1>4 DEF Guard!Next, Guard!vars, Guard!store

LEMMA BlockCutsIfOvertaken ==
  ASSUME GuardInv, NEW r \in Request, NEW k \in Key, Guard!Block(r, k)
  PROVE  Guard!CutByOvertaken
<1>1. /\ Guard!At(r, "block", k) /\ request[r].pc = "block"
      /\ block' = [block EXCEPT ![k] = Guard!BlockFor(request[r].strike)]
      /\ request' = [request EXCEPT ![r] = Guard!Idle]
  BY DEF Guard!Block, Guard!At, Guard!Answered
<1>2. request[r].strike \in Nat /\ request[r].strike > 0
  BY <1>1 DEF GuardInv, RequestsTyped, Throttled
<1>3. SUFFICES ASSUME NEW j \in Key, block'[j] < Guard!Less(block[j])
               PROVE  \E q \in overtaken :
                        /\ Guard!At(q, "block", j) /\ request'[q] = Guard!Idle
                        /\ request[q].strike < lockedBy[j]
  BY DEF Guard!CutByOvertaken
<1>4. block[j] \in Nat /\ Guard!Less(block[j]) \in Nat /\ Guard!Less(block[j]) <= block[j]
  BY DEF GuardInv, KeysTyped, Guard!Less
<1>5. j = k /\ block'[k] = Guard!BlockFor(request[r].strike)
  BY <1>1, <1>3, <1>4 DEF GuardInv, KeysTyped
<1>6. Guard!BlockFor(request[r].strike) \in Nat
  BY <1>2, LockoutsGrow
<1>7. block[k] > 0
  BY <1>3, <1>4, <1>5, <1>6
<1>8. r \in overtaken
  <2>1. Guard!PastLook(r, k)
    BY <1>1 DEF Guard!PastLook
  <2>2. QED
    BY <1>7, <2>1 DEF GuardInv, LockoutsKnown
<1>9. request[r].strike < lockedBy[k]
  <2>1. lockedBy[k] \in Nat /\ lockedBy[k] > 0 /\ block[k] <= Guard!BlockFor(lockedBy[k])
    BY <1>7 DEF GuardInv, LockoutsKnown
  <2>2. CASE lockedBy[k] <= request[r].strike
    <3>1. /\ Guard!BlockFor(lockedBy[k]) \in Nat
          /\ Guard!BlockFor(lockedBy[k]) <= Guard!BlockFor(request[r].strike)
      BY <1>2, <2>1, <2>2, LockoutsGrow
    <3>2. QED
      BY <1>3, <1>4, <1>5, <1>6, <2>1, <3>1
  <2>3. QED
    BY <1>2, <2>1, <2>2
<1>10. QED
  BY <1>1, <1>5, <1>8, <1>9 DEF GuardInv, RequestsTyped

\* A lockout is made shorter only by a violation that had looked at the key before
\* the lockout was set and that counted an earlier strike than the one it is for,
\* however requests interleave or stop, for any keys, budgets, windows and
\* longest lockout (rate-limit.guard.ts:39).
THEOREM AlwaysCutByOvertaken == ServicesSpec => LockoutsCutByOvertaken
<1>1. ASSUME part = "rate_limit" => GuardInv, [ServicesNext]_servicesVars, part = "rate_limit"
      PROVE  Guard!CutByOvertaken
  <2>1. GuardInv /\ [Guard!Next]_(Guard!vars)
    BY <1>1, OneAtWork
  <2>2. CASE \E r \in Request, k \in Key : Guard!Block(r, k)
    BY <2>1, <2>2, BlockCutsIfOvertaken
  <2>3. CASE \A k \in Key : block'[k] \in Nat /\ block'[k] >= Guard!Less(block[k])
    <3>1. \A k \in Key : Guard!Less(block[k]) \in Nat
      BY <2>1 DEF GuardInv, KeysTyped, Guard!Less
    <3>2. \A k \in Key : ~ (block'[k] < Guard!Less(block[k]))
      BY <2>3, <3>1
    <3>3. QED
      BY <3>2 DEF Guard!CutByOvertaken
  <2>4. QED
    BY <2>1, <2>2, <2>3, BlockOrWearOff
<1>2. (part = "rate_limit" => GuardInv) /\ [ServicesNext]_servicesVars
        => [part = "rate_limit" => Guard!CutByOvertaken]_servicesVars
  BY <1>1
<1>3. QED
  BY <1>2, GuardInvariant, PTL DEF ServicesSpec, LockoutsCutByOvertaken

\* The strikes of a key that has been quiet for the reset time are gone, for any
\* keys and requests at once, unless the server stopped between counting the
\* first and saying when they expire (rate-limit.guard.ts:149).
THEOREM StrikesAlwaysForgotten == ServicesSpec => []StrikesAreForgotten
<1>1. ASSUME GuardInv PROVE Guard!StrikesAreForgotten
  <2>1. STRIKE_RESET \in Nat
    BY RateLimitAssumption DEF Guard!RateLimitAssumption
  <2> SUFFICES ASSUME NEW k \in Key, k \notin orphaned, quiet[k] >= STRIKE_RESET,
                      \A r \in Request :
                        request[r].pc = "expire" => k # Head(request[r].keys)
               PROVE  strikes[k].count = 0
    BY DEF Guard!StrikesAreForgotten
  <2>2. strikes[k].count \in Nat /\ strikes[k].ttl \in Int /\ quiet[k] \in Nat
    BY <1>1 DEF GuardInv, KeysTyped
  <2>3. ~ (strikes[k].ttl > 0 /\ strikes[k].ttl + quiet[k] <= STRIKE_RESET)
    BY <2>1, <2>2
  <2>4. ~ (strikes[k].count > 0)
    BY <1>1, <2>3 DEF GuardInv, StrikesExpire
  <2>5. QED
    BY <2>2, <2>4
<1>2. (part = "rate_limit" => GuardInv) => StrikesAreForgotten
  BY <1>1 DEF StrikesAreForgotten
<1>3. QED
  BY <1>2, GuardInvariant, PTL

-----------------------------------------------------------------------------
(* Members.                                                                *)

\* What a mail says, and a job asks.
Link == [type : {"change"}, member : Member, version : Nat]
Content == [type : {"sign_up", "notice"}] \cup Link
SignUpJob ==
  [kind : {"signup-request"}, to : Email, content : {NULL}, asked : Nat, tries : Nat]
SendJob == [kind : {"send"}, to : Email, content : Content, asked : Nat, tries : Nat]
MailJob == SignUpJob \cup SendJob

\* A change or a confirmation on its way.
Changing ==
  [pc : {"owner", "pend", "mail", "confirm"}, member : Member, to : Email, version : Nat,
   owner : Member \cup {NULL}]

RowsTyped ==
  /\ email \in [Member -> Email \cup {NULL}] /\ newEmail \in [Member -> Email \cup {NULL}]
  /\ version \in [Member -> Nat]

MailTyped ==
  /\ queue \in Seq(MailJob) /\ (job # NULL => job.job \in MailJob)
  /\ inbox \in [Email -> SUBSET Content]

ChangesTyped == change \in [Client -> {Mail!Idle} \cup Changing] /\ requests \in Nat

MembersInv == RowsTyped /\ MailTyped /\ ChangesTyped /\ Mail!AddressesUnique

LEMMA MembersInitial == Mail!Init => MembersInv
BY MembersAssumption
   DEF Mail!MembersAssumption, Mail!Init, MembersInv, RowsTyped, MailTyped, ChangesTyped,
       Mail!AddressesUnique

\* The job that the worker is at, again in the queue or done.
LEMMA JobTyped ==
  ASSUME MembersInv, job # NULL
  PROVE  /\ job.job \in MailJob /\ job.job.to \in Email /\ job.job.asked \in Nat
         /\ job.job.kind = "send" => job.job.content \in Content
         /\ [job.job EXCEPT !.tries = @ + 1] \in MailJob
BY DEF MembersInv, MailTyped, MailJob, SignUpJob, SendJob

LEMMA SendJobTyped ==
  ASSUME NEW e \in Email, NEW content \in Content, NEW number \in Nat
  PROVE  Mail!Job("send", e, content, number) \in MailJob
BY DEF Mail!Job, MailJob, SendJob

\* What keeps the rows and the changes.
LEMMA MailMoves ==
  ASSUME MembersInv, UNCHANGED <<email, newEmail, version, change>>, MailTyped', requests' \in Nat
  PROVE  MembersInv'
BY DEF MembersInv, RowsTyped, ChangesTyped, Mail!AddressesUnique

\* The mail that a resolved request queues.
LEMMA AnswerTyped ==
  ASSUME MembersInv, job # NULL
  PROVE  Mail!Answer \in MailJob
<1>1. PICK content \in Content :
        Mail!Answer = Mail!Job("send", job.job.to, content, job.job.asked)
  BY DEF Mail!Answer, Mail!Notice, Content
<1>2. QED
  BY <1>1, JobTyped, SendJobTyped

LEMMA WorkerKeeps ==
  ASSUME MembersInv, Mail!Worker \/ Mail!Refuse \/ Mail!WorkerDies
  PROVE  MembersInv'
<1>1. UNCHANGED <<email, newEmail, version, change, requests>>
  BY DEF Mail!Worker, Mail!TakeJob, Mail!Resolve, Mail!Send, Mail!Refuse, Mail!WorkerDies,
         Mail!rows, Mail!Fault
<1>2. queue \in Seq(MailJob) /\ inbox \in [Email -> SUBSET Content]
  BY DEF MembersInv, MailTyped
<1>3. ASSUME Mail!TakeJob PROVE MailTyped'
  <2>1. queue # <<>> /\ queue' = Tail(queue) /\ job'.job = Head(queue) /\ inbox' = inbox
    BY <1>3 DEF Mail!TakeJob
  <2>2. Head(queue) \in MailJob /\ Tail(queue) \in Seq(MailJob)
    BY <1>2, <2>1
  <2>3. QED
    BY <1>2, <2>1, <2>2 DEF MailTyped
<1>4. ASSUME Mail!Resolve PROVE MailTyped'
  <2>1. job # NULL /\ job' = NULL /\ inbox' = inbox /\ queue' = Append(queue, Mail!Answer)
    BY <1>4 DEF Mail!Resolve
  <2>2. Mail!Answer \in MailJob
    BY <2>1, AnswerTyped
  <2>3. QED
    BY <1>2, <2>1, <2>2 DEF MailTyped
<1>5. ASSUME Mail!Send PROVE MailTyped'
  BY <1>2, <1>5, JobTyped DEF Mail!Send, Mail!Delivers, MailTyped
<1>6. ASSUME Mail!Refuse PROVE MailTyped'
  <2> DEFINE tried == [job.job EXCEPT !.tries = @ + 1]
  <2>1. job # NULL /\ job' = NULL /\ inbox' = inbox
        /\ (queue' = Append(queue, tried) \/ queue' = queue)
    BY <1>6 DEF Mail!Refuse
  <2>2. tried \in MailJob
    BY <2>1, JobTyped
  <2> HIDE DEF tried
  <2>3. QED
    BY <1>2, <2>1, <2>2 DEF MailTyped
<1>7. ASSUME Mail!WorkerDies PROVE MailTyped'
  <2>1. /\ job # NULL /\ job' = NULL
        /\ queue' = Append(queue, job.job) \/ queue' = queue \o <<Mail!Answer, job.job>>
    BY <1>7 DEF Mail!WorkerDies
  <2>2. inbox' \in [Email -> SUBSET Content]
    BY <1>2, <1>7, <2>1, JobTyped DEF Mail!WorkerDies, Mail!Delivers
  <2>3. queue' \in Seq(MailJob)
    <3>1. job.job \in MailJob /\ <<Mail!Answer, job.job>> \in Seq(MailJob)
      BY <2>1, JobTyped, AnswerTyped
    <3> DEFINE both == <<Mail!Answer, job.job>>
    <3>2. Append(queue, job.job) \in Seq(MailJob) /\ queue \o both \in Seq(MailJob)
      <4> HIDE DEF both
      <4>1. \A q \in Seq(MailJob) : q \o both \in Seq(MailJob) \/ both \notin Seq(MailJob)
        OBVIOUS
      <4>2. both \in Seq(MailJob)
        BY <3>1 DEF both
      <4>3. QED
        BY <1>2, <3>1, <4>1, <4>2
    <3>3. QED
      BY <2>1, <3>2
  <2>4. QED
    BY <2>1, <2>2, <2>3 DEF MailTyped
<1>8. requests' \in Nat
  <2>1. requests \in Nat /\ requests' = requests
    BY <1>1 DEF MembersInv, ChangesTyped
  <2>2. QED
    BY <2>1
<1>9. QED
  BY <1>1, <1>3, <1>4, <1>5, <1>6, <1>7, <1>8, MailMoves DEF Mail!Worker

LEMMA RegisterKeeps ==
  ASSUME MembersInv, NEW e \in Email, Mail!Register(e)
  PROVE  MembersInv'
<1>1. queue' = Append(queue, Mail!Job("signup-request", e, NULL, requests'))
      /\ UNCHANGED <<email, newEmail, version, change, job, inbox>>
  BY DEF Mail!Register, Mail!Enqueued, Mail!rows
<1>2. requests' \in Nat
  BY DEF Mail!Register, Mail!AsksAgain, MembersInv, ChangesTyped
<1>3. Mail!Job("signup-request", e, NULL, requests') \in MailJob
  BY <1>2 DEF Mail!Job, MailJob, SignUpJob
<1>4. MailTyped'
  BY <1>1, <1>3 DEF MembersInv, MailTyped
<1>5. QED
  BY <1>1, <1>2, <1>4, MailMoves

\* A sign-up takes an address that nobody has.
LEMMA SignUpKeeps ==
  ASSUME MembersInv, NEW m \in Member, NEW e \in Email, Mail!SignUp(m, e)
  PROVE  MembersInv'
BY DEF Mail!SignUp, Mail!mail, MembersInv, RowsTyped, MailTyped, ChangesTyped,
       Mail!AddressesUnique

LEMMA OwnerTyped == \A e : Mail!findMemberByEmail(e) \in Member \cup {NULL}
BY DEF Mail!findMemberByEmail

\* What only moves a change on.
LEMMA ChangeMoves ==
  ASSUME MembersInv, ChangesTyped', UNCHANGED <<email, Mail!mail>>, RowsTyped'
  PROVE  MembersInv'
BY DEF MembersInv, MailTyped, Mail!mail, Mail!AddressesUnique

LEMMA ChangeKeeps ==
  ASSUME MembersInv, NEW c \in Client, Mail!FindOwner(c) \/ Mail!SetPending(c) \/ Mail!ChangeFails(c)
  PROVE  MembersInv'
<1>1. change \in [Client -> {Mail!Idle} \cup Changing] /\ RowsTyped /\ requests \in Nat
  BY DEF MembersInv, ChangesTyped
<1>2. CASE Mail!FindOwner(c)
  <2>1. change[c] \in Changing
    BY <1>1, <1>2 DEF Mail!FindOwner, Mail!Idle
  <2>2. ChangesTyped'
    BY <1>1, <1>2, <2>1, OwnerTyped DEF Mail!FindOwner, Changing, ChangesTyped
  <2>3. UNCHANGED <<email, newEmail, version, Mail!mail>>
    BY <1>2 DEF Mail!FindOwner, Mail!rows
  <2>4. QED
    BY <1>1, <2>2, <2>3, ChangeMoves DEF RowsTyped
<1>3. CASE Mail!SetPending(c)
  <2>1. change[c] \in Changing
    BY <1>1, <1>3 DEF Mail!SetPending, Mail!Idle
  <2>2. ChangesTyped'
    BY <1>1, <1>3, <2>1 DEF Mail!SetPending, Changing, ChangesTyped
  <2>3. RowsTyped' /\ UNCHANGED <<email, Mail!mail>>
    BY <1>1, <1>3, <2>1 DEF Mail!SetPending, RowsTyped, Changing
  <2>4. QED
    BY <2>2, <2>3, ChangeMoves
<1>4. CASE Mail!ChangeFails(c)
  BY <1>1, <1>4, ChangeMoves DEF Mail!ChangeFails, Mail!rows, RowsTyped, ChangesTyped
<1>5. QED
  BY <1>2, <1>3, <1>4

LEMMA ReadMemberKeeps ==
  ASSUME MembersInv, NEW c \in Client, NEW m \in Member, NEW e \in Email, Mail!ReadMember(c, m, e)
  PROVE  MembersInv'
<1>1. ChangesTyped'
  BY DEF Mail!ReadMember, Mail!AsksAgain, MembersInv, RowsTyped, ChangesTyped, Changing
<1>2. RowsTyped' /\ UNCHANGED <<email, Mail!mail>>
  BY DEF Mail!ReadMember, MembersInv, RowsTyped, Mail!rows
<1>3. QED
  BY <1>1, <1>2, ChangeMoves

LEMMA FollowKeeps ==
  ASSUME MembersInv, NEW c \in Client, NEW e \in Email, NEW link \in inbox[e],
         Mail!Follow(c, e, link)
  PROVE  MembersInv'
<1>1. link \in Link
  BY DEF Mail!Follow, MembersInv, MailTyped, Content, Link
<1>2. ChangesTyped'
  BY <1>1 DEF Mail!Follow, Mail!AsksAgain, MembersInv, ChangesTyped, Changing, Link
<1>3. RowsTyped' /\ UNCHANGED <<email, Mail!mail>>
  BY DEF Mail!Follow, MembersInv, RowsTyped, Mail!rows
<1>4. QED
  BY <1>2, <1>3, ChangeMoves

LEMMA MailLinkKeeps ==
  ASSUME MembersInv, NEW c \in Client, Mail!MailLink(c)
  PROVE  MembersInv'
<1>1. change \in [Client -> {Mail!Idle} \cup Changing] /\ change[c] \in Changing /\ requests \in Nat
  BY DEF MembersInv, ChangesTyped, Mail!MailLink, Mail!Idle
<1>2. PICK content \in Content :
        queue' = Append(queue, Mail!Job("send", change[c].to, content, 0))
  BY <1>1 DEF Mail!MailLink, Mail!Enqueued, Mail!Notice, Content, Link, Changing
<1>3. Mail!Job("send", change[c].to, content, 0) \in MailJob
  BY <1>1, SendJobTyped DEF Changing
<1>4. MailTyped'
  BY <1>2, <1>3 DEF Mail!MailLink, MembersInv, MailTyped
<1>5. ChangesTyped' /\ UNCHANGED <<email, newEmail, version>>
  BY <1>1 DEF Mail!MailLink, ChangesTyped, Mail!rows
<1>6. QED
  BY <1>4, <1>5 DEF MembersInv, RowsTyped, Mail!AddressesUnique

\* A confirmation takes the address that is pending, unless the index refuses.
LEMMA ConfirmKeeps ==
  ASSUME MembersInv, NEW c \in Client, Mail!Confirm(c)
  PROVE  MembersInv'
<1>1. change \in [Client -> {Mail!Idle} \cup Changing] /\ change[c] \in Changing /\ requests \in Nat
  BY DEF MembersInv, ChangesTyped, Mail!Confirm, Mail!Idle
<1>2. ChangesTyped' /\ UNCHANGED <<job, inbox>>
  BY <1>1 DEF Mail!Confirm, ChangesTyped
<1> DEFINE m == change[c].member
           e == change[c].to
<1>3. m \in Member /\ e \in Email /\ change[c].version \in Nat
  BY <1>1 DEF Changing
<1>4. CASE UNCHANGED <<email, newEmail, version, queue>>
  BY <1>2, <1>4 DEF MembersInv, RowsTyped, MailTyped, Mail!AddressesUnique
<1>5. CASE /\ Mail!Confirms(c) /\ ~Mail!AddressTaken(m, e)
           /\ email' = [email EXCEPT ![m] = e]
           /\ newEmail' = [newEmail EXCEPT ![m] = NULL]
           /\ version' = [version EXCEPT ![m] = change[c].version + 1]
           /\ queue' = Append(queue, Mail!Job("send", email[m], Mail!Notice, 0))
  <2>1. email[m] \in Email
    BY <1>3, <1>5 DEF Mail!Confirms, Mail!Matches, MembersInv, RowsTyped
  <2>2. Mail!Job("send", email[m], Mail!Notice, 0) \in MailJob
    BY <2>1, SendJobTyped DEF Mail!Notice, Content
  <2>3. MailTyped'
    BY <1>2, <1>5, <2>2 DEF MembersInv, MailTyped
  <2>4. RowsTyped'
    BY <1>3, <1>5 DEF MembersInv, RowsTyped
  <2>5. Mail!AddressesUnique'
    BY <1>3, <1>5 DEF Mail!AddressTaken, MembersInv, RowsTyped, Mail!AddressesUnique
  <2>6. QED
    BY <1>2, <2>3, <2>4, <2>5 DEF MembersInv
<1>6. QED
  BY <1>4, <1>5 DEF Mail!Confirm, Mail!rows

LEMMA MembersStep == MembersInv /\ [Mail!Next]_(Mail!vars) => MembersInv'
<1> SUFFICES ASSUME MembersInv, [Mail!Next]_(Mail!vars) PROVE MembersInv'
  OBVIOUS
<1>1. CASE UNCHANGED Mail!vars
  BY <1>1 DEF Mail!vars, Mail!rows, Mail!mail, MembersInv, RowsTyped, MailTyped, ChangesTyped,
              Mail!AddressesUnique
<1>2. QED
  BY <1>1, WorkerKeeps, RegisterKeeps, SignUpKeeps, ChangeKeeps, ReadMemberKeeps, FollowKeeps,
     MailLinkKeeps, ConfirmKeeps
     DEF Mail!Next

\* Only a sign-up and a confirmation write an address.
LEMMA MembersTakePending ==
  ASSUME MembersInv, [Mail!Next]_(Mail!vars)
  PROVE  Mail!TakesPending
<1>1. ASSUME NEW m \in Member, NEW e \in Email, Mail!SignUp(m, e) PROVE Mail!TakesPending
  BY <1>1 DEF Mail!SignUp, Mail!TakesPending, MembersInv, RowsTyped
<1>2. ASSUME NEW c \in Client, Mail!Confirm(c) PROVE Mail!TakesPending
  BY <1>2 DEF Mail!Confirm, Mail!Confirms, Mail!Matches, Mail!rows, Mail!TakesPending,
              MembersInv, RowsTyped
<1>3. CASE UNCHANGED email
  BY <1>3 DEF Mail!TakesPending
<1>4. QED
  <2>1. ASSUME Mail!Worker \/ Mail!Refuse \/ Mail!WorkerDies \/ UNCHANGED Mail!vars
        PROVE  UNCHANGED email
    BY <2>1 DEF Mail!Worker, Mail!TakeJob, Mail!Resolve, Mail!Send, Mail!Refuse,
                Mail!WorkerDies, Mail!rows, Mail!vars
  <2>2. ASSUME NEW e \in Email, Mail!Register(e) PROVE UNCHANGED email
    BY <2>2 DEF Mail!Register, Mail!rows
  <2>3. ASSUME NEW c \in Client,
               \/ Mail!FindOwner(c) \/ Mail!SetPending(c) \/ Mail!MailLink(c)
               \/ Mail!ChangeFails(c)
               \/ \E m \in Member, e \in Email : Mail!ReadMember(c, m, e)
               \/ \E e \in Email : \E link \in inbox[e] : Mail!Follow(c, e, link)
        PROVE  UNCHANGED email
    BY <2>3 DEF Mail!FindOwner, Mail!SetPending, Mail!MailLink, Mail!ChangeFails,
                Mail!ReadMember, Mail!Follow, Mail!rows
  <2>4. QED
    BY <1>1, <1>2, <1>3, <2>1, <2>2, <2>3 DEF Mail!Next

LEMMA MembersInvariant == ServicesSpec => [](part = "members" => MembersInv)
<1> DEFINE PartInv == part = "members" => MembersInv
<1>1. ServicesInit => PartInv
  BY MembersInitial DEF ServicesInit
<1>2. PartInv /\ [ServicesNext]_servicesVars => PartInv'
  BY OneAtWork, MembersStep
<1>3. QED
  BY <1>1, <1>2, PTL DEF ServicesSpec

\* Whichever of two sign-ups or confirmations comes first, two members never
\* have one address, for any members, addresses, changes at once, failures and
\* retries (race-safe-unique-email.ts:32).
THEOREM AddressesAlwaysUnique == ServicesSpec => []AddressesUnique
<1>1. (part = "members" => MembersInv) => AddressesUnique
  BY DEF MembersInv, AddressesUnique
<1>2. QED
  BY <1>1, MembersInvariant, PTL

\* A member's address changes to the one last asked for and to no other, and
\* nothing is pending then: an older link, or a link followed twice, does
\* nothing (profile.service.ts:158).
THEOREM LatestChangeAlwaysWins == ServicesSpec => LatestChangeWins
<1>1. (part = "members" => MembersInv) /\ [ServicesNext]_servicesVars
        => [part = "members" => Mail!TakesPending]_servicesVars
  BY OneAtWork, MembersTakePending
<1>2. QED
  BY <1>1, MembersInvariant, PTL DEF ServicesSpec, LatestChangeWins

-----------------------------------------------------------------------------
(* Dates: months and days.                                                 *)

\* A month has between 28 and 31 days, the nth after it is n months later.
LEMMA MonthLengths ==
  ASSUME NEW year \in Nat, NEW month \in 1 .. 12
  PROVE  Dates!daysInMonth(year, month) \in 28 .. 31
BY DEF Dates!daysInMonth

LEMMA Twelfths ==
  ASSUME NEW n \in Nat
  PROVE  n \div 12 \in Nat /\ n % 12 \in 0 .. 11 /\ n = 12 * (n \div 12) + (n % 12)
OBVIOUS

LEMMA MonthCount ==
  ASSUME NEW year \in Nat, NEW month \in 1 .. 12, NEW n \in Nat,
         NEW years \in Nat, NEW months \in 0 .. 11, month - 1 + n = 12 * years + months
  PROVE  12 * (year + years) + (months + 1) = 12 * year + month + n
OBVIOUS

LEMMA MonthsAfter ==
  ASSUME NEW date \in Dates!Date, NEW n \in Nat
  PROVE  LET to == Dates!MonthAfter(date, n) IN
         /\ to \in Dates!Date /\ to[3] = 1 /\ to = <<to[1], to[2], 1>>
         /\ 12 * to[1] + to[2] = 12 * date[1] + date[2] + n
         /\ Dates!LengthOf(to) \in 28 .. 31
<1> DEFINE total == date[2] - 1 + n
<1>1. date[1] \in Nat /\ date[2] \in 1 .. 12 /\ total \in Nat
  BY DEF Dates!Date
<1>2. /\ total \div 12 \in Nat /\ total % 12 \in 0 .. 11
      /\ total = 12 * (total \div 12) + (total % 12)
  BY <1>1, Twelfths
<1>3. Dates!MonthAfter(date, n) = <<date[1] + (total \div 12), (total % 12) + 1, 1>>
  BY DEF Dates!MonthAfter
<1>4. /\ date[1] + (total \div 12) \in Nat /\ (total % 12) + 1 \in 1 .. 12
      /\ 12 * (date[1] + (total \div 12)) + ((total % 12) + 1) = 12 * date[1] + date[2] + n
  <2> DEFINE years == total \div 12
             months == total % 12
  <2>1. years \in Nat /\ months \in 0 .. 11 /\ total = 12 * years + months
    BY <1>2
  <2> HIDE DEF years, months
  <2>2. date[1] + years \in Nat /\ months + 1 \in 1 .. 12
    BY <1>1, <2>1
  <2>3. 12 * (date[1] + years) + (months + 1) = 12 * date[1] + date[2] + n
    BY <1>1, <2>1, MonthCount
  <2>4. QED
    BY <2>2, <2>3 DEF years, months
<1> HIDE DEF total
<1>5. QED
  BY <1>3, <1>4, MonthLengths DEF Dates!Date, Dates!LengthOf

\* The days of the months from a date on add up.
LEMMA DaysAddUp ==
  ASSUME NEW date \in Dates!Date
  PROVE  LET days == Dates!DaysOfMonths(date) IN
         /\ days[0] = 0
         /\ \A n \in Nat : /\ days[n] \in Nat
                           /\ days[n + 1] = days[n] + Dates!LengthOf(Dates!MonthAfter(date, n))
<1> DEFINE length(n) == Dates!LengthOf(Dates!MonthAfter(date, n - 1))
           first == [n \in Nat |-> [d \in Nat |-> IF n = 0 THEN 0 ELSE d + length(n)]]
<1>1. \A n \in Nat \ {0} : length(n) \in Nat
  <2> SUFFICES ASSUME NEW n \in Nat \ {0} PROVE length(n) \in Nat
    OBVIOUS
  <2>1. n - 1 \in Nat
    OBVIOUS
  <2>2. QED
    BY <2>1, MonthsAfter
<1> HIDE DEF length
<1>2. PICK f \in [Nat -> Nat] : f[0] = 0 /\ \A n \in Nat \ {0} : f[n] = first[n][f[n - 1]]
  <2>1. first \in [Nat -> [Nat -> Nat]]
    BY <1>1
  <2>2. 0 \in Nat
    OBVIOUS
  <2> HIDE DEF first
  <2>3. Iterated(Nat, 0, first)
    BY <2>1, <2>2, FunctionByRecursion
  <2>4. QED
    BY <2>3 DEF Iterated
<1>3. ASSUME NEW n \in Nat \ {0} PROVE f[n] = f[n - 1] + length(n)
  <2>1. n - 1 \in Nat /\ f[n - 1] \in Nat
    BY <1>2
  <2>2. QED
    BY <1>2, <2>1
<1>4. f = [n \in Nat |-> IF n = 0 THEN 0
                          ELSE f[n - 1] + Dates!LengthOf(Dates!MonthAfter(date, n - 1))]
  BY <1>2, <1>3 DEF length
<1>5. Dates!DaysOfMonths(date)
        = [n \in Nat |-> IF n = 0 THEN 0 ELSE Dates!DaysOfMonths(date)[n - 1]
                                  + Dates!LengthOf(Dates!MonthAfter(date, n - 1))]
  BY <1>4 DEF Dates!DaysOfMonths
<1> DEFINE days == Dates!DaysOfMonths(date)
<1> HIDE DEF days
<1>6. days = [n \in Nat |-> IF n = 0 THEN 0
                            ELSE days[n - 1] + Dates!LengthOf(Dates!MonthAfter(date, n - 1))]
  BY <1>5 DEF days
<1>7. days[0] = 0
  BY <1>6
<1>8. ASSUME NEW n \in Nat
      PROVE  days[n + 1] = days[n] + Dates!LengthOf(Dates!MonthAfter(date, n))
  <2>1. n + 1 \in Nat /\ n + 1 # 0 /\ (n + 1) - 1 = n
    OBVIOUS
  <2>2. days[n + 1] = days[(n + 1) - 1] + Dates!LengthOf(Dates!MonthAfter(date, (n + 1) - 1))
    BY <1>6, <2>1
  <2>3. QED
    BY <2>1, <2>2
<1> DEFINE T == {n \in Nat : days[n] \in Nat}
<1>9. 0 \in T
  BY <1>7
<1>10. ASSUME NEW n \in T PROVE n + 1 \in T
  <2>1. Dates!LengthOf(Dates!MonthAfter(date, n)) \in 28 .. 31
    BY MonthsAfter
  <2>2. days[n] \in Nat /\ days[n + 1] = days[n] + Dates!LengthOf(Dates!MonthAfter(date, n))
    BY <1>8
  <2>3. QED
    BY <2>1, <2>2
<1>11. T = Nat
  <2> HIDE DEF T
  <2>1. T \in SUBSET Nat
    BY DEF T
  <2>2. QED
    BY <1>9, <1>10, <2>1, AllNaturals
<1>12. \A n \in Nat : days[n] \in Nat
  BY <1>11
<1> HIDE DEF T
<1>13. QED
  BY <1>7, <1>8, <1>12 DEF days

\* Months go by at 28 to 31 days each.
LEMMA DaysGrow ==
  ASSUME NEW date \in Dates!Date, NEW m \in Nat, NEW k \in Nat
  PROVE  LET days == Dates!DaysOfMonths(date) IN
         days[m] + 28 * k <= days[m + k] /\ days[m + k] <= days[m] + 31 * k
<1> DEFINE days == Dates!DaysOfMonths(date)
           T == {j \in Nat : days[m] + 28 * j <= days[m + j] /\ days[m + j] <= days[m] + 31 * j}
<1>1. \A n \in Nat : /\ days[n] \in Nat
                     /\ days[n] + 28 <= days[n + 1] /\ days[n + 1] <= days[n] + 31
  <2> SUFFICES ASSUME NEW n \in Nat
               PROVE  /\ days[n] \in Nat
                      /\ days[n] + 28 <= days[n + 1] /\ days[n + 1] <= days[n] + 31
    OBVIOUS
  <2>1. Dates!LengthOf(Dates!MonthAfter(date, n)) \in 28 .. 31
    BY MonthsAfter
  <2>2. days[n] \in Nat /\ days[n + 1] = days[n] + Dates!LengthOf(Dates!MonthAfter(date, n))
    BY DaysAddUp
  <2>3. QED
    BY <2>1, <2>2
<1> HIDE DEF days
<1>2. 0 \in T
  BY <1>1
<1>3. ASSUME NEW j \in T PROVE j + 1 \in T
  <2>1. m + j \in Nat /\ (m + j) + 1 = m + (j + 1)
    OBVIOUS
  <2>2. /\ days[m + j] + 28 <= days[m + (j + 1)] /\ days[m + (j + 1)] <= days[m + j] + 31
        /\ days[m + (j + 1)] \in Nat /\ days[m + j] \in Nat /\ days[m] \in Nat
    BY <1>1, <2>1
  <2>3. QED
    BY <2>2
<1>4. T = Nat
  <2> HIDE DEF T
  <2>1. T \in SUBSET Nat
    BY DEF T
  <2>2. QED
    BY <1>2, <1>3, <2>1, AllNaturals
<1>5. QED
  BY <1>4 DEF days

\* The month in which a day lies is there to be chosen.
LEMMA MonthFound ==
  ASSUME NEW date \in Dates!Date, NEW offset \in Nat
  PROVE  LET days == Dates!DaysOfMonths(date) IN
         \E n \in offset \div 31 .. offset \div 28 : days[n] <= offset /\ offset < days[n + 1]
<1> DEFINE days == Dates!DaysOfMonths(date)
           T == {n \in Nat : days[n] <= offset}
<1>1. days[0] = 0 /\ \A n \in Nat : days[n] \in Nat
  BY DaysAddUp
<1>2. \A n \in Nat : 28 * n <= days[n] /\ days[n] <= 31 * n
  <2> SUFFICES ASSUME NEW n \in Nat PROVE 28 * n <= days[n] /\ days[n] <= 31 * n
    OBVIOUS
  <2>1. days[0] + 28 * n <= days[0 + n] /\ days[0 + n] <= days[0] + 31 * n
    BY DaysGrow
  <2>2. 0 + n = n
    OBVIOUS
  <2> HIDE DEF days
  <2>3. QED
    BY <1>1, <2>1, <2>2
<1> HIDE DEF days
<1>3. \E n \in Nat : days[n] <= offset /\ offset < days[n + 1]
  <2> SUFFICES ASSUME \A n \in Nat : ~ (days[n] <= offset /\ offset < days[n + 1]) PROVE FALSE
    OBVIOUS
  <2>1. 0 \in T
    BY <1>1
  <2>2. ASSUME NEW n \in T PROVE n + 1 \in T
    BY <1>1
  <2>3. T = Nat
    <3> HIDE DEF T
    <3>1. T \in SUBSET Nat
      BY DEF T
    <3>2. QED
      BY <2>1, <2>2, <3>1, AllNaturals
  <2>4. offset + 1 \in T
    BY <2>3
  <2>5. 28 * (offset + 1) <= offset
    BY <1>1, <1>2, <2>4
  <2>6. QED
    BY <2>5
<1>4. PICK n \in Nat : days[n] <= offset /\ offset < days[n + 1]
  BY <1>3
<1>5. 28 * n <= offset /\ offset < 31 * (n + 1)
  BY <1>1, <1>2, <1>4
<1>6. offset \div 31 <= n /\ n <= offset \div 28 /\ offset \div 31 \in Nat /\ offset \div 28 \in Nat
  BY <1>5
<1>7. n \in offset \div 31 .. offset \div 28
  BY <1>6
<1>8. QED
  BY <1>4, <1>7 DEF days

\* Days after a date: in which month, and on which day of it.
LEMMA DaysAfter ==
  ASSUME NEW date \in Dates!Date, NEW k \in Nat
  PROVE  \E n \in Nat :
           LET to == Dates!MonthAfter(date, n)
               days == Dates!DaysOfMonths(date)
               offset == date[3] - 1 + k
           IN /\ days[n] <= offset /\ offset < days[n + 1]
              /\ Dates!addDays(date, k) = <<to[1], to[2], offset - days[n] + 1>>
              /\ Dates!addDays(date, k) \in Dates!Date
<1> DEFINE days == Dates!DaysOfMonths(date)
           offset == date[3] - 1 + k
           n == CHOOSE n \in offset \div 31 .. offset \div 28 :
                  days[n] <= offset /\ offset < days[n + 1]
           to == Dates!MonthAfter(date, n)
<1>1. offset \in Nat
  BY DEF Dates!Date
<1>2. /\ n \in offset \div 31 .. offset \div 28
      /\ days[n] <= offset /\ offset < days[n + 1]
  BY <1>1, MonthFound
<1>3. n \in Nat
  <2>1. offset \div 31 \in Nat
    BY <1>1
  <2> HIDE DEF offset, n
  <2>2. QED
    BY <1>2, <2>1
<1>4. Dates!addDays(date, k) = [to EXCEPT ![3] = offset - days[n] + 1]
  BY DEF Dates!addDays
<1> HIDE DEF n
<1>5. /\ days[n] \in Nat /\ days[n + 1] = days[n] + Dates!LengthOf(to)
      /\ to \in Dates!Date /\ to = <<to[1], to[2], 1>> /\ Dates!LengthOf(to) \in 28 .. 31
  BY <1>3, DaysAddUp, MonthsAfter
<1> HIDE DEF to, days
<1>6. offset - days[n] + 1 \in 1 .. 31
  BY <1>1, <1>2, <1>5
<1>7. Dates!addDays(date, k) = <<to[1], to[2], offset - days[n] + 1>>
  BY <1>4, <1>5
<1>8. Dates!addDays(date, k) \in Dates!Date
  BY <1>5, <1>6, <1>7 DEF Dates!Date
<1>9. QED
  BY <1>2, <1>3, <1>7, <1>8 DEF to, days

-----------------------------------------------------------------------------
(* Dates: their order.                                                     *)

\* Dates are in order.
LEMMA DatesOrdered ==
  ASSUME NEW a \in Dates!Date, NEW b \in Dates!Date, NEW c \in Dates!Date
  PROVE  /\ ~ Dates!Before(a, a)
         /\ Dates!Before(a, b) /\ Dates!Before(b, c) => Dates!Before(a, c)
         /\ Dates!Before(a, b) \/ Dates!Before(b, a) \/ a = b
<1>1. /\ a = <<a[1], a[2], a[3]>> /\ b = <<b[1], b[2], b[3]>>
      /\ a[1] \in Nat /\ a[2] \in Nat /\ a[3] \in Nat
      /\ b[1] \in Nat /\ b[2] \in Nat /\ b[3] \in Nat
      /\ c[1] \in Nat /\ c[2] \in Nat /\ c[3] \in Nat
  BY DEF Dates!Date
<1>2. ~ Dates!Before(a, a)
  BY <1>1 DEF Dates!Before
<1>3. Dates!Before(a, b) /\ Dates!Before(b, c) => Dates!Before(a, c)
  BY <1>1 DEF Dates!Before
<1>4. Dates!Before(a, b) \/ Dates!Before(b, a) \/ a = b
  <2>1. Dates!Before(a, b) \/ Dates!Before(b, a) \/ (a[1] = b[1] /\ a[2] = b[2] /\ a[3] = b[3])
    BY <1>1 DEF Dates!Before
  <2>2. QED
    BY <1>1, <2>1
<1>5. QED
  BY <1>2, <1>3, <1>4

MonthOf(date) == 12 * date[1] + date[2]

LEMMA LaterMonth ==
  ASSUME NEW a \in Dates!Date, NEW b \in Dates!Date
  PROVE  /\ MonthOf(a) < MonthOf(b) => Dates!Before(a, b)
         /\ MonthOf(a) = MonthOf(b) /\ a[3] < b[3] => Dates!Before(a, b)
<1>1. /\ a[1] \in Nat /\ a[2] \in 1 .. 12 /\ a[3] \in Nat
      /\ b[1] \in Nat /\ b[2] \in 1 .. 12 /\ b[3] \in Nat
  BY DEF Dates!Date
<1>2. QED
  BY <1>1 DEF Dates!Before, MonthOf

\* More days later is later.
LEMMA DaysAscend ==
  ASSUME NEW date \in Dates!Date, NEW j \in Nat, NEW k \in Nat, j < k
  PROVE  Dates!Before(Dates!addDays(date, j), Dates!addDays(date, k))
<1> DEFINE days == Dates!DaysOfMonths(date)
           a == Dates!addDays(date, j)
           b == Dates!addDays(date, k)
<1>1. PICK m \in Nat :
        /\ days[m] <= date[3] - 1 + j /\ date[3] - 1 + j < days[m + 1]
        /\ a = <<Dates!MonthAfter(date, m)[1], Dates!MonthAfter(date, m)[2],
                 (date[3] - 1 + j) - days[m] + 1>>
        /\ a \in Dates!Date
  BY DaysAfter
<1>2. PICK n \in Nat :
        /\ days[n] <= date[3] - 1 + k /\ date[3] - 1 + k < days[n + 1]
        /\ b = <<Dates!MonthAfter(date, n)[1], Dates!MonthAfter(date, n)[2],
                 (date[3] - 1 + k) - days[n] + 1>>
        /\ b \in Dates!Date
  BY DaysAfter
<1>3. MonthOf(a) = MonthOf(date) + m /\ MonthOf(b) = MonthOf(date) + n
  BY <1>1, <1>2, MonthsAfter DEF MonthOf
<1>4. date[3] \in Nat /\ MonthOf(date) \in Nat
  BY DEF Dates!Date, MonthOf
<1>5. days[m] \in Nat /\ days[n] \in Nat /\ days[m + 1] \in Nat /\ days[n + 1] \in Nat
  BY DaysAddUp
<1>6. m <= n
  <2> SUFFICES ASSUME n < m PROVE FALSE
    OBVIOUS
  <2>1. m - (n + 1) \in Nat /\ (n + 1) + (m - (n + 1)) = m /\ n + 1 \in Nat
    OBVIOUS
  <2>2. days[n + 1] + 28 * (m - (n + 1)) <= days[(n + 1) + (m - (n + 1))]
    BY <2>1, DaysGrow
  <2> HIDE DEF days
  <2>3. days[n + 1] <= days[m]
    BY <1>5, <2>1, <2>2
  <2>4. QED
    BY <1>1, <1>2, <1>4, <1>5, <2>3
<1> HIDE DEF days, a, b
<1>7. CASE m < n
  BY <1>1, <1>2, <1>3, <1>4, <1>7, LaterMonth DEF a, b
<1>8. CASE m = n
  <2>1. MonthOf(a) = MonthOf(b) /\ a[3] < b[3]
    BY <1>1, <1>2, <1>3, <1>4, <1>5, <1>8
  <2>2. QED
    BY <1>1, <1>2, <2>1, LaterMonth DEF a, b
<1>9. QED
  BY <1>6, <1>7, <1>8

\* Months after a date, clamped: in that month, on the same day or its last.
LEMMA MonthsClamped ==
  ASSUME NEW date \in Dates!Date, NEW n \in Nat
  PROVE  LET to == Dates!addMonthsClamped(date, n) IN
         /\ to \in Dates!Date /\ MonthOf(to) = MonthOf(date) + n
         /\ to[3] <= date[3]
         /\ to[3] < date[3] => to[3] = Dates!daysInMonth(to[1], to[2])
<1> DEFINE month == Dates!MonthAfter(date, n)
           to == Dates!addMonthsClamped(date, n)
<1>1. /\ month \in Dates!Date /\ month = <<month[1], month[2], 1>>
      /\ 12 * month[1] + month[2] = 12 * date[1] + date[2] + n
      /\ Dates!LengthOf(month) \in 28 .. 31
  BY MonthsAfter
<1>2. to = [month EXCEPT ![3] = Dates!Smaller(date[3], Dates!LengthOf(month))]
  BY DEF Dates!addMonthsClamped
<1> HIDE DEF month, to
<1>3. to = <<month[1], month[2], Dates!Smaller(date[3], Dates!LengthOf(month))>>
  BY <1>1, <1>2
<1>4. date[3] \in 1 .. 31 /\ date[1] \in Nat /\ date[2] \in Nat
      /\ month[1] \in Nat /\ month[2] \in 1 .. 12
  BY <1>1 DEF Dates!Date
<1>5. /\ to \in Dates!Date /\ to[3] <= date[3]
      /\ to[3] < date[3] => to[3] = Dates!LengthOf(month)
  BY <1>1, <1>3, <1>4 DEF Dates!Smaller, Dates!Date
<1>6. MonthOf(to) = MonthOf(date) + n /\ Dates!LengthOf(month) = Dates!daysInMonth(to[1], to[2])
  BY <1>1, <1>3, <1>4 DEF MonthOf, Dates!LengthOf
<1>7. QED
  BY <1>5, <1>6 DEF to

\* The rules that a scheduler may have.
IsRule(r) ==
  /\ r.anchor \in Dates!Date /\ r.unit \in {"day", "week", "month", "year"}
  /\ r.value \in Nat \ {0} /\ r.limit \in Dates!Date \cup {NULL}

LEMMA Multiples ==
  ASSUME NEW v \in Nat \ {0}, NEW m \in Nat, NEW n \in Nat
  PROVE  /\ v * n \in Nat /\ n <= v * n
         /\ m < n => v * m < v * n
<1>1. v * n \in Nat
  OBVIOUS
<1>2. n <= v * n
  <2>1. v - 1 \in Nat /\ (v - 1) * n \in Nat /\ v * n = (v - 1) * n + n
    OBVIOUS
  <2>2. QED
    BY <2>1
<1>3. ASSUME m < n PROVE v * m < v * n
  <2>1. n - m \in Nat /\ v * n = v * m + v * (n - m)
    BY <1>3
  <2>2. v * (n - m) >= 1
    BY <1>3
  <2>3. v * m \in Nat /\ v * (n - m) \in Nat
    BY <2>1
  <2>4. QED
    BY <2>1, <2>2, <2>3
<1>4. QED
  BY <1>1, <1>2, <1>3

\* Each occurrence is a date, and later than those before it.
LEMMA OccurrencesAscend ==
  ASSUME NEW r, IsRule(r), NEW m \in Nat, NEW n \in Nat, m < n
  PROVE  /\ Dates!occurrenceDate(r, m) \in Dates!Date
         /\ Dates!occurrenceDate(r, n) \in Dates!Date
         /\ Dates!Before(Dates!occurrenceDate(r, m), Dates!occurrenceDate(r, n))
<1> USE DEF IsRule
<1> DEFINE j == r.value * m
           k == r.value * n
<1>1. j \in Nat /\ k \in Nat /\ j < k
  BY Multiples
<1>2. j * 7 \in Nat /\ k * 7 \in Nat /\ j * 7 < k * 7 /\ j * 12 \in Nat /\ k * 12 \in Nat /\ j * 12 < k * 12
  <2> HIDE DEF j, k
  <2>1. QED
    BY <1>1
<1> HIDE DEF j, k
<1>3. CASE r.unit = "day"
  <2>1. Dates!occurrenceDate(r, m) = Dates!addDays(r.anchor, j)
        /\ Dates!occurrenceDate(r, n) = Dates!addDays(r.anchor, k)
    BY <1>3 DEF Dates!occurrenceDate, j, k
  <2>2. QED
    BY <1>1, <2>1, DaysAfter, DaysAscend
<1>4. CASE r.unit = "week"
  <2>1. Dates!occurrenceDate(r, m) = Dates!addDays(r.anchor, j * 7)
        /\ Dates!occurrenceDate(r, n) = Dates!addDays(r.anchor, k * 7)
    BY <1>4 DEF Dates!occurrenceDate, j, k
  <2>2. QED
    BY <1>2, <2>1, DaysAfter, DaysAscend
<1>5. ASSUME NEW a \in Nat, NEW b \in Nat, a < b
      PROVE  /\ Dates!addMonthsClamped(r.anchor, a) \in Dates!Date
             /\ Dates!addMonthsClamped(r.anchor, b) \in Dates!Date
             /\ Dates!Before(Dates!addMonthsClamped(r.anchor, a), Dates!addMonthsClamped(r.anchor, b))
  <2>1. /\ MonthOf(Dates!addMonthsClamped(r.anchor, a)) = MonthOf(r.anchor) + a
        /\ MonthOf(Dates!addMonthsClamped(r.anchor, b)) = MonthOf(r.anchor) + b
        /\ Dates!addMonthsClamped(r.anchor, a) \in Dates!Date
        /\ Dates!addMonthsClamped(r.anchor, b) \in Dates!Date
    BY MonthsClamped
  <2>2. MonthOf(r.anchor) \in Nat
    BY DEF MonthOf, Dates!Date
  <2>3. QED
    BY <1>5, <2>1, <2>2, LaterMonth
<1>6. CASE r.unit = "month"
  <2>1. Dates!occurrenceDate(r, m) = Dates!addMonthsClamped(r.anchor, j)
        /\ Dates!occurrenceDate(r, n) = Dates!addMonthsClamped(r.anchor, k)
    BY <1>6 DEF Dates!occurrenceDate, j, k
  <2>2. QED
    BY <1>1, <1>5, <2>1
<1>7. CASE r.unit = "year"
  <2>1. Dates!occurrenceDate(r, m) = Dates!addMonthsClamped(r.anchor, j * 12)
        /\ Dates!occurrenceDate(r, n) = Dates!addMonthsClamped(r.anchor, k * 12)
    BY <1>7 DEF Dates!occurrenceDate, j, k
  <2>2. QED
    BY <1>2, <1>5, <2>1
<1>8. QED
  BY <1>3, <1>4, <1>6, <1>7

-----------------------------------------------------------------------------
(* Dates: what is due.                                                     *)

\* In as many days, twelve months go by.
LEMMA DaysPass ==
  ASSUME NEW date \in Dates!Date, NEW y \in Nat, NEW k \in Nat, 372 * y <= k
  PROVE  /\ Dates!addDays(date, k) \in Dates!Date
         /\ MonthOf(date) + 12 * y <= MonthOf(Dates!addDays(date, k))
<1> DEFINE to == Dates!addDays(date, k)
           days == Dates!DaysOfMonths(date)
<1>1. MonthOf(date) \in Nat /\ date[3] \in 1 .. 31
  BY DEF MonthOf, Dates!Date
<1>2. PICK m \in Nat :
        /\ days[m] <= date[3] - 1 + k /\ date[3] - 1 + k < days[m + 1]
        /\ to = <<Dates!MonthAfter(date, m)[1], Dates!MonthAfter(date, m)[2],
                  (date[3] - 1 + k) - days[m] + 1>>
        /\ to \in Dates!Date
  BY DaysAfter
<1>3. MonthOf(to) = MonthOf(date) + m
  BY <1>2, MonthsAfter DEF MonthOf
<1>4. PICK n \in Nat : n = m + 1
  OBVIOUS
<1>5. days[0] + 28 * n <= days[0 + n] /\ days[0 + n] <= days[0] + 31 * n
  BY DaysGrow
<1>6. days[0] = 0 /\ days[n] \in Nat
  BY DaysAddUp
<1>7. 0 + n = n /\ 0 + 31 * n = 31 * n
  OBVIOUS
<1> HIDE DEF days, to
<1>8. 372 * y < 31 * n
  BY <1>1, <1>2, <1>4, <1>5, <1>6, <1>7
<1>9. 12 * y <= m
  BY <1>4, <1>8
<1>10. QED
  BY <1>1, <1>2, <1>3, <1>9 DEF to

\* As many occurrences go by too.
LEMMA OccurrencesPass ==
  ASSUME NEW r, IsRule(r), NEW y \in Nat, NEW n \in Nat, n = 372 * y
  PROVE  /\ Dates!occurrenceDate(r, n) \in Dates!Date
         /\ MonthOf(r.anchor) + 12 * y <= MonthOf(Dates!occurrenceDate(r, n))
<1> USE DEF IsRule
<1>1. MonthOf(r.anchor) \in Nat
  BY DEF MonthOf, Dates!Date
<1>2. ASSUME NEW k \in Nat, n <= k
      PROVE  /\ Dates!addDays(r.anchor, k) \in Dates!Date
             /\ MonthOf(r.anchor) + 12 * y <= MonthOf(Dates!addDays(r.anchor, k))
  BY <1>2, DaysPass
<1>3. ASSUME NEW k \in Nat, n <= k
      PROVE  /\ Dates!addMonthsClamped(r.anchor, k) \in Dates!Date
             /\ MonthOf(r.anchor) + 12 * y <= MonthOf(Dates!addMonthsClamped(r.anchor, k))
  <2>1. /\ MonthOf(Dates!addMonthsClamped(r.anchor, k)) = MonthOf(r.anchor) + k
        /\ Dates!addMonthsClamped(r.anchor, k) \in Dates!Date
    BY MonthsClamped
  <2>2. QED
    BY <1>1, <1>3, <2>1
<1> DEFINE k == r.value * n
<1>4. k \in Nat /\ n <= k
  BY Multiples
<1>5. /\ Dates!occurrenceDate(r, n) \in {Dates!addDays(r.anchor, k), Dates!addDays(r.anchor, k * 7),
           Dates!addMonthsClamped(r.anchor, k), Dates!addMonthsClamped(r.anchor, k * 12)}
  BY DEF Dates!occurrenceDate
<1> HIDE DEF k
<1>6. k * 7 \in Nat /\ n <= k * 7 /\ k * 12 \in Nat /\ n <= k * 12
  BY <1>4
<1>7. QED
  BY <1>2, <1>3, <1>4, <1>5, <1>6

\* Occurrences end: one is past the horizon, and so are those after it.
LEMMA EndFound ==
  ASSUME NEW r, IsRule(r), NEW horizon \in Dates!Date
  PROVE  LET end == Dates!End(r, horizon) IN
         /\ end \in Nat
         /\ \A n \in Nat : n < end <=> ~ Dates!Before(horizon, Dates!occurrenceDate(r, n))
<1> DEFINE most == Dates!Most(r, horizon)
           Past(n) == Dates!Before(horizon, Dates!occurrenceDate(r, n))
<1>1. r.anchor[1] \in Nat /\ r.anchor[2] \in 1 .. 12 /\ horizon[1] \in Nat
  BY DEF IsRule, Dates!Date
<1>2. most \in Nat /\ Past(most)
  <2>1. PICK y \in Nat : most = 372 * y /\ horizon[1] < r.anchor[1] + y
    <3>1. CASE horizon[1] < r.anchor[1]
      <4>1. most = 372 * 0 /\ horizon[1] < r.anchor[1] + 0
        BY <1>1, <3>1 DEF Dates!Most
      <4>2. QED
        BY <4>1
    <3>2. CASE ~ (horizon[1] < r.anchor[1])
      <4>1. horizon[1] - r.anchor[1] + 1 \in Nat
            /\ horizon[1] < r.anchor[1] + (horizon[1] - r.anchor[1] + 1)
        BY <1>1, <3>2
      <4>2. most = 372 * (horizon[1] - r.anchor[1] + 1)
        BY <3>2 DEF Dates!Most
      <4>3. QED
        BY <4>1, <4>2
    <3>3. QED
      BY <3>1, <3>2
  <2> HIDE DEF most
  <2>2. most \in Nat
    BY <2>1
  <2>3. /\ Dates!occurrenceDate(r, most) \in Dates!Date
        /\ MonthOf(r.anchor) + 12 * y <= MonthOf(Dates!occurrenceDate(r, most))
    BY <2>1, <2>2, OccurrencesPass
  <2> DEFINE to == Dates!occurrenceDate(r, most)
  <2>4. to[1] \in Nat /\ to[2] \in 1 .. 12
    BY <2>3 DEF Dates!Date
  <2>5. 12 * r.anchor[1] + r.anchor[2] + 12 * y <= 12 * to[1] + to[2]
    BY <2>3 DEF MonthOf
  <2> HIDE DEF to
  <2>6. horizon[1] < to[1]
    BY <1>1, <2>1, <2>4, <2>5
  <2>7. QED
    BY <2>2, <2>6 DEF Dates!Before, to
<1> HIDE DEF most
<1> DEFINE T == {n \in Nat : \A m \in 0 .. n - 1 : ~ Past(m)}
<1>3. \E n \in 0 .. most : Past(n) /\ \A m \in 0 .. n - 1 : ~ Past(m)
  <2> SUFFICES ASSUME \A n \in 0 .. most : ~ (Past(n) /\ \A m \in 0 .. n - 1 : ~ Past(m))
               PROVE  FALSE
    OBVIOUS
  <2> DEFINE U == {n \in Nat : n <= most => \A m \in 0 .. n : ~ Past(m)}
  <2> HIDE DEF Past
  <2>1. 0 \in U
    BY <1>2
  <2>2. ASSUME NEW n \in U PROVE n + 1 \in U
    <3> SUFFICES ASSUME n + 1 <= most, NEW m \in 0 .. n + 1 PROVE ~ Past(m)
      OBVIOUS
    <3>1. \A k \in 0 .. n : ~ Past(k)
      BY <1>2
    <3>2. CASE m \in 0 .. n
      BY <3>1, <3>2
    <3>3. CASE m = n + 1
      <4>1. m \in 0 .. most /\ m - 1 = n
        BY <1>2, <3>3
      <4>2. QED
        BY <3>1, <4>1
    <3>4. QED
      BY <3>2, <3>3
  <2>3. U = Nat
    <3> HIDE DEF U
    <3>1. U \in SUBSET Nat
      BY DEF U
    <3>2. QED
      BY <2>1, <2>2, <3>1, AllNaturals
  <2>4. most \in U
    BY <1>2, <2>3
  <2>5. QED
    BY <1>2, <2>4
<1> DEFINE end == Dates!End(r, horizon)
<1>4. end \in 0 .. most /\ Past(end) /\ \A m \in 0 .. end - 1 : ~ Past(m)
  BY <1>3 DEF Dates!End, most
<1>5. end \in Nat
  BY <1>2, <1>4
<1> HIDE DEF end
<1>6. ASSUME NEW n \in Nat PROVE n < end <=> ~ Past(n)
  <2>1. CASE n < end
    <3>1. n \in 0 .. end - 1
      BY <1>5, <2>1
    <3>2. QED
      BY <1>4, <2>1, <3>1
  <2>2. CASE n = end
    BY <1>4, <2>2
  <2>3. CASE end < n
    <3>1. Dates!Before(Dates!occurrenceDate(r, end), Dates!occurrenceDate(r, n))
          /\ Dates!occurrenceDate(r, end) \in Dates!Date /\ Dates!occurrenceDate(r, n) \in Dates!Date
      BY <1>5, <2>3, OccurrencesAscend
    <3>2. Past(n)
      BY <1>4, <3>1, DatesOrdered
    <3>3. QED
      BY <1>5, <2>3, <3>2
  <2>4. QED
    BY <1>5, <2>1, <2>2, <2>3
<1>7. QED
  BY <1>5, <1>6 DEF end

\* The instance counts with the same operator.
LEMMA DatesCardinality == \A S : Dates!Cardinality(S) = Cardinality(S)
BY DEF Dates!Cardinality, Cardinality

\* A set of numbers has a least.
LEMMA LeastNumber ==
  ASSUME NEW S \in SUBSET Nat, S # {}
  PROVE  \E n \in S : \A k \in S : n <= k
<1>1. \E n \in S : \A k \in S : ~ (<<k, n>> \in OpToRel(<, Nat))
  BY NatLessThanWellFounded, WFMin
<1>2. PICK n \in S : \A k \in S : ~ (k < n)
  BY <1>1 DEF OpToRel
<1>3. QED
  BY <1>2

\* A finite set of numbers has an ith one.
LEMMA IthFound ==
  ASSUME NEW S \in SUBSET Nat, IsFiniteSet(S), NEW i \in 1 .. Cardinality(S)
  PROVE  LET n == Dates!Ith(S, i) IN
         n \in S /\ Cardinality({m \in S : m < n}) = i - 1
<1> DEFINE Lower(n) == {m \in S : m < n}
           T == {j \in Nat : j < Cardinality(S) => \E n \in S : Cardinality(Lower(n)) = j}
<1>1. Cardinality(S) \in Nat
  BY FS_CardinalityType
<1>2. 0 \in T
  <2> SUFFICES ASSUME 0 < Cardinality(S) PROVE \E n \in S : Cardinality(Lower(n)) = 0
    OBVIOUS
  <2>1. S # {}
    BY FS_EmptySet
  <2>2. PICK n \in S : \A k \in S : n <= k
    BY <2>1, LeastNumber
  <2>3. \A m \in S : ~ (m < n)
    BY <2>2
  <2>4. Lower(n) = {}
    BY <2>3
  <2>5. QED
    BY <2>4, FS_EmptySet
<1>3. ASSUME NEW j \in T PROVE j + 1 \in T
  <2> SUFFICES ASSUME j + 1 < Cardinality(S)
               PROVE  \E n \in S : Cardinality(Lower(n)) = j + 1
    OBVIOUS
  <2>1. PICK n \in S : Cardinality(Lower(n)) = j
    BY <1>1
  <2> DEFINE upTo == Lower(n) \cup {n}
  <2>2. Lower(n) \in SUBSET S /\ n \notin Lower(n) /\ upTo \in SUBSET S
    OBVIOUS
  <2>3. IsFiniteSet(Lower(n))
    BY <2>2, FS_Subset
  <2>4. Cardinality(upTo) = j + 1
    BY <2>1, <2>2, <2>3, FS_AddElement
  <2>5. S \ upTo # {}
    <3>1. upTo # S
      BY <2>4
    <3>2. QED
      BY <2>2, <3>1
  <2>6. PICK k \in S \ upTo : \A m \in S \ upTo : k <= m
    <3>1. S \ upTo \in SUBSET Nat
      OBVIOUS
    <3> HIDE DEF upTo
    <3>2. QED
      BY <2>5, <3>1, LeastNumber
  <2>7. n < k
    BY <2>6
  <2>8. ASSUME NEW m \in S PROVE m < k <=> m \in upTo
    <3>1. CASE m \in upTo
      <4>1. m = n \/ m < n
        BY <3>1
      <4>2. m \in Nat /\ n \in Nat /\ k \in Nat
        BY <2>6
      <4>3. QED
        BY <2>7, <3>1, <4>1, <4>2
    <3>2. CASE m \notin upTo
      <4>1. k <= m
        BY <2>6, <3>2
      <4>2. m \in Nat /\ k \in Nat
        BY <2>6
      <4>3. QED
        BY <3>2, <4>1, <4>2
    <3>3. QED
      BY <3>1, <3>2
  <2>9. Lower(k) = upTo
    <3> HIDE DEF upTo
    <3>1. QED
      BY <2>2, <2>8
  <2>10. QED
    BY <2>4, <2>6, <2>9
<1>4. T = Nat
  <2> HIDE DEF T
  <2>1. T \in SUBSET Nat
    BY DEF T
  <2>2. QED
    BY <1>2, <1>3, <2>1, AllNaturals
<1>5. i - 1 \in T /\ i - 1 < Cardinality(S)
  BY <1>1, <1>4
<1>6. \E n \in S : Cardinality(Lower(n)) = i - 1
  BY <1>5
<1>7. QED
  BY <1>6, DatesCardinality DEF Dates!Ith

\* Multiples leave no remainder.
LEMMA NoRemainder ==
  ASSUME NEW d \in Nat \ {0}, NEW n \in Nat
  PROVE  (d * n) % d = 0
<1> DEFINE q == (d * n) \div d
           r == (d * n) % d
<1>1. q \in Int /\ r \in 0 .. d - 1 /\ d * n = d * q + r
  OBVIOUS
<1> HIDE DEF q, r
<1>2. r = d * (n - q)
  BY <1>1
<1>3. ~ (n - q >= 1)
  <2> SUFFICES ASSUME n - q >= 1 PROVE FALSE
    OBVIOUS
  <2>1. d * (n - q) >= d
    BY <1>1
  <2>2. QED
    BY <1>1, <1>2, <2>1
<1>4. ~ (n - q <= -1)
  <2> SUFFICES ASSUME n - q <= -1 PROVE FALSE
    OBVIOUS
  <2>1. d * (n - q) <= -d
    BY <1>1
  <2>2. QED
    BY <1>1, <1>2, <2>1
<1>5. n - q = 0
  BY <1>1, <1>3, <1>4
<1>6. QED
  BY <1>2, <1>5 DEF r

\* What is between two dates is what is after the one and not after the other.
LEMMA BetweenIs ==
  ASSUME NEW r, IsRule(r), NEW after \in Dates!Date \cup {NULL}, NEW horizon \in Dates!Date
  PROVE  LET between == Dates!occurrencesBetween(r, after, horizon) IN
         /\ between \in SUBSET Nat /\ IsFiniteSet(between)
         /\ \A n \in Nat :
              n \in between <=> /\ ~ Dates!Before(horizon, Dates!occurrenceDate(r, n))
                                /\ after = NULL \/ Dates!Before(after, Dates!occurrenceDate(r, n))
<1> DEFINE between == Dates!occurrencesBetween(r, after, horizon)
           end == Dates!End(r, horizon)
<1>1. /\ end \in Nat
      /\ \A n \in Nat : n < end <=> ~ Dates!Before(horizon, Dates!occurrenceDate(r, n))
  BY EndFound
<1>2. between = {n \in 0 .. end - 1 :
                   after = NULL \/ Dates!Before(after, Dates!occurrenceDate(r, n))}
  BY DEF Dates!occurrencesBetween
<1> HIDE DEF between, end
<1>3. 0 .. end - 1 \in SUBSET Nat /\ \A n \in Nat : n \in 0 .. end - 1 <=> n < end
  BY <1>1
<1>4. IsFiniteSet(0 .. end - 1)
  BY <1>1, FS_Interval
<1>5. between \in SUBSET (0 .. end - 1)
  BY <1>2
<1>6. IsFiniteSet(between)
  BY <1>4, <1>5, FS_Subset
<1>7. QED
  BY <1>1, <1>2, <1>3, <1>5, <1>6 DEF between

\* What is due of what is between: as many as are asked for, from the first on.
IsDue(due, between, r, limit) ==
  /\ Len(due) = Dates!Smaller(Cardinality(between), Dates!Smaller(limit, Ceiling))
  /\ Len(due) \in Nat /\ Len(due) <= Cardinality(between)
  /\ due \in Seq(Dates!Date)
  /\ \A i \in 1 .. Len(due) :
       LET n == Dates!Ith(between, i) IN
       /\ n \in between /\ n \in Nat
       /\ Cardinality({m \in between : m < n}) = i - 1
       /\ due[i] = Dates!occurrenceDate(r, n)

LEMMA DueFacts ==
  ASSUME NEW r, IsRule(r), NEW after \in Dates!Date \cup {NULL}, NEW horizon \in Dates!Date,
         NEW limit \in Nat
  PROVE  IsDue(Dates!dueOccurrences(r, after, horizon, limit),
               Dates!occurrencesBetween(r, after, horizon), r, limit)
<1> DEFINE between == Dates!occurrencesBetween(r, after, horizon)
           due == Dates!dueOccurrences(r, after, horizon, limit)
           count == Dates!Smaller(Cardinality(between), Dates!Smaller(limit, Ceiling))
<1>1. between \in SUBSET Nat /\ IsFiniteSet(between)
  BY BetweenIs
<1>2. Cardinality(between) \in Nat
  BY <1>1, FS_CardinalityType
<1>3. count \in Nat /\ count <= Cardinality(between)
  BY <1>2, IntervalAssumption DEF Dates!Smaller, Dates!IntervalAssumption
<1>4. due = [i \in 1 .. count |-> Dates!occurrenceDate(r, Dates!Ith(between, i))]
  BY DatesCardinality DEF Dates!dueOccurrences
<1> HIDE DEF between, due, count
<1>5. ASSUME NEW i \in 1 .. count
      PROVE  LET n == Dates!Ith(between, i) IN
             /\ n \in between /\ n \in Nat
             /\ Cardinality({m \in between : m < n}) = i - 1
             /\ Dates!occurrenceDate(r, n) \in Dates!Date
  <2>1. i \in 1 .. Cardinality(between)
    BY <1>2, <1>3
  <2> DEFINE n == Dates!Ith(between, i)
  <2>2. n \in between /\ Cardinality({m \in between : m < n}) = i - 1
    BY <1>1, <2>1, IthFound
  <2> HIDE DEF n
  <2>3. n \in Nat /\ n + 1 \in Nat /\ n < n + 1
    BY <1>1, <2>2
  <2>4. PICK k \in Nat : n < k
    BY <2>3
  <2>5. Dates!occurrenceDate(r, n) \in Dates!Date
    BY <2>3, <2>4, OccurrencesAscend
  <2>6. QED
    BY <2>2, <2>3, <2>5 DEF n
<1>6. due \in Seq(Dates!Date) /\ Len(due) = count
  <2> DEFINE date(i) == Dates!occurrenceDate(r, Dates!Ith(between, i))
  <2>1. \A i \in 1 .. count : date(i) \in Dates!Date
    BY <1>5
  <2>2. due = [i \in 1 .. count |-> date(i)]
    BY <1>4
  <2> HIDE DEF date
  <2>3. QED
    BY <1>3, <2>1, <2>2
<1>7. QED
  BY <1>3, <1>4, <1>5, <1>6 DEF between, due, count, IsDue

-----------------------------------------------------------------------------
(* Dates: runs, days and edits.                                            *)

\* What the last run made are occurrences of the rule as it is now.
DatesInv ==
  /\ rule \in Rule /\ today \in Day
  /\ cursor \in Dates!Date \cup {NULL}
  /\ made \in Seq(Dates!Date)
  /\ \A i \in 1 .. Len(made) : \E n \in Nat : made[i] = Dates!occurrenceDate(rule, n)

LEMMA RulesAre == \A r \in Rule : IsRule(r)
BY IntervalAssumption DEF Dates!IntervalAssumption, IsRule

\* What a run looks up to is a date, that neither the limit nor the far
\* horizon comes before.
LEMMA HorizonIs ==
  ASSUME DatesInv
  PROVE  LET horizon == Dates!Horizon(rule)
             last == IF rule.limit = NULL THEN Far ELSE rule.limit
         IN horizon \in Dates!Date /\ last \in Dates!Date /\ ~ Dates!Before(last, horizon)
<1>1. rule.limit \in Dates!Date \cup {NULL} /\ NULL \notin Dates!Date
  BY RulesAre, IntervalAssumption DEF DatesInv, IsRule, Dates!IntervalAssumption
<1>2. today \in Dates!Date /\ Far \in Dates!Date /\ ~ Dates!Before(Far, today)
  BY IntervalAssumption DEF DatesInv, Dates!IntervalAssumption
<1>3. rule.limit \in Dates!Date => ~ Dates!Before(rule.limit, rule.limit)
  BY DatesOrdered
<1>4. QED
  BY <1>1, <1>2, <1>3 DEF Dates!Horizon

\* What a run makes.
LEMMA RunMakes ==
  ASSUME DatesInv, Dates!Generate
  PROVE  \E limit \in 1 .. Ceiling :
           /\ made' = Dates!dueOccurrences(rule, cursor, Dates!Horizon(rule), limit)
           /\ made' \in Seq(Dates!Date) /\ Len(made') \in Nat \ {0}
           /\ cursor' = made'[Len(made')] /\ cursor' \in Dates!Date
           /\ rule' = rule /\ today' = today
<1>1. PICK limit \in 1 .. Ceiling :
        LET due == Dates!dueOccurrences(rule, cursor, Dates!Horizon(rule), limit) IN
        /\ due # <<>>
        /\ made' = due /\ cursor' = due[Len(due)]
        /\ rule' = rule /\ today' = today
  BY DEF Dates!Generate
<1>2. limit \in Nat
  BY IntervalAssumption DEF Dates!IntervalAssumption
<1>3. IsRule(rule) /\ cursor \in Dates!Date \cup {NULL} /\ Dates!Horizon(rule) \in Dates!Date
  BY RulesAre, HorizonIs DEF DatesInv
<1>4. made' \in Seq(Dates!Date)
  BY <1>1, <1>2, <1>3, DueFacts DEF IsDue
<1>5. made' # <<>> /\ Len(made') \in Nat \ {0}
  BY <1>1, <1>4
<1>6. made'[Len(made')] \in Dates!Date
  BY <1>4, <1>5
<1>7. QED
  BY <1>1, <1>4, <1>5, <1>6

LEMMA DatesInitial == Dates!Init => DatesInv
BY DEF Dates!Init, DatesInv

LEMMA DatesStep == DatesInv /\ [Dates!Next]_(Dates!vars) => DatesInv'
<1> SUFFICES ASSUME DatesInv, [Dates!Next]_(Dates!vars) PROVE DatesInv'
  OBVIOUS
<1>1. CASE Dates!Generate
  <2>1. PICK limit \in 1 .. Ceiling :
          /\ made' = Dates!dueOccurrences(rule, cursor, Dates!Horizon(rule), limit)
          /\ made' \in Seq(Dates!Date) /\ cursor' \in Dates!Date
          /\ rule' = rule /\ today' = today
    BY <1>1, RunMakes
  <2>2. limit \in Nat
    BY IntervalAssumption DEF Dates!IntervalAssumption
  <2>3. IsRule(rule) /\ cursor \in Dates!Date \cup {NULL} /\ Dates!Horizon(rule) \in Dates!Date
    BY RulesAre, HorizonIs DEF DatesInv
  <2>4. ASSUME NEW i \in 1 .. Len(made')
        PROVE  \E n \in Nat : made'[i] = Dates!occurrenceDate(rule, n)
    BY <2>1, <2>2, <2>3, DueFacts DEF IsDue
  <2>5. QED
    BY <2>1, <2>4 DEF DatesInv
<1>2. CASE Dates!DaysGoBy
  BY <1>2 DEF Dates!DaysGoBy, DatesInv
<1>3. CASE Dates!EditRule
  BY <1>3 DEF Dates!EditRule, DatesInv
<1>4. CASE UNCHANGED Dates!vars
  BY <1>4 DEF Dates!vars, DatesInv
<1>5. QED
  BY <1>1, <1>2, <1>3, <1>4 DEF Dates!Next

LEMMA MonthsApart ==
  ASSUME NEW a \in Nat, NEW b \in Nat, NEW c \in Nat, NEW d \in Nat, NEW k \in Nat,
         12 * a + b = 12 * c + d + k
  PROVE  (a - c) * 12 + b - d = k
OBVIOUS

LEMMA DatesDoNotDrift == DatesInv => Dates!NoDrift
<1> SUFFICES ASSUME DatesInv, Dates!Monthly, NEW i \in 1 .. Len(made)
             PROVE  LET date == made[i] IN
                    /\ date[3] <= rule.anchor[3]
                    /\ date[3] < rule.anchor[3] => date[3] = Dates!daysInMonth(date[1], date[2])
                    /\ ((date[1] - rule.anchor[1]) * 12 + date[2] - rule.anchor[2])
                         % (rule.value * IF rule.unit = "year" THEN 12 ELSE 1) = 0
  BY DEF Dates!NoDrift
<1>1. PICK n \in Nat : made[i] = Dates!occurrenceDate(rule, n)
  BY DEF DatesInv
<1>2. /\ rule.anchor \in Dates!Date /\ rule.value \in Nat \ {0}
      /\ rule.unit \in {"month", "year"}
  BY RulesAre DEF DatesInv, IsRule, Dates!Monthly
<1> DEFINE v == rule.value * (IF rule.unit = "year" THEN 12 ELSE 1)
<1>3. v \in Nat \ {0}
  BY <1>2
<1>4. made[i] = Dates!addMonthsClamped(rule.anchor, v * n)
  <2>1. CASE rule.unit = "month"
    <3>1. v = rule.value
      BY <1>2, <2>1
    <3>2. QED
      BY <1>1, <2>1, <3>1 DEF Dates!occurrenceDate
  <2>2. CASE rule.unit = "year"
    <3>1. made[i] = Dates!addMonthsClamped(rule.anchor, rule.value * n * 12)
      BY <1>1, <2>2 DEF Dates!occurrenceDate
    <3>2. rule.value * n * 12 = v * n
      BY <1>2, <2>2
    <3>3. QED
      BY <3>1, <3>2
  <2>3. QED
    BY <1>2, <2>1, <2>2
<1> DEFINE k == v * n
<1>5. k \in Nat /\ k % v = 0
  BY <1>3, NoRemainder
<1> HIDE DEF k, v
<1> DEFINE date == made[i]
<1>6. /\ date \in Dates!Date /\ MonthOf(date) = MonthOf(rule.anchor) + k
      /\ date[3] <= rule.anchor[3]
      /\ date[3] < rule.anchor[3] => date[3] = Dates!daysInMonth(date[1], date[2])
  <2>1. date = Dates!addMonthsClamped(rule.anchor, k)
    BY <1>4 DEF k
  <2> HIDE DEF date
  <2>2. QED
    BY <1>2, <1>5, <2>1, MonthsClamped
<1>7. (date[1] - rule.anchor[1]) * 12 + date[2] - rule.anchor[2] = k
  <2> DEFINE from == rule.anchor
  <2>1. from \in Dates!Date /\ date \in Dates!Date /\ MonthOf(date) = MonthOf(from) + k
    BY <1>2, <1>6
  <2> HIDE DEF date, from
  <2>2. date[1] \in Nat /\ date[2] \in Nat /\ from[1] \in Nat /\ from[2] \in Nat
    BY <2>1 DEF Dates!Date
  <2>3. 12 * date[1] + date[2] = 12 * from[1] + from[2] + k
    BY <2>1 DEF MonthOf
  <2>4. (date[1] - from[1]) * 12 + date[2] - from[2] = k
    <3>1. PICK a \in Nat, b \in Nat, c \in Nat, d \in Nat :
            a = date[1] /\ b = date[2] /\ c = from[1] /\ d = from[2]
      BY <2>2
    <3>2. k \in Nat
      BY <1>5
    <3>3. 12 * a + b = 12 * c + d + k
      BY <2>3, <3>1
    <3>4. (a - c) * 12 + b - d = k
      BY <3>2, <3>3, MonthsApart
    <3>5. QED
      BY <3>1, <3>4
  <2>5. QED
    BY <2>4 DEF from
<1>8. QED
  BY <1>5, <1>6, <1>7 DEF v

\* The first of what is between is earlier than the rest of it.
LEMMA FirstIs ==
  ASSUME NEW S \in SUBSET Nat, IsFiniteSet(S), NEW n \in S,
         Cardinality({m \in S : m < n}) = 0
  PROVE  \A m \in S : n <= m
<1>1. {m \in S : m < n} = {}
  <2>1. IsFiniteSet({m \in S : m < n})
    BY FS_Subset
  <2>2. QED
    BY <2>1, FS_EmptySet
<1>2. QED
  BY <1>1

\* The first that a run makes is the first up to the last date of the rule,
\* which is later than the run's horizon.
LEMMA RunMakesNext ==
  ASSUME DatesInv, Dates!Generate
  PROVE  made'[1] = Dates!nextOccurrence(rule, cursor)
<1> DEFINE horizon == Dates!Horizon(rule)
           last == IF rule.limit = NULL THEN Far ELSE rule.limit
           S == Dates!occurrencesBetween(rule, cursor, horizon)
           T == Dates!occurrencesBetween(rule, cursor, last)
           next == Dates!dueOccurrences(rule, cursor, last, 1)
           date(n) == Dates!occurrenceDate(rule, n)
           first == Dates!Ith(S, 1)
           least == Dates!Ith(T, 1)
<1>1. /\ horizon \in Dates!Date /\ last \in Dates!Date /\ ~ Dates!Before(last, horizon)
      /\ IsRule(rule) /\ cursor \in Dates!Date \cup {NULL}
  BY HorizonIs, RulesAre DEF DatesInv
<1>2. PICK limit \in 1 .. Ceiling :
        /\ made' = Dates!dueOccurrences(rule, cursor, horizon, limit)
        /\ made' \in Seq(Dates!Date) /\ Len(made') \in Nat \ {0}
  BY RunMakes
<1>3. limit \in Nat /\ Ceiling \in Nat /\ 1 <= Ceiling
  BY IntervalAssumption DEF Dates!IntervalAssumption
<1> HIDE DEF horizon, last
<1>4. /\ S \in SUBSET Nat /\ IsFiniteSet(S) /\ T \in SUBSET Nat /\ IsFiniteSet(T)
      /\ \A k \in Nat : k \in S <=> /\ ~ Dates!Before(horizon, date(k))
                                    /\ cursor = NULL \/ Dates!Before(cursor, date(k))
      /\ \A k \in Nat : k \in T <=> /\ ~ Dates!Before(last, date(k))
                                    /\ cursor = NULL \/ Dates!Before(cursor, date(k))
  BY <1>1, BetweenIs
<1>5. IsDue(made', S, rule, limit)
  BY <1>1, <1>2, <1>3, DueFacts
<1>6. first \in S /\ Cardinality({k \in S : k < first}) = 0 /\ made'[1] = date(first)
  <2>1. 1 \in 1 .. Len(made')
    BY <1>2
  <2> HIDE DEF S
  <2>2. QED
    BY <1>5, <2>1 DEF IsDue
<1> HIDE DEF first, least, S, T, date
<1>7. \A k \in S : first <= k
  BY <1>4, <1>6, FirstIs
<1>8. ASSUME NEW k \in Nat PROVE date(k) \in Dates!Date
  <2>1. k < k + 1 /\ k + 1 \in Nat
    OBVIOUS
  <2>2. PICK j \in Nat : k < j
    BY <2>1
  <2>3. QED
    BY <1>1, <2>2, OccurrencesAscend DEF date
<1>9. S \in SUBSET T
  <2> SUFFICES ASSUME NEW k \in S PROVE k \in T
    OBVIOUS
  <2>1. k \in Nat /\ date(k) \in Dates!Date
    BY <1>4, <1>8
  <2>2. ~ Dates!Before(last, date(k))
    BY <1>1, <1>4, <2>1, DatesOrdered
  <2>3. QED
    BY <1>4, <2>1, <2>2
<1>10. IsDue(next, T, rule, 1)
  <2>1. PICK one \in Nat : one = 1
    OBVIOUS
  <2>2. IsDue(Dates!dueOccurrences(rule, cursor, last, one), T, rule, one)
    BY <1>1, DueFacts DEF T
  <2>3. QED
    BY <2>1, <2>2
<1> HIDE DEF next
<1>11. 1 \in 1 .. Len(next)
  <2>1. Cardinality(T) \in Nat /\ Cardinality(S) \in Nat /\ Cardinality(S) <= Cardinality(T)
    BY <1>4, <1>9, FS_CardinalityType, FS_Subset
  <2>2. Len(made') <= Cardinality(S)
    BY <1>5 DEF IsDue
  <2>3. Len(next) = Dates!Smaller(Cardinality(T), Dates!Smaller(1, Ceiling))
    BY <1>10 DEF IsDue
  <2>4. Cardinality(T) >= 1
    BY <1>2, <2>1, <2>2
  <2>5. QED
    BY <1>3, <2>1, <2>3, <2>4 DEF Dates!Smaller
<1>12. least \in T /\ Cardinality({k \in T : k < least}) = 0 /\ next[1] = date(least)
  BY <1>10, <1>11 DEF IsDue, least, date
<1>13. \A k \in T : least <= k
  BY <1>4, <1>12, FirstIs
<1>14. least = first
  <2>1. least \in Nat /\ first \in Nat /\ least <= first
    BY <1>4, <1>6, <1>9, <1>12, <1>13
  <2>2. CASE least < first
    <3>1. Dates!Before(date(least), date(first)) /\ date(least) \in Dates!Date /\ date(first) \in Dates!Date
      BY <1>1, <2>1, <2>2, OccurrencesAscend DEF date
    <3>2. ~ Dates!Before(horizon, date(least))
      BY <1>1, <1>4, <1>6, <2>1, <3>1, DatesOrdered
    <3>3. least \in S
      BY <1>4, <1>12, <2>1, <3>2
    <3>4. QED
      BY <1>7, <2>1, <2>2, <3>3
  <2>3. QED
    BY <2>1, <2>2
<1>15. next # <<>>
  BY <1>11
<1>16. QED
  BY <1>6, <1>12, <1>14, <1>15 DEF Dates!nextOccurrence, last, next

\* What is left after a run is what comes after the last that it made.
LEMMA RunCountsBacklog ==
  ASSUME DatesInv, Dates!Generate
  PROVE  Dates!countDueOccurrences(rule, cursor, Dates!Horizon(rule))
           = Len(made') + Dates!countDueOccurrences(rule, cursor', Dates!Horizon(rule))
<1> DEFINE horizon == Dates!Horizon(rule)
           S == Dates!occurrencesBetween(rule, cursor, horizon)
           R == Dates!occurrencesBetween(rule, cursor', horizon)
           date(n) == Dates!occurrenceDate(rule, n)
           last == Dates!Ith(S, Len(made'))
           upTo == {m \in S : m < last} \cup {last}
<1>1. /\ horizon \in Dates!Date /\ IsRule(rule) /\ cursor \in Dates!Date \cup {NULL}
      /\ NULL \notin Dates!Date
  BY HorizonIs, RulesAre, IntervalAssumption DEF DatesInv, Dates!IntervalAssumption
<1>2. PICK limit \in 1 .. Ceiling :
        /\ made' = Dates!dueOccurrences(rule, cursor, horizon, limit)
        /\ made' \in Seq(Dates!Date) /\ Len(made') \in Nat \ {0}
        /\ cursor' = made'[Len(made')] /\ cursor' \in Dates!Date
  BY RunMakes
<1>3. limit \in Nat
  BY IntervalAssumption DEF Dates!IntervalAssumption
<1>4. IsDue(made', S, rule, limit)
  BY <1>1, <1>2, <1>3, DueFacts
<1> HIDE DEF horizon
<1>5. /\ S \in SUBSET Nat /\ IsFiniteSet(S)
      /\ \A n \in Nat : n \in S <=> /\ ~ Dates!Before(horizon, date(n))
                                    /\ cursor = NULL \/ Dates!Before(cursor, date(n))
  BY <1>1, BetweenIs
<1>6. /\ R \in SUBSET Nat /\ IsFiniteSet(R)
      /\ \A n \in Nat : n \in R <=> /\ ~ Dates!Before(horizon, date(n))
                                    /\ Dates!Before(cursor', date(n))
  BY <1>1, <1>2, BetweenIs
<1> HIDE DEF S, R
<1>7. /\ last \in S /\ Cardinality({m \in S : m < last}) = Len(made') - 1
      /\ cursor' = date(last)
  <2>1. Len(made') \in 1 .. Len(made')
    BY <1>2
  <2>2. QED
    BY <1>2, <1>4, <2>1 DEF IsDue
<1> HIDE DEF last, date
<1>8. upTo \in SUBSET S /\ Cardinality(upTo) = Len(made')
  <2>1. IsFiniteSet({m \in S : m < last})
    BY <1>5, FS_Subset
  <2>2. last \notin {m \in S : m < last}
    BY <1>5, <1>7
  <2>3. Cardinality(upTo) = (Len(made') - 1) + 1
    BY <1>7, <2>1, <2>2, FS_AddElement
  <2>4. QED
    BY <1>2, <1>7, <2>3
<1>9. \A n \in Nat : n \in R <=> n \in S /\ last < n
  <2> SUFFICES ASSUME NEW n \in Nat PROVE n \in R <=> n \in S /\ last < n
    OBVIOUS
  <2>1. last \in Nat /\ n <= n + 1 /\ n < n + 1 /\ n + 1 \in Nat
    BY <1>5, <1>7
  <2>2. PICK k \in Nat : n < k
    BY <2>1
  <2>3. date(n) \in Dates!Date /\ date(last) \in Dates!Date
    BY <1>1, <1>2, <1>7, <2>2, OccurrencesAscend DEF date
  <2>4. CASE last < n
    <3>1. Dates!Before(date(last), date(n))
      BY <1>1, <2>1, <2>4, OccurrencesAscend DEF date
    <3>2. cursor = NULL \/ Dates!Before(cursor, date(last))
      BY <1>5, <1>7, <2>1
    <3>3. cursor = NULL \/ Dates!Before(cursor, date(n))
      BY <1>1, <2>3, <3>1, <3>2, DatesOrdered
    <3>4. QED
      BY <1>5, <1>6, <1>7, <2>4, <3>1, <3>3
  <2>5. CASE n = last
    <3>1. ~ Dates!Before(cursor', date(n))
      BY <1>7, <2>3, <2>5, DatesOrdered
    <3>2. QED
      BY <1>6, <2>1, <2>5, <3>1
  <2>6. CASE n < last
    <3>1. Dates!Before(date(n), date(last))
      BY <1>1, <2>1, <2>6, OccurrencesAscend DEF date
    <3>2. ~ Dates!Before(date(last), date(n))
      BY <2>3, <3>1, DatesOrdered
    <3>3. QED
      BY <1>6, <1>7, <2>1, <2>6, <3>2
  <2>7. QED
    BY <2>1, <2>4, <2>5, <2>6
<1>10. R = S \ upTo
  <2>1. last \in Nat
    BY <1>5, <1>7
  <2>2. \A n \in S : n \in upTo <=> ~ (last < n)
    BY <1>5, <2>1
  <2> HIDE DEF upTo
  <2>3. QED
    BY <1>5, <1>6, <1>9, <2>2
<1>11. Cardinality(R) = Cardinality(S) - Len(made')
  <2>1. S \cap upTo = upTo
    BY <1>8
  <2> HIDE DEF upTo
  <2>2. Cardinality(S \ upTo) = Cardinality(S) - Cardinality(S \cap upTo)
    BY <1>5, FS_Difference
  <2>3. QED
    BY <1>8, <1>10, <2>1, <2>2
<1>12. Cardinality(S) \in Nat /\ Cardinality(R) \in Nat
  BY <1>5, <1>6, FS_CardinalityType
<1>13. QED
  BY <1>2, <1>11, <1>12, DatesCardinality DEF Dates!countDueOccurrences, horizon, S, R

LEMMA DatesCount ==
  ASSUME DatesInv, [Dates!Next]_(Dates!vars)
  PROVE  Dates!MakesNext /\ Dates!CountsBacklog
<1>1. CASE Dates!Generate
  BY <1>1, RunMakesNext, RunCountsBacklog DEF Dates!MakesNext, Dates!CountsBacklog
<1>2. CASE Dates!DaysGoBy
  BY <1>2 DEF Dates!DaysGoBy, Dates!MakesNext, Dates!CountsBacklog
<1>3. CASE Dates!EditRule
  BY <1>3 DEF Dates!EditRule, Dates!MakesNext, Dates!CountsBacklog
<1>4. CASE UNCHANGED Dates!vars
  BY <1>4 DEF Dates!vars, Dates!MakesNext, Dates!CountsBacklog
<1>5. QED
  BY <1>1, <1>2, <1>3, <1>4 DEF Dates!Next

LEMMA DatesInvariant == ServicesSpec => [](part = "interval" => DatesInv)
<1> DEFINE PartInv == part = "interval" => DatesInv
<1>1. ServicesInit => PartInv
  BY DatesInitial DEF ServicesInit
<1>2. PartInv /\ [ServicesNext]_servicesVars => PartInv'
  BY OneAtWork, DatesStep
<1>3. QED
  BY <1>1, <1>2, PTL DEF ServicesSpec

\* Every date that a run makes of a monthly or yearly rule is a whole number of
\* intervals after its anchor and falls on the anchor's day, or on the last of
\* a month that has no such day, for any rules, days, limits and ceiling, and
\* however the rule was edited before (interval.ts:40).
THEOREM DatesNeverDrift == ServicesSpec => []NoDrift
<1>1. (part = "interval" => DatesInv) => NoDrift
  BY DatesDoNotDrift DEF NoDrift
<1>2. QED
  BY <1>1, DatesInvariant, PTL

\* What is announced as next is the first that the next run makes, for any
\* rules, days, budgets and ceiling: what ends a run sooner than the
\* announcement, its horizon, leaves out none earlier (interval.ts:145).
THEOREM NextIsAlwaysMade == ServicesSpec => NextIsMade
<1>1. (part = "interval" => DatesInv) /\ [ServicesNext]_servicesVars
        => [part = "interval" => Dates!MakesNext]_servicesVars
  BY OneAtWork, DatesCount
<1>2. QED
  BY <1>1, DatesInvariant, PTL DEF ServicesSpec, NextIsMade

\* Each run takes off the count of what is due exactly what it makes, so the
\* count is what all the runs of a backlog make together, for any rules, days,
\* budgets and ceiling (interval.ts:120).
THEOREM BacklogAlwaysCounted == ServicesSpec => BacklogIsCounted
<1>1. (part = "interval" => DatesInv) /\ [ServicesNext]_servicesVars
        => [part = "interval" => Dates!CountsBacklog]_servicesVars
  BY OneAtWork, DatesCount
<1>2. QED
  BY <1>1, DatesInvariant, PTL DEF ServicesSpec, BacklogIsCounted
=============================================================================
