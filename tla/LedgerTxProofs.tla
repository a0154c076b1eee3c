--------------------------- MODULE LedgerTxProofs ---------------------------
(***************************************************************************)
(* Theorems about module LedgerTx, for any number of clients, requests,    *)
(* accounts and operations: whatever statements interleave, links name     *)
(* rows, no two rows have one link, and what a row is linked to reflects   *)
(* it or has lost its own link.  The last never befalls live books as long *)
(* as the counterparts that a batch clears are those of its own            *)
(* operations still; so pairs mirror if no batch is ever deleted, and if   *)
(* there are two clients.                                                  *)
(*                                                                         *)
(* The invariant says of each client what its transaction may rely on: the *)
(* rows that it locked are as it read them, the ids that it drew are no    *)
(* other's, and what it is about to commit has one of four shapes.         *)
(***************************************************************************)
EXTENDS LedgerTx, TLAPS

Modes == {"key", "no_key", "update"}

\* c may write o; c alone may point a row at o.
Locked(c, o) == \E mode \in {"no_key", "update"} : <<o, mode>> \in held[c]
Owned(c, o) == <<o, "update">> \in held[c]

\* Some row of rows points at o.
Linked(rows, o) == \E x \in DOMAIN rows : rows[x].transferOperation = o

\* The unique index: no two rows have one link, and no row has its own.
LinksUnshared ==
  \A x, y \in DOMAIN operation :
    LET mirror == operation[x].transferOperation
    IN  mirror # NULL =>
          mirror # x /\ (operation[y].transferOperation = mirror => x = y)

\* What a row is linked to reflects it, or has lost its own link.
LinksReturn ==
  \A o \in DOMAIN operation :
    LET mirror == operation[o].transferOperation
    IN  mirror # NULL =>
          \/ operation[mirror] = Reflection(o, operation[o])
          \/ operation[mirror].transferOperation = NULL

LocksExclude ==
  \A c, d \in Client : c # d =>
    \A k \in held[c], l \in held[d] : k[1] = l[1] => ~Conflict(k[2], l[2])

ClientVariables ==
  /\ DOMAIN pc = Client /\ DOMAIN request = Client /\ DOMAIN read = Client
  /\ DOMAIN wrote = Client /\ DOMAIN held = Client

-----------------------------------------------------------------------------
(* One client.                                                             *)

Editing == {"lock_operation", "delete_mirror", "write_mirror"}
SavingEither == {"lock_account", "check_target", "insert_mirror", "save"}
Batching == {"read_links", "clear_survivors", "delete_rows"}
Removing == {"flag", "scan", "convert"}

Asking(c) ==
  /\ pc[c] \in {"idle", "done", "insert"} \cup Editing \cup SavingEither \cup Batching
                 \cup Removing
  /\ pc[c] \in Editing => request[c] \in Edition
  /\ pc[c] = "insert" => request[c] \in Creation
  /\ pc[c] \in SavingEither => request[c] \in Creation \cup Edition
  /\ pc[c] \in Batching => request[c] \in BatchDeletion
  /\ pc[c] \in Removing => request[c] \in Removal

\* What c wrote it holds locks on, or drew the ids of.
Writing(c) ==
  /\ DOMAIN wrote[c] \subseteq drawn
  /\ \A o \in DOMAIN wrote[c] :
       /\ wrote[c][o] \in Row \cup {NULL}
       /\ o \in DOMAIN operation => Locked(c, o)
       /\ o \notin DOMAIN operation =>
            \A d \in Client \ {c} : o \notin DOMAIN wrote[d]
  /\ pc[c] \notin {"check_target", "insert_mirror", "save", "delete_rows"} =>
       DOMAIN wrote[c] = {}
  /\ held[c] \subseteq (Account \cup Bank \cup Operation) \X Modes
  /\ \A l \in held[c] : l[1] \in Operation => l[1] \in DOMAIN operation /\ l[2] # "key"

\* The operation that c inserted, before any other write.
Inserted(c) ==
  /\ read[c] = [account |-> request[c].account, transferAccount |-> request[c].target,
                transferOperation |-> NULL, content |-> request[c].content]
  /\ \E o \in Operation \ DOMAIN operation : wrote[c] = Row1(o, read[c])

\* The operation that c locked, before any write.
Read(c) ==
  LET o == request[c].operation
  IN  /\ o \in DOMAIN operation /\ Owned(c, o)
      /\ read[c] = operation[o] /\ DOMAIN wrote[c] = {}

Reading(c) ==
  /\ pc[c] \in {"delete_mirror", "check_target", "write_mirror", "insert_mirror"} =>
       /\ read[c] \in Row
       /\ request[c].kind = "update" => Read(c)
       /\ request[c].kind = "create" => Inserted(c)
  /\ pc[c] = "delete_mirror" =>
       request[c].target = NULL /\ read[c].transferOperation # NULL
  /\ pc[c] \in {"check_target", "write_mirror", "insert_mirror"} => request[c].target # NULL
  /\ pc[c] = "check_target" =>
       \/ read[c].transferOperation = NULL
       \/ request[c].target # read[c].transferAccount
  /\ pc[c] = "write_mirror" => read[c].transferOperation # NULL
  /\ pc[c] = "insert_mirror" =>
       read[c].transferOperation = NULL /\ request[c].target # read[c].account
  /\ pc[c] \in {"clear_survivors", "convert"} => read[c] \in SUBSET Operation
  /\ pc[c] = "clear_survivors" => read[c] \cap request[c].operations = {}

\* What is saved, of the request r that read v and wrote w, is the operation
\* SourceOf(r, w) too.
SourceOf(r, w) ==
  IF r.kind = "create" THEN CHOOSE o \in DOMAIN w : w[o].account = r.account ELSE r.operation

SavedOf(r, v) == [v EXCEPT !.content = r.content, !.transferAccount = r.target]

SavingOf(r, v, w) == Also(w, Row1(SourceOf(r, w), SavedOf(r, v)))

\* The four shapes of it, s being the operation saved and w all that is
\* written: s alone, s and the counterpart m that is deleted, inserted, or
\* kept in step with it.
Alone(s, w) ==
  /\ DOMAIN w = {s} /\ w[s].transferOperation = NULL
  /\ s \in DOMAIN operation => operation[s].transferOperation = NULL

Detached(c, s, w, m) ==
  /\ m # s /\ DOMAIN w = {s, m} /\ w[m] = NULL /\ w[s].transferOperation = NULL
  /\ s \in DOMAIN operation /\ operation[s].transferOperation = m /\ Owned(c, m)

Attached(s, w, m) ==
  /\ m # s /\ DOMAIN w = {s, m} /\ m \notin DOMAIN operation
  /\ w[s].transferOperation = m /\ w[m] # NULL /\ w[m] = Reflection(s, w[s])
  /\ ~Linked(operation, s)
  /\ s \in DOMAIN operation => operation[s].transferOperation = NULL

Synced(s, w, m) ==
  /\ m # s /\ DOMAIN w = {s, m} /\ s \in DOMAIN operation /\ m \in DOMAIN operation
  /\ operation[s].transferOperation = m /\ w[s].transferOperation = m
  /\ w[m] # NULL /\ w[m].transferOperation = operation[m].transferOperation
  /\ w[m] = Reflection(s, w[s]) \/ w[m].transferOperation = NULL

Outcome(c, s, w) ==
  /\ s \in drawn /\ w[s] \in Row
  /\ s \in DOMAIN operation => Owned(c, s) /\ w[s].account = operation[s].account
  /\ s \notin DOMAIN operation => s \in DOMAIN wrote[c]
  /\ DOMAIN w \subseteq {s} \cup DOMAIN wrote[c]
  /\ \A o \in DOMAIN w \ {s} : w[o] = wrote[c][o]
  /\ \/ Alone(s, w)
     \/ \E m \in Operation : Detached(c, s, w, m) \/ Attached(s, w, m) \/ Synced(s, w, m)

Saving(c) ==
  pc[c] = "save" =>
    Outcome(c, SourceOf(request[c], wrote[c]), SavingOf(request[c], read[c], wrote[c]))

\* The counterparts that c cleared.
Clearing(c) ==
  pc[c] = "delete_rows" =>
    \A o \in DOMAIN wrote[c] :
      /\ o \in DOMAIN operation /\ o \notin request[c].operations /\ Owned(c, o)
      /\ wrote[c][o] = External(operation[o])

ClientOK(c) == Asking(c) /\ Writing(c) /\ Reading(c) /\ Saving(c) /\ Clearing(c)

TxInv ==
  /\ TypeOK /\ LinksUnshared /\ LinksReturn
  /\ ClientVariables /\ LocksExclude
  /\ \A c \in Client : ClientOK(c)

-----------------------------------------------------------------------------
(* The operators of the model.                                             *)

\* u is w with what v has over it.
Merges(u, w, v) ==
  /\ DOMAIN u = DOMAIN w \cup DOMAIN v
  /\ \A o \in DOMAIN v : u[o] = v[o]
  /\ \A o \in DOMAIN w \ DOMAIN v : u[o] = w[o]

LEMMA AlsoIs ==
  ASSUME NEW w, NEW v
  PROVE  Merges(Also(w, v), w, v)
BY DEF Also, Merges

LEMMA Row1Is ==
  ASSUME NEW o, NEW row
  PROVE  DOMAIN Row1(o, row) = {o} /\ Row1(o, row)[o] = row
BY DEF Row1

LEMMA ViewIs ==
  ASSUME NEW w
  PROVE  /\ \A o : o \in DOMAIN View(w) <=>
                     \/ o \in DOMAIN w /\ w[o] # NULL
                     \/ o \in DOMAIN operation /\ o \notin DOMAIN w
         /\ \A o \in DOMAIN View(w) :
              View(w)[o] = IF o \in DOMAIN w THEN w[o] ELSE operation[o]
BY DEF View

LEMMA ExternalIs ==
  ASSUME NEW row \in Row
  PROVE  /\ External(row) \in Row
         /\ External(row).account = row.account
         /\ External(row).transferAccount = NULL
         /\ External(row).transferOperation = NULL
         /\ External(row).content = row.content
BY DEF External, Row

\* An id is drawn that no row and no transaction has.
LEMMA NewIdIs ==
  ASSUME drawn \subseteq Operation, drawn # Operation
  PROVE  NewId \in Operation \ drawn
BY DEF NewId

LEMMA SavedIs ==
  ASSUME NEW r \in Creation \cup Edition, NEW v \in Row
  PROVE  /\ SavedOf(r, v) \in Row
         /\ SavedOf(r, v).account = v.account
         /\ SavedOf(r, v).transferAccount = r.target
         /\ SavedOf(r, v).transferOperation = v.transferOperation
         /\ SavedOf(r, v).content = r.content
<1>1. /\ SavedOf(r, v).account = v.account
      /\ SavedOf(r, v).transferAccount = r.target
      /\ SavedOf(r, v).transferOperation = v.transferOperation
      /\ SavedOf(r, v).content = r.content
  BY DEF SavedOf, Row
<1>2. SavedOf(r, v) \in Row
  BY DEF SavedOf, Row, Creation, Edition
<1>3. QED
  BY <1>1, <1>2

\* z is what is saved, w having been written.
Completes(z, s, row, w) ==
  /\ DOMAIN z = DOMAIN w \cup {s} /\ z[s] = row
  /\ \A o \in DOMAIN w \ {s} : z[o] = w[o]

LEMMA SavingIs ==
  ASSUME NEW r, NEW v, NEW w
  PROVE  Completes(SavingOf(r, v, w), SourceOf(r, w), SavedOf(r, v), w)
<1> DEFINE s == SourceOf(r, w)
           last == Row1(s, SavedOf(r, v))
<1>1. DOMAIN last = {s} /\ last[s] = SavedOf(r, v)
  BY Row1Is
<1>2. SavingOf(r, v, w) = Also(w, last)
  BY DEF SavingOf
<1> HIDE DEF s, last
<1>3. Merges(Also(w, last), w, last)
  BY AlsoIs
<1>4. QED
  BY <1>1, <1>2, <1>3 DEF s, Completes, Merges

-----------------------------------------------------------------------------
(* Steps.                                                                  *)

\* The step is not one of d.
Undisturbed(d) ==
  /\ pc'[d] = pc[d] /\ request'[d] = request[d] /\ read'[d] = read[d]
  /\ wrote'[d] = wrote[d] /\ held'[d] = held[d]

LEMMA ThenIs ==
  ASSUME ClientVariables, NEW c \in Client, NEW label, NEW v, NEW w,
         Then(c, label, v, w)
  PROVE  /\ pc'[c] = label /\ read'[c] = v /\ wrote'[c] = w
         /\ held'[c] = held[c] \cup Needs(c) /\ request'[c] = request[c]
         /\ operation' = operation /\ deleted' = deleted
         /\ ClientVariables'
         /\ \A d \in Client \ {c} : Undisturbed(d)
BY DEF Then, ClientVariables, Undisturbed

LEMMA EndIs ==
  ASSUME ClientVariables, NEW c \in Client, End(c)
  PROVE  /\ pc'[c] = "done" /\ DOMAIN wrote'[c] = {} /\ held'[c] = {}
         /\ request'[c] = request[c]
         /\ ClientVariables'
         /\ \A d \in Client \ {c} : Undisturbed(d)
BY DEF End, Empty, ClientVariables, Undisturbed

\* What the commits and statements of others leave of a client's invariant:
\* the rows it holds stay, the ids it drew are no rows yet, and nothing comes
\* to point at either.
LEMMA OthersKept ==
  ASSUME NEW d \in Client, ClientOK(d), Undisturbed(d),
         drawn \subseteq Operation, drawn \subseteq drawn',
         \A o \in DOMAIN operation :
           Locked(d, o) => o \in DOMAIN operation' /\ operation'[o] = operation[o],
         \A o \in DOMAIN wrote[d] : o \notin DOMAIN operation =>
           o \notin DOMAIN operation' /\ \A e \in Client \ {d} : o \notin DOMAIN wrote'[e],
         \A o \in Operation : Owned(d, o) \/ o \in DOMAIN wrote[d] \ DOMAIN operation =>
           (Linked(operation', o) => Linked(operation, o))
  PROVE  ClientOK(d)'
<1>1. \A o : Locked(d, o)' <=> Locked(d, o)
  BY DEF Undisturbed, Locked
<1>2. \A o : Owned(d, o)' <=> Owned(d, o)
  BY DEF Undisturbed, Owned
<1>3. \A o : Owned(d, o) => Locked(d, o)
  BY DEF Owned, Locked
<1>4. \A o : Owned(d, o) /\ o \in DOMAIN operation =>
               o \in DOMAIN operation' /\ operation'[o] = operation[o]
  BY <1>3
<1>5. Asking(d)'
  BY DEF ClientOK, Asking, Undisturbed
<1>6. Writing(d)'
  <2>1. \A o \in DOMAIN wrote[d] :
          /\ o \in DOMAIN operation' => Locked(d, o)
          /\ o \notin DOMAIN operation' => \A e \in Client \ {d} : o \notin DOMAIN wrote'[e]
    BY DEF ClientOK, Writing
  <2>2. ASSUME NEW l \in held[d], l[1] \in Operation
        PROVE  l[1] \in DOMAIN operation' /\ l[2] # "key"
    <3>1. l[1] \in DOMAIN operation /\ l[2] \in {"no_key", "update"} /\ l = <<l[1], l[2]>>
      BY <2>2 DEF ClientOK, Writing, Modes
    <3>2. Locked(d, l[1])
      BY <2>2, <3>1 DEF Locked
    <3>3. QED
      BY <3>1, <3>2
  <2>3. QED
    BY <2>1, <2>2, <1>1 DEF ClientOK, Writing, Undisturbed
<1>7. Reading(d)'
  <2>1. Read(d) => Read(d)'
    BY <1>2, <1>4 DEF Read, Undisturbed
  <2>2. Inserted(d) => Inserted(d)'
    <3>1. ASSUME NEW o \in Operation \ DOMAIN operation, wrote[d] = Row1(o, read[d])
          PROVE  o \notin DOMAIN operation'
      <4>1. o \in DOMAIN wrote[d]
        BY <3>1 DEF Row1
      <4>2. QED
        BY <4>1
    <3>2. QED
      BY <3>1 DEF Inserted, Undisturbed
  <2>3. QED
    BY <2>1, <2>2 DEF ClientOK, Reading, Undisturbed
<1>8. Saving(d)'
  <2> DEFINE s == SourceOf(request[d], wrote[d])
             w == SavingOf(request[d], read[d], wrote[d])
  <2>1. s' = s /\ w' = w
    BY DEF Undisturbed
  <2> HIDE DEF s, w
  <2>2. ASSUME Outcome(d, s, w) PROVE Outcome(d, s, w)'
    <3>1. /\ s \in DOMAIN operation =>
               Owned(d, s) /\ s \in DOMAIN operation' /\ operation'[s] = operation[s]
          /\ s \notin DOMAIN operation => s \in DOMAIN wrote[d] /\ s \notin DOMAIN operation'
      BY <2>2, <1>4 DEF Outcome
    <3>2. Linked(operation', s) => Linked(operation, s)
      BY <2>2, <3>1 DEF Outcome
    <3>3. Alone(s, w) => Alone(s, w)'
      BY <2>1, <3>1 DEF Alone
    <3>4. ASSUME NEW m \in Operation, Detached(d, s, w, m) PROVE Detached(d, s, w, m)'
      BY <2>1, <3>1, <3>4, <1>2 DEF Detached
    <3>5. ASSUME NEW m \in Operation, Attached(s, w, m) PROVE Attached(s, w, m)'
      <4>1. m \in DOMAIN wrote[d]
        BY <2>2, <3>5 DEF Outcome, Attached
      <4>2. m \notin DOMAIN operation'
        BY <4>1, <3>5 DEF Attached
      <4>3. QED
        BY <4>2, <2>1, <3>1, <3>2, <3>5 DEF Attached
    <3>6. ASSUME NEW m \in Operation, Synced(s, w, m) PROVE Synced(s, w, m)'
      <4>1. m \in DOMAIN wrote[d] /\ m \in DOMAIN operation
        BY <2>2, <3>6 DEF Outcome, Synced
      <4>2. m \in DOMAIN operation' /\ operation'[m] = operation[m]
        BY <4>1 DEF ClientOK, Writing
      <4>3. QED
        BY <4>2, <2>1, <3>1, <3>6 DEF Synced
    <3>7. \/ Alone(s, w)'
          \/ \E m \in Operation : Detached(d, s, w, m)' \/ Attached(s, w, m)' \/ Synced(s, w, m)'
      BY <2>2, <3>3, <3>4, <3>5, <3>6 DEF Outcome
    <3>8. QED
      BY <2>1, <2>2, <3>1, <3>7, <1>2 DEF Outcome, Undisturbed
  <2>3. QED
    BY <2>1, <2>2 DEF ClientOK, Saving, Undisturbed, s, w
<1>9. Clearing(d)'
  <2>1. ASSUME pc[d] = "delete_rows", NEW o \in DOMAIN wrote[d]
        PROVE  /\ o \in DOMAIN operation' /\ Owned(d, o)
               /\ wrote[d][o] = External(operation'[o])
    BY <2>1, <1>4 DEF ClientOK, Clearing
  <2>2. QED
    BY <2>1, <1>2 DEF ClientOK, Clearing, Undisturbed
<1>10. QED
  BY <1>5, <1>6, <1>7, <1>8, <1>9 DEF ClientOK

-----------------------------------------------------------------------------
(* Locks.                                                                  *)

\* What c holds once its statement runs.
Mine(c) == held[c] \cup Needs(c)

\* Of a lock to write and another on the same row, one client has both.
LEMMA LocksAreMine ==
  ASSUME LocksExclude, NEW c \in Client, Blockers(c, Needs(c)) = {},
         NEW d \in Client \ {c}, NEW o
  PROVE  /\ \A mode \in {"no_key", "update"} : <<o, mode>> \in Mine(c) => ~Locked(d, o)
         /\ <<o, "update">> \in Mine(c) => ~Locked(d, o)
         /\ Owned(d, o) => \A mode : <<o, mode>> \notin Mine(c)
<1>1. \A k \in Mine(c), l \in held[d] : k[1] = l[1] => ~Conflict(k[2], l[2])
  BY DEF LocksExclude, Mine, Blockers
<1>2. \A i, j : <<o, i>> \in Mine(c) /\ <<o, j>> \in held[d] => ~Conflict(i, j)
  <2>1. ASSUME NEW i, NEW j, <<o, i>> \in Mine(c), <<o, j>> \in held[d]
        PROVE  ~Conflict(i, j)
    <3>1. <<o, i>>[1] = <<o, j>>[1] /\ <<o, i>>[2] = i /\ <<o, j>>[2] = j
      OBVIOUS
    <3>2. QED
      BY <1>1, <2>1, <3>1
  <2>2. QED
    BY <2>1
<1>3. /\ Conflict("no_key", "no_key")
      /\ \A i : Conflict("update", i) /\ Conflict(i, "update")
  BY DEF Conflict
<1>4. QED
  BY <1>2, <1>3 DEF Locked, Owned

LEMMA LocksKept ==
  ASSUME LocksExclude, NEW c \in Client, Blockers(c, Needs(c)) = {},
         held'[c] \in {{}, Mine(c)}, \A d \in Client \ {c} : held'[d] = held[d]
  PROVE  LocksExclude'
<1>1. \A i, j : Conflict(i, j) <=> Conflict(j, i)
  BY DEF Conflict
<1>2. ASSUME NEW d \in Client \ {c}, NEW k \in Mine(c), NEW l \in held[d], k[1] = l[1]
      PROVE  ~Conflict(k[2], l[2])
  BY <1>2 DEF LocksExclude, Mine, Blockers
<1>3. \A d \in Client \ {c} : \A k \in Mine(c), l \in held[d] :
        k[1] = l[1] => ~Conflict(k[2], l[2]) /\ ~Conflict(l[2], k[2])
  BY <1>1, <1>2
<1>4. QED
  BY <1>3 DEF LocksExclude

\* A statement that succeeds.
LEMMA ThenKeeps ==
  ASSUME TxInv, NEW c \in Client, NEW label, NEW v, NEW w,
         Then(c, label, v, w), Blockers(c, Needs(c)) = {},
         drawn \subseteq drawn', drawn' \subseteq Operation,
         \A o \in DOMAIN w \ DOMAIN operation : o \in DOMAIN wrote[c] \/ o \notin drawn,
         ClientOK(c)'
  PROVE  TxInv'
<1>1. /\ wrote'[c] = w /\ held'[c] = Mine(c)
      /\ operation' = operation /\ deleted' = deleted /\ ClientVariables'
      /\ \A d \in Client \ {c} : Undisturbed(d)
  BY ThenIs DEF TxInv, Mine
<1>2. ASSUME NEW d \in Client \ {c} PROVE ClientOK(d)'
  <2>1. ClientOK(d) /\ Undisturbed(d)
    BY <1>1 DEF TxInv
  <2>2. ASSUME NEW o \in DOMAIN wrote[d], o \notin DOMAIN operation, NEW e \in Client \ {d}
        PROVE  o \notin DOMAIN wrote'[e]
    <3>1. o \notin DOMAIN wrote[e] /\ o \in drawn
      BY <2>1, <2>2 DEF ClientOK, Writing
    <3>2. CASE e = c
      BY <1>1, <2>2, <3>1, <3>2
    <3>3. CASE e # c
      BY <1>1, <3>1, <3>3 DEF Undisturbed
    <3>4. QED
      BY <3>2, <3>3
  <2>3. QED
    BY <1>1, <2>1, <2>2, OthersKept DEF TxInv, TypeOK
<1>3. LocksExclude'
  BY <1>1, LocksKept DEF TxInv, Undisturbed
<1>4. TypeOK' /\ LinksUnshared' /\ LinksReturn'
  BY <1>1 DEF TxInv, TypeOK, LinksUnshared, LinksReturn
<1>5. QED
  BY <1>1, <1>2, <1>3, <1>4 DEF TxInv

LEMMA EndedIsOK ==
  ASSUME NEW c \in Client, pc'[c] = "done", DOMAIN wrote'[c] = {}, held'[c] = {}
  PROVE  ClientOK(c)'
<1>1. Asking(c)'
  BY DEF Asking, Editing, SavingEither, Batching, Removing
<1>2. Writing(c)'
  BY DEF Writing
<1>3. Reading(c)' /\ Saving(c)' /\ Clearing(c)'
  BY DEF Reading, Saving, Clearing
<1>4. QED
  BY <1>1, <1>2, <1>3 DEF ClientOK

LEMMA RollbackKeeps ==
  ASSUME TxInv, NEW c \in Client, Rollback(c)
  PROVE  TxInv'
<1>1. /\ pc'[c] = "done" /\ DOMAIN wrote'[c] = {} /\ held'[c] = {}
      /\ ClientVariables' /\ \A d \in Client \ {c} : Undisturbed(d)
      /\ operation' = operation /\ deleted' = deleted /\ drawn' = drawn
  BY EndIs DEF TxInv, Rollback
<1>2. ClientOK(c)'
  BY <1>1, EndedIsOK
<1>3. ASSUME NEW d \in Client \ {c} PROVE ClientOK(d)'
  <2>1. ClientOK(d) /\ Undisturbed(d)
    BY <1>1 DEF TxInv
  <2>2. ASSUME NEW o \in DOMAIN wrote[d], o \notin DOMAIN operation, NEW e \in Client \ {d}
        PROVE  o \notin DOMAIN wrote'[e]
    <3>1. o \notin DOMAIN wrote[e]
      BY <2>1, <2>2 DEF ClientOK, Writing
    <3>2. QED
      BY <1>1, <3>1 DEF Undisturbed
  <2>3. QED
    BY <1>1, <2>1, <2>2, OthersKept DEF TxInv, TypeOK
<1>4. LocksExclude'
  BY <1>1 DEF TxInv, LocksExclude, Undisturbed
<1>5. TypeOK' /\ LinksUnshared' /\ LinksReturn'
  BY <1>1 DEF TxInv, TypeOK, LinksUnshared, LinksReturn
<1>6. QED
  BY <1>1, <1>2, <1>3, <1>4, <1>5 DEF TxInv

-----------------------------------------------------------------------------
(* A commit.                                                               *)

\* c may commit w: it has the locks and the ids, no row is left pointing at
\* one that is deleted, a link that is new goes to a row of w that no row
\* pointed at, and what w links reflects or is unlinked.
Writable(c, w) ==
  /\ DOMAIN w \subseteq drawn
  /\ \A o \in DOMAIN w :
       /\ w[o] \in Row \cup {NULL}
       /\ o \in DOMAIN operation =>
            \E mode \in {"no_key", "update"} : <<o, mode>> \in Mine(c)
       /\ o \notin DOMAIN operation =>
            w[o] # NULL /\ \A d \in Client \ {c} : o \notin DOMAIN wrote[d]
       /\ w[o] = NULL => ~Linked(View(w), o)

NewLink(c, w, o, mirror) ==
  /\ ~Linked(operation, mirror)
  /\ mirror \in DOMAIN operation => <<mirror, "update">> \in Mine(c)
  /\ \A x \in DOMAIN w \ {o} : w[x] # NULL => w[x].transferOperation # mirror

LinksFit(c, w) ==
  /\ \A o \in DOMAIN w :
       LET mirror == w[o].transferOperation
       IN  w[o] # NULL /\ mirror # NULL =>
             /\ mirror # o /\ mirror \in DOMAIN w /\ w[mirror] # NULL
             /\ \/ o \in DOMAIN operation /\ operation[o].transferOperation = mirror
                \/ NewLink(c, w, o, mirror)
             /\ w[mirror] = Reflection(o, w[o]) \/ w[mirror].transferOperation = NULL
  /\ \A x \in DOMAIN operation \ DOMAIN w, o \in DOMAIN w :
       operation[x].transferOperation = o /\ w[o] # NULL => w[o].transferOperation = NULL

Committable(c, w) == Writable(c, w) /\ LinksFit(c, w)

\* A row of the new table: as it was, or as w has it.
LEMMA CommittedIs ==
  ASSUME NEW w, operation' = View(w)
  PROVE  /\ \A o : o \in DOMAIN operation' <=>
                     \/ o \in DOMAIN w /\ w[o] # NULL
                     \/ o \in DOMAIN operation /\ o \notin DOMAIN w
         /\ \A o \in DOMAIN w : w[o] # NULL => operation'[o] = w[o]
         /\ \A o \in DOMAIN operation \ DOMAIN w : operation'[o] = operation[o]
BY ViewIs

LEMMA CommitKeepsTypes ==
  ASSUME TypeOK, NEW c \in Client, NEW w, Writable(c, w), LinksFit(c, w),
         operation' = View(w), drawn' = drawn, deleted' \subseteq Account
  PROVE  TypeOK'
<1>1. ASSUME NEW o \in DOMAIN operation' PROVE o \in drawn /\ operation'[o] \in Row
  <2>1. CASE o \in DOMAIN w
    BY <1>1, <2>1, CommittedIs DEF Writable
  <2>2. CASE o \notin DOMAIN w
    BY <1>1, <2>2, CommittedIs DEF TypeOK
  <2>3. QED
    BY <2>1, <2>2
<1>2. operation' = [o \in DOMAIN operation' |-> operation'[o]]
  BY DEF View
<1>3. ASSUME NEW o \in DOMAIN operation', operation'[o].transferOperation # NULL
      PROVE  operation'[o].transferOperation \in DOMAIN operation'
  <2>1. CASE o \in DOMAIN w
    BY <1>3, <2>1, CommittedIs DEF LinksFit
  <2>2. CASE o \notin DOMAIN w
    <3> DEFINE mirror == operation[o].transferOperation
    <3>1. o \in DOMAIN operation /\ operation'[o] = operation[o] /\ mirror \in DOMAIN operation
      BY <1>3, <2>2, CommittedIs DEF TypeOK
    <3>2. Linked(View(w), mirror)
      BY <1>3, <3>1 DEF Linked
    <3>3. ~(mirror \in DOMAIN w /\ w[mirror] = NULL)
      BY <3>2 DEF Writable
    <3>4. QED
      BY <3>1, <3>3, CommittedIs
  <2>3. QED
    BY <2>1, <2>2
<1>4. QED
  BY <1>1, <1>2, <1>3 DEF TypeOK

LEMMA CommitKeepsUnshared ==
  ASSUME TypeOK, LinksUnshared, NEW c \in Client, NEW w, LinksFit(c, w),
         operation' = View(w)
  PROVE  LinksUnshared'
<1> SUFFICES ASSUME NEW x \in DOMAIN operation', NEW y \in DOMAIN operation',
                    operation'[x].transferOperation # NULL
             PROVE  /\ operation'[x].transferOperation # x
                    /\ operation'[y].transferOperation = operation'[x].transferOperation
                         => x = y
  BY DEF LinksUnshared
<1> DEFINE mirror == operation'[x].transferOperation
           Kept(z) == z \in DOMAIN operation /\ operation[z].transferOperation = mirror
           Fresh(z) == z \in DOMAIN w /\ w[z] # NULL /\ NewLink(c, w, z, mirror)
<1>1. ASSUME NEW z \in DOMAIN operation', operation'[z].transferOperation = mirror
      PROVE  /\ mirror # z
             /\ Kept(z) \/ Fresh(z)
             /\ z \notin DOMAIN w => Kept(z)
             /\ z \in DOMAIN w => w[z] # NULL /\ w[z].transferOperation = mirror
  <2>1. CASE z \in DOMAIN w
    BY <1>1, <2>1, CommittedIs DEF LinksFit
  <2>2. CASE z \notin DOMAIN w
    BY <1>1, <2>2, CommittedIs DEF LinksUnshared
  <2>3. QED
    BY <2>1, <2>2
<1>2. ASSUME NEW z, Fresh(z), NEW y1 \in DOMAIN operation',
             operation'[y1].transferOperation = mirror
      PROVE  y1 = z
  <2>1. ~Kept(y1)
    BY <1>2 DEF NewLink, Linked
  <2>2. y1 \in DOMAIN w /\ w[y1] # NULL /\ w[y1].transferOperation = mirror
    BY <1>1, <1>2, <2>1
  <2>3. QED
    BY <1>2, <2>2 DEF NewLink
<1>3. ASSUME operation'[y].transferOperation = mirror PROVE x = y
  <2>1. CASE Fresh(x)
    BY <1>2, <1>3, <2>1
  <2>2. CASE Fresh(y)
    BY <1>2, <2>2
  <2>3. CASE Kept(x) /\ Kept(y)
    BY <2>3 DEF LinksUnshared
  <2>4. QED
    BY <1>1, <1>3, <2>1, <2>2, <2>3
<1>4. QED
  BY <1>1, <1>3

LEMMA CommitKeepsReturn ==
  ASSUME TypeOK, LinksReturn, NEW c \in Client, NEW w, Writable(c, w), LinksFit(c, w),
         operation' = View(w)
  PROVE  LinksReturn'
<1> SUFFICES ASSUME NEW o \in DOMAIN operation', operation'[o].transferOperation # NULL
             PROVE  \/ operation'[operation'[o].transferOperation]
                         = Reflection(o, operation'[o])
                    \/ operation'[operation'[o].transferOperation].transferOperation = NULL
  BY DEF LinksReturn
<1>1. CASE o \in DOMAIN w
  BY <1>1, CommittedIs DEF LinksFit
<1>2. CASE o \notin DOMAIN w
  <2> DEFINE mirror == operation[o].transferOperation
  <2>1. /\ o \in DOMAIN operation /\ operation'[o] = operation[o]
        /\ mirror \in DOMAIN operation /\ mirror # NULL
    BY <1>2, CommittedIs DEF TypeOK
  <2>2. operation[mirror] = Reflection(o, operation[o]) \/ operation[mirror].transferOperation = NULL
    BY <2>1 DEF LinksReturn
  <2>3. CASE mirror \notin DOMAIN w
    BY <2>1, <2>2, <2>3, CommittedIs
  <2>4. CASE mirror \in DOMAIN w
    <3>1. Linked(View(w), mirror)
      BY <2>1 DEF Linked
    <3>2. w[mirror] # NULL
      BY <2>4, <3>1 DEF Writable
    <3>3. w[mirror].transferOperation = NULL
      BY <1>2, <2>1, <2>4, <3>2 DEF LinksFit
    <3>4. QED
      BY <2>1, <2>4, <3>2, <3>3, CommittedIs
  <2>5. QED
    BY <2>3, <2>4
<1>3. QED
  BY <1>1, <1>2

LEMMA CommitKeeps ==
  ASSUME TxInv, NEW c \in Client, NEW w, NEW gone \in SUBSET Account,
         Commit(c, w, gone), Blockers(c, Needs(c)) = {}, Committable(c, w)
  PROVE  TxInv'
<1>1. /\ pc'[c] = "done" /\ DOMAIN wrote'[c] = {} /\ held'[c] = {}
      /\ ClientVariables' /\ \A d \in Client \ {c} : Undisturbed(d)
      /\ operation' = View(w) /\ deleted' = deleted \cup gone /\ drawn' = drawn
  BY EndIs DEF TxInv, Commit
<1>2. ClientOK(c)'
  BY <1>1, EndedIsOK
<1>3. TypeOK'
  BY <1>1, CommitKeepsTypes DEF TxInv, TypeOK, Committable
<1>4. LinksUnshared'
  BY <1>1, CommitKeepsUnshared DEF TxInv, Committable
<1>5. LinksReturn'
  BY <1>1, CommitKeepsReturn DEF TxInv, Committable
<1>6. LocksExclude'
  BY <1>1, LocksKept DEF TxInv, Undisturbed
<1>7. ASSUME NEW d \in Client \ {c} PROVE ClientOK(d)'
  <2>1. ClientOK(d) /\ Undisturbed(d)
    BY <1>1 DEF TxInv
  <2>2. \A o \in DOMAIN wrote[d] :
          o \in DOMAIN operation \/ \A e \in Client \ {d} : o \notin DOMAIN wrote[e]
    BY <2>1 DEF ClientOK, Writing
  <2>3. ASSUME NEW o \in DOMAIN operation, Locked(d, o) PROVE o \notin DOMAIN w
    BY <2>3, LocksAreMine DEF TxInv, Committable, Writable
  <2>4. ASSUME NEW o \in DOMAIN wrote[d], o \notin DOMAIN operation PROVE o \notin DOMAIN w
    BY <2>4 DEF Committable, Writable
  <2>5. \A o \in DOMAIN operation :
          Locked(d, o) => o \in DOMAIN operation' /\ operation'[o] = operation[o]
    BY <1>1, <2>3, CommittedIs
  <2>6. ASSUME NEW o \in DOMAIN wrote[d], o \notin DOMAIN operation
        PROVE  o \notin DOMAIN operation' /\ \A e \in Client \ {d} : o \notin DOMAIN wrote'[e]
    <3>1. o \notin DOMAIN operation'
      BY <1>1, <2>4, <2>6, CommittedIs
    <3>2. ASSUME NEW e \in Client \ {d} PROVE o \notin DOMAIN wrote'[e]
      <4>1. CASE e = c
        BY <1>1, <4>1
      <4>2. CASE e # c
        BY <1>1, <2>2, <2>6, <4>2 DEF Undisturbed
      <4>3. QED
        BY <4>1, <4>2
    <3>3. QED
      BY <3>1, <3>2
  <2>7. ASSUME NEW o \in Operation, Owned(d, o) \/ o \in DOMAIN wrote[d] \ DOMAIN operation,
               Linked(operation', o)
        PROVE  Linked(operation, o)
    <3>1. PICK x \in DOMAIN operation' : operation'[x].transferOperation = o
      BY <2>7 DEF Linked
    <3>2. CASE x \in DOMAIN operation /\ operation[x].transferOperation = o
      BY <3>2 DEF Linked
    <3>3. CASE ~(x \in DOMAIN operation /\ operation[x].transferOperation = o)
      <4>1. x \in DOMAIN w /\ w[x] # NULL /\ w[x].transferOperation = o
        BY <1>1, <3>1, <3>3, CommittedIs
      <4>2. o # NULL
        BY LedgerTxAssumption
      <4>3. o \in DOMAIN w /\ NewLink(c, w, x, o)
        BY <3>3, <4>1, <4>2 DEF Committable, LinksFit
      <4>4. o \in DOMAIN operation
        <5>1. CASE Owned(d, o)
          <6>1. <<o, "update">> \in held[d] /\ <<o, "update">>[1] = o
            BY <5>1 DEF Owned
          <6>2. QED
            BY <6>1, <2>1 DEF ClientOK, Writing
        <5>2. QED
          BY <2>4, <2>7, <4>3, <5>1
      <4>5. QED
        BY <2>7, <4>3, <4>4, LocksAreMine DEF NewLink, TxInv
    <3>4. QED
      BY <3>2, <3>3
  <2>8. QED
    BY <1>1, <2>1, <2>5, <2>6, <2>7, OthersKept DEF TxInv, TypeOK
<1>8. QED
  BY <1>1, <1>2, <1>3, <1>4, <1>5, <1>6, <1>7 DEF TxInv

-----------------------------------------------------------------------------
(* What the statements lock and write.                                     *)

LEMMA NeedsAre ==
  ASSUME NEW c \in Client
  PROVE  LET r == request[c]
         IN /\ pc[c] = "lock_account" =>
                 Needs(c) = {<<r.account, "update">>, <<BankOf[r.account], "update">>}
            /\ pc[c] = "lock_operation" => Needs(c) = {<<r.operation, "update">>}
            /\ pc[c] = "delete_mirror" =>
                 Needs(c) = {<<read[c].transferOperation, "update">>}
            /\ pc[c] = "write_mirror" =>
                 /\ Needs(c) \subseteq {<<read[c].transferOperation, "no_key">>,
                                        <<r.target, "key">>}
                 /\ <<read[c].transferOperation, "no_key">> \in Needs(c)
            /\ pc[c] \in {"insert", "insert_mirror"} =>
                 Needs(c) = {<<a, "key">> : a \in {r.target} \ {NULL}}
            /\ pc[c] = "save" /\ r.kind = "update" => Needs(c) = {<<r.operation, "update">>}
            /\ pc[c] \in {"clear_survivors", "convert"} =>
                 Needs(c) = {<<o, "update">> : o \in There(read[c])}
            /\ pc[c] = "delete_rows" =>
                 Needs(c) = {<<o, "update">> : o \in There(r.operations)}
            /\ pc[c] = "flag" => Needs(c) = {<<r.account, "no_key">>}
            /\ pc[c] \in {"check_target", "read_links", "scan"} => Needs(c) = {}
<1> DEFINE r == request[c]
<1>1. pc[c] = "lock_account" =>
        Needs(c) = {<<r.account, "update">>, <<BankOf[r.account], "update">>}
  BY DEF Needs
<1>2. pc[c] = "lock_operation" => Needs(c) = {<<r.operation, "update">>}
  BY DEF Needs
<1>3. pc[c] = "delete_mirror" => Needs(c) = {<<read[c].transferOperation, "update">>}
  BY DEF Needs
<1>4. pc[c] = "write_mirror" =>
        /\ Needs(c) \subseteq {<<read[c].transferOperation, "no_key">>, <<r.target, "key">>}
        /\ <<read[c].transferOperation, "no_key">> \in Needs(c)
  BY DEF Needs
<1>5. pc[c] \in {"insert", "insert_mirror"} =>
        Needs(c) = {<<a, "key">> : a \in {r.target} \ {NULL}}
  BY DEF Needs
<1>6. pc[c] = "save" /\ r.kind = "update" => Needs(c) = {<<r.operation, "update">>}
  BY DEF Needs
<1>7. pc[c] \in {"clear_survivors", "convert"} =>
        Needs(c) = {<<o, "update">> : o \in There(read[c])}
  BY DEF Needs
<1>8. pc[c] = "delete_rows" => Needs(c) = {<<o, "update">> : o \in There(r.operations)}
  BY DEF Needs
<1>9. pc[c] = "flag" => Needs(c) = {<<r.account, "no_key">>}
  BY DEF Needs
<1>10. pc[c] \in {"check_target", "read_links", "scan"} => Needs(c) = {}
  BY DEF Needs
<1>11. QED
  BY <1>1, <1>2, <1>3, <1>4, <1>5, <1>6, <1>7, <1>8, <1>9, <1>10

\* Locks are on accounts, banks and rows; a foreign key's is on no row.
LEMMA NeedsFit ==
  ASSUME TxInv, NEW c \in Client,
         pc[c] \notin {"idle", "done", "save"},
         pc[c] = "lock_operation" => request[c].operation \in DOMAIN operation
  PROVE  /\ Needs(c) \subseteq (Account \cup Bank \cup Operation) \X Modes
         /\ \A l \in Needs(c) : l[1] \in Operation => l[1] \in DOMAIN operation /\ l[2] # "key"
<1> DEFINE r == request[c]
<1> USE DEF Modes
<1>1. Asking(c) /\ Reading(c) /\ TypeOK
  BY DEF TxInv, ClientOK
<1>2. CASE pc[c] = "lock_account"
  <2>1. r.account \in Account
    BY <1>1, <1>2 DEF Asking, SavingEither, Creation, Edition
  <2>2. BankOf[r.account] \in Bank
    BY <2>1, LedgerTxAssumption
  <2>3. Needs(c) = {<<r.account, "update">>, <<BankOf[r.account], "update">>}
    BY <1>2, NeedsAre
  <2>4. r.account \notin Operation /\ BankOf[r.account] \notin Operation
    BY <2>1, <2>2, LedgerTxAssumption
  <2>5. QED
    BY <2>1, <2>2, <2>3, <2>4
<1>3. CASE pc[c] = "lock_operation"
  <2>1. Needs(c) = {<<r.operation, "update">>}
    BY <1>3, NeedsAre
  <2>2. QED
    BY <1>1, <1>3, <2>1 DEF TypeOK
<1>4. CASE pc[c] \in {"delete_mirror", "write_mirror"}
  <2>1. r \in Edition /\ Read(c) /\ read[c].transferOperation # NULL
    BY <1>1, <1>4 DEF Asking, Reading, Editing, Edition
  <2>2. read[c].transferOperation \in DOMAIN operation /\ DOMAIN operation \subseteq Operation
    BY <1>1, <2>1 DEF Read, TypeOK
  <2>3. pc[c] = "write_mirror" => r.target \in Account
    BY <1>1, <2>1 DEF Reading, Edition
  <2>4. \/ Needs(c) = {<<read[c].transferOperation, "update">>}
        \/ /\ Needs(c) \subseteq {<<read[c].transferOperation, "no_key">>, <<r.target, "key">>}
           /\ r.target \in Account /\ r.target \notin Operation
    BY <1>4, <2>3, NeedsAre, LedgerTxAssumption
  <2>5. QED
    BY <2>2, <2>4
<1>5. CASE pc[c] \in {"insert", "insert_mirror"}
  <2>1. r.target \in Account \cup {NULL}
    BY <1>1, <1>5 DEF Asking, SavingEither, Creation, Edition
  <2>2. Needs(c) = {<<a, "key">> : a \in {r.target} \ {NULL}}
    BY <1>5, NeedsAre
  <2>3. \A a \in {r.target} \ {NULL} : a \in Account /\ a \notin Operation
    BY <2>1, LedgerTxAssumption
  <2>4. QED
    BY <2>2, <2>3
<1>6. CASE pc[c] \in {"clear_survivors", "convert", "delete_rows"}
  <2>1. PICK S : Needs(c) = {<<o, "update">> : o \in There(S)}
    BY <1>6, NeedsAre
  <2>2. There(S) \subseteq DOMAIN operation /\ DOMAIN operation \subseteq Operation
    BY <1>1 DEF There, TypeOK
  <2>3. QED
    BY <2>1, <2>2
<1>7. CASE pc[c] = "flag"
  <2>1. r.account \in Account
    BY <1>1, <1>7 DEF Asking, Removing, Removal
  <2>2. Needs(c) = {<<r.account, "no_key">>} /\ r.account \notin Operation
    BY <1>7, <2>1, NeedsAre, LedgerTxAssumption
  <2>3. QED
    BY <2>1, <2>2
<1>8. CASE pc[c] \in {"check_target", "read_links", "scan"}
  BY <1>8, NeedsAre
<1>9. QED
  BY <1>1, <1>2, <1>3, <1>4, <1>5, <1>6, <1>7, <1>8
    DEF Asking, Editing, SavingEither, Batching, Removing

LEMMA ThenWrites ==
  ASSUME TxInv, NEW c \in Client, NEW label, NEW v, NEW w,
         Then(c, label, v, w), drawn \subseteq drawn',
         pc[c] \notin {"idle", "done", "save"},
         pc[c] = "lock_operation" => request[c].operation \in DOMAIN operation,
         label \notin {"check_target", "insert_mirror", "save", "delete_rows"} =>
           DOMAIN w = {},
         \A o \in DOMAIN w :
           /\ o \in drawn' /\ w[o] \in Row \cup {NULL}
           /\ o \in DOMAIN operation =>
                \E mode \in {"no_key", "update"} : <<o, mode>> \in Mine(c)
           /\ o \notin DOMAIN operation => o \in DOMAIN wrote[c] \/ o \notin drawn
  PROVE  Writing(c)'
<1>1. /\ pc'[c] = label /\ wrote'[c] = w /\ held'[c] = Mine(c)
      /\ operation' = operation /\ \A d \in Client \ {c} : wrote'[d] = wrote[d]
  BY ThenIs DEF TxInv, Mine, Undisturbed
<1>2. \A o : Locked(c, o)' <=> \E mode \in {"no_key", "update"} : <<o, mode>> \in Mine(c)
  BY <1>1 DEF Locked
<1>3. Writing(c) /\ \A d \in Client : DOMAIN wrote[d] \subseteq drawn
  BY DEF TxInv, ClientOK, Writing
<1>4. /\ Mine(c) \subseteq (Account \cup Bank \cup Operation) \X Modes
      /\ \A l \in Mine(c) : l[1] \in Operation => l[1] \in DOMAIN operation /\ l[2] # "key"
  BY <1>3, NeedsFit DEF Writing, Mine
<1>5. ASSUME NEW o \in DOMAIN w, o \notin DOMAIN operation, NEW d \in Client \ {c}
      PROVE  o \notin DOMAIN wrote'[d]
  BY <1>1, <1>3, <1>5 DEF Writing
<1>6. QED
  BY <1>1, <1>2, <1>4, <1>5 DEF Writing

\* A client about to run a statement other than the last.
LEMMA ThenIsOK ==
  ASSUME NEW c \in Client, Asking(c)', Writing(c)', Reading(c)', pc'[c] # "save",
         pc'[c] # "delete_rows"
  PROVE  ClientOK(c)'
BY DEF ClientOK, Saving, Clearing

-----------------------------------------------------------------------------
(* Each step.                                                              *)

LEMMA InitIsOK == Init => TxInv
<1> SUFFICES ASSUME Init PROVE TxInv
  OBVIOUS
<1>1. TypeOK /\ LinksUnshared /\ LinksReturn
  <2>1. /\ operation \in [DOMAIN operation -> Row]
        /\ \A o \in DOMAIN operation :
             operation[o].transferOperation # NULL =>
               /\ operation[o].transferOperation \in DOMAIN operation \ {o}
               /\ operation[operation[o].transferOperation] = Reflection(o, operation[o])
    BY InitialAssumption DEF Init
  <2>2. DOMAIN operation \subseteq Operation
    BY LedgerTxAssumption DEF Init
  <2>3. TypeOK
    BY <2>1, <2>2 DEF Init, TypeOK
  <2>4. \A o \in DOMAIN operation :
          operation[o].transferOperation # NULL =>
            operation[operation[o].transferOperation].transferOperation = o
    <3>1. \A o, row : Reflection(o, row).transferOperation = o
      BY DEF Reflection
    <3>2. QED
      BY <2>1, <3>1
  <2>5. LinksUnshared
    BY <2>1, <2>4 DEF LinksUnshared
  <2>6. QED
    BY <2>1, <2>3, <2>5 DEF LinksReturn
<1>2. ClientVariables /\ LocksExclude
  BY DEF Init, ClientVariables, LocksExclude
<1>3. ASSUME NEW c \in Client PROVE ClientOK(c)
  <2>1. pc[c] = "idle" /\ DOMAIN wrote[c] = {} /\ held[c] = {}
    BY DEF Init, Empty
  <2>2. Asking(c)
    BY <2>1 DEF Asking, Editing, SavingEither, Batching, Removing
  <2>3. Writing(c)
    BY <2>1 DEF Writing
  <2>4. Reading(c) /\ Saving(c) /\ Clearing(c)
    BY <2>1 DEF Reading, Saving, Clearing
  <2>5. QED
    BY <2>2, <2>3, <2>4 DEF ClientOK
<1>4. QED
  BY <1>1, <1>2, <1>3 DEF TxInv

LEMMA StartKeeps ==
  ASSUME TxInv, NEW c \in Client, NEW r, NEW label, Start(c, r, label),
         \/ label = "lock_account" /\ r \in Creation \cup Edition
         \/ label = "read_links" /\ r \in BatchDeletion
         \/ label = "flag" /\ r \in Removal
  PROVE  TxInv'
<1>1. /\ pc'[c] = label /\ request'[c] = r
      /\ ClientVariables' /\ \A d \in Client \ {c} : Undisturbed(d)
      /\ operation' = operation /\ deleted' = deleted /\ drawn' = drawn
      /\ wrote' = wrote /\ held' = held
  BY DEF Start, TxInv, ClientVariables, Undisturbed
<1>2. ASSUME NEW d \in Client \ {c} PROVE ClientOK(d)'
  <2>1. ClientOK(d) /\ Undisturbed(d)
    BY <1>1 DEF TxInv
  <2>2. \A o \in DOMAIN wrote[d] : o \notin DOMAIN operation =>
          \A e \in Client \ {d} : o \notin DOMAIN wrote'[e]
    BY <1>1, <2>1 DEF ClientOK, Writing
  <2>3. QED
    BY <1>1, <2>1, <2>2, OthersKept DEF TxInv, TypeOK
<1>3. ClientOK(c)'
  <2>1. Asking(c)'
    BY <1>1 DEF Asking, Editing, SavingEither, Batching, Removing
  <2>2. pc[c] = "idle" /\ Writing(c)
    BY DEF Start, TxInv, ClientOK
  <2>3. Writing(c)'
    <3>1. DOMAIN wrote[c] = {}
      BY <2>2 DEF Writing
    <3>2. QED
      BY <1>1, <2>2, <3>1 DEF Writing
  <2>4. Reading(c)'
    BY <1>1 DEF Reading
  <2>5. QED
    BY <1>1, <2>1, <2>3, <2>4, ThenIsOK
<1>4. LocksExclude'
  BY <1>1 DEF TxInv, LocksExclude
<1>5. TypeOK' /\ LinksUnshared' /\ LinksReturn'
  BY <1>1 DEF TxInv, TypeOK, LinksUnshared, LinksReturn
<1>6. QED
  BY <1>1, <1>2, <1>3, <1>4, <1>5 DEF TxInv

LEMMA BeginKeeps ==
  ASSUME TxInv, NEW c \in Client, Begin(c)
  PROVE  TxInv'
<1>1. PICK r \in Request :
        BeginCreate(c, r) \/ BeginUpdate(c, r) \/ BeginBatchDelete(c, r) \/ BeginRemove(c, r)
  BY DEF Begin
<1>2. r \in Creation \cup Edition \cup BatchDeletion \cup Removal
  BY RequestAssumption
<1>3. CASE BeginCreate(c, r) \/ BeginUpdate(c, r)
  <2>1. r \in Creation \cup Edition
    BY <1>2, <1>3 DEF BeginCreate, BeginUpdate, BatchDeletion, Removal
  <2>2. QED
    BY <1>3, <2>1, StartKeeps DEF BeginCreate, BeginUpdate
<1>4. CASE BeginBatchDelete(c, r)
  <2>1. PICK owned \in SUBSET There(r.operations) :
          Start(c, [r EXCEPT !.operations = owned], "read_links")
    BY <1>4 DEF BeginBatchDelete
  <2>2. r \in BatchDeletion
    BY <1>2, <1>4 DEF BeginBatchDelete, Creation, Edition, Removal
  <2>3. [r EXCEPT !.operations = owned] \in BatchDeletion
    BY <2>2 DEF BatchDeletion, There
  <2>4. QED
    BY <2>1, <2>3, StartKeeps
<1>5. CASE BeginRemove(c, r)
  <2>1. r \in Removal
    BY <1>2, <1>5 DEF BeginRemove, Creation, Edition, BatchDeletion
  <2>2. QED
    BY <1>5, <2>1, StartKeeps DEF BeginRemove
<1>6. QED
  BY <1>1, <1>3, <1>4, <1>5

LEMMA LockAccountKeeps ==
  ASSUME TxInv, NEW c \in Client, LockAccount(c)
  PROVE  TxInv'
<1>1. pc[c] = "lock_account" /\ Blockers(c, Needs(c)) = {}
  BY DEF LockAccount, At
<1>2. ASSUME NEW label \in {"insert", "lock_operation"},
             label = "insert" <=> request[c].kind = "create",
             Then(c, label, NULL, Empty), drawn' = drawn
      PROVE  TxInv'
  <2>1. pc'[c] = label /\ request'[c] = request[c]
    BY <1>2, ThenIs DEF TxInv
  <2>2. request[c] \in Creation \cup Edition
    BY <1>1 DEF TxInv, ClientOK, Asking, SavingEither
  <2>3. Asking(c)'
    <3>1. /\ request[c].kind = "create" => request[c] \in Creation
          /\ request[c].kind # "create" => request[c] \in Edition
      BY <2>2 DEF Creation, Edition
    <3>2. QED
      BY <1>2, <2>1, <3>1 DEF Asking, Editing, SavingEither, Batching, Removing
  <2>4. DOMAIN Empty = {}
    BY DEF Empty
  <2>5. Writing(c)'
    BY <1>1, <1>2, <2>4, ThenWrites
  <2>6. Reading(c)'
    BY <1>2, <2>1 DEF Reading
  <2>7. ClientOK(c)'
    BY <1>2, <2>1, <2>3, <2>5, <2>6, ThenIsOK
  <2>8. QED
    BY <1>1, <1>2, <2>4, <2>7, ThenKeeps DEF TxInv, TypeOK
<1>3. QED
  BY <1>2, RollbackKeeps DEF LockAccount

LEMMA LockOperationKeeps ==
  ASSUME TxInv, NEW c \in Client, LockOperation(c)
  PROVE  TxInv'
<1> DEFINE o == request[c].operation
           label == AfterRead(operation[o], request[c].target)
<1>1. pc[c] = "lock_operation" /\ Blockers(c, Needs(c)) = {}
  BY DEF LockOperation, At
<1>2. CASE o \in DOMAIN operation
  <2>1. Then(c, label, operation[o], Empty) /\ drawn' = drawn
    BY <1>2 DEF LockOperation
  <2>2. request[c] \in Edition
    BY <1>1 DEF TxInv, ClientOK, Asking, Editing
  <2>3. operation[o] \in Row
    BY <1>2 DEF TxInv, TypeOK
  <2>4. DOMAIN Empty = {}
    BY DEF Empty
  <2>5. /\ label \in {"save", "delete_mirror", "write_mirror", "check_target"}
        /\ label = "save" =>
             request[c].target = NULL /\ operation[o].transferOperation = NULL
        /\ label = "delete_mirror" =>
             request[c].target = NULL /\ operation[o].transferOperation # NULL
        /\ label = "write_mirror" =>
             request[c].target # NULL /\ operation[o].transferOperation # NULL
        /\ label = "check_target" =>
             /\ request[c].target # NULL
             /\ \/ operation[o].transferOperation = NULL
                \/ request[c].target # operation[o].transferAccount
    BY DEF AfterRead, Edit
  <2>6. /\ pc'[c] = label /\ read'[c] = operation[o] /\ wrote'[c] = Empty
        /\ request'[c] = request[c] /\ operation' = operation /\ held'[c] = Mine(c)
    BY <2>1, ThenIs DEF TxInv, Mine
  <2> HIDE DEF label
  <2>7. Asking(c)'
    BY <2>2, <2>5, <2>6 DEF Asking, Editing, SavingEither, Batching, Removing
  <2>8. Writing(c)'
    BY <1>1, <1>2, <2>1, <2>4, ThenWrites
  <2>9. Owned(c, o)'
    <3>1. <<o, "update">> \in Mine(c)
      BY <1>1, NeedsAre DEF Mine
    <3>2. QED
      BY <2>6, <3>1 DEF Owned
  <2>10. Reading(c)'
    <3>1. request[c].kind = "update"
      BY <2>2 DEF Edition
    <3>2. Read(c)'
      BY <1>2, <2>4, <2>6, <2>9 DEF Read
    <3>3. QED
      BY <2>3, <2>5, <2>6, <3>1, <3>2 DEF Reading
  <2>11. Saving(c)'
    <3> SUFFICES ASSUME label = "save"
                 PROVE  Outcome(c, SourceOf(request[c], Empty),
                                SavingOf(request[c], operation[o], Empty))'
      BY <2>6 DEF Saving
    <3> DEFINE w == SavingOf(request[c], operation[o], Empty)
    <3>1. SourceOf(request[c], Empty) = o
      BY <2>2 DEF SourceOf, Edition
    <3>2. /\ DOMAIN w = DOMAIN Empty \cup {o}
          /\ w[o] = SavedOf(request[c], operation[o])
          /\ SavedOf(request[c], operation[o]).transferOperation
               = operation[o].transferOperation
          /\ SavedOf(request[c], operation[o]).account = operation[o].account
          /\ SavedOf(request[c], operation[o]) \in Row
      <4>1. Completes(w, o, SavedOf(request[c], operation[o]), Empty)
        BY <3>1, SavingIs
      <4> HIDE DEF w
      <4>2. DOMAIN w = DOMAIN Empty \cup {o} /\ w[o] = SavedOf(request[c], operation[o])
        BY <4>1 DEF Completes
      <4>3. QED
        BY <4>2, <2>2, <2>3, SavedIs
    <3>7. o' = o /\ w' = w
      BY <2>6
    <3> HIDE DEF w
    <3>8. /\ DOMAIN w = {o} /\ w[o] \in Row /\ w[o].transferOperation = NULL
          /\ w[o].account = operation[o].account
      BY <2>4, <2>5, <3>2
    <3>3. o \in drawn /\ drawn' = drawn
      BY <1>2, <2>1 DEF TxInv, TypeOK
    <3>4. Alone(o, w)'
      BY <2>5, <2>6, <3>7, <3>8 DEF Alone
    <3>5. Outcome(c, o, w)'
      BY <1>2, <2>6, <2>9, <3>3, <3>4, <3>7, <3>8 DEF Outcome
    <3>6. QED
      BY <2>6, <3>1, <3>5, <3>7 DEF w
  <2>12. Clearing(c)'
    BY <2>5, <2>6 DEF Clearing
  <2>13. ClientOK(c)'
    BY <2>7, <2>8, <2>10, <2>11, <2>12 DEF ClientOK
  <2>14. QED
    BY <1>1, <2>1, <2>4, <2>13, ThenKeeps DEF TxInv, TypeOK
<1>3. CASE o \notin DOMAIN operation
  BY <1>3, RollbackKeeps DEF LockOperation
<1>4. QED
  BY <1>2, <1>3

LEMMA CheckTargetKeeps ==
  ASSUME TxInv, NEW c \in Client, CheckTarget(c)
  PROVE  TxInv'
<1> DEFINE label == IF read[c].transferOperation = NULL THEN "insert_mirror" ELSE "write_mirror"
<1>1. pc[c] = "check_target" /\ Blockers(c, Needs(c)) = {}
  BY DEF CheckTarget, At
<1>2. CASE Active(request[c].target) /\ request[c].target # read[c].account
  <2>1. Then(c, label, read[c], wrote[c]) /\ drawn' = drawn
    BY <1>2 DEF CheckTarget
  <2>2. /\ pc'[c] = label /\ read'[c] = read[c] /\ wrote'[c] = wrote[c]
        /\ request'[c] = request[c] /\ operation' = operation /\ held'[c] = Mine(c)
    BY <2>1, ThenIs DEF TxInv, Mine
  <2>3. Asking(c) /\ Writing(c) /\ Reading(c)
    BY DEF TxInv, ClientOK
  <2>4. request[c] \in Creation \cup Edition
    BY <1>1, <2>3 DEF Asking, SavingEither
  <2>5. read[c].transferOperation # NULL => request[c] \in Edition
    <3>1. request[c] \in Creation => read[c].transferOperation = NULL
      BY <1>1, <2>3 DEF Reading, Inserted, Creation
    <3>2. QED
      BY <2>4, <3>1
  <2>6. Asking(c)'
    BY <2>2, <2>4, <2>5 DEF Asking, Editing, SavingEither, Batching, Removing
  <2>7. \A o \in DOMAIN wrote[c] :
          /\ o \in drawn' /\ wrote[c][o] \in Row \cup {NULL}
          /\ o \in DOMAIN operation =>
               \E mode \in {"no_key", "update"} : <<o, mode>> \in Mine(c)
          /\ o \in DOMAIN wrote[c] \/ o \notin drawn
    BY <2>1, <2>3 DEF Writing, Locked, Mine
  <2>8. DOMAIN wrote[c] # {} => read[c].transferOperation = NULL
    <3>1. request[c] \in Edition => DOMAIN wrote[c] = {}
      BY <1>1, <2>3 DEF Reading, Read, Edition
    <3>2. QED
      BY <2>4, <3>1, <1>1, <2>3 DEF Reading, Inserted, Creation
  <2>9. Writing(c)'
    BY <1>1, <2>1, <2>7, <2>8, ThenWrites
  <2>10. Reading(c)'
    <3>1. Read(c) => Read(c)'
      BY <2>2 DEF Read, Owned, Mine
    <3>2. Inserted(c) => Inserted(c)'
      BY <2>2 DEF Inserted
    <3>3. QED
      BY <1>1, <1>2, <2>2, <2>3, <3>1, <3>2 DEF Reading
  <2>11. ClientOK(c)'
    BY <2>2, <2>6, <2>9, <2>10, ThenIsOK
  <2>12. QED
    BY <1>1, <2>1, <2>11, ThenKeeps DEF TxInv, TypeOK
<1>3. CASE ~(Active(request[c].target) /\ request[c].target # read[c].account)
  BY <1>3, RollbackKeeps DEF CheckTarget
<1>4. QED
  BY <1>2, <1>3

LEMMA ReadLinksKeeps ==
  ASSUME TxInv, NEW c \in Client, ReadLinks(c)
  PROVE  TxInv'
<1> DEFINE D == request[c].operations
           S == {operation[o].transferOperation : o \in There(D)} \ (D \cup {NULL})
<1>1. /\ pc[c] = "read_links" /\ Blockers(c, Needs(c)) = {}
      /\ Then(c, "clear_survivors", S, Empty) /\ drawn' = drawn
  BY DEF ReadLinks, At
<1>2. S \in SUBSET Operation /\ S \cap D = {}
  BY DEF TxInv, TypeOK, There
<1> HIDE DEF S
<1>3. /\ pc'[c] = "clear_survivors" /\ read'[c] = S /\ request'[c] = request[c]
  BY <1>1, ThenIs DEF TxInv
<1>4. Asking(c)'
  BY <1>1, <1>3 DEF TxInv, ClientOK, Asking, Editing, SavingEither, Batching, Removing
<1>5. DOMAIN Empty = {}
  BY DEF Empty
<1>6. Writing(c)'
  BY <1>1, <1>5, ThenWrites
<1>7. Reading(c)'
  BY <1>2, <1>3 DEF Reading
<1>8. ClientOK(c)'
  BY <1>3, <1>4, <1>6, <1>7, ThenIsOK
<1>9. QED
  BY <1>1, <1>5, <1>8, ThenKeeps DEF TxInv, TypeOK

LEMMA FlagKeeps ==
  ASSUME TxInv, NEW c \in Client, Flag(c)
  PROVE  TxInv'
<1>1. /\ pc[c] = "flag" /\ Blockers(c, Needs(c)) = {}
      /\ Then(c, "scan", NULL, Empty) /\ drawn' = drawn
  BY DEF Flag, At
<1>2. pc'[c] = "scan" /\ request'[c] = request[c]
  BY <1>1, ThenIs DEF TxInv
<1>3. Asking(c)'
  BY <1>1, <1>2 DEF TxInv, ClientOK, Asking, Editing, SavingEither, Batching, Removing
<1>4. DOMAIN Empty = {}
  BY DEF Empty
<1>5. Writing(c)'
  BY <1>1, <1>4, ThenWrites
<1>6. Reading(c)'
  BY <1>2 DEF Reading
<1>7. ClientOK(c)'
  BY <1>2, <1>3, <1>5, <1>6, ThenIsOK
<1>8. QED
  BY <1>1, <1>4, <1>7, ThenKeeps DEF TxInv, TypeOK

LEMMA ScanKeeps ==
  ASSUME TxInv, NEW c \in Client, Scan(c)
  PROVE  TxInv'
<1> DEFINE S == {o \in DOMAIN operation : operation[o].transferAccount = request[c].account}
<1>1. /\ pc[c] = "scan" /\ Blockers(c, Needs(c)) = {}
      /\ Then(c, "convert", S, Empty) /\ drawn' = drawn
  BY DEF Scan, At
<1>2. S \in SUBSET Operation
  BY DEF TxInv, TypeOK
<1> HIDE DEF S
<1>3. pc'[c] = "convert" /\ read'[c] = S /\ request'[c] = request[c]
  BY <1>1, ThenIs DEF TxInv
<1>4. Asking(c)'
  BY <1>1, <1>3 DEF TxInv, ClientOK, Asking, Editing, SavingEither, Batching, Removing
<1>5. DOMAIN Empty = {}
  BY DEF Empty
<1>6. Writing(c)'
  BY <1>1, <1>5, ThenWrites
<1>7. Reading(c)'
  BY <1>2, <1>3 DEF Reading
<1>8. ClientOK(c)'
  BY <1>3, <1>4, <1>6, <1>7, ThenIsOK
<1>9. QED
  BY <1>1, <1>5, <1>8, ThenKeeps DEF TxInv, TypeOK

-----------------------------------------------------------------------------
(* Steps after which c is about to save.                                   *)

\* z has one of the four shapes, c holding what it will.
Shaped(c, s, z) ==
  \/ Alone(s, z)
  \/ \E m \in Operation :
       \/ /\ m # s /\ DOMAIN z = {s, m} /\ z[m] = NULL /\ z[s].transferOperation = NULL
          /\ s \in DOMAIN operation /\ operation[s].transferOperation = m
          /\ <<m, "update">> \in held'[c]
       \/ Attached(s, z, m)
       \/ Synced(s, z, m)

LEMMA SaveIsOK ==
  ASSUME NEW c \in Client, NEW r \in Creation \cup Edition, NEW v \in Row, NEW w, NEW s,
         SourceOf(r, w) = s,
         pc'[c] = "save", request'[c] = r, read'[c] = v, wrote'[c] = w,
         operation' = operation, Writing(c)',
         s \in drawn', s \in DOMAIN operation => <<s, "update">> \in held'[c],
         s \in DOMAIN operation => v.account = operation[s].account,
         s \notin DOMAIN operation => s \in DOMAIN w,
         \A z : Completes(z, s, SavedOf(r, v), w) => Shaped(c, s, z)
  PROVE  ClientOK(c)'
<1> DEFINE z == SavingOf(r, v, w)
<1>1. Completes(z, s, SavedOf(r, v), w)
  BY SavingIs
<1>2. SavingOf(request[c], read[c], wrote[c])' = z /\ SourceOf(request[c], wrote[c])' = s
  OBVIOUS
<1> HIDE DEF z
<1>3. z[s] \in Row /\ z[s].account = v.account
  BY <1>1, SavedIs DEF Completes
<1>4. Shaped(c, s, z)
  BY <1>1
<1> DEFINE source == SourceOf(request[c], wrote[c])
           saving == SavingOf(request[c], read[c], wrote[c])
<1>5. source' = s /\ saving' = z
  BY <1>2
<1> HIDE DEF source, saving
<1>6. \/ Alone(source, saving)'
      \/ \E m \in Operation : \/ Detached(c, source, saving, m)'
                              \/ Attached(source, saving, m)' \/ Synced(source, saving, m)'
  <2>1. Alone(s, z) => Alone(source, saving)'
    BY <1>5 DEF Alone
  <2>2. ASSUME NEW m \in Operation, Attached(s, z, m) PROVE Attached(source, saving, m)'
    <3>1. ~Linked(operation', source')
      BY <1>5, <2>2 DEF Attached
    <3>2. QED
      BY <1>5, <2>2, <3>1 DEF Attached
  <2>3. ASSUME NEW m \in Operation, Synced(s, z, m) PROVE Synced(source, saving, m)'
    BY <1>5, <2>3 DEF Synced
  <2>4. ASSUME NEW m \in Operation,
               m # s /\ DOMAIN z = {s, m} /\ z[m] = NULL /\ z[s].transferOperation = NULL,
               s \in DOMAIN operation /\ operation[s].transferOperation = m,
               <<m, "update">> \in held'[c]
        PROVE  Detached(c, source, saving, m)'
    BY <1>5, <2>4 DEF Detached, Owned
  <2>5. QED
    BY <1>4, <2>1, <2>2, <2>3, <2>4 DEF Shaped
<1>7. Outcome(c, source, saving)'
  <2>1. /\ DOMAIN z \subseteq {s} \cup DOMAIN w
        /\ \A o \in DOMAIN z \ {s} : z[o] = w[o]
    BY <1>1 DEF Completes
  <2>2. Owned(c, source)' <=> <<s, "update">> \in held'[c]
    BY <1>5 DEF Owned
  <2>3. QED
    BY <1>3, <1>5, <1>6, <2>1, <2>2 DEF Outcome
<1>8. Saving(c)'
  BY <1>7 DEF Saving, source, saving
<1>9. Asking(c)' /\ Reading(c)' /\ Clearing(c)'
  BY DEF Asking, Editing, SavingEither, Batching, Removing, Reading, Clearing
<1>10. QED
  BY <1>8, <1>9 DEF ClientOK

LEMMA DeleteMirrorKeeps ==
  ASSUME TxInv, NEW c \in Client, DeleteMirror(c)
  PROVE  TxInv'
<1> DEFINE r == request[c]
           s == r.operation
           m == read[c].transferOperation
           v == External(read[c])
           w == Also(Row1(s, v), Row1(m, NULL))
<1>1. pc[c] = "delete_mirror" /\ Blockers(c, Needs(c)) = {}
  BY DEF DeleteMirror, At
<1>2. CASE PointingAt(View(w), {m}) # {}
  BY <1>2, RollbackKeeps DEF DeleteMirror
<1>3. CASE PointingAt(View(w), {m}) = {}
  <2>1. Then(c, "save", v, w) /\ drawn' = drawn
    BY <1>3 DEF DeleteMirror
  <2>2. Asking(c) /\ Writing(c) /\ Reading(c) /\ TypeOK /\ LinksUnshared
    BY DEF TxInv, ClientOK
  <2>3. r \in Edition
    BY <1>1, <2>2 DEF Asking, Editing
  <2>4. /\ s \in DOMAIN operation /\ Owned(c, s) /\ read[c] = operation[s]
        /\ r.target = NULL /\ m # NULL /\ read[c] \in Row
    BY <1>1, <2>2, <2>3 DEF Reading, Read, Edition
  <2>5. m # s /\ m \in DOMAIN operation /\ s \in Operation /\ m \in Operation
    BY <2>2, <2>4 DEF LinksUnshared, TypeOK
  <2>6. /\ pc'[c] = "save" /\ read'[c] = v /\ wrote'[c] = w /\ request'[c] = r
        /\ operation' = operation /\ held'[c] = Mine(c)
    BY <2>1, ThenIs DEF TxInv, Mine
  <2>7. v \in Row /\ v.transferOperation = NULL /\ v.account = operation[s].account
    BY <2>4, ExternalIs
  <2>8. /\ DOMAIN w = {s, m} /\ w[s] = v /\ w[m] = NULL
    <3> DEFINE first == Row1(s, v)
               second == Row1(m, NULL)
    <3>1. DOMAIN first = {s} /\ first[s] = v /\ DOMAIN second = {m} /\ second[m] = NULL
      BY Row1Is
    <3>2. w = Also(first, second)
      OBVIOUS
    <3> HIDE DEF first, second, w, s, m
    <3>3. Merges(w, first, second)
      BY <3>2, AlsoIs
    <3>4. QED
      BY <2>5, <3>1, <3>3 DEF Merges
  <2>9. Needs(c) = {<<m, "update">>}
    BY <1>1, NeedsAre
  <2>10. SourceOf(r, w) = s
    BY <2>3 DEF SourceOf, Edition
  <2>11. <<m, "update">> \in Mine(c) /\ <<s, "update">> \in Mine(c)
    BY <2>4, <2>9 DEF Mine, Owned
  <2>12. <<m, "update">> \in held'[c] /\ <<s, "update">> \in held'[c]
    BY <2>6, <2>11
  <2> HIDE DEF r, s, m, v, w
  <2>13. Writing(c)'
    BY <1>1, <2>1, <2>2, <2>4, <2>5, <2>7, <2>8, <2>11, ThenWrites DEF TypeOK
  <2>14. ASSUME NEW z, Completes(z, s, SavedOf(r, v), w)
         PROVE  Shaped(c, s, z)
    <3>1. /\ DOMAIN z = {s, m} /\ z[m] = NULL /\ z[s] = SavedOf(r, v)
      BY <2>5, <2>8, <2>14 DEF Completes
    <3>2. z[s].transferOperation = NULL
      BY <2>3, <2>7, <3>1, SavedIs
    <3>3. operation[s].transferOperation = m
      BY <2>4 DEF m
    <3>4. QED
      BY <2>4, <2>5, <2>12, <3>1, <3>2, <3>3 DEF Shaped
  <2>15. ClientOK(c)'
    <3>1. s \in drawn' /\ r \in Creation \cup Edition
      BY <2>1, <2>2, <2>3, <2>4 DEF TypeOK
    <3>2. QED
      BY <2>4, <2>6, <2>7, <2>10, <2>12, <2>13, <2>14, <3>1, SaveIsOK
  <2>16. QED
    BY <1>1, <2>1, <2>2, <2>4, <2>5, <2>8, <2>15, ThenKeeps DEF TypeOK
<1>4. QED
  BY <1>2, <1>3

\* The row that is written reflects what will be saved, if what it was
\* reflected what was read.
LEMMA WriteMirrorKeeps ==
  ASSUME TxInv, NEW c \in Client, WriteMirror(c)
  PROVE  TxInv'
<1> DEFINE r == request[c]
           s == r.operation
           v == read[c]
           m == v.transferOperation
           row == [operation[m] EXCEPT
                     !.content = r.content,
                     !.account = IF Edit(v, r.target) = "refresh" THEN @ ELSE r.target]
           w == Row1(m, row)
<1>1. pc[c] = "write_mirror" /\ Blockers(c, Needs(c)) = {}
  BY DEF WriteMirror, At
<1>2. Asking(c) /\ Writing(c) /\ Reading(c) /\ TypeOK /\ LinksUnshared /\ LinksReturn
  BY DEF TxInv, ClientOK
<1>3. r \in Edition
  BY <1>1, <1>2 DEF Asking, Editing
<1>4. /\ s \in DOMAIN operation /\ Owned(c, s) /\ v = operation[s]
      /\ r.target # NULL /\ m # NULL /\ v \in Row
  BY <1>1, <1>2, <1>3 DEF Reading, Read, Edition
<1>5. m # s /\ m \in DOMAIN operation /\ s \in Operation /\ m \in Operation
  BY <1>2, <1>4 DEF LinksUnshared, TypeOK
<1>6. operation[m] \in Row /\ r.target \in Account /\ r.content \in Content
  BY <1>2, <1>3, <1>4, <1>5 DEF TypeOK, Edition
<1>7. operation[m] = Reflection(s, v) \/ operation[m].transferOperation = NULL
  BY <1>2, <1>4 DEF LinksReturn
<1>8. /\ row \in Row /\ row.transferOperation = operation[m].transferOperation
      /\ row.transferAccount = operation[m].transferAccount /\ row.content = r.content
      /\ row.account = IF v.transferAccount = r.target THEN operation[m].account ELSE r.target
  <2>1. Edit(v, r.target) = "refresh" <=> v.transferAccount = r.target
    BY <1>4 DEF Edit
  <2>2. QED
    BY <1>6, <2>1 DEF Row
<1>9. Then(c, "save", v, w) /\ drawn' = drawn
  BY <1>5 DEF WriteMirror
<1>10. /\ pc'[c] = "save" /\ read'[c] = v /\ wrote'[c] = w /\ request'[c] = r
       /\ operation' = operation /\ held'[c] = Mine(c)
  BY <1>9, ThenIs DEF TxInv, Mine
<1>11. DOMAIN w = {m} /\ w[m] = row
  BY Row1Is
<1>12. <<m, "no_key">> \in Mine(c) /\ <<s, "update">> \in held'[c]
  BY <1>1, <1>4, <1>10, NeedsAre DEF Mine, Owned
<1>13. SourceOf(r, w) = s
  BY <1>3 DEF SourceOf, Edition
<1>14. v.transferOperation = m
  OBVIOUS
<1> HIDE DEF r, s, v, m, row, w
<1>15. Writing(c)'
  BY <1>1, <1>2, <1>5, <1>8, <1>9, <1>11, <1>12, ThenWrites DEF TypeOK
<1>16. ASSUME NEW z, Completes(z, s, SavedOf(r, v), w)
       PROVE  Shaped(c, s, z)
  <2>1. DOMAIN z = {s, m} /\ z[m] = row /\ z[s] = SavedOf(r, v)
    BY <1>5, <1>11, <1>16 DEF Completes
  <2>2. /\ z[s].account = v.account /\ z[s].transferAccount = r.target
        /\ z[s].transferOperation = m /\ z[s].content = r.content
    BY <1>3, <1>4, <1>14, <2>1, SavedIs
  <2>3. z[m] # NULL
    BY <1>8, <2>1, NoRowAssumption
  <2>4. CASE operation[m].transferOperation = NULL
    BY <1>4, <1>5, <1>8, <1>14, <2>1, <2>2, <2>3, <2>4 DEF Shaped, Synced
  <2>5. CASE operation[m] = Reflection(s, v)
    <3>1. /\ row.account = r.target /\ row.transferAccount = v.account
          /\ row.transferOperation = s /\ row.content = r.content
      BY <1>8, <2>5 DEF Reflection
    <3>2. row = Reflection(s, z[s])
      BY <1>8, <2>2, <3>1 DEF Row, Reflection
    <3>3. QED
      BY <1>4, <1>5, <1>8, <1>14, <2>1, <2>2, <2>3, <3>2 DEF Shaped, Synced
  <2>6. QED
    BY <1>7, <2>4, <2>5
<1>17. ClientOK(c)'
  <2>1. s \in drawn' /\ r \in Creation \cup Edition
    BY <1>2, <1>3, <1>4, <1>9 DEF TypeOK
  <2>2. QED
    BY <1>4, <1>10, <1>12, <1>13, <1>15, <1>16, <2>1, SaveIsOK
<1>18. QED
  BY <1>1, <1>2, <1>5, <1>9, <1>11, <1>17, ThenKeeps DEF TypeOK

LEMMA SourceIsInserted ==
  ASSUME NEW r, r.kind = "create", NEW w, NEW s \in DOMAIN w, w[s].account = r.account,
         \A o \in DOMAIN w : w[o].account = r.account => o = s
  PROVE  SourceOf(r, w) = s
BY DEF SourceOf

LEMMA SourceIs ==
  ASSUME NEW c
  PROVE  /\ Source(c) = SourceOf(request[c], wrote[c])
         /\ Also(wrote[c], Row1(Source(c), Saved(c))) = SavingOf(request[c], read[c], wrote[c])
<1>1. Source(c) = SourceOf(request[c], wrote[c])
  BY DEF Source, SourceOf
<1>2. Saved(c) = SavedOf(request[c], read[c])
  BY DEF Saved, SavedOf
<1>3. QED
  BY <1>1, <1>2 DEF SavingOf

LEMMA InsertKeeps ==
  ASSUME TxInv, NEW c \in Client, Insert(c)
  PROVE  TxInv'
<1> DEFINE r == request[c]
           n == NewId
           v == [account |-> r.account, transferAccount |-> r.target,
                 transferOperation |-> NULL, content |-> r.content]
           w == Row1(n, v)
           label == IF r.target = NULL THEN "save" ELSE "check_target"
<1>1. /\ pc[c] = "insert" /\ Blockers(c, Needs(c)) = {}
      /\ Then(c, label, v, w)
      /\ drawn # Operation /\ drawn' = drawn \cup {n}
  BY DEF Insert, At
<1>2. Asking(c) /\ Writing(c) /\ TypeOK
  BY DEF TxInv, ClientOK
<1>3. r \in Creation
  BY <1>1, <1>2 DEF Asking
<1>4. n \in Operation \ drawn /\ n \notin DOMAIN operation
  BY <1>1, <1>2, NewIdIs DEF TypeOK
<1>5. v \in Row /\ v.account = r.account /\ v.transferOperation = NULL
  BY <1>3 DEF Row, Creation
<1>6. /\ pc'[c] = label /\ read'[c] = v /\ wrote'[c] = w /\ request'[c] = r
      /\ operation' = operation /\ held'[c] = Mine(c)
  BY <1>1, ThenIs DEF TxInv, Mine
<1>7. DOMAIN w = {n} /\ w[n] = v
  BY Row1Is
<1>8. /\ label \in {"save", "check_target"}
      /\ label = "save" <=> r.target = NULL
  OBVIOUS
<1>9. Inserted(c)'
  <2>1. n \in Operation \ DOMAIN operation'
    BY <1>4, <1>6
  <2>2. wrote'[c] = Row1(n, read'[c])
    BY <1>6
  <2>3. \E o \in Operation \ DOMAIN operation' : wrote'[c] = Row1(o, read'[c])
    BY <2>1, <2>2
  <2>4. QED
    BY <1>6, <2>3 DEF Inserted
<1> HIDE DEF r, n, v, w, label
<1>10. SourceOf(r, w) = n
  BY <1>3, <1>5, <1>7, SourceIsInserted DEF Creation
<1>11. Writing(c)'
  BY <1>1, <1>4, <1>5, <1>7, <1>8, ThenWrites
<1>12. ClientOK(c)'
  <2>1. CASE r.target = NULL
    <3>1. ASSUME NEW z, Completes(z, n, SavedOf(r, v), w)
          PROVE  Shaped(c, n, z)
      <4>1. DOMAIN z = {n} /\ z[n] = SavedOf(r, v)
        BY <1>7, <3>1 DEF Completes
      <4>2. z[n].transferOperation = NULL
        BY <1>3, <1>5, <4>1, SavedIs
      <4>3. QED
        BY <1>4, <4>1, <4>2 DEF Shaped, Alone
    <3>2. r \in Creation \cup Edition /\ n \in drawn' /\ n \in DOMAIN w
      BY <1>1, <1>3, <1>7
    <3>3. QED
      BY <1>4, <1>5, <1>6, <1>8, <1>10, <1>11, <2>1, <3>1, <3>2, SaveIsOK
  <2>2. CASE r.target # NULL
    <3>1. Asking(c)'
      BY <1>3, <1>6, <1>8, <2>2 DEF Asking, Editing, SavingEither, Batching, Removing
    <3>2. Reading(c)'
      BY <1>3, <1>5, <1>6, <1>8, <1>9, <2>2 DEF Reading, Creation
    <3>3. QED
      BY <1>6, <1>8, <1>11, <2>2, <3>1, <3>2, ThenIsOK
  <2>3. QED
    BY <2>1, <2>2
<1>13. QED
  BY <1>1, <1>2, <1>4, <1>7, <1>12, ThenKeeps DEF TypeOK

LEMMA InsertMirrorKeeps ==
  ASSUME TxInv, NEW c \in Client, InsertMirror(c)
  PROVE  TxInv'
<1> DEFINE r == request[c]
           s == Source(c)
           n == NewId
           v == [read[c] EXCEPT !.transferOperation = n]
           row == [account |-> r.target, transferAccount |-> read[c].account,
                   transferOperation |-> s, content |-> r.content]
           w == Also(wrote[c], Row1(n, row))
<1>1. pc[c] = "insert_mirror" /\ Blockers(c, Needs(c)) = {} /\ drawn # Operation
  BY DEF InsertMirror, At
<1>2. CASE PointingAt(operation, {s}) # {}
  BY <1>2, RollbackKeeps DEF InsertMirror
<1>3. CASE PointingAt(operation, {s}) = {}
  <2>1. Then(c, "save", v, w) /\ drawn' = drawn \cup {n}
    BY <1>3 DEF InsertMirror
  <2>2. Asking(c) /\ Writing(c) /\ Reading(c) /\ TypeOK
    BY DEF TxInv, ClientOK
  <2>3. r \in Creation \cup Edition
    BY <1>1, <2>2 DEF Asking, SavingEither
  <2>4. /\ r.target # NULL /\ r.target # read[c].account /\ read[c] \in Row
        /\ read[c].transferOperation = NULL
    BY <1>1, <2>2 DEF Reading
  <2>5. n \in Operation \ drawn /\ n \notin DOMAIN operation
    BY <1>1, <2>2, NewIdIs DEF TypeOK
  <2>6. r.target \in Account /\ r.content \in Content
    BY <2>3, <2>4 DEF Creation, Edition
  <2>7. /\ v \in Row /\ v.account = read[c].account /\ v.transferOperation = n
    BY <2>4, <2>5 DEF Row
  <2>8. /\ s \in drawn /\ s \in Operation
        /\ s \in DOMAIN operation =>
             Owned(c, s) /\ read[c] = operation[s] /\ DOMAIN wrote[c] = {}
        /\ s \notin DOMAIN operation => DOMAIN wrote[c] = {s} /\ r \in Creation
                                          /\ wrote[c][s] = read[c]
        /\ r \in Edition => s = r.operation /\ s \in DOMAIN operation
        /\ s = SourceOf(r, wrote[c])
    <3>1. s = SourceOf(r, wrote[c])
      BY SourceIs
    <3>2. CASE r \in Edition
      <4>1. s = r.operation /\ Read(c)
        BY <1>1, <2>2, <3>1, <3>2 DEF Reading, SourceOf, Edition
      <4>2. QED
        BY <2>2, <3>1, <3>2, <4>1 DEF Read, TypeOK
    <3>3. CASE r \in Creation
      <4>1. r.kind = "create" /\ Inserted(c)
        BY <1>1, <2>2, <3>3 DEF Reading, Creation
      <4>2. PICK o \in Operation \ DOMAIN operation : wrote[c] = Row1(o, read[c])
        BY <4>1 DEF Inserted
      <4>3. DOMAIN wrote[c] = {o} /\ wrote[c][o] = read[c]
        BY <4>2, Row1Is
      <4>4. read[c].account = r.account
        BY <4>1 DEF Inserted
      <4>5. s = o
        BY <3>1, <4>1, <4>3, <4>4, SourceIsInserted
      <4>6. r \notin Edition
        BY <4>1 DEF Edition
      <4>7. QED
        BY <2>2, <3>1, <3>3, <4>2, <4>3, <4>5, <4>6 DEF Writing, TypeOK
    <3>4. QED
      BY <2>3, <3>2, <3>3
  <2>9. /\ row \in Row /\ row.account = r.target /\ row.transferAccount = read[c].account
        /\ row.transferOperation = s /\ row.content = r.content
    BY <2>4, <2>6, <2>8 DEF Row
  <2>10. /\ pc'[c] = "save" /\ read'[c] = v /\ wrote'[c] = w /\ request'[c] = r
         /\ operation' = operation /\ held'[c] = Mine(c)
    BY <2>1, ThenIs DEF TxInv, Mine
  <2>11. /\ DOMAIN w = DOMAIN wrote[c] \cup {n} /\ w[n] = row
         /\ \A o \in DOMAIN wrote[c] \ {n} : w[o] = wrote[c][o]
    <3> DEFINE last == Row1(n, row)
    <3>1. DOMAIN last = {n} /\ last[n] = row
      BY Row1Is
    <3>2. Merges(w, wrote[c], last)
      BY AlsoIs
    <3> HIDE DEF last, w, n, row
    <3>3. QED
      BY <3>1, <3>2 DEF Merges
  <2>12. ~Linked(operation, s)
    BY <1>3 DEF Linked, PointingAt
  <2>13. s # n
    BY <2>5, <2>8
  <2> HIDE DEF r, s, n, v, row, w
  <2>14. SourceOf(r, w) = s
    <3>1. CASE r \in Edition
      BY <2>8, <3>1 DEF SourceOf, Edition
    <3>2. CASE r \in Creation /\ r \notin Edition
      <4>1. Inserted(c) /\ r.kind = "create"
        BY <1>1, <2>2, <3>2 DEF Reading, Creation, r
      <4>2. DOMAIN wrote[c] = {s} /\ wrote[c][s] = read[c]
        <5>1. PICK o \in Operation \ DOMAIN operation : wrote[c] = Row1(o, read[c])
          BY <4>1 DEF Inserted
        <5>2. DOMAIN wrote[c] = {o}
          BY <5>1, Row1Is
        <5>3. s \notin DOMAIN operation
          BY <2>8, <5>1, <5>2
        <5>4. QED
          BY <2>8, <5>3
      <4>3. read[c].account = r.account
        BY <4>1 DEF Inserted, r
      <4>4. /\ DOMAIN w = {s, n} /\ w[s].account = r.account /\ w[n].account # r.account
        BY <2>4, <2>9, <2>11, <2>13, <4>2, <4>3
      <4>5. QED
        BY <4>1, <4>4, SourceIsInserted
    <3>3. QED
      BY <2>3, <3>1, <3>2
  <2>15. s \in DOMAIN operation => <<s, "update">> \in held'[c]
    BY <2>8, <2>10 DEF Owned, Mine
  <2>16. \A o \in DOMAIN w :
           /\ o \in drawn' /\ w[o] \in Row \cup {NULL}
           /\ o \in DOMAIN operation =>
                \E mode \in {"no_key", "update"} : <<o, mode>> \in Mine(c)
           /\ o \notin DOMAIN operation => o \in DOMAIN wrote[c] \/ o \notin drawn
    <3>1. ASSUME NEW o \in DOMAIN wrote[c]
          PROVE  /\ o \in drawn /\ wrote[c][o] \in Row \cup {NULL} /\ o # n
                 /\ o \in DOMAIN operation =>
                      \E mode \in {"no_key", "update"} : <<o, mode>> \in Mine(c)
      BY <2>2, <2>5 DEF Writing, Locked, Mine
    <3>2. QED
      BY <2>1, <2>5, <2>9, <2>11, <3>1
  <2>17. Writing(c)'
    BY <1>1, <2>1, <2>16, ThenWrites
  <2>18. ASSUME NEW z, Completes(z, s, SavedOf(r, v), w)
         PROVE  Shaped(c, s, z)
    <3>1. /\ DOMAIN wrote[c] \subseteq {s}
      BY <2>8
    <3>2. DOMAIN z = {s, n} /\ z[n] = row /\ z[s] = SavedOf(r, v)
      BY <2>11, <2>13, <2>18, <3>1 DEF Completes
    <3>3. /\ z[s].account = read[c].account /\ z[s].transferAccount = r.target
          /\ z[s].transferOperation = n /\ z[s].content = r.content
      BY <2>3, <2>7, <3>2, SavedIs
    <3>4. row = Reflection(s, z[s])
      BY <2>9, <3>3 DEF Row, Reflection
    <3>5. s \in DOMAIN operation => operation[s].transferOperation = NULL
      BY <2>4, <2>8
    <3>6. z[n] # NULL
      BY <2>9, <3>2, NoRowAssumption
    <3>7. Attached(s, z, n)
      BY <2>5, <2>12, <2>13, <3>2, <3>3, <3>4, <3>5, <3>6 DEF Attached
    <3>8. QED
      BY <2>5, <3>7 DEF Shaped
  <2>19. ClientOK(c)'
    <3>1. s \in drawn' /\ (s \notin DOMAIN operation => s \in DOMAIN w)
      BY <2>1, <2>8, <2>11
    <3>2. s \in DOMAIN operation => v.account = operation[s].account
      BY <2>7, <2>8
    <3>3. QED
      BY <2>3, <2>7, <2>10, <2>14, <2>15, <2>17, <2>18, <3>1, <3>2, SaveIsOK
  <2>20. \A o \in DOMAIN w \ DOMAIN operation : o \in DOMAIN wrote[c] \/ o \notin drawn
    BY <2>16
  <2>21. QED
    BY <1>1, <2>1, <2>2, <2>5, <2>19, <2>20, ThenKeeps DEF TypeOK
<1>4. QED
  BY <1>2, <1>3

LEMMA ClearSurvivorsKeeps ==
  ASSUME TxInv, NEW c \in Client, ClearSurvivors(c)
  PROVE  TxInv'
<1> DEFINE S == There(read[c])
           w == [o \in S |-> External(operation[o])]
<1>1. /\ pc[c] = "clear_survivors" /\ Blockers(c, Needs(c)) = {}
      /\ Then(c, "delete_rows", NULL, w) /\ drawn' = drawn
  BY DEF ClearSurvivors, At
<1>2. Asking(c) /\ Reading(c) /\ TypeOK
  BY DEF TxInv, ClientOK
<1>3. /\ pc'[c] = "delete_rows" /\ wrote'[c] = w /\ request'[c] = request[c]
      /\ operation' = operation /\ held'[c] = Mine(c)
  BY <1>1, ThenIs DEF TxInv, Mine
<1>4. \A o \in DOMAIN w :
        /\ o \in DOMAIN operation /\ o \in drawn /\ o \notin request[c].operations
        /\ <<o, "update">> \in Mine(c)
        /\ w[o] = External(operation[o]) /\ w[o] \in Row
  <2>1. ASSUME NEW o \in S
        PROVE  /\ o \in DOMAIN operation /\ o \in drawn /\ o \notin request[c].operations
               /\ operation[o] \in Row
    BY <1>1, <1>2 DEF Reading, There, TypeOK
  <2>2. Needs(c) = {<<o, "update">> : o \in There(read[c])}
    BY <1>1, NeedsAre
  <2>3. \A o \in S : <<o, "update">> \in Mine(c)
    BY <2>2 DEF Mine
  <2>4. QED
    BY <2>1, <2>3, ExternalIs
<1> HIDE DEF S, w
<1>5. Asking(c)'
  BY <1>1, <1>2, <1>3 DEF Asking, Editing, SavingEither, Batching, Removing
<1>6. Writing(c)'
  BY <1>1, <1>4, ThenWrites
<1>7. Reading(c)' /\ Saving(c)'
  BY <1>3 DEF Reading, Saving
<1>8. Clearing(c)'
  BY <1>3, <1>4 DEF Clearing, Owned
<1>9. ClientOK(c)'
  BY <1>5, <1>6, <1>7, <1>8 DEF ClientOK
<1>10. QED
  BY <1>1, <1>2, <1>4, <1>9, ThenKeeps DEF TypeOK

-----------------------------------------------------------------------------
(* Commits.                                                                *)

LEMMA SaveIsCommittable ==
  ASSUME TxInv, NEW c \in Client, pc[c] = "save"
  PROVE  Committable(c, SavingOf(request[c], read[c], wrote[c]))
<1> DEFINE s == SourceOf(request[c], wrote[c])
           w == SavingOf(request[c], read[c], wrote[c])
<1>1. Writing(c) /\ Outcome(c, s, w) /\ TypeOK /\ LinksUnshared /\ LinksReturn
  BY DEF TxInv, ClientOK, Saving
<1> HIDE DEF s, w
<1>2. /\ s \in drawn /\ w[s] \in Row /\ w[s] # NULL
      /\ s \in DOMAIN operation => <<s, "update">> \in Mine(c)
      /\ s \notin DOMAIN operation => s \in DOMAIN wrote[c]
  BY <1>1, NoRowAssumption DEF Outcome, Owned, Mine
<1>3. ASSUME NEW o \in DOMAIN w
      PROVE  /\ o \in drawn /\ w[o] \in Row \cup {NULL}
             /\ o \in DOMAIN operation =>
                  \E mode \in {"no_key", "update"} : <<o, mode>> \in Mine(c)
             /\ o \notin DOMAIN operation => \A d \in Client \ {c} : o \notin DOMAIN wrote[d]
  <2>1. CASE o = s
    BY <1>1, <1>2, <2>1 DEF Writing
  <2>2. CASE o # s
    <3>1. o \in DOMAIN wrote[c] /\ w[o] = wrote[c][o]
      BY <1>1, <1>3, <2>2 DEF Outcome
    <3>2. QED
      BY <1>1, <3>1 DEF Writing, Locked, Mine
  <2>3. QED
    BY <2>1, <2>2
<1>4. \/ Alone(s, w)
      \/ \E m \in Operation : Detached(c, s, w, m) \/ Attached(s, w, m) \/ Synced(s, w, m)
  BY <1>1 DEF Outcome
<1>5. CASE Alone(s, w)
  <2>1. Writable(c, w)
    BY <1>2, <1>3, <1>5 DEF Alone, Writable
  <2>2. LinksFit(c, w)
    BY <1>2, <1>5 DEF Alone, LinksFit
  <2>3. QED
    BY <2>1, <2>2 DEF Committable, w
<1>6. ASSUME NEW m \in Operation, Detached(c, s, w, m)
      PROVE  Committable(c, w)
  <2>1. m \in DOMAIN operation /\ s \in DOMAIN operation
    BY <1>1, <1>6, LedgerTxAssumption DEF Detached, TypeOK
  <2>2. \A x \in DOMAIN operation : operation[x].transferOperation = m => x = s
    BY <1>1, <1>6, LedgerTxAssumption DEF Detached, LinksUnshared
  <2>3. ~Linked(View(w), m)
    <3>1. ASSUME NEW x \in DOMAIN View(w) PROVE View(w)[x].transferOperation # m
      <4>1. CASE x = s
        BY <1>2, <1>6, <3>1, <4>1, ViewIs, LedgerTxAssumption DEF Detached
      <4>2. CASE x # s
        <5>1. x \in DOMAIN operation /\ x \notin DOMAIN w
          BY <1>6, <3>1, <4>2, ViewIs DEF Detached
        <5>2. View(w)[x] = operation[x]
          BY <3>1, <5>1, ViewIs
        <5>3. QED
          BY <2>2, <4>2, <5>1, <5>2
      <4>3. QED
        BY <4>1, <4>2
    <3>2. QED
      BY <3>1 DEF Linked
  <2>4. Writable(c, w)
    BY <1>2, <1>3, <1>6, <2>1, <2>3 DEF Detached, Writable
  <2>5. LinksFit(c, w)
    BY <1>2, <1>6 DEF Detached, LinksFit
  <2>6. QED
    BY <2>4, <2>5 DEF Committable
<1>7. ASSUME NEW m \in Operation, Attached(s, w, m)
      PROVE  Committable(c, w)
  <2>1. /\ w[m].account = w[s].transferAccount /\ w[m].transferAccount = w[s].account
        /\ w[m].transferOperation = s /\ w[m].content = w[s].content
    BY <1>7 DEF Attached, Reflection
  <2>2. w[m] # NULL
    BY <1>7 DEF Attached
  <2>3. Writable(c, w)
    BY <1>2, <1>3, <1>7, <2>2 DEF Attached, Writable
  <2>4. \A x \in DOMAIN operation : operation[x].transferOperation \notin {s, m}
    <3>1. \A x \in DOMAIN operation : operation[x].transferOperation # s
      BY <1>7 DEF Attached, Linked
    <3>2. \A x \in DOMAIN operation : operation[x].transferOperation # m
      BY <1>1, <1>7, LedgerTxAssumption DEF Attached, TypeOK
    <3>3. QED
      BY <3>1, <3>2
  <2>5. NewLink(c, w, s, m) /\ NewLink(c, w, m, s)
    BY <1>2, <1>7, <2>1, <2>4 DEF Attached, NewLink, Linked
  <2>6. w[s] = Reflection(m, w[m])
    <3>1. w[s] = [account |-> w[s].account, transferAccount |-> w[s].transferAccount,
                  transferOperation |-> m, content |-> w[s].content]
      BY <1>2, <1>7 DEF Row, Attached
    <3>2. QED
      BY <2>1, <3>1 DEF Reflection
  <2>7. LinksFit(c, w)
    BY <1>2, <1>7, <2>1, <2>2, <2>4, <2>5, <2>6 DEF Attached, LinksFit
  <2>8. QED
    BY <2>3, <2>7 DEF Committable
<1>8. ASSUME NEW m \in Operation, Synced(s, w, m)
      PROVE  Committable(c, w)
  <2>1. /\ DOMAIN w = {s, m} /\ m # s /\ w[m] # NULL
        /\ s \in DOMAIN operation /\ m \in DOMAIN operation
        /\ operation[s].transferOperation = m /\ w[s].transferOperation = m
        /\ w[m].transferOperation = operation[m].transferOperation
    BY <1>8 DEF Synced
  <2>2. m # NULL /\ s # NULL /\ s \in Operation
    BY <1>1, <1>2, LedgerTxAssumption DEF TypeOK
  <2>3. Writable(c, w)
    BY <1>2, <1>3, <2>1 DEF Writable
  <2>4. CASE w[m].transferOperation = NULL
    <3>1. \A x \in DOMAIN operation \ {s, m} : operation[x].transferOperation # s
      <4>1. ASSUME NEW x \in DOMAIN operation, operation[x].transferOperation = s
            PROVE  x = m
        <5>1. operation[s] = Reflection(x, operation[x])
          BY <1>1, <2>1, <2>2, <4>1 DEF LinksReturn
        <5>2. operation[s].transferOperation = x
          BY <5>1 DEF Reflection
        <5>3. QED
          BY <2>1, <5>2
      <4>2. QED
        BY <4>1
    <3>2. \A o \in DOMAIN w : w[o].transferOperation # NULL => o = s
      BY <2>1, <2>4
    <3>3. QED
      BY <2>1, <2>2, <2>3, <2>4, <3>1, <3>2 DEF Committable, LinksFit
  <2>5. CASE w[m] = Reflection(s, w[s])
    <3>1. /\ w[m].account = w[s].transferAccount /\ w[m].transferAccount = w[s].account
          /\ w[m].transferOperation = s /\ w[m].content = w[s].content
      BY <2>5 DEF Reflection
    <3>2. w[s] = [account |-> w[s].account, transferAccount |-> w[s].transferAccount,
                  transferOperation |-> m, content |-> w[s].content]
      BY <1>2, <2>1 DEF Row
    <3>3. w[s] = Reflection(m, w[m])
      BY <3>1, <3>2 DEF Reflection
    <3>4. \A x \in DOMAIN operation : operation[x].transferOperation = s => x = m
      <4>1. operation[m].transferOperation = s
        BY <2>1, <3>1
      <4>2. QED
        BY <1>1, <2>1, <2>2, <4>1 DEF LinksUnshared
    <3>5. \A x \in DOMAIN operation : operation[x].transferOperation = m => x = s
      BY <1>1, <2>1, <2>2 DEF LinksUnshared
    <3>6. QED
      BY <1>2, <2>1, <2>2, <2>3, <2>5, <3>1, <3>3, <3>4, <3>5 DEF Committable, LinksFit
  <2>6. QED
    BY <1>8, <2>4, <2>5 DEF Synced
<1>9. Committable(c, w)
  BY <1>4, <1>5, <1>6, <1>7, <1>8 DEF w
<1>10. QED
  BY <1>9 DEF w

-----------------------------------------------------------------------------
(* Live books.                                                             *)

\* No row but those of c's batch points at one of S.
Outside(c, S) ==
  \A o \in DOMAIN operation :
    operation[o].transferOperation \in S => o \in request[c].operations

\* When a batch clears the counterparts it read, they are of its own
\* operations still.
FreshSurvivors == \A c \in Client : pc[c] = "clear_survivors" => Outside(c, read[c])

MirrorInv ==
  /\ PairsMirror
  /\ \A c \in Client : pc[c] = "delete_rows" => Outside(c, DOMAIN wrote[c])

OthersDone(c) == \A d \in Client \ {c} : pc[d] = "done"

TwoClients == \A c, d, e \in Client : c = d \/ d = e \/ c = e

\* Of two clients, the other can break a pair whose counterpart was read, but
\* then it is done, and pairs it no more.
TwoInv ==
  \A c \in Client : pc[c] = "clear_survivors" =>
    /\ Outside(c, read[c])
    /\ \A o \in read[c] : Linked(operation, o) \/ OthersDone(c)

\* Of the operations that are live when w and the flags of gone are
\* committed, those that w leaves alone are linked to none that it writes,
\* and those it writes are reflected.
LiveFit(w, gone) ==
  /\ \A x \in DOMAIN operation \ DOMAIN w :
       operation[x].account \notin deleted \cup gone =>
         operation[x].transferOperation \notin DOMAIN w
  /\ \A o \in DOMAIN w :
       LET mirror == w[o].transferOperation
       IN  w[o] # NULL /\ mirror # NULL /\ w[o].account \notin deleted \cup gone =>
             w[mirror] = Reflection(o, w[o])

\* c commits rows that it may, and that fit live books.
Commits(c) ==
  /\ pc[c] # "done"
  /\ \E w, gone :
       /\ gone \in SUBSET Account
       /\ Commit(c, w, gone) /\ Blockers(c, Needs(c)) = {} /\ Committable(c, w)
       /\ MirrorInv => LiveFit(w, gone)

\* c changes nothing that is committed.
Quiet(c) ==
  /\ operation' = operation /\ deleted' = deleted
  /\ \A d \in Client \ {c} : Undisturbed(d)
  /\ pc[c] = "done" => pc'[c] = "done"

-----------------------------------------------------------------------------
(* Commits.                                                                *)

LEMMA SaveFitsLive ==
  ASSUME TxInv, PairsMirror, NEW c \in Client, pc[c] = "save"
  PROVE  LiveFit(SavingOf(request[c], read[c], wrote[c]), {})
<1> DEFINE s == SourceOf(request[c], wrote[c])
           w == SavingOf(request[c], read[c], wrote[c])
<1>1. Outcome(c, s, w) /\ TypeOK /\ LinksUnshared
  BY DEF TxInv, ClientOK, Saving
<1> HIDE DEF s, w
<1>2. /\ w[s] \in Row /\ s \in Operation
      /\ s \in DOMAIN operation => w[s].account = operation[s].account
  BY <1>1 DEF Outcome, TypeOK
<1>3. \A x \in DOMAIN operation, y \in Operation :
        operation[x].transferOperation = y /\ operation[x].account \notin deleted =>
          operation[y] = Reflection(x, operation[x]) /\ operation[y].transferOperation = x
  <2>1. ASSUME NEW x \in DOMAIN operation, NEW y \in Operation,
               operation[x].transferOperation = y, operation[x].account \notin deleted
        PROVE  operation[y] = Reflection(x, operation[x])
    BY <2>1, LedgerTxAssumption DEF PairsMirror, Active
  <2>2. QED
    BY <2>1 DEF Reflection
<1>4. \/ Alone(s, w)
      \/ \E m \in Operation : Detached(c, s, w, m) \/ Attached(s, w, m) \/ Synced(s, w, m)
  BY <1>1 DEF Outcome
<1>5. CASE Alone(s, w)
  <2>1. \A x \in DOMAIN operation \ DOMAIN w :
          operation[x].account \notin deleted => operation[x].transferOperation # s
    <3>1. ASSUME NEW x \in DOMAIN operation \ DOMAIN w, operation[x].account \notin deleted,
                 operation[x].transferOperation = s
          PROVE  FALSE
      <4>1. operation[s].transferOperation = x /\ x # NULL
        BY <1>1, <1>2, <1>3, <3>1, LedgerTxAssumption DEF TypeOK
      <4>2. s \in DOMAIN operation
        BY <1>1, <1>2, <3>1, LedgerTxAssumption DEF TypeOK
      <4>3. QED
        BY <1>5, <4>1, <4>2 DEF Alone
    <3>2. QED
      BY <3>1
  <2>2. QED
    BY <1>5, <2>1 DEF Alone, LiveFit, w
<1>6. ASSUME NEW m \in Operation, Detached(c, s, w, m)
      PROVE  LiveFit(w, {})
  <2>1. \A x \in DOMAIN operation \ {s, m} : operation[x].transferOperation # m
    BY <1>1, <1>6, LedgerTxAssumption DEF Detached, LinksUnshared
  <2>2. \A x \in DOMAIN operation \ {s, m} :
          operation[x].account \notin deleted => operation[x].transferOperation # s
    BY <1>2, <1>3, <1>6 DEF Detached
  <2>3. QED
    BY <1>6, <2>1, <2>2 DEF Detached, LiveFit
<1>7. ASSUME NEW m \in Operation, Attached(s, w, m)
      PROVE  LiveFit(w, {})
  <2>1. \A x \in DOMAIN operation : operation[x].transferOperation \notin {s, m}
    <3>1. \A x \in DOMAIN operation : operation[x].transferOperation # s
      BY <1>7 DEF Attached, Linked
    <3>2. \A x \in DOMAIN operation : operation[x].transferOperation # m
      BY <1>1, <1>7, LedgerTxAssumption DEF Attached, TypeOK
    <3>3. QED
      BY <3>1, <3>2
  <2>2. w[m] = Reflection(s, w[s]) /\ w[s].transferOperation = m
    BY <1>7 DEF Attached
  <2>3. w[s] = Reflection(m, w[m])
    BY <1>2, <2>2 DEF Row, Reflection
  <2>4. w[m].transferOperation = s
    BY <2>2 DEF Reflection
  <2>5. QED
    BY <1>7, <2>1, <2>2, <2>3, <2>4 DEF Attached, LiveFit
<1>8. ASSUME NEW m \in Operation, Synced(s, w, m)
      PROVE  LiveFit(w, {})
  <2>1. /\ DOMAIN w = {s, m} /\ m # s /\ s \in DOMAIN operation /\ m \in DOMAIN operation
        /\ operation[s].transferOperation = m /\ w[s].transferOperation = m
        /\ w[m].transferOperation = operation[m].transferOperation
    BY <1>8 DEF Synced
  <2>2. \A x \in DOMAIN operation \ {s, m} :
          operation[x].account \notin deleted => operation[x].transferOperation \notin {s, m}
    <3>1. \A x \in DOMAIN operation \ {s, m} : operation[x].transferOperation # m
      BY <1>1, <2>1, LedgerTxAssumption DEF LinksUnshared
    <3>2. \A x \in DOMAIN operation \ {s, m} :
            operation[x].account \notin deleted => operation[x].transferOperation # s
      BY <1>2, <1>3, <2>1
    <3>3. QED
      BY <3>1, <3>2
  <2>3. w[s].account \notin deleted => w[m] = Reflection(s, w[s])
    <3>1. ASSUME w[s].account \notin deleted PROVE w[m].transferOperation # NULL
      <4>1. operation[m].transferOperation = s
        BY <1>2, <1>3, <2>1, <3>1
      <4>2. QED
        BY <1>2, <2>1, <4>1, LedgerTxAssumption
    <3>2. QED
      BY <1>8, <3>1 DEF Synced
  <2>4. ASSUME w[m].transferOperation # NULL
        PROVE  w[m].transferOperation = s /\ w[s] = Reflection(m, w[m])
    <3>1. w[m] = Reflection(s, w[s])
      BY <1>8, <2>4 DEF Synced
    <3>2. QED
      BY <1>2, <2>1, <3>1 DEF Row, Reflection
  <2>5. QED
    BY <2>1, <2>2, <2>3, <2>4 DEF LiveFit
<1>9. QED
  BY <1>4, <1>5, <1>6, <1>7, <1>8 DEF w

LEMMA SaveCommits ==
  ASSUME TxInv, NEW c \in Client, Save(c)
  PROVE  Commits(c)
<1> DEFINE w == SavingOf(request[c], read[c], wrote[c])
<1>1. pc[c] = "save" /\ Blockers(c, Needs(c)) = {} /\ Commit(c, w, {})
  BY SourceIs DEF Save, At
<1>2. Committable(c, w)
  BY <1>1, SaveIsCommittable
<1>3. MirrorInv => LiveFit(w, {})
  BY <1>1, SaveFitsLive DEF MirrorInv
<1> HIDE DEF w
<1>4. QED
  BY <1>1, <1>2, <1>3 DEF Commits

\* What DeleteRows and Convert commit links nothing.
LEMMA UnlinkingIsCommittable ==
  ASSUME TxInv, NEW c \in Client, NEW w,
         \A o \in DOMAIN w :
           /\ o \in DOMAIN operation /\ <<o, "update">> \in Mine(c)
           /\ \/ w[o] \in Row /\ w[o].transferOperation = NULL
              \/ w[o] = NULL /\ ~Linked(View(w), o)
  PROVE  Committable(c, w)
<1>1. \A o \in DOMAIN w : w[o] # NULL => w[o].transferOperation = NULL
  OBVIOUS
<1>2. LinksFit(c, w)
  BY <1>1 DEF LinksFit
<1>3. Writable(c, w)
  BY NoRowAssumption DEF Writable, TxInv, TypeOK
<1>4. QED
  BY <1>2, <1>3 DEF Committable

LEMMA DeleteRowsCommits ==
  ASSUME TxInv, NEW c \in Client, DeleteRows(c)
  PROVE  Commits(c) \/ Rollback(c)
<1> DEFINE D == request[c].operations
           gone == [o \in There(D) |-> NULL]
           w == Also(wrote[c], gone)
<1>1. pc[c] = "delete_rows" /\ Blockers(c, Needs(c)) = {}
  BY DEF DeleteRows, At
<1>2. CASE PointingAt(View(w), D) # {}
  BY <1>2 DEF DeleteRows
<1>3. CASE PointingAt(View(w), D) = {}
  <2>1. Commit(c, w, {})
    BY <1>3 DEF DeleteRows
  <2>2. Clearing(c) /\ TypeOK
    BY DEF TxInv, ClientOK
  <2>3. Merges(w, wrote[c], gone)
    BY AlsoIs
  <2>4. DOMAIN gone = There(D) /\ \A o \in There(D) : gone[o] = NULL
    OBVIOUS
  <2>5. Needs(c) = {<<o, "update">> : o \in There(D)}
    BY <1>1, NeedsAre
  <2>6. \A o \in There(D) : <<o, "update">> \in Mine(c)
    BY <2>5 DEF Mine
  <2>7. \A o \in There(D) : o \in DOMAIN operation /\ ~Linked(View(w), o)
    BY <1>3 DEF There, PointingAt, Linked
  <2> HIDE DEF w, gone
  <2>8. \A o \in There(D) : o \in DOMAIN w /\ w[o] = NULL
    BY <2>3, <2>4 DEF Merges
  <2>9. ASSUME NEW o \in DOMAIN w, o \notin There(D)
        PROVE  /\ o \in DOMAIN wrote[c] /\ o \in DOMAIN operation
               /\ <<o, "update">> \in Mine(c)
               /\ w[o] \in Row /\ w[o].transferOperation = NULL
    <3>1. o \in DOMAIN wrote[c] /\ w[o] = wrote[c][o]
      BY <2>3, <2>4, <2>9 DEF Merges
    <3>2. /\ o \in DOMAIN operation /\ Owned(c, o) /\ w[o] = External(operation[o])
      BY <1>1, <2>2, <3>1 DEF Clearing
    <3>3. operation[o] \in Row
      BY <2>2, <3>2 DEF TypeOK
    <3>4. QED
      BY <3>1, <3>2, <3>3, ExternalIs DEF Owned, Mine
  <2>10. Committable(c, w)
    BY <2>6, <2>7, <2>8, <2>9, UnlinkingIsCommittable
  <2>11. ASSUME MirrorInv PROVE LiveFit(w, {})
    <3>1. ASSUME NEW x \in DOMAIN operation \ DOMAIN w
          PROVE  operation[x].transferOperation \notin DOMAIN w
      <4>1. Outside(c, DOMAIN wrote[c])
        BY <1>1, <2>11 DEF MirrorInv
      <4>2. x \notin D
        BY <2>8 DEF There
      <4>3. operation[x].transferOperation \notin There(D)
        <5>1. x \in DOMAIN View(w) /\ View(w)[x] = operation[x]
          BY ViewIs
        <5>2. QED
          BY <2>7, <5>1 DEF Linked
      <4>4. QED
        BY <2>9, <4>1, <4>2, <4>3 DEF Outside
    <3>2. \A o \in DOMAIN w : w[o] # NULL => w[o].transferOperation = NULL
      BY <2>8, <2>9
    <3>3. QED
      BY <3>1, <3>2 DEF LiveFit
  <2>12. QED
    BY <1>1, <2>1, <2>10, <2>11 DEF Commits
<1>4. QED
  BY <1>2, <1>3

LEMMA ConvertCommits ==
  ASSUME TxInv, NEW c \in Client, Convert(c)
  PROVE  Commits(c)
<1> DEFINE a == request[c].account
           S == {x \in There(read[c]) : operation[x].transferAccount = a}
           w == [o \in S |-> External(operation[o])]
<1>1. pc[c] = "convert" /\ Blockers(c, Needs(c)) = {} /\ Commit(c, w, {a})
  BY DEF Convert, At
<1>2. a \in Account
  BY <1>1 DEF TxInv, ClientOK, Asking, Removing, Removal
<1>3. \A o \in S : o \in DOMAIN operation /\ operation[o] \in Row
  BY DEF There, TxInv, TypeOK
<1>4. Needs(c) = {<<o, "update">> : o \in There(read[c])}
  BY <1>1, NeedsAre
<1>5. \A o \in S : <<o, "update">> \in Mine(c)
  BY <1>4 DEF Mine
<1>6. \A o \in DOMAIN w :
        /\ o \in DOMAIN operation /\ <<o, "update">> \in Mine(c)
        /\ w[o] \in Row /\ w[o].transferOperation = NULL
        /\ operation[o].transferAccount = a
  BY <1>3, <1>5, ExternalIs
<1> HIDE DEF w, a
<1>7. Committable(c, w)
  BY <1>6, UnlinkingIsCommittable
<1>8. ASSUME MirrorInv PROVE LiveFit(w, {a})
  <2>1. ASSUME NEW x \in DOMAIN operation \ DOMAIN w,
               operation[x].account \notin deleted \cup {a},
               operation[x].transferOperation \in DOMAIN w
        PROVE  FALSE
    <3> DEFINE y == operation[x].transferOperation
    <3>1. operation[y].transferAccount = a /\ y # NULL
      BY <1>6, <2>1, LedgerTxAssumption DEF TxInv, TypeOK
    <3>2. operation[y] = Reflection(x, operation[x])
      BY <1>8, <2>1, <3>1 DEF MirrorInv, PairsMirror, Active
    <3>3. operation[y].transferAccount = operation[x].account
      BY <3>2 DEF Reflection
    <3>4. QED
      BY <2>1, <3>1, <3>3
  <2>2. QED
    BY <1>6, <2>1 DEF LiveFit
<1>9. QED
  BY <1>1, <1>2, <1>7, <1>8 DEF Commits

LEMMA CommitsKeeps ==
  ASSUME TxInv, NEW c \in Client, Commits(c)
  PROVE  TxInv'
BY CommitKeeps DEF Commits

-----------------------------------------------------------------------------
(* Every step.                                                             *)

LEMMA ThenIsQuiet ==
  ASSUME ClientVariables, NEW c \in Client, NEW label, NEW v, NEW w,
         Then(c, label, v, w), pc[c] # "done"
  PROVE  Quiet(c)
BY ThenIs DEF Quiet

LEMMA RollbackIsQuiet ==
  ASSUME ClientVariables, NEW c \in Client, Rollback(c)
  PROVE  Quiet(c)
BY EndIs DEF Quiet, Rollback

LEMMA StepIs ==
  ASSUME TxInv, NEW c \in Client, Step(c)
  PROVE  TxInv' /\ (Commits(c) \/ Quiet(c))
<1>1. ClientVariables
  BY DEF TxInv
<1>2. CASE LockAccount(c)
  BY <1>1, <1>2, LockAccountKeeps, ThenIsQuiet, RollbackIsQuiet DEF LockAccount, At
<1>3. CASE LockOperation(c)
  BY <1>1, <1>3, LockOperationKeeps, ThenIsQuiet, RollbackIsQuiet DEF LockOperation, At
<1>4. CASE DeleteMirror(c)
  BY <1>1, <1>4, DeleteMirrorKeeps, ThenIsQuiet, RollbackIsQuiet DEF DeleteMirror, At
<1>5. CASE CheckTarget(c)
  BY <1>1, <1>5, CheckTargetKeeps, ThenIsQuiet, RollbackIsQuiet DEF CheckTarget, At
<1>6. CASE WriteMirror(c)
  BY <1>1, <1>6, WriteMirrorKeeps, ThenIsQuiet DEF WriteMirror, At
<1>7. CASE Insert(c)
  BY <1>1, <1>7, InsertKeeps, ThenIsQuiet DEF Insert, At
<1>8. CASE InsertMirror(c)
  BY <1>1, <1>8, InsertMirrorKeeps, ThenIsQuiet, RollbackIsQuiet DEF InsertMirror, At
<1>9. CASE Save(c)
  BY <1>9, SaveCommits, CommitsKeeps
<1>10. CASE ReadLinks(c)
  BY <1>1, <1>10, ReadLinksKeeps, ThenIsQuiet DEF ReadLinks, At
<1>11. CASE ClearSurvivors(c)
  BY <1>1, <1>11, ClearSurvivorsKeeps, ThenIsQuiet DEF ClearSurvivors, At
<1>12. CASE DeleteRows(c)
  BY <1>1, <1>12, DeleteRowsCommits, CommitsKeeps, RollbackKeeps, RollbackIsQuiet
<1>13. CASE Flag(c)
  BY <1>1, <1>13, FlagKeeps, ThenIsQuiet DEF Flag, At
<1>14. CASE Scan(c)
  BY <1>1, <1>14, ScanKeeps, ThenIsQuiet DEF Scan, At
<1>15. CASE Convert(c)
  BY <1>15, ConvertCommits, CommitsKeeps
<1>16. CASE Cancelled(c)
  BY <1>1, <1>16, RollbackKeeps, RollbackIsQuiet DEF Cancelled
<1>17. QED
  BY <1>2, <1>3, <1>4, <1>5, <1>6, <1>7, <1>8, <1>9, <1>10, <1>11, <1>12, <1>13, <1>14,
     <1>15, <1>16 DEF Step

LEMMA BeginIsQuiet ==
  ASSUME ClientVariables, NEW c \in Client, Begin(c)
  PROVE  Quiet(c)
<1>1. PICK r, label : Start(c, r, label)
  BY DEF Begin, BeginCreate, BeginUpdate, BeginBatchDelete, BeginRemove
<1>2. QED
  BY <1>1 DEF Start, Quiet, Undisturbed, ClientVariables

LEMMA NextKeeps ==
  ASSUME TxInv, [Next]_vars
  PROVE  TxInv'
<1>1. ASSUME NEW c \in Client, Begin(c) \/ Step(c) PROVE TxInv'
  BY <1>1, BeginKeeps, StepIs
<1>2. CASE UNCHANGED vars
  <2>1. TypeOK' /\ LinksUnshared' /\ LinksReturn' /\ ClientVariables' /\ LocksExclude'
    BY <1>2 DEF vars, TxInv, TypeOK, LinksUnshared, LinksReturn, ClientVariables, LocksExclude
  <2>2. ASSUME NEW c \in Client PROVE ClientOK(c)'
    <3>1. ClientOK(c) /\ Undisturbed(c)
      BY <1>2 DEF TxInv, vars, Undisturbed
    <3>2. \A o \in DOMAIN wrote[c] : o \notin DOMAIN operation =>
            \A d \in Client \ {c} : o \notin DOMAIN wrote'[d]
      BY <1>2, <3>1 DEF ClientOK, Writing, vars
    <3>3. operation' = operation /\ drawn' = drawn
      BY <1>2 DEF vars
    <3>4. QED
      BY <3>1, <3>2, <3>3, OthersKept DEF TxInv, TypeOK
  <2>3. QED
    BY <2>1, <2>2 DEF TxInv
<1>3. QED
  BY <1>1, <1>2 DEF Next

\* Whatever statements interleave, a link names a row, and no id is that of
\* two: the foreign keys hold of what is committed.
THEOREM TypesHold == Spec => []TypeOK
<1>1. TxInv => TypeOK
  BY DEF TxInv
<1>2. QED
  BY InitIsOK, NextKeeps, <1>1, PTL DEF Spec

\* Whatever statements interleave, no two operations have one counterpart, and
\* none is its own: the unique index is met once, when a mirror is inserted,
\* and the locks keep it true until the commit.
THEOREM LinksAreUnshared == Spec => []LinksUnshared
<1>1. TxInv => LinksUnshared
  BY DEF TxInv
<1>2. QED
  BY InitIsOK, NextKeeps, <1>1, PTL DEF Spec

\* Whatever statements interleave, what an operation is linked to reflects
\* it, accounts and content, or is no longer linked to anything: the two of a
\* pair never disagree, and no operation is linked into another's pair.
THEOREM LinksAreReturned == Spec => []LinksReturn
<1>1. TxInv => LinksReturn
  BY DEF TxInv
<1>2. QED
  BY InitIsOK, NextKeeps, <1>1, PTL DEF Spec

-----------------------------------------------------------------------------
(* Pairs of live books.                                                    *)

LEMMA CommitKeepsMirror ==
  ASSUME TxInv, TxInv', PairsMirror, NEW c \in Client, NEW w, NEW gone,
         Commit(c, w, gone), Committable(c, w), LiveFit(w, gone)
  PROVE  PairsMirror'
<1>1. operation' = View(w) /\ deleted' = deleted \cup gone
  BY DEF Commit
<1> SUFFICES ASSUME NEW o \in DOMAIN operation',
                    operation'[o].transferOperation # NULL,
                    operation'[o].account \notin deleted \cup gone
             PROVE  operation'[operation'[o].transferOperation] = Reflection(o, operation'[o])
  BY <1>1 DEF PairsMirror, Active, TxInv, TypeOK
<1> DEFINE mirror == operation'[o].transferOperation
<1>2. mirror \in DOMAIN operation'
  BY DEF TxInv, TypeOK
<1>3. CASE o \in DOMAIN w
  <2>1. w[o] # NULL /\ operation'[o] = w[o]
    BY <1>1, <1>3, CommittedIs
  <2>2. w[mirror] = Reflection(o, w[o])
    BY <1>3, <2>1 DEF LiveFit
  <2>3. mirror \in DOMAIN w /\ w[mirror] # NULL
    BY <1>3, <2>1 DEF Committable, LinksFit
  <2>4. operation'[mirror] = w[mirror]
    BY <1>1, <2>3, CommittedIs
  <2>5. QED
    BY <2>1, <2>2, <2>4
<1>4. CASE o \notin DOMAIN w
  <2>1. o \in DOMAIN operation /\ operation'[o] = operation[o]
    BY <1>1, <1>4, CommittedIs
  <2>2. mirror \notin DOMAIN w
    BY <1>4, <2>1 DEF LiveFit
  <2>3. operation'[mirror] = operation[mirror]
    BY <1>1, <1>2, <2>2, CommittedIs
  <2>4. operation[mirror] = Reflection(o, operation[o])
    BY <2>1 DEF PairsMirror, Active
  <2>5. QED
    BY <2>1, <2>3, <2>4
<1>5. QED
  BY <1>3, <1>4

\* Nothing comes to point at a row that another client has locked to itself,
\* or that was linked before.
LEMMA NewLinksAre ==
  ASSUME TxInv, NEW c \in Client, NEW w, NEW gone, Commit(c, w, gone),
         Blockers(c, Needs(c)) = {}, Committable(c, w),
         NEW o \in DOMAIN operation', NEW y \in Operation,
         operation'[o].transferOperation = y
  PROVE  \/ o \in DOMAIN operation /\ operation[o].transferOperation = y
         \/ /\ ~Linked(operation, y)
            /\ y \in DOMAIN operation => \A d \in Client \ {c} : ~Owned(d, y)
<1>1. operation' = View(w) /\ y # NULL
  BY LedgerTxAssumption DEF Commit
<1>2. CASE o \notin DOMAIN w
  BY <1>1, <1>2, CommittedIs
<1>3. CASE o \in DOMAIN w
  <2>1. w[o] # NULL /\ operation'[o] = w[o]
    BY <1>1, <1>3, CommittedIs
  <2>2. \/ o \in DOMAIN operation /\ operation[o].transferOperation = y
        \/ NewLink(c, w, o, y)
    BY <1>1, <1>3, <2>1 DEF Committable, LinksFit
  <2>3. NewLink(c, w, o, y) =>
          /\ ~Linked(operation, y)
          /\ y \in DOMAIN operation => \A d \in Client \ {c} : ~Owned(d, y)
    BY LocksAreMine DEF NewLink, TxInv
  <2>4. QED
    BY <2>2, <2>3
<1>4. QED
  BY <1>2, <1>3

\* Outside(c, S) outlives a step of another that may not link into S.
LEMMA OutsideKept ==
  ASSUME TxInv, NEW d \in Client, NEW c \in Client \ {d}, Commits(d) \/ Quiet(d),
         NEW S \in SUBSET Operation, Outside(c, S), request'[c] = request[c], TypeOK',
         Commits(d) => \A y \in S : \/ Linked(operation, y)
                                    \/ y \in DOMAIN operation /\ Owned(c, y)
  PROVE  Outside(c, S)'
<1>1. CASE Quiet(d)
  BY <1>1 DEF Quiet, Outside
<1>2. CASE Commits(d)
  <2>1. PICK w, gone : /\ Commit(d, w, gone) /\ Blockers(d, Needs(d)) = {}
                       /\ Committable(d, w)
    BY <1>2 DEF Commits
  <2>2. ASSUME NEW o \in DOMAIN operation', operation'[o].transferOperation \in S
        PROVE  o \in request[c].operations
    <3>1. o \in DOMAIN operation /\ operation[o].transferOperation \in S
      BY <1>2, <2>1, <2>2, NewLinksAre
    <3>2. QED
      BY <3>1 DEF Outside
  <2>3. QED
    BY <2>2 DEF Outside
<1>3. QED
  BY <1>1, <1>2

\* Which statements a batch deletion comes by to its next two.
LEMMA BatchStepsAre ==
  ASSUME TxInv, NEW c \in Client, pc'[c] \in {"clear_survivors", "delete_rows"},
         Begin(c) \/ Step(c)
  PROVE  \/ ReadLinks(c) /\ pc'[c] = "clear_survivors"
         \/ ClearSurvivors(c) /\ pc'[c] = "delete_rows"
<1>1. ClientVariables
  BY DEF TxInv
<1>2. ~Begin(c)
  BY <1>1 DEF Begin, BeginCreate, BeginUpdate, BeginBatchDelete, BeginRemove, Start,
              ClientVariables
<1>3. ~Rollback(c) /\ \A w, gone : ~Commit(c, w, gone)
  BY <1>1, EndIs DEF Rollback, Commit
<1>4. \A label, v, w : Then(c, label, v, w) => pc'[c] = label
  BY <1>1, ThenIs
<1>5. ~LockAccount(c) /\ ~LockOperation(c)
  BY <1>3, <1>4 DEF LockAccount, LockOperation, AfterRead
<1>6. ~DeleteMirror(c) /\ ~CheckTarget(c) /\ ~WriteMirror(c)
  BY <1>3, <1>4 DEF DeleteMirror, CheckTarget, WriteMirror
<1>7. ~Insert(c) /\ ~InsertMirror(c) /\ ~Save(c)
  BY <1>3, <1>4 DEF Insert, InsertMirror, Save
<1>8. ~Flag(c) /\ ~Scan(c) /\ ~Convert(c) /\ ~Cancelled(c) /\ ~DeleteRows(c)
  BY <1>3, <1>4 DEF Flag, Scan, Convert, Cancelled, DeleteRows
<1>9. ReadLinks(c) \/ ClearSurvivors(c)
  BY <1>2, <1>5, <1>6, <1>7, <1>8 DEF Step
<1>10. QED
  BY <1>4, <1>9 DEF ReadLinks, ClearSurvivors

\* The rows that ClearSurvivors clears are of those that ReadLinks read.
LEMMA ClearSurvivorsIs ==
  ASSUME TxInv, NEW c \in Client, ClearSurvivors(c)
  PROVE  /\ pc[c] = "clear_survivors" /\ operation' = operation /\ request'[c] = request[c]
         /\ DOMAIN wrote'[c] \subseteq read[c]
<1>1. Then(c, "delete_rows", NULL, [o \in There(read[c]) |-> External(operation[o])])
  BY DEF ClearSurvivors
<1>2. /\ operation' = operation /\ request'[c] = request[c]
      /\ wrote'[c] = [o \in There(read[c]) |-> External(operation[o])]
  BY <1>1, ThenIs DEF TxInv
<1>3. QED
  BY <1>2 DEF ClearSurvivors, At, There

\* What ReadLinks reads is linked, and by the batch's operations only.
LEMMA ReadLinksIs ==
  ASSUME TxInv, NEW c \in Client, ReadLinks(c)
  PROVE  Outside(c, read[c])' /\ \A o \in read'[c] : Linked(operation', o)
<1> DEFINE D == request[c].operations
           S == {operation[o].transferOperation : o \in There(D)} \ (D \cup {NULL})
<1>1. Then(c, "clear_survivors", S, Empty)
  BY DEF ReadLinks
<1>2. /\ \A y \in S : /\ y # NULL
                      /\ \E o \in There(D) : operation[o].transferOperation = y
  OBVIOUS
<1> HIDE DEF S
<1>3. read'[c] = S /\ operation' = operation /\ request'[c] = request[c]
  BY <1>1, ThenIs DEF TxInv
<1>4. \A x \in DOMAIN operation : operation[x].transferOperation \in S => x \in D
  BY <1>2 DEF There, TxInv, LinksUnshared
<1>5. QED
  BY <1>2, <1>3, <1>4 DEF Outside, Linked, There

LEMMA MirrorKept ==
  ASSUME TxInv, TxInv', MirrorInv, FreshSurvivors, [Next]_vars
  PROVE  MirrorInv'
<1>1. CASE UNCHANGED vars
  BY <1>1 DEF vars, MirrorInv, PairsMirror, Active, Outside
<1>2. ASSUME NEW d \in Client, Begin(d) \/ Step(d)
      PROVE  MirrorInv'
  <2>1. Commits(d) \/ Quiet(d)
    BY <1>2, StepIs, BeginIsQuiet DEF TxInv
  <2>2. PairsMirror'
    <3>1. CASE Quiet(d)
      BY <3>1 DEF Quiet, MirrorInv, PairsMirror, Active
    <3>2. CASE Commits(d)
      BY <3>2, CommitKeepsMirror DEF Commits, MirrorInv
    <3>3. QED
      BY <2>1, <3>1, <3>2
  <2>3. ASSUME NEW c \in Client, pc'[c] = "delete_rows"
        PROVE  Outside(c, DOMAIN wrote[c])'
    <3>1. CASE c # d
      <4>1. Undisturbed(c)
        BY <2>1, <3>1, EndIs DEF Quiet, Commits, Commit, TxInv
      <4>2. pc[c] = "delete_rows" /\ request'[c] = request[c] /\ wrote'[c] = wrote[c]
        BY <2>3, <4>1 DEF Undisturbed
      <4> DEFINE S == DOMAIN wrote[c]
      <4>3. S \in SUBSET Operation /\ \A y \in S : y \in DOMAIN operation /\ Owned(c, y)
        BY <4>2 DEF TxInv, ClientOK, Clearing, Writing, TypeOK
      <4>4. Outside(c, S) /\ S' = S
        BY <4>2 DEF MirrorInv
      <4> HIDE DEF S
      <4>5. Outside(c, S)'
        BY <2>1, <3>1, <4>2, <4>3, <4>4, OutsideKept DEF TxInv
      <4>6. QED
        BY <4>5 DEF S
    <3>2. CASE c = d
      <4>1. ClearSurvivors(c)
        BY <1>2, <2>3, <3>2, BatchStepsAre
      <4>2. QED
        BY <4>1, ClearSurvivorsIs DEF FreshSurvivors, Outside
    <3>3. QED
      BY <3>1, <3>2
  <2>4. QED
    BY <2>2, <2>3 DEF MirrorInv
<1>3. QED
  BY <1>1, <1>2 DEF Next

\* Two members of a pair saved at once, one saved while the account of the
\* other is deleted, a pair deleted while one of it is edited: an operation
\* of live books that has a counterpart is reflected by it, with any number
\* of clients, unless some batch clears a counterpart that another operation
\* has come to point at since the batch read it.
THEOREM PairsMirrorIfFresh == Spec /\ []FreshSurvivors => []PairsMirror
<1>1. Init => MirrorInv
  BY InitialAssumption DEF Init, MirrorInv, PairsMirror
<1>2. MirrorInv => PairsMirror
  BY DEF MirrorInv
<1>3. QED
  BY InitIsOK, NextKeeps, MirrorKept, <1>1, <1>2, PTL DEF Spec

-----------------------------------------------------------------------------
(* Where survivors are fresh.                                              *)

NoBatches == Request \cap BatchDeletion = {}

NoneBatching == NoBatches /\ \A c \in Client : pc[c] \notin Batching

LEMMA BatchingIsAsked ==
  ASSUME TxInv, NEW c \in Client, Begin(c), NoBatches
  PROVE  pc'[c] \notin Batching
<1>1. PICK r \in Request :
        BeginCreate(c, r) \/ BeginUpdate(c, r) \/ BeginBatchDelete(c, r) \/ BeginRemove(c, r)
  BY DEF Begin
<1>2. ~BeginBatchDelete(c, r)
  BY RequestAssumption
    DEF BeginBatchDelete, NoBatches, Creation, Edition, BatchDeletion, Removal
<1>3. QED
  BY <1>1, <1>2 DEF BeginCreate, BeginUpdate, BeginRemove, Start, Batching, TxInv,
                    ClientVariables

LEMMA ReadingLinksIsBegun ==
  ASSUME TxInv, NEW c \in Client, Step(c)
  PROVE  pc'[c] # "read_links"
<1>1. ClientVariables
  BY DEF TxInv
<1>2. Rollback(c) \/ (\E w, gone : Commit(c, w, gone)) => pc'[c] = "done"
  BY <1>1, EndIs DEF Rollback, Commit
<1>3. \A label, v, w : Then(c, label, v, w) => pc'[c] = label
  BY <1>1, ThenIs
<1>4. CASE LockAccount(c) \/ LockOperation(c) \/ DeleteMirror(c)
  BY <1>2, <1>3, <1>4 DEF LockAccount, LockOperation, AfterRead, DeleteMirror
<1>5. CASE CheckTarget(c) \/ WriteMirror(c) \/ Insert(c) \/ InsertMirror(c)
  BY <1>2, <1>3, <1>5 DEF CheckTarget, WriteMirror, Insert, InsertMirror
<1>6. CASE Save(c) \/ DeleteRows(c) \/ Convert(c) \/ Cancelled(c)
  BY <1>2, <1>6 DEF Save, DeleteRows, Convert, Cancelled
<1>7. CASE ReadLinks(c) \/ ClearSurvivors(c) \/ Flag(c) \/ Scan(c)
  BY <1>3, <1>7 DEF ReadLinks, ClearSurvivors, Flag, Scan
<1>8. QED
  BY <1>4, <1>5, <1>6, <1>7 DEF Step

LEMMA NoneBatchingKept ==
  ASSUME TxInv, NoneBatching, [Next]_vars
  PROVE  NoneBatching'
<1>1. CASE UNCHANGED vars
  BY <1>1 DEF vars, NoneBatching, NoBatches
<1>2. ASSUME NEW d \in Client, Begin(d) \/ Step(d), NEW c \in Client
      PROVE  pc'[c] \notin Batching
  <2>1. Commits(d) \/ Quiet(d)
    BY <1>2, StepIs, BeginIsQuiet DEF TxInv
  <2>2. CASE c # d
    BY <2>1, <2>2, EndIs DEF Quiet, Commits, Commit, TxInv, Undisturbed, NoneBatching
  <2>3. CASE c = d /\ Begin(c)
    BY <2>3, BatchingIsAsked DEF NoneBatching
  <2>4. CASE c = d /\ Step(c)
    <3>1. ~ReadLinks(c) /\ ~ClearSurvivors(c)
      BY DEF NoneBatching, Batching, ReadLinks, ClearSurvivors, At
    <3>2. pc'[c] \notin {"clear_survivors", "delete_rows"}
      BY <2>4, <3>1, BatchStepsAre
    <3>3. pc'[c] # "read_links"
      BY <2>4, ReadingLinksIsBegun
    <3>4. QED
      BY <3>2, <3>3 DEF Batching
  <2>5. QED
    BY <1>2, <2>2, <2>3, <2>4
<1>3. QED
  BY <1>1, <1>2 DEF Next, NoneBatching, NoBatches

LEMMA TwoKept ==
  ASSUME TxInv, TxInv', TwoClients, TwoInv, [Next]_vars
  PROVE  TwoInv'
<1>1. CASE UNCHANGED vars
  BY <1>1 DEF vars, TwoInv, Outside, Linked, OthersDone
<1>2. ASSUME NEW d \in Client, Begin(d) \/ Step(d), NEW c \in Client,
             pc'[c] = "clear_survivors"
      PROVE  /\ Outside(c, read[c])'
             /\ \A o \in read'[c] : Linked(operation', o) \/ OthersDone(c)'
  <2>1. CASE c = d
    BY <1>2, <2>1, BatchStepsAre, ReadLinksIs
  <2>2. CASE c # d
    <3>1. Commits(d) \/ Quiet(d)
      BY <1>2, StepIs, BeginIsQuiet DEF TxInv
    <3>2. \A e \in Client \ {d} : Undisturbed(e)
      BY <3>1, EndIs DEF Quiet, Commits, Commit, TxInv
    <3>3. pc[c] = "clear_survivors" /\ request'[c] = request[c] /\ read'[c] = read[c]
      BY <1>2, <2>2, <3>2 DEF Undisturbed
    <3> DEFINE S == read[c]
    <3>4. /\ S \in SUBSET Operation /\ S' = S /\ Outside(c, S)
          /\ \A o \in S : Linked(operation, o) \/ OthersDone(c)
      BY <3>3 DEF TxInv, ClientOK, Reading, TwoInv
    <3> HIDE DEF S
    <3>5. Commits(d) => \A o \in S : Linked(operation, o)
      BY <2>2, <3>4 DEF Commits, OthersDone
    <3>6. Outside(c, S)'
      BY <2>2, <3>1, <3>3, <3>4, <3>5, OutsideKept DEF TxInv
    <3>7. CASE Commits(d)
      <4>1. pc'[d] = "done"
        BY <3>7, EndIs DEF Commits, Commit, TxInv
      <4>2. OthersDone(c)'
        BY <2>2, <4>1 DEF TwoClients, OthersDone
      <4>3. QED
        BY <3>6, <4>2 DEF S
    <3>8. CASE Quiet(d)
      <4>1. OthersDone(c) => OthersDone(c)'
        BY <2>2, <3>2, <3>8 DEF OthersDone, Quiet, Undisturbed
      <4>2. operation' = operation
        BY <3>8 DEF Quiet
      <4>3. \A o \in S : Linked(operation', o) \/ OthersDone(c)'
        BY <3>4, <4>1, <4>2
      <4>4. QED
        BY <3>4, <3>6, <4>3 DEF S
    <3>9. QED
      BY <3>1, <3>7, <3>8
  <2>3. QED
    BY <2>1, <2>2
<1>3. QED
  BY <1>1, <1>2 DEF Next, TwoInv

\* With any number of clients that create and edit operations and delete
\* accounts, an operation of live books that has a counterpart is reflected
\* by it.
THEOREM PairsMirrorWithoutBatches == NoBatches /\ Spec => []PairsMirror
<1>1. NoBatches /\ Init => NoneBatching
  BY DEF Init, NoneBatching, Batching
<1>2. NoneBatching => FreshSurvivors
  BY DEF NoneBatching, FreshSurvivors, Batching
<1>3. QED
  BY InitIsOK, NextKeeps, NoneBatchingKept, PairsMirrorIfFresh, <1>1, <1>2, PTL DEF Spec

\* With two clients, whatever they ask, an operation of live books that has a
\* counterpart is reflected by it.
THEOREM PairsMirrorForTwo == TwoClients /\ Spec => []PairsMirror
<1>1. Init => TwoInv
  BY DEF Init, TwoInv
<1>2. TwoInv => FreshSurvivors
  BY DEF TwoInv, FreshSurvivors
<1>3. TwoClients => TwoClients'
  BY DEF TwoClients
<1>4. QED
  BY InitIsOK, NextKeeps, TwoKept, PairsMirrorIfFresh, <1>1, <1>2, <1>3, PTL DEF Spec
=============================================================================
