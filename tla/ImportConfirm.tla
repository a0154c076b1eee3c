---------------------------- MODULE ImportConfirm ----------------------------
(***************************************************************************)
(* Confirming a bank file import.  An upload is held in the key-value      *)
(* store; the member previews it and confirms what the preview showed,     *)
(* maybe several times (a double click, another tab, a retry after an      *)
(* answer that never came).  A confirmation takes a lock in the store,     *)
(* which may expire under it, works the rows out again from the database,  *)
(* records them in one transaction that holds the account, and leaves its  *)
(* outcome in the store for the confirmations that follow.  Meanwhile the  *)
(* member goes on entering, editing and deleting operations.               *)
(*                                                                         *)
(* The uploads hold one statement, whose rows are valid and differ from    *)
(* each other: a row is skipped when an operation of the account describes *)
(* it.  The reads of an evaluation are one step: what they return is only  *)
(* compared, and compared again once the account is held.                  *)
(***************************************************************************)
EXTENDS Naturals, FiniteSets, SequencesExt

CONSTANTS
  Client,           \* confirmations in flight at once, one each
  Import, Account,
  Target,           \* the accounts that the uploads may be for
  Entered,          \* the operations that there may be to begin with
  Row,              \* the rows of the statement
  Label,            \* the labels of the file that the member may correct
  MaxCorrections,   \* MAX_LABEL_CORRECTIONS
  Choice,           \* what a confirmation asks beyond importing the rows
  MaxOperation, MaxPreview, MaxEdits, MaxFaults,   \* bounds on a behaviour
  NULL

Operation == 1 .. MaxOperation

Unimported ==
  [account: Account, row: Row \cup {NULL}, by: {0}, reconciled: BOOLEAN]

ASSUME ImportAssumption ==
  /\ Target \subseteq [Import -> Account]
  /\ \A table \in Entered : \E n \in 0 .. MaxOperation : table \in [1 .. n -> Unimported]
  /\ IsFiniteSet(Row) /\ IsFiniteSet(Label) /\ NULL \notin Row \cup Client
  /\ Choice \subseteq [included: SUBSET Row, reconcile: SUBSET Row,
                       remember: SUBSET Label, forget: SUBSET Label]
  /\ \A choice \in Choice : choice.remember \cap choice.forget = {}
  /\ {MaxCorrections, MaxOperation, MaxPreview, MaxEdits, MaxFaults} \subseteq Nat

VARIABLES
  file, result,   \* the uploads the store holds, those whose outcome it holds
  lock,           \* the confirmation that holds each upload's lock
  target,         \* the account each upload is for
  operation,      \* the operations of the accounts, by id
  drawn,          \* how many ids were drawn
  corrections,    \* the labels the member has a correction for
  previews,       \* what the member was shown and chose
  asked,          \* the preview each client confirms
  pc, seen, plan, \* its next step, the operations it worked from, its corrections
  edits, faults,  \* how many of these there were
  expired, applied, reworked   \* history: see the actions that add to them

store == <<file, result, lock>>
tables == <<operation, drawn, corrections>>
history == <<expired, applied, reworked>>
vars == <<store, target, tables, previews, asked, pc, seen, plan, edits, faults, history>>

Init ==
  /\ file = Import /\ result = {} /\ lock = [i \in Import |-> NULL]
  /\ target \in Target
  /\ operation \in Entered /\ drawn = Cardinality(DOMAIN operation)
  /\ corrections = {}
  /\ previews = <<>> /\ asked = [c \in Client |-> NULL]
  /\ pc = [c \in Client |-> "idle"]
  /\ seen = [c \in Client |-> NULL] /\ plan = [c \in Client |-> {}]
  /\ edits = 0 /\ faults = 0
  /\ expired = {} /\ applied = {} /\ reworked = {}

-----------------------------------------------------------------------------
(* What an evaluation makes of the rows.                                   *)

\* The operations of a that rows can match.
RecordedAround(a) ==
  [o \in {x \in DOMAIN operation : operation[x].account = a /\ operation[x].row # NULL}
     |-> operation[o]]

Revision(i) == [corrections |-> corrections, recorded |-> RecordedAround(target[i])]

Matching(recorded, r) == {o \in DOMAIN recorded : recorded[o].row = r}

\* Rows that an operation matches are skipped, unless the member includes them.
ToImport(recorded, choice) ==
  {r \in Row : Matching(recorded, r) = {} \/ r \in choice.included}

\* The operations behind skipped rows; a row imported anyway reconciles
\* nothing.  Among several, the first by id is the one a row takes.
ToReconcile(recorded, choice) ==
  {o \in DOMAIN recorded :
     /\ recorded[o].row \in choice.reconcile \ choice.included
     /\ ~recorded[o].reconciled
     /\ \A x \in Matching(recorded, recorded[o].row) : o <= x}

\* The import, the choices and the account of c's confirmation.
Of(c) == previews[asked[c]].import
ChoiceOf(c) == previews[asked[c]].choice
AccountOf(c) == target[Of(c)]

-----------------------------------------------------------------------------
(* The steps of a confirmation.                                            *)

Goes(c, label) == pc' = [pc EXCEPT ![c] = label]

\* c has its answer.
Answered(c) ==
  /\ Goes(c, "done")
  /\ asked' = [asked EXCEPT ![c] = NULL] /\ seen' = [seen EXCEPT ![c] = NULL]
  /\ plan' = [plan EXCEPT ![c] = {}]

\* What most steps leave alone.
Keep == UNCHANGED <<target, previews, asked, edits, faults>>

ShowPreview(i, choice) ==
  /\ i \in file /\ Len(previews) < MaxPreview
  /\ \A r \in choice.included \cup choice.reconcile :
       Matching(RecordedAround(target[i]), r) # {}
  /\ previews' = Append(previews,
                        [import |-> i, revision |-> Revision(i), choice |-> choice])
  /\ UNCHANGED <<store, target, tables, asked, pc, seen, plan, edits, faults, history>>

\* Already confirmed: the same answer again.
Confirm(c, p) ==
  /\ pc[c] = "idle"
  /\ IF previews[p].import \in result
       THEN Goes(c, "done") /\ UNCHANGED asked
       ELSE Goes(c, "lock") /\ asked' = [asked EXCEPT ![c] = p]
  /\ UNCHANGED <<store, target, tables, previews, seen, plan, edits, faults, history>>

LockConfirmation(c) ==
  /\ pc[c] = "lock"
  /\ IF lock[Of(c)] = NULL
       THEN /\ lock' = [lock EXCEPT ![Of(c)] = c] /\ Goes(c, "look_again")
            /\ UNCHANGED <<asked, seen, plan>>
       ELSE Answered(c) /\ UNCHANGED lock
  /\ UNCHANGED <<file, result, target, tables, previews, edits, faults, history>>

LookAgain(c) ==
  /\ pc[c] = "look_again"
  /\ Goes(c, IF Of(c) \in result THEN "unlock" ELSE "evaluate")
  /\ Keep /\ UNCHANGED <<store, tables, seen, plan, history>>

\* Where an evaluation that found the upload leads; with nothing to write,
\* straight to the outcome.
Evaluated(c) ==
  LET recorded == RecordedAround(AccountOf(c))
  IN  /\ seen' = [seen EXCEPT ![c] = recorded]
      /\ IF ToImport(recorded, ChoiceOf(c)) = {} /\ ToReconcile(recorded, ChoiceOf(c)) = {}
           THEN Goes(c, "save") /\ applied' = applied \cup {Of(c)}
           ELSE Goes(c, "hold") /\ UNCHANGED applied

\* Mutant: the revision is not compared.
EvaluateAnyRevision(c) ==
  /\ pc[c] = "evaluate"
  /\ IF Of(c) \in file THEN Evaluated(c) ELSE Goes(c, "unlock") /\ UNCHANGED <<seen, applied>>
  /\ Keep /\ UNCHANGED <<store, tables, plan, expired, reworked>>

\* The upload is gone, or what the preview rested on has changed.
Evaluate(c) ==
  /\ pc[c] = "evaluate"
  /\ IF Of(c) \in file /\ Revision(Of(c)) = previews[asked[c]].revision
       THEN Evaluated(c)
       ELSE Goes(c, "unlock") /\ UNCHANGED <<seen, applied>>
  /\ Keep /\ UNCHANGED <<store, tables, plan, expired, reworked>>

\* The transaction of c, from when it holds its account.
InTx(c) == pc[c] \in {"labels", "record"}
AccountHeld(a) == \E c \in Client : InTx(c) /\ AccountOf(c) = a

Intends(c) == ChoiceOf(c).remember \cup ChoiceOf(c).forget # {}
Written(c) == IF Intends(c) THEN "labels" ELSE "record"

\* Mutant: the account is locked, but its operations are not looked at again.
HoldUnchecked(c) ==
  /\ pc[c] = "hold" /\ ~AccountHeld(AccountOf(c))
  /\ Goes(c, Written(c))
  /\ Keep /\ UNCHANGED <<store, tables, seen, plan, history>>

\* The account's operations are read again, and must mark the same.
Hold(c) ==
  /\ pc[c] = "hold" /\ ~AccountHeld(AccountOf(c))
  /\ Goes(c, IF RecordedAround(AccountOf(c)) = seen[c] THEN Written(c) ELSE "unlock")
  /\ reworked' = {o \in reworked : operation[o].account # AccountOf(c)}
  /\ Keep /\ UNCHANGED <<store, tables, seen, plan, expired, applied>>

\* Of the new corrections, those that fit.
Plans(c) ==
  LET dropped == ChoiceOf(c).forget \cap corrections
      new == ChoiceOf(c).remember \ corrections
      kept == Cardinality(corrections \ dropped)
      room == IF kept < MaxCorrections THEN MaxCorrections - kept ELSE 0
  IN  {S \in SUBSET new : Cardinality(S) = IF Cardinality(new) < room
                                             THEN Cardinality(new) ELSE room}

\* Mutant: no advisory lock on the member.
PlanLabelsUnlocked(c) ==
  /\ pc[c] = "labels"
  /\ \E S \in Plans(c) : plan' = [plan EXCEPT ![c] = S]
  /\ Goes(c, "record")
  /\ Keep /\ UNCHANGED <<store, tables, seen, history>>

\* Under the member's advisory lock, held until the transaction ends.
PlanLabels(c) ==
  /\ pc[c] = "labels"
  /\ \A d \in Client : pc[d] = "record" => ~Intends(d)
  /\ \E S \in Plans(c) : plan' = [plan EXCEPT ![c] = S]
  /\ Goes(c, "record")
  /\ Keep /\ UNCHANGED <<store, tables, seen, history>>

\* The rows, the reconciliations and the corrections are committed together;
\* an operation to reconcile may have gone.
Record(c) ==
  LET toImport == ToImport(seen[c], ChoiceOf(c))
      reconciled == ToReconcile(seen[c], ChoiceOf(c))
      ids == drawn + 1 .. drawn + Cardinality(toImport)
      rows == SetToSeq(toImport)
      new(o) == [account |-> AccountOf(c), row |-> rows[o - drawn], by |-> asked[c],
                 reconciled |-> TRUE]
  IN  /\ pc[c] = "record" /\ ids \subseteq Operation
      /\ drawn' = drawn + Cardinality(toImport)
      /\ operation' =
           [o \in DOMAIN operation \cup ids |->
              IF o \in ids THEN new(o)
              ELSE [operation[o] EXCEPT !.reconciled = @ \/ o \in reconciled]]
      /\ corrections' = (corrections \ ChoiceOf(c).forget) \cup plan[c]
      /\ plan' = [plan EXCEPT ![c] = {}] /\ seen' = [seen EXCEPT ![c] = NULL]
      /\ applied' = applied \cup {Of(c)}
      /\ Goes(c, "save")
      /\ Keep /\ UNCHANGED <<store, expired, reworked>>

\* A store that fails once the rows are in changes nothing to the answer.
Fault == faults < MaxFaults /\ faults' = faults + 1
Follow(done) ==
  (done /\ UNCHANGED faults) \/ (Fault /\ UNCHANGED store)

SaveOutcome(c) ==
  /\ pc[c] = "save" /\ Goes(c, "discard")
  /\ Follow(result' = result \cup {Of(c)} /\ UNCHANGED <<file, lock>>)
  /\ UNCHANGED <<target, tables, previews, asked, seen, plan, edits, history>>

Discard(c) ==
  /\ pc[c] = "discard" /\ Goes(c, "unlock")
  /\ Follow(file' = file \ {Of(c)} /\ UNCHANGED <<result, lock>>)
  /\ UNCHANGED <<target, tables, previews, asked, seen, plan, edits, history>>

\* Mutant: the lock is freed whoever holds it.
UnlockAnyone(c) ==
  /\ pc[c] = "unlock" /\ Answered(c)
  /\ Follow(lock' = [lock EXCEPT ![Of(c)] = NULL] /\ UNCHANGED <<file, result>>)
  /\ expired' = expired \ {c}
  /\ UNCHANGED <<target, tables, previews, edits, applied, reworked>>

\* Only the holder frees the lock.
Unlock(c) ==
  /\ pc[c] = "unlock" /\ Answered(c)
  /\ Follow(/\ lock' = [lock EXCEPT ![Of(c)] = IF @ = c THEN NULL ELSE @]
            /\ UNCHANGED <<file, result>>)
  /\ expired' = expired \ {c}
  /\ UNCHANGED <<target, tables, previews, edits, applied, reworked>>

\* Mutant: the outcome is saved however the confirmation ends.
FailAndSave(c) ==
  /\ Fault
  /\ pc[c] \in {"look_again", "evaluate", "hold", "labels", "record"}
  /\ Goes(c, "save") /\ plan' = [plan EXCEPT ![c] = {}]
  /\ UNCHANGED <<store, target, tables, previews, asked, seen, edits, history>>

\* A statement fails, or waits too long: nothing is recorded.
Fail(c) ==
  /\ Fault
  /\ pc[c] \in {"look_again", "evaluate", "hold", "labels", "record"}
  /\ Goes(c, "unlock") /\ plan' = [plan EXCEPT ![c] = {}]
  /\ UNCHANGED <<store, target, tables, previews, asked, seen, edits, history>>

\* The process dies: its transaction is rolled back, its lock stays.
Crash(c) ==
  /\ Fault
  /\ pc[c] \notin {"idle", "done"} /\ Answered(c)
  /\ UNCHANGED <<store, target, tables, previews, edits, history>>

-----------------------------------------------------------------------------
(* What the store drops by itself.                                         *)

\* Two minutes after it was taken: its holder has gone, or is slow.
LockExpires(i) ==
  /\ lock[i] # NULL
  /\ lock' = [lock EXCEPT ![i] = NULL]
  /\ IF pc[lock[i]] = "done" THEN UNCHANGED <<faults, expired>>
     ELSE Fault /\ expired' = expired \cup {lock[i]}
  /\ UNCHANGED <<file, result, target, tables, previews, asked, pc, seen, plan, edits,
                 applied, reworked>>

\* Half an hour after the upload; or the member cancels, or uploads others.
FileGoes(i) ==
  /\ edits < MaxEdits /\ edits' = edits + 1
  /\ i \in file /\ file' = file \ {i}
  /\ UNCHANGED <<result, lock, target, tables, previews, asked, pc, seen, plan, faults,
                 history>>

\* Half an hour after the confirmation, so after the upload has gone.
OutcomeGoes(i) ==
  /\ i \in result \ file /\ result' = result \ {i}
  /\ UNCHANGED <<file, lock, target, tables, previews, asked, pc, seen, plan, edits,
                 faults, history>>

-----------------------------------------------------------------------------
(* The member's other requests.                                            *)

Edit ==
  /\ edits < MaxEdits /\ edits' = edits + 1
  /\ UNCHANGED <<store, target, previews, asked, pc, seen, plan, faults, expired, applied>>

\* An operation is entered, or comes as a mirror or an occurrence: its
\* account is locked, or is referenced, which waits for that lock.
Enter(a, r) ==
  /\ Edit /\ ~AccountHeld(a)
  /\ drawn < MaxOperation /\ drawn' = drawn + 1
  /\ operation' = [o \in DOMAIN operation \cup {drawn + 1} |->
                     IF o = drawn + 1
                       THEN [account |-> a, row |-> r, by |-> 0, reconciled |-> FALSE]
                       ELSE operation[o]]
  /\ UNCHANGED <<corrections, reworked>>

\* Its date, amount or label is edited: with its account locked, or, being
\* a mirror, from the other side of the transfer, which locks another account.
Rework(o, r) ==
  /\ Edit /\ o \in DOMAIN operation /\ operation[o].row # r
  /\ operation' = [operation EXCEPT ![o].row = r]
  /\ reworked' = IF AccountHeld(operation[o].account) THEN reworked \cup {o} ELSE reworked
  /\ UNCHANGED <<drawn, corrections>>

\* Batches lock no account.
Delete(o) ==
  /\ Edit /\ o \in DOMAIN operation
  /\ operation' = [x \in DOMAIN operation \ {o} |-> operation[x]]
  /\ reworked' = reworked \ {o}
  /\ UNCHANGED <<drawn, corrections>>

Reconcile(o) ==
  /\ Edit /\ o \in DOMAIN operation /\ ~operation[o].reconciled
  /\ operation' = [operation EXCEPT ![o].reconciled = TRUE]
  /\ UNCHANGED <<drawn, corrections, reworked>>

ForgetCorrection(l) ==
  /\ Edit /\ l \in corrections /\ corrections' = corrections \ {l}
  /\ UNCHANGED <<operation, drawn, reworked>>

-----------------------------------------------------------------------------

Step(c) ==
  \/ LockConfirmation(c) \/ LookAgain(c) \/ Evaluate(c)
  \/ Hold(c) \/ PlanLabels(c) \/ Record(c)
  \/ SaveOutcome(c) \/ Discard(c) \/ Unlock(c) \/ Fail(c) \/ Crash(c)

Next ==
  \/ \E i \in Import, choice \in Choice : ShowPreview(i, choice)
  \/ \E c \in Client : Step(c) \/ \E p \in DOMAIN previews : Confirm(c, p)
  \/ \E i \in Import : LockExpires(i) \/ FileGoes(i) \/ OutcomeGoes(i)
  \/ \E a \in Account, r \in Row : Enter(a, r)
  \/ \E o \in Operation :
       Delete(o) \/ Reconcile(o) \/ \E r \in Row \cup {NULL} : Rework(o, r)
  \/ \E l \in Label : ForgetCorrection(l)

Spec == Init /\ [][Next]_vars

-----------------------------------------------------------------------------
(* Properties.                                                             *)

\* Every variable has its type, and the transaction that records an import
\* has its account to itself.
TypeOK ==
  /\ file \subseteq Import /\ result \subseteq Import /\ applied \subseteq Import
  /\ lock \in [Import -> Client \cup {NULL}] /\ target \in [Import -> Account]
  /\ drawn \in 0 .. MaxOperation /\ DOMAIN operation \subseteq 1 .. drawn
  /\ operation \in [DOMAIN operation ->
                      [account: Account, row: Row \cup {NULL}, by: 0 .. MaxPreview,
                       reconciled: BOOLEAN]]
  /\ corrections \subseteq Label /\ plan \in [Client -> SUBSET Label]
  /\ Len(previews) <= MaxPreview
  /\ asked \in [Client -> DOMAIN previews \cup {NULL}]
  /\ \A c, d \in Client : InTx(c) /\ InTx(d) /\ AccountOf(c) = AccountOf(d) => c = d

\* The operations that an import has just recorded, with their ids.
Imported == {o \in DOMAIN operation' \ DOMAIN operation : operation'[o].by # 0}

\* The operations that described the same row and had not just been made to,
\* from the other side of a transfer, while their account was held.
Described(o) ==
  {x \in DOMAIN operation \ reworked :
     /\ operation[x].account = operation'[o].account
     /\ operation[x].row = operation'[o].row}

\* However often what a preview showed is confirmed, at once or again after
\* a lost answer, no row of it is recorded beside its own operation, not even
\* a skipped row that the member included.
RecordedOnce ==
  [][\A o \in Imported : \A x \in Described(o) : operation[x].by # operation'[o].by]_vars

\* "The account's operations may have changed since they were read, before
\* it was locked" (import.service.ts:276): an import adds no row that an
\* operation of the account already describes, unless the member included it.
NoDuplicateEntry ==
  [][\A o \in Imported :
       operation'[o].row \notin previews[operation'[o].by].choice.included
         => Described(o) = {}]_vars

\* "Only the holder of the lock releases it: one that outlived its expiry
\* must not free the lock of the confirmation that took over"
\* (import.store.ts:35).
LockIsOwned ==
  \A c \in Client :
    pc[c] \in {"look_again", "evaluate", "hold", "labels", "record", "save", "discard"}
      /\ c \notin expired => lock[Of(c)] = c

\* "Two imports of one Member must not both fit under the quota"
\* (import.writer.ts:155).
CorrectionsWithinQuota == Cardinality(corrections) <= MaxCorrections

\* What the store answers in the place of a confirmation was recorded.
OutcomeIsRecorded == result \subseteq applied
=============================================================================
