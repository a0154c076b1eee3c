--------------------------- MODULE SessionProofs ---------------------------
(***************************************************************************)
(* Theorems about module Sessions, for any members, browsers, sessions and *)
(* passkeys, any requests at once and any failures: types, and             *)
(*                                                                         *)
(*  - whoever joined keeps a passkey, since a removal locks the rows that  *)
(*    it counts, and so still owns them, alone, when it deletes one;       *)
(*  - a step-up proof serves in turn once: it is in one copy and in one    *)
(*    stored session, that which the copy was loaded from;                 *)
(*  - signing in changes the id of a session and lists the new one, since  *)
(*    an id is private to its request until the answer sets the cookie.    *)
(***************************************************************************)
EXTENDS Sessions, FiniteSetTheorems, TLAPS

-----------------------------------------------------------------------------
(* Types.                                                                  *)

Label ==
  {"idle", "handler", "end", "lock", "delete", "revoke", "destroy", "rotate", "save",
   "register", "unregister"}

\* A request that is served holds its copy; one that works on a member has one.
StateOK(r) ==
  /\ pc[r] \notin {"idle", "end", "unregister"} => session[r] \in Session
  /\ pc[r] # "idle" => sid[r] \in Sid /\ from[r] \in Browser
  /\ pc[r] = "idle" => session[r] = NULL /\ sid[r] = NULL
  /\ pc[r] = "unregister" => session[r] = NULL
  /\ pc[r] \in {"lock", "delete", "revoke", "destroy", "rotate", "save", "register"}
          => who[r] \in Member

TypeInv == TypeOK /\ \A r \in Request : StateOK(r)

LEMMA Copies ==
  /\ NewSession \in Session /\ NULL \notin Session
  /\ \A e \in Session :
       /\ [e EXCEPT !.saved = TRUE] \in Session
       /\ [e EXCEPT !.proof = NULL] \in Session
       /\ [e EXCEPT !.stepUpFor = NULL] \in Session
       /\ [e EXCEPT !.stepUpFor = e.member] \in Session
       /\ \A m \in Member \cup {NULL} : [e EXCEPT !.member = m] \in Session
       /\ \A p \in Proof : [[e EXCEPT !.stepUpFor = NULL] EXCEPT !.proof = p] \in Session
       /\ \A c \in Ceremony :
            /\ [e EXCEPT !.pending = @ \cup {c}] \in Session
            /\ [e EXCEPT !.pending = @ \ {c}] \in Session
            /\ [[e EXCEPT !.proof = NULL] EXCEPT !.pending = @ \cup {c}] \in Session
BY NoSessionAssumption DEF Session, NewSession


LEMMA TypeLoad ==
  ASSUME TypeInv, NEW r \in Request, NEW b \in Browser, Load(r, b)
  PROVE  TypeInv'
<1> USE DEF TypeInv, TypeOK, Goes
<1>0. /\ sent' \in 0 .. MaxRequests /\ from' = [from EXCEPT ![r] = b]
      /\ UNCHANGED <<listed, cookie, rows, task, faults, served, unlisted>>
  <2>1. sent < MaxRequests /\ sent' = sent + 1 /\ from' = [from EXCEPT ![r] = b]
        /\ UNCHANGED <<listed, cookie, rows, task, faults, served, unlisted>>
    BY DEF Load
  <2>2. sent \in Nat /\ MaxRequests \in Nat
    BY SessionsAssumption
  <2>3. QED
    BY <2>1, <2>2
<1>1. ASSUME NEW n \in Sid, sid' = [sid EXCEPT ![r] = n],
             session' = [session EXCEPT ![r] = NewSession],
             Goes(r, "handler"), UNCHANGED <<store, dirty, shared>>
      PROVE  TypeInv'
  BY <1>0, <1>1, Copies DEF StateOK, rows, task
<1>2. ASSUME cookie[b] # NULL, store[cookie[b]] # NULL,
             sid' = [sid EXCEPT ![r] = cookie[b]],
             shared' = IF Holders(r, cookie[b]) = {} THEN shared
                       ELSE shared \cup ({store[cookie[b]].proof} \ {NULL})
      PROVE  /\ cookie[b] \in Sid /\ store[cookie[b]] \in Session
             /\ shared' \subseteq Proof
  <2>1. cookie[b] \in Sid /\ store[cookie[b]] \in Session
    BY <1>2
  <2>2. store[cookie[b]].proof \in Proof \cup {NULL}
    BY <2>1 DEF Session
  <2>3. QED
    BY <1>2, <2>1, <2>2
<1>3. ASSUME cookie[b] \in Sid, store[cookie[b]] \in Session,
             sid' = [sid EXCEPT ![r] = cookie[b]], shared' \subseteq Proof,
             session' = [session EXCEPT ![r] = store[cookie[b]]], Goes(r, "handler"),
             NEW stamped \in BOOLEAN, dirty' = [dirty EXCEPT ![r] = stamped],
             UNCHANGED store
      PROVE  TypeInv'
  BY <1>0, <1>3 DEF StateOK, rows, task
<1>4. ASSUME pc[r] = "idle", cookie[b] \in Sid, store[cookie[b]] \in Session,
             sid' = [sid EXCEPT ![r] = cookie[b]], shared' \subseteq Proof,
             store' = [store EXCEPT ![cookie[b]] = NULL], Goes(r, "end"), UNCHANGED kept
      PROVE  TypeInv'
  BY <1>0, <1>4 DEF StateOK, rows, task, kept
<1>5. QED
  BY <1>1, <1>2, <1>3, <1>4 DEF Load

\* A handler leaves its request in a state that fits its next step.
LEMMA TypeHandled ==
  ASSUME TypeInv, NEW r \in Request, pc[r] = "handler",
         NEW l \in Label \ {"idle"}, Goes(r, l),
         NEW e \in Session \cup {NULL}, Keeps(r, e),
         l \notin {"end", "unregister"} => e \in Session,
         l = "unregister" => e = NULL,
         UNCHANGED <<listed, cookie, from, sid, sent, faults, shared>>,
         store' \in [Sid -> Session \cup {NULL}],
         owner' \in [Credential -> Member \cup {NULL}], joined' \subseteq Member,
         who' \in [Request -> Member \cup {NULL}], \A q \in Request \ {r} : who'[q] = who[q],
         l \in {"lock", "delete", "revoke", "destroy", "rotate", "save", "register"}
                 => who'[r] \in Member,
         passkey' \in [Request -> Credential \cup {NULL}],
         found' \in [Request -> SUBSET (Credential \cup Sid)],
         served' \in [Proof -> Nat], unlisted' \subseteq Sid
  PROVE  TypeInv'
<1>1. TypeOK'
  BY DEF TypeInv, TypeOK, Goes, Keeps, Label
<1>2. ASSUME NEW q \in Request
      PROVE  StateOK(q)'
  BY DEF TypeInv, TypeOK, StateOK, Goes, Keeps, Label
<1>3. QED
  BY <1>1, <1>2 DEF TypeInv

LEMMA ServedTyped ==
  ASSUME NEW r \in Request, served \in [Proof -> Nat], ConsumeStepUp(r)
  PROVE  served' \in [Proof -> Nat]
<1> DEFINE p == session[r].proof
<1>1. CASE p \in Proof
  BY <1>1 DEF ConsumeStepUp
<1>2. CASE p \notin Proof
  BY <1>2 DEF ConsumeStepUp
<1>3. QED
  BY <1>1, <1>2

LEMMA TypeHandler ==
  ASSUME TypeInv, NEW r \in Request, Handler(r)
  PROVE  TypeInv'
<1> USE DEF stored, rows, copies, task, history
<1>0. TypeOK /\ {"handler", "end", "lock", "revoke", "rotate", "unregister"}
          \subseteq Label \ {"idle"}
  BY DEF TypeInv, Label
<1>1. pc[r] = "handler" =>
        /\ session[r] \in Session /\ session[r].member \in Member \cup {NULL}
        /\ \A c \in Ceremony : Taken(r, c) \in Session
        /\ Spent(r) \in Session
  BY Copies DEF TypeInv, StateOK, Session, Taken, Spent
<1>2. ASSUME NEW m \in Member, NEW c \in Credential, VerifySignUp(r, m, c)
      PROVE  TypeInv'
  <2>1. /\ pc[r] = "handler" /\ Taken(r, "sign_up") \in Session
        /\ Keeps(r, Taken(r, "sign_up")) /\ UNCHANGED <<stored, copies, passkey, found, history>>
    BY <1>1, <1>2 DEF VerifySignUp, Posts, Ceremony
  <2>2. CASE Goes(r, "end") /\ UNCHANGED <<who, rows>>
    BY <1>0, <2>1, <2>2, TypeHandled DEF TypeOK
  <2>3. CASE /\ joined' = joined \cup {m} /\ owner' = [owner EXCEPT ![c] = m]
             /\ SignsIn(r, m)
    BY <1>0, <2>1, <2>3, TypeHandled DEF TypeOK, SignsIn
  <2>4. QED
    BY <1>2, <2>2, <2>3 DEF VerifySignUp
<1>3. ASSUME NEW c \in Credential, VerifyRegistration(r, c)
      PROVE  TypeInv'
  <2>1. /\ pc[r] = "handler" /\ Taken(r, "register") \in Session
        /\ Keeps(r, Taken(r, "register")) /\ Goes(r, "end")
        /\ UNCHANGED <<stored, joined, copies, task, history>>
    BY <1>1, <1>3 DEF VerifyRegistration, SignedIn, Posts, Answers, Ceremony
  <2>2. owner' \in [Credential -> Member \cup {NULL}]
    BY <1>0, <1>1, <1>3, <2>1 DEF VerifyRegistration, TypeOK
  <2>3. QED
    BY <1>0, <2>1, <2>2, TypeHandled DEF TypeOK
<1>4. ASSUME NEW c \in Credential, RemovePasskey(r, c)
      PROVE  TypeInv'
  <2>1. /\ pc[r] = "handler" /\ Spent(r) \in Session /\ session[r].member \in Member
        /\ Keeps(r, Spent(r)) /\ Goes(r, "lock")
        /\ who' = [who EXCEPT ![r] = session[r].member]
        /\ passkey' = [passkey EXCEPT ![r] = c]
        /\ found' = [found EXCEPT ![r] = {d \in Credential : owner[d] = session[r].member}]
        /\ UNCHANGED <<stored, rows, copies, sent, faults, shared, unlisted>>
    BY <1>1, <1>4 DEF RemovePasskey, ConsumeStepUp, SignedIn, Posts
  <2>2. served' \in [Proof -> Nat]
    BY <1>0, <1>4, ServedTyped DEF RemovePasskey, TypeOK
  <2>3. /\ passkey' \in [Request -> Credential \cup {NULL}]
        /\ found' \in [Request -> SUBSET (Credential \cup Sid)]
    BY <1>0, <2>1 DEF TypeOK
  <2>4. "lock" \in Label \ {"idle"}
    BY <1>0
  <2>5. /\ store' \in [Sid -> Session \cup {NULL}] /\ owner' \in [Credential -> Member \cup {NULL}]
        /\ joined' \subseteq Member /\ unlisted' \subseteq Sid
        /\ who' \in [Request -> Member \cup {NULL}] /\ \A q \in Request \ {r} : who'[q] = who[q]
        /\ UNCHANGED <<listed, cookie, from, sid, sent, faults, shared>>
    BY <1>0, <2>1 DEF TypeOK
  <2>6. QED
    BY <2>1, <2>2, <2>3, <2>4, <2>5, TypeHandled
<1>5. ASSUME NEW c \in Credential, VerifySignIn(r, c)
      PROVE  TypeInv'
  <2>1. /\ pc[r] = "handler" /\ Taken(r, "sign_in") \in Session
        /\ Keeps(r, Taken(r, "sign_in"))
        /\ UNCHANGED <<stored, rows, copies, passkey, found, history>>
    BY <1>1, <1>5 DEF VerifySignIn, Posts, Ceremony
  <2>2. CASE Goes(r, "end") /\ UNCHANGED who
    BY <1>0, <2>1, <2>2, TypeHandled DEF TypeOK
  <2>3. CASE owner[c] # NULL /\ SignsIn(r, owner[c])
    BY <1>0, <2>1, <2>3, TypeHandled DEF TypeOK, SignsIn
  <2>4. QED
    BY <1>5, <2>2, <2>3 DEF VerifySignIn
<1>6. ASSUME NEW c \in Credential, VerifyStepUp(r, c)
      PROVE  TypeInv'
  <2>1. /\ pc[r] = "handler" /\ Goes(r, "end") /\ UNCHANGED <<stored, rows, copies, task, history>>
    BY <1>6 DEF VerifyStepUp, SignedIn, Posts, Answers
  <2>2. \E e \in Session : Keeps(r, e)
    BY <1>1, <1>6, <2>1, Copies DEF VerifyStepUp, Answers
  <2>3. QED
    BY <1>0, <2>1, <2>2, TypeHandled DEF TypeOK
<1>7. ASSUME NEW m \in Member, ConfirmEmailChange(r, m)
      PROVE  TypeInv'
  <2>1. /\ pc[r] = "handler" /\ Goes(r, "revoke") /\ who' = [who EXCEPT ![r] = m]
        /\ UNCHANGED <<stored, rows, copies, passkey, found, kept, history>>
    BY <1>7 DEF ConfirmEmailChange, Posts
  <2>2. Keeps(r, session[r])
    BY <1>0, <2>1 DEF Keeps, kept, TypeOK
  <2>3. QED
    BY <1>0, <1>1, <2>1, <2>2, TypeHandled DEF TypeOK
<1>8. ASSUME NEW ceremony \in Ceremony, IssueChallenge(r, ceremony)
      PROVE  TypeInv'
  <2>1. /\ pc[r] = "handler" /\ Goes(r, "end") /\ UNCHANGED <<stored, rows, copies, task, history>>
        /\ Keeps(r, [session[r] EXCEPT !.pending = @ \cup {ceremony}])
    BY <1>8 DEF IssueChallenge, Posts, Answers
  <2>2. [session[r] EXCEPT !.pending = @ \cup {ceremony}] \in Session
    BY <1>1, <2>1, Copies
  <2>3. QED
    BY <1>0, <2>1, <2>2, TypeHandled DEF TypeOK
<1>9. CASE Plain(r) \/ IssueStepUp(r) \/ RefuseStepUp(r)
  <2>1. /\ pc[r] = "handler" /\ Goes(r, "end") /\ UNCHANGED <<stored, rows, copies, task, history>>
    BY <1>9 DEF Plain, IssueStepUp, RefuseStepUp, SignedIn, Posts, Answers
  <2>2. \E e \in Session : Keeps(r, e)
    BY <1>1, <1>9, <2>1, Copies DEF Plain, IssueStepUp, RefuseStepUp, Answers
  <2>3. QED
    BY <1>0, <2>1, <2>2, TypeHandled DEF TypeOK
<1>10. CASE UpdateEmail(r) \/ IssueRegistration(r)
  <2>1. /\ pc[r] = "handler" /\ Goes(r, "end") /\ UNCHANGED <<stored, rows, copies, task>>
        /\ UNCHANGED <<sent, faults, shared, unlisted>>
    BY <1>10 DEF UpdateEmail, IssueRegistration, ConsumeStepUp, SignedIn, Posts, Answers
  <2>2. \E e \in Session : Keeps(r, e)
    BY <1>1, <1>10, <2>1, Copies DEF UpdateEmail, IssueRegistration, Answers, Spent, Ceremony
  <2>3. served' \in [Proof -> Nat]
    BY <1>0, <1>10, ServedTyped DEF UpdateEmail, IssueRegistration, TypeOK
  <2>4. QED
    BY <1>0, <2>1, <2>2, <2>3, TypeHandled DEF TypeOK
<1>11. CASE SignOut(r)
  <2>1. /\ pc[r] = "handler" /\ Keeps(r, NULL) /\ session[r].member \in Member \cup {NULL}
        /\ store' = [store EXCEPT ![sid[r]] = NULL]
        /\ who' = [who EXCEPT ![r] = session[r].member]
        /\ UNCHANGED <<listed, cookie, rows, copies, passkey, found>>
        /\ UNCHANGED <<sent, faults, served, shared>>
    BY <1>1, <1>11 DEF SignOut, Posts
  <2>2. unlisted' \subseteq Sid
    BY <1>0, <1>1, <1>11, <2>1 DEF SignOut, HeldByOthers, TypeOK, TypeInv, StateOK
  <2>3. /\ store' \in [Sid -> Session \cup {NULL}] /\ owner' \in [Credential -> Member \cup {NULL}]
        /\ who' \in [Request -> Member \cup {NULL}] /\ \A q \in Request \ {r} : who'[q] = who[q]
        /\ joined' \subseteq Member /\ passkey' \in [Request -> Credential \cup {NULL}]
        /\ found' \in [Request -> SUBSET (Credential \cup Sid)] /\ served' \in [Proof -> Nat]
        /\ UNCHANGED <<listed, cookie, from, sid, sent, faults, shared>>
    BY <1>0, <2>1 DEF TypeOK
  <2>4. Goes(r, "end") \/ Goes(r, "unregister")
    BY <1>11 DEF SignOut
  <2>5. QED
    BY <1>0, <2>1, <2>2, <2>3, <2>4, TypeHandled
<1>12. QED
  BY <1>2, <1>3, <1>4, <1>5, <1>6, <1>7, <1>8, <1>9, <1>10, <1>11 DEF Handler

LEMMA TypeStatement ==
  ASSUME TypeInv, NEW r \in Request, Statement(r)
  PROVE  TypeInv'
<1> USE DEF TypeInv, TypeOK, StateOK, Goes, stored, rows, copies, task, kept, history
<1>1. CASE LockPasskeys(r)
  <2>1. found' \in [Request -> SUBSET (Credential \cup Sid)]
    BY <1>1 DEF LockPasskeys
  <2>2. /\ pc[r] = "lock" /\ UNCHANGED <<stored, rows, copies, who, passkey, kept, history>>
        /\ \E l \in {"delete", "end"} : Goes(r, l)
    BY <1>1 DEF LockPasskeys
  <2>3. QED
    BY <2>1, <2>2
<1>2. CASE DeletePasskey(r)
  <2>1. owner' \in [Credential -> Member \cup {NULL}]
    BY <1>2 DEF DeletePasskey
  <2>2. pc[r] = "delete" /\ Goes(r, "revoke")
        /\ UNCHANGED <<stored, joined, copies, task, kept, history>>
    BY <1>2 DEF DeletePasskey
  <2>3. QED
    BY <2>1, <2>2
<1>3. CASE ReadSessions(r)
  <2>1. /\ pc[r] = "revoke" /\ UNCHANGED <<stored, rows, copies, who, passkey, kept, history>>
        /\ \E l \in {"end", "destroy"} : Goes(r, l)
        /\ found' = [found EXCEPT ![r] = listed[who[r]] \ {sid[r]}]
    BY <1>3 DEF ReadSessions
  <2>2. found' \in [Request -> SUBSET (Credential \cup Sid)]
    BY <2>1
  <2>3. QED
    BY <2>1, <2>2
<1>4. CASE DestroySessions(r)
  <2>1. unlisted' \subseteq Sid
    BY <1>4 DEF DestroySessions, HeldByOthers, Holders
  <2>2. listed' \in [Member -> SUBSET Sid]
    BY <1>4 DEF DestroySessions
  <2>3. store' \in [Sid -> Session \cup {NULL}]
    BY <1>4 DEF DestroySessions
  <2>4. /\ pc[r] = "destroy" /\ Goes(r, "end")
        /\ UNCHANGED <<cookie, rows, copies, task, kept, sent, faults, served, shared>>
    BY <1>4 DEF DestroySessions
  <2>5. QED
    BY <2>1, <2>2, <2>3, <2>4
<1>5. CASE Rotate(r)
  BY <1>5 DEF Rotate
<1>6. CASE SaveRotated(r)
  <2>1. [session[r] EXCEPT !.member = who[r]] \in Session
    BY <1>6, Copies DEF SaveRotated
  <2>2. QED
    BY <1>6, <2>1 DEF SaveRotated, Keeps
<1>7. CASE Register(r)
  BY <1>7 DEF Register
<1>8. CASE Unregister(r)
  <2>1. unlisted' \subseteq Sid
    BY <1>8 DEF Unregister, HeldByOthers, Holders
  <2>2. QED
    BY <1>8, <2>1 DEF Unregister
<1>9. QED
  BY <1>1, <1>2, <1>3, <1>4, <1>5, <1>6, <1>7, <1>8 DEF Statement

LEMMA TypeEnds ==
  ASSUME TypeInv,
         \/ \E r \in Request : Fails(r) \/ RotateFails(r) \/ EndAnswer(r)
         \/ Crash \/ \E s \in Sid : Expires(s)
  PROVE  TypeInv'
<1> USE SessionsAssumption
    DEF TypeInv, TypeOK, StateOK, Goes, stored, rows, copies, task, kept, history
<1>1. ASSUME NEW r \in Request, Fails(r)
      PROVE  TypeInv'
  <2>1. faults' \in 0 .. MaxFaults
    BY <1>1 DEF Fails
  <2>2. unlisted' \subseteq Sid
    BY <1>1 DEF Fails
  <2>3. Goes(r, "end") /\ pc[r] # "idle"
        /\ UNCHANGED <<stored, rows, copies, task, kept, sent, served, shared>>
    BY <1>1 DEF Fails
  <2>4. QED
    BY <2>1, <2>2, <2>3
<1>2. ASSUME NEW r \in Request, EndAnswer(r)
      PROVE  TypeInv'
  <2>1. store' \in [Sid -> Session \cup {NULL}] /\ cookie' \in [Browser -> Sid \cup {NULL}]
    BY <1>2 DEF EndAnswer
  <2>2. QED
    BY <1>2, <2>1 DEF EndAnswer
<1>3. CASE Crash
  <2>1. faults' \in 0 .. MaxFaults /\ shared' \subseteq Proof
    BY <1>3 DEF Crash
  <2>2. QED
    BY <1>3, <2>1 DEF Crash
<1>4. ASSUME NEW s \in Sid, Expires(s)
      PROVE  TypeInv'
  <2>1. /\ faults' \in 0 .. MaxFaults /\ store' \in [Sid -> Session \cup {NULL}]
        /\ UNCHANGED <<listed, cookie, rows, pc, kept, copies, task>>
        /\ UNCHANGED <<sent, served, shared, unlisted>>
    BY <1>4 DEF Expires
  <2>2. QED
    BY <2>1
<1>5. ASSUME NEW r \in Request, RotateFails(r)
      PROVE  TypeInv'
  <2>1. faults' \in 0 .. MaxFaults /\ NewSession \in Session
    <3>1. faults' \in 0 .. MaxFaults
      BY <1>5 DEF RotateFails
    <3>2. QED
      BY <3>1, Copies
  <2>2. PICK n \in Sid : sid' = [sid EXCEPT ![r] = n]
    BY <1>5 DEF RotateFails
  <2>3. /\ pc[r] = "rotate" /\ pc' = [pc EXCEPT ![r] = "end"]
        /\ session' = [session EXCEPT ![r] = NewSession] /\ dirty' = [dirty EXCEPT ![r] = FALSE]
        /\ UNCHANGED <<stored, from, rows, task, sent, served, shared, unlisted>>
    BY <1>5 DEF RotateFails
  <2>4. TypeOK'
    BY <2>1, <2>2, <2>3
  <2>5. \A q \in Request : StateOK(q)'
    BY <2>1, <2>2, <2>3
  <2>6. QED
    BY <2>4, <2>5
<1>6. QED
  BY <1>1, <1>2, <1>3, <1>4, <1>5

LEMMA TypeStarts == Init => TypeInv
<1> SUFFICES ASSUME Init
             PROVE  TypeInv
  OBVIOUS
<1>1. \A m \in Member, p \in Proof \cup {NULL} : SessionOf(m, p) \in Session
  BY DEF SessionOf, NewSession, Session
<1>2. store \in [Sid -> Session \cup {NULL}]
  <2>1. {NULL} \cup {SessionOf(m, p) : m \in joined, p \in Proof \cup {NULL}}
            \subseteq Session \cup {NULL}
    BY <1>1 DEF Init
  <2>2. QED
    BY <2>1 DEF Init
<1>3. TypeOK
  BY <1>2, SessionsAssumption DEF Init, TypeOK
<1>4. QED
  BY <1>3 DEF Init, TypeInv, StateOK

LEMMA TypeStep == TypeInv /\ [Next]_vars => TypeInv'
<1> SUFFICES ASSUME TypeInv, [Next]_vars
             PROVE  TypeInv'
  OBVIOUS
<1>1. CASE UNCHANGED vars
  BY <1>1 DEF vars, TypeInv, TypeOK, StateOK, stored, rows, copies, task, kept, history
<1>2. CASE Next
  BY <1>2, TypeLoad, TypeHandler, TypeStatement, TypeEnds DEF Next
<1>3. QED
  BY <1>1, <1>2

\* Every variable has its type, and a request its session and its member when
\* a step of it needs them.
THEOREM TypeCorrect == Spec => []TypeOK
<1>1. TypeInv => TypeOK
  BY DEF TypeInv
<1>2. QED
  BY TypeStarts, TypeStep, <1>1, PTL DEF Spec

-----------------------------------------------------------------------------
(* Passkeys.                                                               *)

\* The variables are functions; those of a request are over the requests.
Functions ==
  /\ joined \subseteq Member
  /\ owner = [c \in Credential |-> owner[c]]
  /\ pc = [r \in Request |-> pc[r]]
  /\ who = [r \in Request |-> who[r]]
  /\ passkey = [r \in Request |-> passkey[r]]
  /\ found = [r \in Request |-> found[r]]

\* r has read the passkeys of a member.
Read(r) == pc[r] = "lock" => who[r] # NULL /\ found[r] \subseteq Credential

\* r has locked two passkeys of a member, one of which it will delete.
Locked(r) ==
  pc[r] = "delete" =>
    /\ who[r] # NULL
    /\ found[r] \subseteq Credential
    /\ \A c \in found[r] : owner[c] = who[r]
    /\ passkey[r] \in found[r] /\ \E c \in found[r] : c # passkey[r]

\* A row is locked by one removal.
LockedOnce ==
  \A q, r \in Request :
    pc[q] = "delete" /\ pc[r] = "delete" /\ q # r => found[q] \cap found[r] = {}

RemovalInv ==
  /\ Functions /\ PasskeyKept /\ LockedOnce
  /\ \A r \in Request : Read(r) /\ Locked(r)

\* Of two passkeys counted, one is left.
LEMMA AnotherIsLeft ==
  ASSUME NEW S, IsFiniteSet(S), NEW c \in S, Cardinality(S) > 1
  PROVE  \E d \in S : d # c
<1>1. SUFFICES ASSUME \A d \in S : d = c
               PROVE  FALSE
  OBVIOUS
<1>2. S = {c}
  BY <1>1
<1>3. QED
  BY <1>2, FS_Singleton

\* Nothing changes for the removals when their rows and their progress do not.
LEMMA Untouched ==
  ASSUME RemovalInv, UNCHANGED rows, Functions',
         \A q \in Request :
           pc'[q] \in {"lock", "delete"} =>
             /\ pc'[q] = pc[q] /\ who'[q] = who[q]
             /\ passkey'[q] = passkey[q] /\ found'[q] = found[q]
  PROVE  RemovalInv'
BY DEF RemovalInv, PasskeyKept, HavePasskey, LockedOnce, Read, Locked, rows

\* A row that no passkey had takes a member: one that joined or one that joins.
LEMMA RowTaken ==
  ASSUME RemovalInv, Functions', UNCHANGED <<passkey, found>>,
         NEW c \in Credential, NEW m, owner[c] = NULL,
         owner' = [owner EXCEPT ![c] = m], joined' \in {joined, joined \cup {m}},
         \A q \in Request :
           pc'[q] \in {"lock", "delete"} => pc'[q] = pc[q] /\ who'[q] = who[q]
  PROVE  RemovalInv'
<1>1. \A d \in Credential : owner[d] # NULL => owner'[d] = owner[d]
  BY DEF RemovalInv, Functions
<1>2. owner'[c] = m
  BY DEF RemovalInv, Functions
<1>3. PasskeyKept'
  <2> SUFFICES ASSUME NEW n \in joined'
               PROVE  \E d \in Credential : owner'[d] = n
    BY DEF PasskeyKept, HavePasskey
  <2>1. CASE n = m
    BY <2>1, <1>2
  <2>2. CASE n \in joined
    <3>1. n # NULL
      BY <2>2, SessionsAssumption DEF RemovalInv, Functions
    <3>2. QED
      BY <2>2, <3>1, <1>1 DEF RemovalInv, PasskeyKept, HavePasskey
  <2>3. QED
    BY <2>1, <2>2
<1>4. LockedOnce'
  BY DEF RemovalInv, LockedOnce
<1>5. ASSUME NEW q \in Request
      PROVE  Read(q)' /\ Locked(q)'
  <2>1. Read(q)'
    BY DEF RemovalInv, Read
  <2>2. Locked(q)'
    BY <1>1 DEF RemovalInv, Locked
  <2>3. QED
    BY <2>1, <2>2
<1>6. QED
  BY <1>3, <1>4, <1>5 DEF RemovalInv

LEMMA Starts == Init => RemovalInv
<1> SUFFICES ASSUME Init
             PROVE  RemovalInv
  OBVIOUS
<1>1. /\ owner \in [Credential -> joined \cup {NULL}] /\ joined \subseteq Member
      /\ pc = [r \in Request |-> "idle"]
      /\ who = [r \in Request |-> NULL] /\ passkey = [r \in Request |-> NULL]
      /\ found = [r \in Request |-> {}]
  BY DEF Init
<1>2. Functions
  BY <1>1 DEF Functions
<1>3. PasskeyKept
  BY DEF Init, PasskeyKept
<1>4. \A r \in Request : pc[r] = "idle"
  BY <1>1
<1>5. QED
  BY <1>2, <1>3, <1>4 DEF RemovalInv, LockedOnce, Read, Locked

LEMMA FunctionsKept ==
  ASSUME RemovalInv, [Next]_vars
  PROVE  Functions'
<1> USE DEF RemovalInv, Functions, Goes
<1>1. CASE UNCHANGED vars
  BY <1>1 DEF vars, stored, rows, copies, kept, task, history
<1>2. ASSUME NEW r \in Request, NEW b \in Browser, Load(r, b)
      PROVE  Functions'
  BY <1>2 DEF Load, rows, task
<1>3. ASSUME NEW r \in Request, Handler(r)
      PROVE  Functions'
  <2> USE DEF Answers, stored, rows, copies, task, history, ConsumeStepUp
  <2>1. ASSUME NEW m \in Member, NEW c \in Credential, VerifySignUp(r, m, c)
        PROVE  Functions'
    BY <2>1 DEF VerifySignUp, SignsIn
  <2>2. ASSUME NEW c \in Credential, VerifyRegistration(r, c)
        PROVE  Functions'
    BY <2>2 DEF VerifyRegistration
  <2>3. ASSUME NEW c \in Credential,
               VerifyStepUp(r, c) \/ RemovePasskey(r, c) \/ VerifySignIn(r, c)
        PROVE  Functions'
    BY <2>3 DEF VerifyStepUp, RemovePasskey, VerifySignIn, SignsIn
  <2>4. ASSUME NEW m \in Member, ConfirmEmailChange(r, m)
        PROVE  Functions'
    BY <2>4 DEF ConfirmEmailChange
  <2>5. ASSUME NEW ceremony \in Ceremony, IssueChallenge(r, ceremony)
        PROVE  Functions'
    BY <2>5 DEF IssueChallenge
  <2>6. CASE \/ Plain(r) \/ IssueStepUp(r) \/ RefuseStepUp(r) \/ UpdateEmail(r)
             \/ IssueRegistration(r) \/ SignOut(r)
    BY <2>6 DEF Plain, IssueStepUp, RefuseStepUp, UpdateEmail, IssueRegistration, SignOut
  <2>7. QED
    BY <1>3, <2>1, <2>2, <2>3, <2>4, <2>5, <2>6 DEF Handler
<1>4. ASSUME NEW r \in Request, Statement(r)
      PROVE  Functions'
  BY <1>4 DEF Statement, LockPasskeys, DeletePasskey, ReadSessions, DestroySessions,
              Rotate, SaveRotated, Register, Unregister, rows, task
<1>5. ASSUME NEW r \in Request, Fails(r) \/ RotateFails(r) \/ EndAnswer(r)
      PROVE  Functions'
  BY <1>5 DEF Fails, RotateFails, EndAnswer, rows, task
<1>6. CASE Crash \/ \E s \in Sid : Expires(s)
  BY <1>6 DEF Crash, Expires, rows, task
<1>7. QED
  BY <1>1, <1>2, <1>3, <1>4, <1>5, <1>6 DEF Next

LEMMA HandlerStep ==
  ASSUME RemovalInv, Functions', NEW r \in Request, Handler(r)
  PROVE  RemovalInv'
<1> USE DEF Answers, stored, rows, copies, task, history, ConsumeStepUp, Goes
<1>0. pc = [q \in Request |-> pc[q]] /\ who = [q \in Request |-> who[q]]
  BY DEF RemovalInv, Functions
<1>1. ASSUME NEW m \in Member, NEW c \in Credential, VerifySignUp(r, m, c)
      PROVE  RemovalInv'
  <2>1. CASE UNCHANGED rows
    BY <1>0, <1>1, <2>1, Untouched DEF VerifySignUp, SignsIn
  <2>2. CASE owner[c] = NULL /\ joined' = joined \cup {m} /\ owner' = [owner EXCEPT ![c] = m]
    BY <1>0, <1>1, <2>2, RowTaken DEF VerifySignUp, SignsIn
  <2>3. QED
    BY <1>1, <2>1, <2>2 DEF VerifySignUp
<1>2. ASSUME NEW c \in Credential, VerifyRegistration(r, c)
      PROVE  RemovalInv'
  <2>1. CASE UNCHANGED owner
    BY <1>0, <1>2, <2>1, Untouched DEF VerifyRegistration
  <2>2. CASE owner[c] = NULL /\ owner' = [owner EXCEPT ![c] = session[r].member]
    BY <1>0, <1>2, <2>2, RowTaken DEF VerifyRegistration
  <2>3. QED
    BY <1>2, <2>1, <2>2 DEF VerifyRegistration
<1>3. ASSUME NEW c \in Credential, RemovePasskey(r, c)
      PROVE  RemovalInv'
  <2>1. pc'[r] = "lock" /\ who'[r] # NULL /\ found'[r] \subseteq Credential
    BY <1>0, <1>3 DEF RemovePasskey, SignedIn, RemovalInv, Functions
  <2>2. \A q \in Request \ {r} :
          /\ pc'[q] = pc[q] /\ who'[q] = who[q]
          /\ passkey'[q] = passkey[q] /\ found'[q] = found[q]
    BY <1>3 DEF RemovePasskey, RemovalInv, Functions
  <2>3. UNCHANGED rows
    BY <1>3 DEF RemovePasskey
  <2>4. LockedOnce'
    BY <2>1, <2>2 DEF RemovalInv, LockedOnce
  <2>5. \A q \in Request : Read(q)' /\ Locked(q)'
    BY <2>1, <2>2, <2>3 DEF RemovalInv, Read, Locked
  <2>6. QED
    BY <2>3, <2>4, <2>5 DEF RemovalInv, PasskeyKept, HavePasskey
<1>4. ASSUME NEW c \in Credential, VerifyStepUp(r, c) \/ VerifySignIn(r, c)
      PROVE  RemovalInv'
  BY <1>0, <1>4, Untouched DEF VerifyStepUp, VerifySignIn, SignsIn
<1>5. ASSUME NEW m \in Member, ConfirmEmailChange(r, m)
      PROVE  RemovalInv'
  BY <1>0, <1>5, Untouched DEF ConfirmEmailChange
<1>6. ASSUME NEW ceremony \in Ceremony, IssueChallenge(r, ceremony)
      PROVE  RemovalInv'
  BY <1>0, <1>6, Untouched DEF IssueChallenge
<1>7. CASE \/ Plain(r) \/ IssueStepUp(r) \/ RefuseStepUp(r) \/ UpdateEmail(r)
           \/ IssueRegistration(r) \/ SignOut(r)
  BY <1>0, <1>7, Untouched
     DEF Plain, IssueStepUp, RefuseStepUp, UpdateEmail, IssueRegistration, SignOut
<1>8. QED
  BY <1>1, <1>2, <1>3, <1>4, <1>5, <1>6, <1>7 DEF Handler

\* The rows counted are those that are left once the other removals have ended.
LEMMA LockStep ==
  ASSUME RemovalInv, Functions', NEW r \in Request, LockPasskeys(r)
  PROVE  RemovalInv'
<1> DEFINE owned == {c \in found[r] : owner[c] = who[r]}
<1>0. /\ pc = [q \in Request |-> pc[q]] /\ found = [q \in Request |-> found[q]]
      /\ pc[r] = "lock" /\ who[r] # NULL /\ found[r] \subseteq Credential
      /\ UNCHANGED <<owner, joined, who, passkey>>
  BY DEF RemovalInv, Functions, Read, LockPasskeys, rows
<1>1. CASE passkey[r] \in owned /\ Cardinality(owned) > 1
  <2>1. IsFiniteSet(owned)
    BY <1>0, SessionsAssumption, FS_Subset
  <2>2. \E c \in owned : c # passkey[r]
    BY <1>1, <2>1, AnotherIsLeft
  <2>3. pc' = [pc EXCEPT ![r] = "delete"] /\ found' = [found EXCEPT ![r] = owned]
    BY <1>1 DEF LockPasskeys, Goes
  <2>4. pc'[r] = "delete" /\ found'[r] = owned
    BY <1>0, <2>3
  <2>5. \A q \in Request \ {r} : pc'[q] = pc[q] /\ found'[q] = found[q]
    BY <1>0, <2>3
  <2>6. \A q \in Request \ {r} : pc[q] = "delete" => found[q] \cap owned = {}
    BY DEF LockPasskeys
  <2>7. LockedOnce'
    BY <2>4, <2>5, <2>6 DEF RemovalInv, LockedOnce
  <2>8. Read(r)' /\ Locked(r)'
    BY <1>0, <1>1, <2>2, <2>4 DEF Read, Locked
  <2>9. \A q \in Request \ {r} : Read(q)' /\ Locked(q)'
    BY <1>0, <2>5 DEF RemovalInv, Read, Locked
  <2>10. QED
    BY <1>0, <2>7, <2>8, <2>9 DEF RemovalInv, PasskeyKept, HavePasskey
<1>2. CASE ~(passkey[r] \in owned /\ Cardinality(owned) > 1)
  <2>1. pc' = [pc EXCEPT ![r] = "end"] /\ found' = found
    BY <1>2 DEF LockPasskeys, Goes
  <2>2. pc'[r] = "end" /\ \A q \in Request \ {r} : pc'[q] = pc[q]
    BY <1>0, <2>1
  <2>3. QED
    BY <1>0, <2>1, <2>2, Untouched DEF rows
<1>3. QED
  BY <1>1, <1>2

\* The member keeps another of the passkeys that were counted, which no other
\* removal has locked.
LEMMA DeleteStep ==
  ASSUME RemovalInv, Functions', NEW r \in Request, DeletePasskey(r)
  PROVE  RemovalInv'
<1>0. /\ pc[r] = "delete" /\ Locked(r) /\ LockedOnce
      /\ pc' = [pc EXCEPT ![r] = "revoke"] /\ owner' = [owner EXCEPT ![passkey[r]] = NULL]
      /\ UNCHANGED <<joined, who, passkey, found>>
  BY DEF RemovalInv, DeletePasskey, Goes, task
<1>1. pc'[r] = "revoke" /\ \A q \in Request \ {r} : pc'[q] = pc[q]
  BY <1>0 DEF RemovalInv, Functions
<1>2. \A c \in Credential : c # passkey[r] => owner'[c] = owner[c]
  BY <1>0 DEF RemovalInv, Functions
<1>3. PICK d \in found[r] : d # passkey[r]
  BY <1>0 DEF Locked
<1>4. PasskeyKept'
  <2> SUFFICES ASSUME NEW m \in joined
               PROVE  \E c \in Credential : owner'[c] = m
    BY <1>0 DEF PasskeyKept, HavePasskey
  <2>1. PICK c \in Credential : owner[c] = m
    BY DEF RemovalInv, PasskeyKept, HavePasskey
  <2>2. CASE c # passkey[r]
    BY <1>2, <2>1, <2>2
  <2>3. CASE c = passkey[r]
    <3>1. m = who[r] /\ owner[d] = who[r] /\ d \in Credential
      BY <1>0, <1>3, <2>1, <2>3 DEF Locked
    <3>2. QED
      BY <1>2, <1>3, <3>1
  <2>4. QED
    BY <2>2, <2>3
<1>5. LockedOnce'
  BY <1>0, <1>1 DEF LockedOnce
<1>6. ASSUME NEW q \in Request
      PROVE  Read(q)' /\ Locked(q)'
  <2>1. Read(q)'
    BY <1>0, <1>1 DEF RemovalInv, Read
  <2>2. CASE q # r /\ pc[q] = "delete"
    <3>1. passkey[r] \notin found[q]
      BY <1>0, <2>2 DEF LockedOnce, Locked
    <3>2. QED
      BY <1>0, <1>1, <1>2, <2>1, <2>2, <3>1 DEF RemovalInv, Locked
  <2>3. CASE q = r \/ pc[q] # "delete"
    BY <1>1, <2>1, <2>3 DEF Locked
  <2>4. QED
    BY <2>2, <2>3
<1>7. QED
  BY <1>4, <1>5, <1>6 DEF RemovalInv

LEMMA RemovalStep == RemovalInv /\ [Next]_vars => RemovalInv'
<1> SUFFICES ASSUME RemovalInv, [Next]_vars
             PROVE  RemovalInv'
  OBVIOUS
<1> USE DEF rows, task, Goes
<1>0. /\ Functions'
      /\ pc = [q \in Request |-> pc[q]] /\ who = [q \in Request |-> who[q]]
      /\ passkey = [q \in Request |-> passkey[q]] /\ found = [q \in Request |-> found[q]]
  BY FunctionsKept DEF RemovalInv, Functions
<1>1. CASE UNCHANGED vars
  BY <1>0, <1>1, Untouched DEF vars
<1>2. ASSUME NEW r \in Request, NEW b \in Browser, Load(r, b)
      PROVE  RemovalInv'
  BY <1>0, <1>2, Untouched DEF Load
<1>3. ASSUME NEW r \in Request, Handler(r)
      PROVE  RemovalInv'
  BY <1>0, <1>3, HandlerStep
<1>4. ASSUME NEW r \in Request, Statement(r)
      PROVE  RemovalInv'
  <2>1. CASE LockPasskeys(r)
    BY <1>0, <2>1, LockStep
  <2>2. CASE DeletePasskey(r)
    BY <1>0, <2>2, DeleteStep
  <2>3. CASE ReadSessions(r) \/ DestroySessions(r)
    BY <1>0, <2>3, Untouched DEF ReadSessions, DestroySessions
  <2>4. CASE Rotate(r) \/ SaveRotated(r) \/ Register(r) \/ Unregister(r)
    BY <1>0, <2>4, Untouched DEF Rotate, SaveRotated, Register, Unregister
  <2>5. QED
    BY <1>4, <2>1, <2>2, <2>3, <2>4 DEF Statement
<1>5. ASSUME NEW r \in Request, Fails(r) \/ RotateFails(r) \/ EndAnswer(r)
      PROVE  RemovalInv'
  BY <1>0, <1>5, Untouched DEF Fails, RotateFails, EndAnswer
<1>6. CASE Crash \/ \E s \in Sid : Expires(s)
  BY <1>0, <1>6, Untouched DEF Crash, Expires
<1>7. QED
  BY <1>1, <1>2, <1>3, <1>4, <1>5, <1>6 DEF Next

\* No order of removals, registrations, sign-ups, failures and crashes leaves a
\* member without a passkey (webauthn-credentials.service.ts:57).
THEOREM PasskeyAlwaysKept == Spec => []PasskeyKept
<1>1. RemovalInv => PasskeyKept
  BY DEF RemovalInv
<1>2. QED
  BY Starts, RemovalStep, <1>1, PTL DEF Spec

-----------------------------------------------------------------------------
(* Step-up proofs.                                                         *)

Carries(q, p) == session[q] # NULL /\ session[q].proof = p

\* q, which used its proof, will write the session of s without it.
Spending(q, s) ==
  /\ sid[q] = s /\ session[q] # NULL /\ dirty[q]
  /\ pc[q] \in {"lock", "delete", "revoke", "destroy", "end"}

\* A proof that was never in two hands is stored once, carried once, by a
\* request of the session it is stored in; once used, it is carried no more,
\* and only stored until the request that used it ends.
ProofOK(p) ==
  p \notin shared =>
    /\ \A s, t \in Sid : Stored(p, s) /\ Stored(p, t) => s = t
    /\ \A q, r \in Request : Carries(q, p) /\ Carries(r, p) => q = r
    /\ \A q \in Request, s \in Sid : Carries(q, p) /\ Stored(p, s) => sid[q] = s
    /\ served[p] \in {0, 1}
    /\ served[p] = 1 =>
         /\ \A q \in Request : ~Carries(q, p)
         /\ \A s \in Sid : Stored(p, s) => \E q \in Request : Spending(q, s)

ProofInv == TypeInv /\ \A p \in Proof : ProofOK(p)

\* Proofs move from a copy to the session it was loaded from, or are lost.
LEMMA ProofKept ==
  ASSUME TypeInv, NEW p \in Proof, ProofOK(p), shared \subseteq shared',
         \A s \in Sid : Stored(p, s)' =>
           Stored(p, s) \/ \E q \in Request : Carries(q, p) /\ sid[q] = s,
         \A q \in Request : Carries(q, p)' =>
           Carries(q, p) /\ (sid'[q] = sid[q] \/ \A s \in Sid : ~Stored(p, s)'),
         served'[p] = served[p],
         served[p] = 1 =>
           \A q \in Request, s \in Sid :
             Spending(q, s) /\ Stored(p, s)' => Spending(q, s)' \/ p \in shared'
  PROVE  ProofOK(p)'
<1> SUFFICES ASSUME p \notin shared'
             PROVE  /\ \A s, t \in Sid : Stored(p, s)' /\ Stored(p, t)' => s = t
                    /\ \A q, r \in Request : Carries(q, p)' /\ Carries(r, p)' => q = r
                    /\ \A q \in Request, s \in Sid : Carries(q, p)' /\ Stored(p, s)' => sid'[q] = s
                    /\ served'[p] \in {0, 1}
                    /\ served'[p] = 1 =>
                         /\ \A q \in Request : ~Carries(q, p)'
                         /\ \A s \in Sid : Stored(p, s)' => \E q \in Request : Spending(q, s)'
  BY DEF ProofOK
<1>1. p \notin shared
  OBVIOUS
<1> USE <1>1 DEF ProofOK
<1>2. \A s, t \in Sid : Stored(p, s)' /\ Stored(p, t)' => s = t
  OBVIOUS
<1>3. \A q, r \in Request : Carries(q, p)' /\ Carries(r, p)' => q = r
  OBVIOUS
<1>4. \A q \in Request, s \in Sid : Carries(q, p)' /\ Stored(p, s)' => sid'[q] = s
  OBVIOUS
<1>5. /\ served'[p] \in {0, 1}
      /\ served'[p] = 1 =>
           /\ \A q \in Request : ~Carries(q, p)'
           /\ \A s \in Sid : Stored(p, s)' => \E q \in Request : Spending(q, s)'
  OBVIOUS
<1>6. QED
  BY <1>2, <1>3, <1>4, <1>5

LEMMA CopyProofs ==
  ASSUME NEW e \in Session
  PROVE  /\ [e EXCEPT !.saved = TRUE].proof = e.proof
         /\ [e EXCEPT !.proof = NULL].proof = NULL
         /\ [e EXCEPT !.stepUpFor = NULL].proof = e.proof
         /\ \A m : [e EXCEPT !.stepUpFor = m].proof = e.proof
         /\ \A m : [e EXCEPT !.member = m].proof = e.proof
         /\ \A p : [[e EXCEPT !.stepUpFor = NULL] EXCEPT !.proof = p].proof = p
         /\ \A c :
              /\ [e EXCEPT !.pending = @ \cup {c}].proof = e.proof
              /\ [e EXCEPT !.pending = @ \ {c}].proof = e.proof
              /\ [[e EXCEPT !.proof = NULL] EXCEPT !.pending = @ \cup {c}].proof = NULL
BY DEF Session

\* A handler that keeps or drops the proof of its copy.
LEMMA ProofCopied ==
  ASSUME ProofInv, NEW r \in Request, pc[r] = "handler", NEW l, Goes(r, l),
         NEW e \in Session \cup {NULL}, Keeps(r, e),
         e # NULL => e.proof \in {session[r].proof, NULL},
         \A s \in Sid : store'[s] \in {store[s], NULL},
         UNCHANGED <<sid, served, shared>>
  PROVE  \A p \in Proof : ProofOK(p)'
<1> SUFFICES ASSUME NEW p \in Proof
             PROVE  ProofOK(p)'
  OBVIOUS
<1>1. TypeInv /\ ProofOK(p) /\ p # NULL /\ session[r] \in Session /\ session[r] # NULL
  BY SessionsAssumption, NoSessionAssumption DEF ProofInv, TypeInv, StateOK
<1>2. /\ session'[r] = e /\ pc'[r] = l
      /\ \A q \in Request \ {r} :
           session'[q] = session[q] /\ pc'[q] = pc[q] /\ dirty'[q] = dirty[q]
  BY DEF Keeps, Goes, ProofInv, TypeInv, TypeOK
<1>3. \A q \in Request : Carries(q, p)' => Carries(q, p)
  BY <1>1, <1>2 DEF Carries
<1>4. \A s \in Sid : Stored(p, s)' => Stored(p, s)
  BY DEF Stored
<1>5. \A q \in Request, s \in Sid : Spending(q, s) => Spending(q, s)'
  BY <1>2 DEF Spending
<1>6. QED
  BY <1>1, <1>3, <1>4, <1>5, ProofKept

\* A proof that is used leaves the only copy that carries it, which will be saved.
LEMMA ProofUsed ==
  ASSUME ProofInv, NEW r \in Request, ConsumeStepUp(r), NEW l \in {"end", "lock"}, Goes(r, l),
         NEW e \in Session, Keeps(r, e), e.proof = NULL, UNCHANGED <<store, sid>>
  PROVE  \A p \in Proof : ProofOK(p)'
<1> SUFFICES ASSUME NEW p \in Proof
             PROVE  ProofOK(p)'
  OBVIOUS
<1> DEFINE x == session[r].proof
<1>1. /\ TypeInv /\ ProofOK(p) /\ p # NULL /\ session[r] \in Session /\ session[r] # NULL
      /\ e # NULL /\ pc[r] = "handler" /\ x \in Proof
      /\ served' = [served EXCEPT ![x] = @ + 1] /\ UNCHANGED shared
  BY SessionsAssumption, NoSessionAssumption
     DEF ProofInv, TypeInv, StateOK, ConsumeStepUp, SignedIn, Posts, Session
<1>2. /\ session'[r] = e /\ pc'[r] = l /\ dirty'[r]
      /\ \A q \in Request \ {r} :
           session'[q] = session[q] /\ pc'[q] = pc[q] /\ dirty'[q] = dirty[q]
  <2>1. e # session[r]
    BY <1>1, SessionsAssumption
  <2>2. QED
    BY <1>1, <2>1 DEF Keeps, Goes, TypeInv, TypeOK
<1>3. \A q \in Request : Carries(q, p)' => Carries(q, p) /\ q # r
  BY <1>1, <1>2 DEF Carries
<1>4. \A s \in Sid : Stored(p, s)' <=> Stored(p, s)
  BY DEF Stored
<1>5. \A q \in Request, s \in Sid : Spending(q, s) => Spending(q, s)'
  BY <1>1, <1>2 DEF Spending
<1>6. CASE p # x
  <2>1. served'[p] = served[p]
    BY <1>1, <1>6 DEF TypeInv, TypeOK
  <2>2. QED
    BY <1>1, <1>3, <1>4, <1>5, <2>1, ProofKept
<1>7. CASE p = x /\ p \notin shared
  <2>1. Carries(r, p) /\ served[p] = 0 /\ served'[p] = 1
    BY <1>1, <1>7 DEF Carries, ProofOK, TypeInv, TypeOK
  <2>2. \A q \in Request : ~Carries(q, p)'
    BY <1>1, <1>3, <1>7, <2>1 DEF ProofOK
  <2>3. \A s \in Sid : Stored(p, s)' => Spending(r, s)'
    BY <1>1, <1>2, <1>4, <1>7, <2>1 DEF ProofOK, Spending
  <2>4. \A s, t \in Sid : Stored(p, s)' /\ Stored(p, t)' => s = t
    BY <1>1, <1>4, <1>7 DEF ProofOK
  <2>5. QED
    BY <2>1, <2>2, <2>3, <2>4 DEF ProofOK
<1>8. CASE p \in shared
  BY <1>1, <1>8 DEF ProofOK
<1>9. QED
  BY <1>6, <1>7, <1>8

LEMMA ProofHandler ==
  ASSUME ProofInv, NEW r \in Request, Handler(r)
  PROVE  \A p \in Proof : ProofOK(p)'
<1> USE DEF stored, rows, copies, task, history
<1>1. pc[r] = "handler" =>
        /\ session[r] \in Session
        /\ \A c \in Ceremony : Taken(r, c) \in Session /\ Taken(r, c).proof = session[r].proof
        /\ Spent(r) \in Session /\ Spent(r).proof = NULL
  BY Copies, CopyProofs DEF ProofInv, TypeInv, StateOK, Taken, Spent
<1>2. ASSUME NEW m \in Member, NEW c \in Credential, VerifySignUp(r, m, c)
      PROVE  \A p \in Proof : ProofOK(p)'
  <2>1. /\ pc[r] = "handler" /\ Keeps(r, Taken(r, "sign_up")) /\ \E l : Goes(r, l)
        /\ UNCHANGED <<store, sid, served, shared>>
    BY <1>2 DEF VerifySignUp, Posts, SignsIn
  <2>2. QED
    BY <1>1, <2>1, ProofCopied DEF Ceremony
<1>3. ASSUME NEW c \in Credential, VerifyRegistration(r, c)
      PROVE  \A p \in Proof : ProofOK(p)'
  <2>1. /\ pc[r] = "handler" /\ Keeps(r, Taken(r, "register")) /\ Goes(r, "end")
        /\ UNCHANGED <<store, sid, served, shared>>
    BY <1>3 DEF VerifyRegistration, SignedIn, Posts, Answers
  <2>2. QED
    BY <1>1, <2>1, ProofCopied DEF Ceremony
<1>4. ASSUME NEW c \in Credential, RemovePasskey(r, c)
      PROVE  \A p \in Proof : ProofOK(p)'
  <2>1. /\ ConsumeStepUp(r) /\ Keeps(r, Spent(r)) /\ Goes(r, "lock") /\ pc[r] = "handler"
        /\ UNCHANGED <<store, sid>>
    BY <1>4 DEF RemovePasskey, ConsumeStepUp, SignedIn, Posts
  <2>2. QED
    BY <1>1, <2>1, ProofUsed
<1>5. ASSUME NEW c \in Credential, VerifySignIn(r, c)
      PROVE  \A p \in Proof : ProofOK(p)'
  <2>1. /\ pc[r] = "handler" /\ Keeps(r, Taken(r, "sign_in")) /\ \E l : Goes(r, l)
        /\ UNCHANGED <<store, sid, served, shared>>
    BY <1>5 DEF VerifySignIn, Posts, SignsIn
  <2>2. QED
    BY <1>1, <2>1, ProofCopied DEF Ceremony
<1>6. ASSUME NEW c \in Credential, VerifyStepUp(r, c)
      PROVE  \A p \in Proof : ProofOK(p)'
  <2>1. /\ pc[r] = "handler" /\ session[r] \in Session /\ Goes(r, "end")
        /\ UNCHANGED <<store, sid, served, shared>>
    BY <1>1, <1>6 DEF VerifyStepUp, SignedIn, Posts, Answers
  <2> DEFINE taken == [session[r] EXCEPT !.stepUpFor = NULL]
  <2>2. taken \in Session /\ taken.proof = session[r].proof
    BY <2>1, Copies, CopyProofs
  <2>3. CASE Keeps(r, taken)
    BY <2>1, <2>2, <2>3, ProofCopied
  <2>4. ASSUME NEW p \in Proof, served[p] = 0, p \notin shared,
               \A q \in Request : session[q] # NULL => session[q].proof # p,
               \A s \in Sid : ~Stored(p, s), Keeps(r, [taken EXCEPT !.proof = p])
        PROVE  \A x \in Proof : ProofOK(x)'
    <3>1. [taken EXCEPT !.proof = p] \in Session /\ [taken EXCEPT !.proof = p].proof = p
      BY <2>1, Copies, CopyProofs
    <3>2. /\ session'[r].proof = p /\ pc'[r] = "end"
          /\ \A q \in Request \ {r} :
               session'[q] = session[q] /\ pc'[q] = pc[q] /\ dirty'[q] = dirty[q]
      BY <2>1, <2>4, <3>1 DEF Keeps, Goes, ProofInv, TypeInv, TypeOK
    <3>3. \A x \in Proof, s \in Sid : Stored(x, s)' <=> Stored(x, s)
      BY <2>1 DEF Stored
    <3>4. ProofOK(p)'
      BY <2>1, <2>4, <3>2, <3>3 DEF ProofOK, Carries
    <3>5. ASSUME NEW x \in Proof, x # p
          PROVE  ProofOK(x)'
      <4>1. \A q \in Request : Carries(q, x)' => Carries(q, x)
        BY <3>2, <3>5 DEF Carries
      <4>2. \A q \in Request, s \in Sid : Spending(q, s) => Spending(q, s)'
        BY <2>1, <3>2 DEF Spending
      <4>3. QED
        BY <2>1, <3>3, <4>1, <4>2, ProofKept DEF ProofInv
    <3>6. QED
      BY <3>4, <3>5
  <2>5. QED
    BY <1>6, <2>3, <2>4 DEF VerifyStepUp, Answers
<1>7. ASSUME NEW m \in Member, ConfirmEmailChange(r, m)
      PROVE  \A p \in Proof : ProofOK(p)'
  <2>1. /\ pc[r] = "handler" /\ Goes(r, "revoke") /\ UNCHANGED <<store, sid, served, shared, kept>>
    BY <1>7 DEF ConfirmEmailChange, Posts
  <2>2. Keeps(r, session[r])
    BY <2>1 DEF Keeps, kept, ProofInv, TypeInv, TypeOK
  <2>3. QED
    BY <1>1, <2>1, <2>2, ProofCopied
<1>8. ASSUME NEW ceremony \in Ceremony, IssueChallenge(r, ceremony)
      PROVE  \A p \in Proof : ProofOK(p)'
  <2>1. /\ pc[r] = "handler" /\ Goes(r, "end") /\ UNCHANGED <<store, sid, served, shared>>
        /\ Keeps(r, [session[r] EXCEPT !.pending = @ \cup {ceremony}])
    BY <1>8 DEF IssueChallenge, Posts, Answers
  <2>2. LET e == [session[r] EXCEPT !.pending = @ \cup {ceremony}]
        IN  e \in Session /\ e.proof = session[r].proof
    BY <1>1, <2>1, Copies, CopyProofs
  <2>3. QED
    BY <2>1, <2>2, ProofCopied
<1>9. CASE Plain(r) \/ IssueStepUp(r) \/ RefuseStepUp(r)
  <2>1. /\ pc[r] = "handler" /\ Goes(r, "end") /\ UNCHANGED <<store, sid, served, shared>>
    BY <1>9 DEF Plain, IssueStepUp, RefuseStepUp, SignedIn, Posts, Answers
  <2>2. /\ session[r] \in Session /\ Spent(r) \in Session /\ Spent(r).proof = NULL
        /\ LET e == [session[r] EXCEPT !.saved = TRUE]
           IN  e \in Session /\ e.proof = session[r].proof
        /\ LET e == [session[r] EXCEPT !.stepUpFor = session[r].member]
           IN  e \in Session /\ e.proof = session[r].proof
    BY <1>1, <2>1, Copies, CopyProofs
  <2>3. CASE Keeps(r, session[r]) \/ Keeps(r, Spent(r))
    BY <2>1, <2>2, <2>3, ProofCopied
  <2>4. CASE \/ Keeps(r, [session[r] EXCEPT !.saved = TRUE])
             \/ Keeps(r, [session[r] EXCEPT !.stepUpFor = session[r].member])
    BY <2>1, <2>2, <2>4, ProofCopied
  <2>5. QED
    BY <1>9, <2>3, <2>4 DEF Plain, IssueStepUp, RefuseStepUp, Answers
<1>10. CASE UpdateEmail(r) \/ IssueRegistration(r)
  <2>1. /\ ConsumeStepUp(r) /\ Goes(r, "end") /\ pc[r] = "handler" /\ UNCHANGED <<store, sid>>
    BY <1>10 DEF UpdateEmail, IssueRegistration, ConsumeStepUp, SignedIn, Posts, Answers
  <2>2. /\ Spent(r) \in Session /\ Spent(r).proof = NULL
        /\ LET e == [Spent(r) EXCEPT !.pending = @ \cup {"register"}]
           IN  e \in Session /\ e.proof = NULL
    BY <1>1, <2>1, Copies, CopyProofs DEF Spent, Ceremony
  <2>3. CASE Keeps(r, Spent(r))
    BY <2>1, <2>2, <2>3, ProofUsed
  <2>4. CASE Keeps(r, [Spent(r) EXCEPT !.pending = @ \cup {"register"}])
    BY <2>1, <2>2, <2>4, ProofUsed
  <2>5. QED
    BY <1>10, <2>3, <2>4 DEF UpdateEmail, IssueRegistration, Answers
<1>11. CASE SignOut(r)
  <2>1. /\ pc[r] = "handler" /\ Keeps(r, NULL) /\ \E l : Goes(r, l)
        /\ store' = [store EXCEPT ![sid[r]] = NULL] /\ UNCHANGED <<sid, served, shared>>
    BY <1>11 DEF SignOut, Posts
  <2>2. \A s \in Sid : store'[s] \in {store[s], NULL}
    BY <2>1 DEF ProofInv, TypeInv, TypeOK
  <2>3. QED
    BY <2>1, <2>2, ProofCopied
<1>12. QED
  BY <1>2, <1>3, <1>4, <1>5, <1>6, <1>7, <1>8, <1>9, <1>10, <1>11 DEF Handler

\* A session that nobody holds is loaded with its proof, or the proof is shared.
LEMMA ProofLoad ==
  ASSUME ProofInv, NEW r \in Request, NEW b \in Browser, Load(r, b)
  PROVE  \A p \in Proof : ProofOK(p)'
<1> SUFFICES ASSUME NEW p \in Proof
             PROVE  ProofOK(p)'
  OBVIOUS
<1>1. /\ TypeInv /\ TypeOK /\ ProofOK(p) /\ p # NULL /\ pc[r] = "idle"
      /\ session[r] = NULL /\ UNCHANGED served
  BY SessionsAssumption DEF ProofInv, TypeInv, StateOK, Load
<1>2. \A q \in Request \ {r} :
        pc'[q] = pc[q] /\ session'[q] = session[q] /\ sid'[q] = sid[q] /\ dirty'[q] = dirty[q]
  BY <1>1 DEF Load, Goes, TypeOK, kept
<1>3. \A q \in Request, s \in Sid : Spending(q, s) => Spending(q, s)'
  BY <1>1, <1>2 DEF Spending
<1>4. ASSUME session'[r] = NewSession, UNCHANGED <<store, shared>>
      PROVE  ProofOK(p)'
  <2>1. \A q \in Request : Carries(q, p)' => Carries(q, p) /\ sid'[q] = sid[q]
    BY <1>1, <1>2, <1>4 DEF Carries, NewSession
  <2>2. \A s \in Sid : Stored(p, s)' <=> Stored(p, s)
    BY <1>4 DEF Stored
  <2>3. QED
    BY <1>1, <1>3, <1>4, <2>1, <2>2, ProofKept
<1>5. ASSUME session'[r] = NULL, shared \subseteq shared',
             \A s \in Sid : store'[s] \in {store[s], NULL}
      PROVE  ProofOK(p)'
  <2>1. \A q \in Request : Carries(q, p)' => Carries(q, p) /\ sid'[q] = sid[q]
    BY <1>1, <1>2, <1>5 DEF Carries
  <2>2. \A s \in Sid : Stored(p, s)' => Stored(p, s)
    BY <1>5 DEF Stored
  <2>3. QED
    BY <1>1, <1>3, <1>5, <2>1, <2>2, ProofKept
<1>6. ASSUME NEW s \in Sid, store[s] # NULL, session'[r] = store[s], sid'[r] = s,
             UNCHANGED store,
             shared' = IF Holders(r, s) = {} THEN shared
                       ELSE shared \cup ({store[s].proof} \ {NULL})
      PROVE  ProofOK(p)'
  <2>1. \A t \in Sid : Stored(p, t)' <=> Stored(p, t)
    BY <1>6 DEF Stored
  <2>2. CASE store[s].proof # p
    <3>1. \A q \in Request : Carries(q, p)' => Carries(q, p) /\ sid'[q] = sid[q]
      BY <1>2, <1>6, <2>2 DEF Carries
    <3>2. QED
      BY <1>1, <1>3, <1>6, <2>1, <3>1, ProofKept
  <2>3. CASE store[s].proof = p /\ p \notin shared'
    <3>1. Stored(p, s) /\ Holders(r, s) = {} /\ p \notin shared
      BY <1>1, <1>6, <2>3, SessionsAssumption DEF Stored
    <3>2. \A t \in Sid : Stored(p, t) => t = s
      BY <1>1, <3>1 DEF ProofOK
    <3>3. \A q \in Request : ~Carries(q, p)
      BY <1>1, <3>1 DEF ProofOK, Holders, Carries
    <3>4. \A q \in Request : ~Spending(q, s)
      BY <1>1, <3>1 DEF Spending, Holders
    <3>5. served[p] = 0
      BY <1>1, <3>1, <3>4 DEF ProofOK
    <3>6. \A q \in Request : Carries(q, p)' => q = r
      BY <1>2, <3>3 DEF Carries
    <3>7. QED
      BY <1>1, <1>6, <2>1, <3>2, <3>5, <3>6 DEF ProofOK
  <2>4. CASE p \in shared'
    BY <2>4 DEF ProofOK
  <2>5. QED
    BY <2>2, <2>3, <2>4
<1>7. QED
  <2>1. CASE \E n \in Sid : session' = [session EXCEPT ![r] = NewSession]
                            /\ UNCHANGED <<store, shared>>
    BY <1>1, <1>4, <2>1 DEF TypeOK
  <2>2. CASE /\ cookie[b] # NULL /\ store[cookie[b]] # NULL
             /\ sid' = [sid EXCEPT ![r] = cookie[b]]
             /\ session' = [session EXCEPT ![r] = store[cookie[b]]] /\ UNCHANGED store
             /\ shared' = IF Holders(r, cookie[b]) = {} THEN shared
                          ELSE shared \cup ({store[cookie[b]].proof} \ {NULL})
    BY <1>1, <1>6, <2>2 DEF TypeOK
  <2>3. CASE /\ cookie[b] # NULL /\ store' = [store EXCEPT ![cookie[b]] = NULL] /\ UNCHANGED kept
             /\ shared \subseteq shared'
    BY <1>1, <1>5, <2>3 DEF TypeOK, kept
  <2>4. QED
    BY <2>1, <2>2, <2>3 DEF Load

LEMMA ProofStatement ==
  ASSUME ProofInv, NEW r \in Request, Statement(r) \/ Fails(r)
  PROVE  \A p \in Proof : ProofOK(p)'
<1> SUFFICES ASSUME NEW p \in Proof
             PROVE  ProofOK(p)'
  OBVIOUS
<1> USE DEF stored, rows, copies, kept, task, history
<1>1. TypeInv /\ TypeOK /\ StateOK(r) /\ ProofOK(p) /\ p # NULL
  BY SessionsAssumption DEF ProofInv, TypeInv
<1>2. CASE Rotate(r)
  <2>1. /\ pc[r] = "rotate" /\ pc' = [pc EXCEPT ![r] = "save"]
        /\ store' = [store EXCEPT ![sid[r]] = NULL]
        /\ \E n \in Sid : sid' = [sid EXCEPT ![r] = n]
        /\ dirty' = [dirty EXCEPT ![r] = TRUE] /\ UNCHANGED <<session, served, shared>>
    BY <1>2 DEF Rotate, Goes
  <2>2. /\ store'[sid[r]] = NULL /\ \A s \in Sid : store'[s] \in {store[s], NULL}
        /\ \A q \in Request \ {r} : sid'[q] = sid[q] /\ pc'[q] = pc[q] /\ dirty'[q] = dirty[q]
    BY <1>1, <2>1 DEF TypeOK, StateOK
  <2>3. \A s \in Sid : Stored(p, s)' => Stored(p, s) /\ s # sid[r]
    BY <2>2 DEF Stored
  <2>4. p \notin shared /\ Carries(r, p) => \A s \in Sid : ~Stored(p, s)'
    BY <1>1, <2>3 DEF ProofOK
  <2>5. \A q \in Request : Carries(q, p)' => Carries(q, p)
    BY <2>1 DEF Carries
  <2>6. \A q \in Request, s \in Sid : Spending(q, s) => Spending(q, s)'
    BY <2>1, <2>2 DEF Spending
  <2>7. CASE p \in shared
    BY <2>1, <2>7 DEF ProofOK
  <2>8. CASE p \notin shared
    BY <1>1, <2>1, <2>2, <2>3, <2>4, <2>5, <2>6, <2>8, ProofKept
  <2>9. QED
    BY <2>7, <2>8
<1>3. CASE SaveRotated(r)
  <2>1. /\ pc[r] = "save" /\ pc' = [pc EXCEPT ![r] = "register"]
        /\ store' = [store EXCEPT ![sid[r]] = session[r]]
        /\ Keeps(r, [session[r] EXCEPT !.member = who[r]]) /\ UNCHANGED <<sid, served, shared>>
        /\ session[r] \in Session /\ session[r] # NULL /\ sid[r] \in Sid
    BY <1>1, <1>3, NoSessionAssumption DEF SaveRotated, Goes, StateOK
  <2>2. session'[r].proof = session[r].proof
    BY <1>1, <2>1, CopyProofs DEF Keeps, TypeOK
  <2>3. /\ \A q \in Request \ {r} :
             session'[q] = session[q] /\ pc'[q] = pc[q] /\ dirty'[q] = dirty[q]
        /\ \A s \in Sid : store'[s] = store[s] \/ (s = sid[r] /\ store'[s] = session[r])
    BY <1>1, <2>1 DEF Keeps, TypeOK
  <2>4. \A q \in Request : Carries(q, p)' => Carries(q, p)
    BY <2>1, <2>2, <2>3 DEF Carries
  <2>5. \A s \in Sid : Stored(p, s)' => Stored(p, s) \/ (Carries(r, p) /\ sid[r] = s)
    BY <2>1, <2>3 DEF Stored, Carries
  <2>6. \A q \in Request, s \in Sid : Spending(q, s) => Spending(q, s)'
    BY <2>1, <2>3 DEF Spending
  <2>7. QED
    BY <1>1, <2>1, <2>4, <2>5, <2>6, ProofKept
<1>4. ASSUME \A s \in Sid : store'[s] \in {store[s], NULL}, UNCHANGED <<sid, kept, served, shared>>,
             NEW l, Goes(r, l), pc[r] = "end" => l = "end",
             pc[r] \in {"lock", "delete", "revoke", "destroy"} =>
               l \in {"delete", "revoke", "destroy", "end"}
      PROVE  ProofOK(p)'
  <2>1. \A s \in Sid : Stored(p, s)' => Stored(p, s)
    BY <1>4 DEF Stored
  <2>2. \A q \in Request : Carries(q, p)' <=> Carries(q, p)
    BY <1>4 DEF Carries
  <2>3. \A q \in Request, s \in Sid : Spending(q, s) => Spending(q, s)'
    BY <1>1, <1>4 DEF Spending, Goes, TypeOK
  <2>4. QED
    BY <1>1, <1>4, <2>1, <2>2, <2>3, ProofKept
<1>5. CASE LockPasskeys(r)
  <2>1. Goes(r, "delete") \/ Goes(r, "end")
    BY <1>5 DEF LockPasskeys
  <2>2. pc[r] = "lock" /\ UNCHANGED <<store, sid, kept, served, shared>>
    BY <1>5 DEF LockPasskeys
  <2>3. QED
    BY <1>4, <2>1, <2>2
<1>6. CASE DeletePasskey(r)
  BY <1>4, <1>6 DEF DeletePasskey
<1>7. CASE ReadSessions(r)
  BY <1>4, <1>7 DEF ReadSessions
<1>8. CASE DestroySessions(r)
  BY <1>4, <1>8 DEF DestroySessions
<1>9. CASE Register(r) \/ Unregister(r) \/ Fails(r)
  BY <1>4, <1>9 DEF Register, Unregister, Fails
<1>10. QED
  BY <1>2, <1>3, <1>5, <1>6, <1>7, <1>8, <1>9 DEF Statement

LEMMA ProofEnds ==
  ASSUME ProofInv,
         (\E r \in Request : EndAnswer(r) \/ RotateFails(r)) \/ Crash \/ \E s \in Sid : Expires(s)
  PROVE  \A p \in Proof : ProofOK(p)'
<1> SUFFICES ASSUME NEW p \in Proof
             PROVE  ProofOK(p)'
  OBVIOUS
<1> USE DEF stored, rows, copies, kept, task, history
<1>1. TypeInv /\ TypeOK /\ ProofOK(p) /\ p # NULL
  BY SessionsAssumption DEF ProofInv, TypeInv
<1>2. ASSUME NEW r \in Request, EndAnswer(r)
      PROVE  ProofOK(p)'
  <2>1. /\ pc' = [pc EXCEPT ![r] = "idle"] /\ session' = [session EXCEPT ![r] = NULL]
        /\ sid' = [sid EXCEPT ![r] = NULL] /\ dirty' = [dirty EXCEPT ![r] = FALSE]
        /\ store' = IF session[r] # NULL /\ dirty[r]
                      THEN [store EXCEPT ![sid[r]] = session[r]] ELSE store
        /\ UNCHANGED <<served, shared>>
    BY <1>2 DEF EndAnswer, Goes
  <2>2. \A q \in Request \ {r} :
          pc'[q] = pc[q] /\ session'[q] = session[q] /\ sid'[q] = sid[q] /\ dirty'[q] = dirty[q]
    BY <1>1, <2>1 DEF TypeOK
  <2>3. session'[r] = NULL
    BY <1>1, <2>1 DEF TypeOK
  <2>4. \A s \in Sid : Stored(p, s)' => Stored(p, s) \/ (Carries(r, p) /\ sid[r] = s)
    BY <1>1, <2>1 DEF Stored, Carries, TypeOK
  <2>5. \A q \in Request : Carries(q, p)' => Carries(q, p) /\ sid'[q] = sid[q]
    BY <2>2, <2>3 DEF Carries
  <2>6. \A q \in Request \ {r}, s \in Sid : Spending(q, s) => Spending(q, s)'
    BY <2>2 DEF Spending
  <2>7. \A s \in Sid : Spending(r, s) /\ ~Carries(r, p) => ~Stored(p, s)'
    BY <1>1, <2>1 DEF Spending, Stored, Carries, TypeOK
  <2>8. CASE p \notin shared
    <3>1. served[p] = 1 => ~Carries(r, p)
      BY <1>1, <2>8 DEF ProofOK
    <3>2. QED
      BY <1>1, <2>1, <2>4, <2>5, <2>6, <2>7, <3>1, ProofKept
  <2>9. QED
    BY <2>1, <2>8 DEF ProofOK
<1>3. CASE Crash
  <2>1. /\ \A q \in Request : session'[q] = NULL
        /\ UNCHANGED <<store, served>>
        /\ shared' = shared \cup {x \in Proof : \E q \in Request : Stored(x, sid[q])}
    BY <1>3 DEF Crash
  <2>2. \A q \in Request : ~Carries(q, p)'
    BY <2>1 DEF Carries
  <2>3. \A s \in Sid : Stored(p, s)' <=> Stored(p, s)
    BY <2>1 DEF Stored
  <2>4. \A q \in Request, s \in Sid : Spending(q, s) /\ Stored(p, s) => p \in shared'
    BY <2>1 DEF Spending
  <2>5. QED
    BY <1>1, <2>1, <2>2, <2>3, <2>4, ProofKept
<1>4. ASSUME NEW s \in Sid, Expires(s)
      PROVE  ProofOK(p)'
  <2>1. /\ \A t \in Sid : store'[t] \in {store[t], NULL}
        /\ UNCHANGED <<pc, kept, copies, served, shared>>
    BY <1>1, <1>4 DEF Expires, TypeOK
  <2>2. \A t \in Sid : Stored(p, t)' => Stored(p, t)
    BY <2>1 DEF Stored
  <2>3. \A q \in Request : Carries(q, p)' <=> Carries(q, p)
    BY <2>1 DEF Carries
  <2>4. \A q \in Request, t \in Sid : Spending(q, t) <=> Spending(q, t)'
    BY <2>1 DEF Spending
  <2>5. QED
    BY <1>1, <2>1, <2>2, <2>3, <2>4, ProofKept
<1>5. ASSUME NEW r \in Request, RotateFails(r)
      PROVE  ProofOK(p)'
  <2>1. /\ pc[r] = "rotate" /\ session' = [session EXCEPT ![r] = NewSession]
        /\ \A q \in Request \ {r} :
             pc'[q] = pc[q] /\ session'[q] = session[q] /\ sid'[q] = sid[q] /\ dirty'[q] = dirty[q]
        /\ UNCHANGED <<store, served, shared>>
    BY <1>1, <1>5 DEF RotateFails, Goes, TypeOK
  <2>2. \A s \in Sid : Stored(p, s)' <=> Stored(p, s)
    BY <2>1 DEF Stored
  <2>3. session'[r].proof = NULL
    BY <1>1, <2>1 DEF NewSession, TypeOK
  <2>4. \A q \in Request : Carries(q, p)' => Carries(q, p) /\ sid'[q] = sid[q]
    BY <1>1, <2>1, <2>3 DEF Carries
  <2>5. \A q \in Request, s \in Sid : Spending(q, s) => Spending(q, s)'
    BY <2>1 DEF Spending
  <2>6. QED
    BY <1>1, <2>1, <2>2, <2>4, <2>5, ProofKept
<1>6. QED
  BY <1>2, <1>3, <1>4, <1>5

LEMMA ProofStep == ProofInv /\ [Next]_vars => ProofInv'
<1> SUFFICES ASSUME ProofInv, [Next]_vars
             PROVE  ProofInv'
  OBVIOUS
<1>1. TypeInv'
  BY TypeStep DEF ProofInv
<1>2. CASE UNCHANGED vars
  BY <1>1, <1>2
     DEF vars, stored, rows, copies, kept, task, history, ProofInv, ProofOK, Carries,
         Stored, Spending
<1>3. CASE Next
  BY <1>1, <1>3, ProofLoad, ProofHandler, ProofStatement, ProofEnds DEF Next, ProofInv
<1>4. QED
  BY <1>2, <1>3

LEMMA ProofStarts == Init => ProofInv
<1> SUFFICES ASSUME Init
             PROVE  ProofInv
  OBVIOUS
<1>1. \A q \in Request : session[q] = NULL
  BY DEF Init
<1>2. \A p \in Proof, s, t \in Sid : Stored(p, s) /\ Stored(p, t) => s = t
  BY DEF Init
<1>3. \A p \in Proof : served[p] = 0
  BY DEF Init
<1>4. QED
  BY <1>1, <1>2, <1>3, TypeStarts DEF ProofInv, ProofOK, Carries

\* A step-up proof lets a second action through in no other way than that a
\* request loads its session while another holds it, or that the process dies
\* before it saves it (consume-step-up.ts:22).
THEOREM StepUpAlwaysServesInTurn == Spec => []StepUpServesInTurn
<1>1. ProofInv => StepUpServesInTurn
  BY DEF ProofInv, ProofOK, StepUpServesInTurn
<1>2. QED
  BY ProofStarts, ProofStep, <1>1, PTL DEF Spec

-----------------------------------------------------------------------------
(* Members and ids.                                                        *)

\* No browser and no other request knows the session id of r.
Private(r) ==
  /\ \A b \in Browser : cookie[b] # sid[r]
  /\ \A q \in Request \ {r} : sid[q] # sid[r]

Known(s, m) == m # NULL => s \in listed[m] \cup unlisted

\* r has a new session id, which is not listed yet.
Rotating(r) == pc[r] \in {"save", "register"}

\* The copy of r and its stored session are of different members.
Differs(r) ==
  /\ session[r] # NULL /\ store[sid[r]] # NULL
  /\ session[r].member # store[sid[r]].member

\* The member of a copy is that of its stored session, or nobody else has its id.
CopyOK(r) ==
  /\ Rotating(r) => Private(r) /\ dirty[r]
  /\ pc[r] = "register" => session[r].member = who[r]
  /\ Differs(r) => Private(r) /\ dirty[r]
  /\ session[r] # NULL /\ ~Rotating(r) => Known(sid[r], session[r].member)
  /\ pc[r] = "destroy" => sid[r] \notin found[r]
  /\ pc[r] = "unregister" =>
       sid[r] \in unlisted \/ (store[sid[r]] = NULL /\ Holders(r, sid[r]) = {})

CopiesAgree ==
  \A q, r \in Request :
    sid[q] = sid[r] /\ session[q] # NULL /\ session[r] # NULL
      => session[q].member = session[r].member

MemberInv == TypeInv /\ SignedInIsListed /\ CopiesAgree /\ \A r \in Request : CopyOK(r)

LEMMA CopyMembers ==
  ASSUME NEW e \in Session
  PROVE  /\ [e EXCEPT !.saved = TRUE].member = e.member
         /\ [e EXCEPT !.proof = NULL].member = e.member
         /\ [e EXCEPT !.stepUpFor = NULL].member = e.member
         /\ \A m : [e EXCEPT !.stepUpFor = m].member = e.member
         /\ \A m : [e EXCEPT !.member = m].member = m
         /\ \A p : [[e EXCEPT !.stepUpFor = NULL] EXCEPT !.proof = p].member = e.member
         /\ \A c :
              /\ [e EXCEPT !.pending = @ \cup {c}].member = e.member
              /\ [e EXCEPT !.pending = @ \ {c}].member = e.member
              /\ [[e EXCEPT !.proof = NULL] EXCEPT !.pending = @ \cup {c}].member = e.member
BY DEF Session

\* Handlers leave the member of their copy alone.
LEMMA HandlerKeepsMember ==
  ASSUME TypeInv, NEW r \in Request, Handler(r), ~SignOut(r)
  PROVE  /\ \E e \in Session : e.member = session[r].member /\ Keeps(r, e)
         /\ \E l \in {"end", "lock", "revoke", "rotate"} : Goes(r, l)
         /\ pc[r] = "handler"
         /\ UNCHANGED <<store, listed, cookie, sid, unlisted>>
<1> USE DEF stored, rows, copies, task, history
<1>1. pc[r] = "handler" =>
        /\ session[r] \in Session
        /\ \A c \in Ceremony : Taken(r, c) \in Session /\ Taken(r, c).member = session[r].member
        /\ Spent(r) \in Session /\ Spent(r).member = session[r].member
  BY Copies, CopyMembers DEF TypeInv, StateOK, Taken, Spent
<1>2. ASSUME NEW m \in Member, NEW c \in Credential, VerifySignUp(r, m, c)
      PROVE  /\ pc[r] = "handler" /\ Keeps(r, Taken(r, "sign_up"))
             /\ \E l \in {"end", "rotate"} : Goes(r, l)
             /\ UNCHANGED <<store, listed, cookie, sid, unlisted>>
  BY <1>2 DEF VerifySignUp, Posts, SignsIn
<1>3. ASSUME NEW c \in Credential, VerifyRegistration(r, c)
      PROVE  /\ pc[r] = "handler" /\ Keeps(r, Taken(r, "register")) /\ Goes(r, "end")
             /\ UNCHANGED <<store, listed, cookie, sid, unlisted>>
  BY <1>3 DEF VerifyRegistration, SignedIn, Posts, Answers
<1>4. ASSUME NEW c \in Credential, RemovePasskey(r, c)
      PROVE  /\ pc[r] = "handler" /\ Keeps(r, Spent(r)) /\ Goes(r, "lock")
             /\ UNCHANGED <<store, listed, cookie, sid, unlisted>>
  BY <1>4 DEF RemovePasskey, ConsumeStepUp, SignedIn, Posts
<1>5. ASSUME NEW c \in Credential, VerifySignIn(r, c)
      PROVE  /\ pc[r] = "handler" /\ Keeps(r, Taken(r, "sign_in"))
             /\ \E l \in {"end", "rotate"} : Goes(r, l)
             /\ UNCHANGED <<store, listed, cookie, sid, unlisted>>
  BY <1>5 DEF VerifySignIn, Posts, SignsIn
<1>6. ASSUME NEW c \in Credential, VerifyStepUp(r, c)
      PROVE  /\ pc[r] = "handler" /\ Goes(r, "end")
             /\ \E e \in Session : e.member = session[r].member /\ Keeps(r, e)
             /\ UNCHANGED <<store, listed, cookie, sid, unlisted>>
  <2>1. /\ pc[r] = "handler" /\ Goes(r, "end") /\ UNCHANGED <<store, listed, cookie, sid, unlisted>>
        /\ session[r] \in Session
    BY <1>1, <1>6 DEF VerifyStepUp, SignedIn, Posts, Answers
  <2> DEFINE taken == [session[r] EXCEPT !.stepUpFor = NULL]
  <2>2. taken \in Session /\ taken.member = session[r].member
    BY <2>1, Copies, CopyMembers
  <2>3. \A p \in Proof : /\ [taken EXCEPT !.proof = p] \in Session
                         /\ [taken EXCEPT !.proof = p].member = session[r].member
    BY <2>1, Copies, CopyMembers
  <2>4. Keeps(r, taken) \/ \E p \in Proof : Keeps(r, [taken EXCEPT !.proof = p])
    BY <1>6 DEF VerifyStepUp, Answers
  <2> HIDE DEF taken
  <2>5. QED
    BY <2>1, <2>2, <2>3, <2>4
<1>7. ASSUME NEW m \in Member, ConfirmEmailChange(r, m)
      PROVE  /\ pc[r] = "handler" /\ Goes(r, "revoke") /\ Keeps(r, session[r])
             /\ UNCHANGED <<store, listed, cookie, sid, unlisted>>
  BY <1>7 DEF ConfirmEmailChange, Posts, Keeps, kept, TypeInv, TypeOK
<1>8. ASSUME NEW ceremony \in Ceremony, IssueChallenge(r, ceremony)
      PROVE  /\ pc[r] = "handler" /\ Goes(r, "end")
             /\ \E e \in Session : e.member = session[r].member /\ Keeps(r, e)
             /\ UNCHANGED <<store, listed, cookie, sid, unlisted>>
  <2>1. /\ pc[r] = "handler" /\ Goes(r, "end") /\ UNCHANGED <<store, listed, cookie, sid, unlisted>>
        /\ Keeps(r, [session[r] EXCEPT !.pending = @ \cup {ceremony}])
    BY <1>8 DEF IssueChallenge, Posts, Answers
  <2>2. /\ [session[r] EXCEPT !.pending = @ \cup {ceremony}] \in Session
        /\ [session[r] EXCEPT !.pending = @ \cup {ceremony}].member = session[r].member
    BY <1>1, <2>1, Copies, CopyMembers
  <2>3. QED
    BY <2>1, <2>2
<1>9. CASE Plain(r) \/ IssueStepUp(r) \/ RefuseStepUp(r) \/ UpdateEmail(r) \/ IssueRegistration(r)
  <2>1. /\ pc[r] = "handler" /\ Goes(r, "end") /\ UNCHANGED <<store, listed, cookie, sid, unlisted>>
    BY <1>9 DEF Plain, IssueStepUp, RefuseStepUp, UpdateEmail, IssueRegistration, ConsumeStepUp,
                SignedIn, Posts, Answers
  <2> DEFINE saved == [session[r] EXCEPT !.saved = TRUE]
             issued == [session[r] EXCEPT !.stepUpFor = session[r].member]
             registers == [Spent(r) EXCEPT !.pending = @ \cup {"register"}]
  <2>2. /\ saved \in Session /\ saved.member = session[r].member
        /\ issued \in Session /\ issued.member = session[r].member
        /\ registers \in Session /\ registers.member = session[r].member
    BY <1>1, <2>1, Copies, CopyMembers DEF Spent, Ceremony
  <2>3. \/ Keeps(r, session[r]) \/ Keeps(r, saved) \/ Keeps(r, issued)
        \/ Keeps(r, Spent(r)) \/ Keeps(r, registers)
    BY <1>9 DEF Plain, IssueStepUp, RefuseStepUp, UpdateEmail, IssueRegistration, Answers
  <2> HIDE DEF saved, issued, registers
  <2>4. QED
    BY <1>1, <2>1, <2>2, <2>3
<1>10. QED
  BY <1>1, <1>2, <1>3, <1>4, <1>5, <1>6, <1>7, <1>8, <1>9 DEF Handler, Ceremony

\* What the invariant says of a request that is served.
LEMMA Served ==
  ASSUME MemberInv, NEW r \in Request
  PROVE  /\ CopyOK(r) /\ StateOK(r)
         /\ session[r] \in Session \cup {NULL} /\ NULL \notin Session
         /\ session[r] # NULL => pc[r] # "idle" /\ session[r] \in Session
         /\ pc[r] # "idle" => sid[r] \in Sid /\ sid[r] # NULL
BY SessionsAssumption, NoSessionAssumption DEF MemberInv, TypeInv, TypeOK, StateOK

LEMMA MemberLoad ==
  ASSUME MemberInv, TypeInv', NEW r \in Request, NEW b \in Browser, Load(r, b)
  PROVE  MemberInv'
<1>1. /\ TypeOK /\ pc[r] = "idle" /\ session[r] = NULL
      /\ UNCHANGED <<listed, cookie, who, found, unlisted>>
  BY Served DEF MemberInv, TypeInv, StateOK, Load, task
<1>2. /\ pc'[r] \in {"handler", "end"}
      /\ \A q \in Request \ {r} :
           pc'[q] = pc[q] /\ session'[q] = session[q] /\ sid'[q] = sid[q] /\ dirty'[q] = dirty[q]
  BY <1>1 DEF Load, Goes, TypeOK, kept
\* Others are not disturbed by a request that comes with an id of no private one.
<1>3. ASSUME \A s \in Sid : store'[s] \in {store[s], NULL},
             \A q \in Request \ {r} : Private(q) /\ pc[q] # "idle" => sid'[r] # sid[q],
             \A q \in Request \ {r} :
               session'[r] # NULL /\ sid[q] = sid'[r] /\ pc[q] = "unregister" => sid[q] \in unlisted
      PROVE  \A q \in Request \ {r} : CopyOK(q)'
  <2> SUFFICES ASSUME NEW q \in Request \ {r}
               PROVE  CopyOK(q)'
    OBVIOUS
  <2>1. CopyOK(q) /\ (session[q] # NULL \/ pc[q] # "idle" => pc[q] # "idle" /\ sid[q] \in Sid)
    BY Served
  <2>2. Private(q) /\ pc[q] # "idle" => Private(q)'
    BY <1>1, <1>2, <1>3 DEF Private
  <2>3. pc[q] = "unregister" =>
          sid[q] \in unlisted \/ (store'[sid[q]] = NULL /\ Holders(q, sid[q])' = {})
    <3>1. CASE session'[r] # NULL /\ sid[q] = sid'[r]
      BY <1>3, <3>1
    <3>2. CASE ~(session'[r] # NULL /\ sid[q] = sid'[r])
      BY <1>2, <1>3, <2>1, <3>2 DEF CopyOK, Differs, Holders
    <3>3. QED
      BY <3>1, <3>2
  <2>4. store'[sid[q]] # NULL /\ (session[q] # NULL \/ pc[q] # "idle")
          => store'[sid[q]] = store[sid[q]]
    BY <1>3, <2>1
  <2>5. QED
    BY <1>1, <1>2, <2>1, <2>2, <2>3, <2>4 DEF CopyOK, Differs, Rotating, Known
<1>4. (\A s \in Sid : store'[s] \in {store[s], NULL}) => SignedInIsListed'
  BY <1>1 DEF SignedInIsListed, MemberInv, TypeOK
<1>5. ASSUME NEW n \in Sid, Fresh(n), sid'[r] = n, session'[r] = NewSession, UNCHANGED store
      PROVE  MemberInv'
  <2>1. NewSession.member = NULL /\ store[n] = NULL /\ \A q \in Request : sid[q] # n
    BY <1>5 DEF NewSession, Fresh
  <2>2. CopyOK(r)'
    BY <1>2, <1>5, <2>1 DEF CopyOK, Differs, Rotating, Known
  <2>3. CopiesAgree'
    BY <1>2, <1>5, <2>1 DEF MemberInv, CopiesAgree
  <2>4. QED
    BY <1>3, <1>4, <1>5, <2>1, <2>2, <2>3 DEF MemberInv
<1>6. ASSUME NEW s \in Sid, cookie[b] = s, store[s] # NULL, session'[r] = store[s], sid'[r] = s,
             UNCHANGED store
      PROVE  MemberInv'
  <2>1. \A q \in Request \ {r} : Private(q) => sid[q] # s
    BY <1>6 DEF Private
  <2>2. \A q \in Request \ {r} : session[q] # NULL /\ sid[q] = s
          => session[q].member = store[s].member
    BY <1>6, <2>1, Served DEF CopyOK, Differs
  <2>3. CopiesAgree'
    BY <1>2, <1>6, <2>2 DEF MemberInv, CopiesAgree
  <2>4. Known(s, store[s].member)
    BY <1>1, <1>6, SessionsAssumption DEF MemberInv, SignedInIsListed, Known
  <2>5. CopyOK(r)'
    BY <1>1, <1>2, <1>6, <2>4 DEF CopyOK, Differs, Rotating, Known
  <2>6. \A q \in Request \ {r} : sid[q] = s /\ pc[q] = "unregister" => sid[q] \in unlisted
    BY <1>6, Served DEF CopyOK, Differs
  <2>7. QED
    BY <1>3, <1>4, <1>6, <2>1, <2>3, <2>5, <2>6 DEF MemberInv
<1>7. ASSUME NEW s \in Sid, cookie[b] = s, session'[r] = NULL, sid'[r] = s, pc'[r] = "end",
             store' = [store EXCEPT ![s] = NULL]
      PROVE  MemberInv'
  <2>1. \A q \in Request \ {r} : Private(q) => sid[q] # s
    BY <1>7 DEF Private
  <2>2. CopiesAgree'
    BY <1>2, <1>7 DEF MemberInv, CopiesAgree
  <2>3. CopyOK(r)'
    BY <1>7 DEF CopyOK, Differs, Rotating
  <2>4. \A t \in Sid : store'[t] \in {store[t], NULL}
    BY <1>1, <1>7 DEF TypeOK
  <2>5. QED
    BY <1>3, <1>4, <1>7, <2>1, <2>2, <2>3, <2>4 DEF MemberInv
<1>8. QED
  <2>1. CASE \E n \in Sid : /\ Fresh(n) /\ sid' = [sid EXCEPT ![r] = n]
                            /\ session' = [session EXCEPT ![r] = NewSession] /\ UNCHANGED store
    BY <1>1, <1>5, <2>1 DEF TypeOK
  <2>2. CASE /\ cookie[b] # NULL /\ store[cookie[b]] # NULL
             /\ sid' = [sid EXCEPT ![r] = cookie[b]]
             /\ session' = [session EXCEPT ![r] = store[cookie[b]]] /\ UNCHANGED store
    BY <1>1, <1>6, <2>2 DEF TypeOK
  <2>3. CASE /\ cookie[b] # NULL /\ store' = [store EXCEPT ![cookie[b]] = NULL] /\ UNCHANGED kept
             /\ sid' = [sid EXCEPT ![r] = cookie[b]] /\ Goes(r, "end")
    BY <1>1, <1>7, <2>3 DEF TypeOK, kept, Goes
  <2>4. QED
    BY <2>1, <2>2, <2>3 DEF Load

LEMMA MemberHandler ==
  ASSUME MemberInv, TypeInv', NEW r \in Request, Handler(r)
  PROVE  MemberInv'
<1>1. CASE ~SignOut(r)
  <2>1. PICK e \in Session : e.member = session[r].member /\ Keeps(r, e)
    BY <1>1, HandlerKeepsMember DEF MemberInv
  <2>2. PICK l \in {"end", "lock", "revoke", "rotate"} : Goes(r, l)
    BY <1>1, HandlerKeepsMember DEF MemberInv
  <2>3. /\ pc[r] = "handler" /\ session[r] \in Session /\ session[r] # NULL
        /\ UNCHANGED <<store, listed, cookie, sid, unlisted>>
    BY <1>1, HandlerKeepsMember, Served DEF MemberInv, StateOK
  <2>4. /\ session'[r].member = session[r].member /\ session'[r] # NULL /\ pc'[r] = l
        /\ (dirty[r] => dirty'[r])
        /\ \A q \in Request \ {r} :
             pc'[q] = pc[q] /\ session'[q] = session[q] /\ dirty'[q] = dirty[q]
    BY <2>1, <2>2, <2>3, NoSessionAssumption DEF Keeps, Goes, MemberInv, TypeInv, TypeOK
  <2>5. \A q \in Request : Private(q)' <=> Private(q)
    BY <2>3 DEF Private
  <2>6. CopyOK(r)'
    BY <2>2, <2>3, <2>4, <2>5, Served DEF CopyOK, Differs, Rotating, Known
  <2>7. ASSUME NEW q \in Request \ {r}
        PROVE  CopyOK(q)'
    <3>1. Holders(q, sid[q])' = Holders(q, sid[q])
      BY <2>3, <2>4 DEF Holders
    <3>2. \/ who'[q] = who[q] /\ found'[q] = found[q]
          \/ pc[q] \notin {"register", "destroy"}
      BY <1>1, <2>3 DEF Handler, Plain, IssueStepUp, RefuseStepUp, UpdateEmail, IssueRegistration,
           IssueChallenge, VerifyStepUp, RemovePasskey, VerifyRegistration, VerifySignIn,
           ConfirmEmailChange, VerifySignUp, SignsIn, task, MemberInv, TypeInv, TypeOK
    <3>3. QED
      BY <2>3, <2>4, <2>5, <3>1, <3>2, Served DEF CopyOK, Differs, Rotating, Known
  <2>8. SignedInIsListed'
    BY <2>3 DEF MemberInv, SignedInIsListed
  <2>9. CopiesAgree'
    BY <2>3, <2>4 DEF MemberInv, CopiesAgree
  <2>10. QED
    BY <2>6, <2>7, <2>8, <2>9 DEF MemberInv
<1>2. CASE SignOut(r)
  <2>1. /\ pc[r] = "handler" /\ sid[r] \in Sid
        /\ store' = [store EXCEPT ![sid[r]] = NULL] /\ session' = [session EXCEPT ![r] = NULL]
        /\ \E l \in {"end", "unregister"} : Goes(r, l)
        /\ unlisted' = unlisted \cup HeldByOthers(r, {sid[r]})
        /\ UNCHANGED <<listed, cookie, sid, found>>
    BY <1>2, Served DEF SignOut, Posts, Keeps, copies
  <2>2. /\ session'[r] = NULL /\ pc'[r] \in {"end", "unregister"}
        /\ (dirty[r] => dirty'[r])
        /\ \A q \in Request \ {r} : /\ pc'[q] = pc[q] /\ session'[q] = session[q]
                                    /\ dirty'[q] = dirty[q] /\ who'[q] = who[q]
    BY <1>2, <2>1 DEF SignOut, Keeps, Goes, MemberInv, TypeInv, TypeOK
  <2>3. \A s \in Sid : store'[s] \in {store[s], NULL} /\ (s = sid[r] => store'[s] = NULL)
    BY <2>1 DEF MemberInv, TypeInv, TypeOK
  <2>4. \A q \in Request : Private(q)' <=> Private(q)
    BY <2>1 DEF Private
  <2>5. CopyOK(r)'
    <3>1. sid[r] \in unlisted' \/ Holders(r, sid[r]) = {}
      BY <2>1 DEF HeldByOthers
    <3>2. Holders(r, sid[r])' = Holders(r, sid[r])
      BY <2>1, <2>2 DEF Holders
    <3>3. QED
      BY <2>1, <2>2, <2>3, <3>1, <3>2 DEF CopyOK, Differs, Rotating
  <2>6. ASSUME NEW q \in Request \ {r}
        PROVE  CopyOK(q)'
    <3>1. Holders(q, sid[q])' \subseteq Holders(q, sid[q])
      BY <2>1, <2>2 DEF Holders
    <3>2. QED
      BY <2>1, <2>2, <2>3, <2>4, <3>1, Served DEF CopyOK, Differs, Rotating, Known
  <2>7. SignedInIsListed'
    BY <2>1, <2>3 DEF MemberInv, SignedInIsListed, TypeInv, TypeOK
  <2>8. CopiesAgree'
    BY <2>1, <2>2 DEF MemberInv, CopiesAgree
  <2>9. QED
    BY <2>5, <2>6, <2>7, <2>8 DEF MemberInv
<1>3. QED
  BY <1>1, <1>2

\* What others see of a step that neither gives out an id nor takes a copy away.
LEMMA CopyKept ==
  ASSUME MemberInv, NEW q \in Request,
         pc'[q] = pc[q], session'[q] = session[q], sid'[q] = sid[q], who'[q] = who[q],
         found'[q] = found[q], dirty'[q] = dirty[q],
         pc[q] # "idle" => store'[sid[q]] \in {store[sid[q]], NULL},
         pc[q] # "idle" /\ Private(q) => Private(q)',
         session[q] # NULL /\ Known(sid[q], session[q].member) => Known(sid[q], session[q].member)',
         Holders(q, sid[q])' \subseteq Holders(q, sid[q]), unlisted \subseteq unlisted'
  PROVE  CopyOK(q)'
<1>1. CopyOK(q) /\ (session[q] # NULL => pc[q] # "idle")
  BY Served
<1>2. Rotating(q)' <=> Rotating(q)
  BY DEF Rotating
<1>3. Rotating(q) => Private(q)' /\ dirty'[q] /\ pc[q] # "idle"
  BY <1>1 DEF CopyOK, Rotating
<1>4. Differs(q)' => Private(q)' /\ dirty'[q]
  BY <1>1 DEF CopyOK, Differs
<1>5. session[q] # NULL /\ ~Rotating(q) => Known(sid[q], session[q].member)'
  BY <1>1 DEF CopyOK
<1>6. pc[q] = "unregister" =>
        sid[q] \in unlisted' \/ (store'[sid[q]] = NULL /\ Holders(q, sid[q])' = {})
  BY <1>1 DEF CopyOK
<1>7. QED
  BY <1>1, <1>2, <1>3, <1>4, <1>5, <1>6 DEF CopyOK, Known

LEMMA MemberRotate ==
  ASSUME MemberInv, TypeInv', NEW r \in Request, Rotate(r)
  PROVE  MemberInv'
<1>1. PICK n \in Sid : Fresh(n) /\ sid' = [sid EXCEPT ![r] = n]
  BY DEF Rotate
<1>2. /\ pc[r] = "rotate" /\ pc' = [pc EXCEPT ![r] = "save"]
      /\ store' = [store EXCEPT ![sid[r]] = NULL]
      /\ dirty' = [dirty EXCEPT ![r] = TRUE]
      /\ UNCHANGED <<listed, cookie, who, found, session, unlisted>>
  BY DEF Rotate, Goes, task, history
<1>3. /\ pc'[r] = "save" /\ sid'[r] = n /\ dirty'[r]
      /\ \A q \in Request \ {r} : pc'[q] = pc[q] /\ sid'[q] = sid[q] /\ dirty'[q] = dirty[q]
      /\ \A s \in Sid : store'[s] \in {store[s], NULL}
  BY <1>1, <1>2 DEF MemberInv, TypeInv, TypeOK
<1>4. /\ store[n] = NULL /\ \A q \in Request : sid[q] # n
      /\ \A b \in Browser : cookie[b] # n
  BY <1>1 DEF Fresh
<1>5. Private(r)' /\ store'[n] = NULL
  BY <1>2, <1>3, <1>4 DEF Private
<1>6. CopyOK(r)'
  BY <1>3, <1>5 DEF CopyOK, Differs, Rotating
<1>7. ASSUME NEW q \in Request \ {r}
      PROVE  CopyOK(q)'
  <2>1. Private(q) => Private(q)'
    BY <1>2, <1>3, <1>4 DEF Private
  <2>2. Holders(q, sid[q])' \subseteq Holders(q, sid[q])
    BY <1>2, <1>3, <1>4 DEF Holders
  <2>3. Known(sid[q], session[q].member) => Known(sid[q], session[q].member)'
    BY <1>2, <1>3 DEF Known
  <2>4. pc[q] # "idle" => store'[sid[q]] \in {store[sid[q]], NULL}
    BY <1>3, Served
  <2>5. QED
    BY <1>2, <1>3, <2>1, <2>2, <2>3, <2>4, CopyKept
<1>8. SignedInIsListed'
  BY <1>2, <1>3 DEF MemberInv, SignedInIsListed, TypeInv, TypeOK
<1>9. CopiesAgree'
  BY <1>2, <1>3, <1>4 DEF MemberInv, CopiesAgree
<1>10. QED
  BY <1>6, <1>7, <1>8, <1>9 DEF MemberInv

\* The new session is nobody's.
LEMMA MemberRotateFails ==
  ASSUME MemberInv, TypeInv', NEW r \in Request, RotateFails(r)
  PROVE  MemberInv'
<1>1. PICK n \in Sid : Fresh(n) /\ sid' = [sid EXCEPT ![r] = n]
  BY DEF RotateFails
<1>2. /\ pc' = [pc EXCEPT ![r] = "end"] /\ session' = [session EXCEPT ![r] = NewSession]
      /\ dirty' = [dirty EXCEPT ![r] = FALSE]
      /\ UNCHANGED <<store, listed, cookie, who, found, unlisted>>
  BY DEF RotateFails, Goes, task, stored
<1>3. /\ pc'[r] = "end" /\ sid'[r] = n /\ session'[r] = NewSession /\ NewSession.member = NULL
      /\ \A q \in Request \ {r} :
           pc'[q] = pc[q] /\ sid'[q] = sid[q] /\ session'[q] = session[q] /\ dirty'[q] = dirty[q]
  BY <1>1, <1>2 DEF MemberInv, TypeInv, TypeOK, NewSession
<1>4. store[n] = NULL /\ \A q \in Request : sid[q] # n
  BY <1>1 DEF Fresh
<1>5. CopyOK(r)'
  BY <1>2, <1>3, <1>4 DEF CopyOK, Differs, Rotating, Known
<1>6. ASSUME NEW q \in Request \ {r}
      PROVE  CopyOK(q)'
  <2>1. Private(q) => Private(q)'
    BY <1>2, <1>3, <1>4 DEF Private
  <2>2. Holders(q, sid[q])' \subseteq Holders(q, sid[q])
    BY <1>2, <1>3, <1>4 DEF Holders
  <2>3. Known(sid[q], session[q].member) => Known(sid[q], session[q].member)'
    BY <1>2, <1>3 DEF Known
  <2>4. QED
    BY <1>2, <1>3, <2>1, <2>2, <2>3, CopyKept
<1>7. SignedInIsListed'
  BY <1>2 DEF MemberInv, SignedInIsListed
<1>8. CopiesAgree'
  BY <1>3, <1>4 DEF MemberInv, CopiesAgree
<1>9. QED
  BY <1>5, <1>6, <1>7, <1>8 DEF MemberInv

LEMMA MemberSave ==
  ASSUME MemberInv, TypeInv', NEW r \in Request, SaveRotated(r)
  PROVE  MemberInv'
<1>1. /\ pc[r] = "save" /\ pc' = [pc EXCEPT ![r] = "register"]
      /\ store' = [store EXCEPT ![sid[r]] = session[r]]
      /\ Keeps(r, [session[r] EXCEPT !.member = who[r]])
      /\ UNCHANGED <<listed, cookie, sid, who, found, unlisted>>
      /\ session[r] \in Session /\ sid[r] \in Sid /\ Private(r) /\ dirty[r] /\ who[r] \in Member
  BY Served DEF SaveRotated, Goes, rows, copies, task, history, CopyOK, Rotating, StateOK
<1>2. /\ session'[r].member = who[r] /\ dirty'[r] /\ pc'[r] = "register"
      /\ \A q \in Request \ {r} : pc'[q] = pc[q] /\ session'[q] = session[q] /\ dirty'[q] = dirty[q]
      /\ \A s \in Sid : s # sid[r] => store'[s] = store[s]
  BY <1>1, CopyMembers DEF Keeps, MemberInv, TypeInv, TypeOK
<1>3. \A q \in Request : Private(q)' <=> Private(q)
  BY <1>1 DEF Private
<1>4. CopyOK(r)'
  BY <1>1, <1>2, <1>3 DEF CopyOK, Differs, Rotating
<1>5. ASSUME NEW q \in Request \ {r}
      PROVE  CopyOK(q)'
  <2>1. sid[q] # sid[r]
    BY <1>1 DEF Private
  <2>2. Holders(q, sid[q])' \subseteq Holders(q, sid[q])
    BY <1>1, <1>2, <2>1 DEF Holders
  <2>3. Known(sid[q], session[q].member) => Known(sid[q], session[q].member)'
    BY <1>1, <1>2 DEF Known
  <2>4. pc[q] # "idle" => store'[sid[q]] \in {store[sid[q]], NULL}
    BY <1>2, <2>1, Served
  <2>5. QED
    BY <1>1, <1>2, <1>3, <2>2, <2>3, <2>4, CopyKept
<1>6. SignedInIsListed'
  BY <1>1, <1>2 DEF MemberInv, SignedInIsListed, TypeInv, TypeOK, Private
<1>7. CopiesAgree'
  BY <1>1, <1>2 DEF MemberInv, CopiesAgree, Private
<1>8. QED
  BY <1>4, <1>5, <1>6, <1>7 DEF MemberInv

\* Whatever is taken off a list was destroyed, and is remembered if it may
\* come back.
LEMMA MemberDestroy ==
  ASSUME MemberInv, TypeInv', NEW r \in Request, DestroySessions(r)
  PROVE  MemberInv'
<1>1. /\ pc[r] = "destroy" /\ pc' = [pc EXCEPT ![r] = "end"]
      /\ store' = [s \in Sid |-> IF s \in found[r] THEN NULL ELSE store[s]]
      /\ listed' = [listed EXCEPT ![who[r]] = @ \ found[r]]
      /\ unlisted' = unlisted \cup HeldByOthers(r, found[r])
      /\ UNCHANGED <<cookie, sid, session, dirty, who, found>>
      /\ sid[r] \notin found[r] /\ who[r] \in Member
  BY Served DEF DestroySessions, Goes, copies, task, kept, CopyOK, StateOK
<1>2. /\ pc'[r] = "end" /\ \A q \in Request \ {r} : pc'[q] = pc[q]
      /\ \A s \in Sid : store'[s] \in {store[s], NULL}
      /\ \A m \in Member, s \in Sid : s \notin found[r] => (s \in listed'[m] <=> s \in listed[m])
  BY <1>1 DEF MemberInv, TypeInv, TypeOK
<1>3. \A q \in Request \ {r} : session[q] # NULL /\ sid[q] \in found[r] => sid[q] \in unlisted'
  BY <1>1 DEF HeldByOthers, Holders
<1>4. \A q \in Request : session[q] # NULL /\ Known(sid[q], session[q].member)
                           => Known(sid[q], session[q].member)'
  <2> SUFFICES ASSUME NEW q \in Request, session[q] # NULL, Known(sid[q], session[q].member)
               PROVE  Known(sid[q], session[q].member)'
    OBVIOUS
  <2>1. session[q].member \in Member \cup {NULL} /\ sid[q] \in Sid
    BY Served DEF Session
  <2>2. sid[q] \in found[r] => sid[q] \in unlisted'
    BY <1>1, <1>3
  <2>3. QED
    BY <1>1, <1>2, <2>1, <2>2 DEF Known
<1>5. \A q \in Request : Private(q)' <=> Private(q)
  BY <1>1 DEF Private
<1>6. CopyOK(r)'
  BY <1>1, <1>2, <1>4, <1>5, Served DEF CopyOK, Differs, Rotating, Known
<1>7. ASSUME NEW q \in Request \ {r}
      PROVE  CopyOK(q)'
  <2>1. Holders(q, sid[q])' \subseteq Holders(q, sid[q])
    BY <1>1 DEF Holders
  <2>2. pc[q] # "idle" => store'[sid[q]] \in {store[sid[q]], NULL}
    BY <1>2, Served
  <2>3. QED
    BY <1>1, <1>2, <1>4, <1>5, <2>1, <2>2, CopyKept
<1>8. SignedInIsListed'
  <2> SUFFICES ASSUME NEW b \in Browser, NEW s, cookie[b] = s, s # NULL, store'[s] # NULL,
                      store'[s].member # NULL
               PROVE  s \in (listed'[store'[s].member] \cup unlisted')
    BY <1>1 DEF SignedInIsListed
  <2>1. s \in Sid /\ s \notin found[r] /\ store'[s] = store[s] /\ store[s] \in Session
    BY <1>1 DEF MemberInv, TypeInv, TypeOK
  <2>2. store[s].member \in Member /\ s \in (listed[store[s].member] \cup unlisted)
    BY <2>1 DEF MemberInv, SignedInIsListed, Session
  <2>3. QED
    BY <1>1, <1>2, <2>1, <2>2
<1>9. CopiesAgree'
  BY <1>1 DEF MemberInv, CopiesAgree
<1>10. QED
  BY <1>6, <1>7, <1>8, <1>9 DEF MemberInv

\* Registering lists the id of r; signing out takes it off.
LEMMA MemberList ==
  ASSUME MemberInv, TypeInv', NEW r \in Request, Register(r) \/ Unregister(r)
  PROVE  MemberInv'
<1>1. /\ pc[r] \in {"register", "unregister"} /\ pc' = [pc EXCEPT ![r] = "end"]
      /\ UNCHANGED <<store, cookie, sid, session, dirty, who, found>>
      /\ sid[r] \in Sid /\ who[r] \in Member \cup {NULL}
  BY Served DEF Register, Unregister, Goes, copies, task, kept, MemberInv, TypeInv, TypeOK
<1>2. /\ pc'[r] = "end" /\ \A q \in Request \ {r} : pc'[q] = pc[q]
      /\ \A m \in Member, s \in Sid : s # sid[r] => (s \in listed'[m] <=> s \in listed[m])
      /\ unlisted \subseteq unlisted'
  BY <1>1 DEF Register, Unregister, MemberInv, TypeInv, TypeOK, history
<1>3. \A m \in Member : sid[r] \in listed[m] \cup unlisted =>
        \/ sid[r] \in listed'[m] \cup unlisted'
        \/ Unregister(r) /\ Holders(r, sid[r]) = {} /\ sid[r] \notin unlisted
  <2>1. CASE Register(r)
    BY <1>1, <2>1 DEF Register, history, MemberInv, TypeInv, TypeOK
  <2>2. CASE Unregister(r)
    BY <2>2 DEF Unregister, HeldByOthers, MemberInv, TypeInv, TypeOK
  <2>3. QED
    BY <2>1, <2>2
<1>4. \A q \in Request \ {r} : session[q] # NULL /\ Known(sid[q], session[q].member)
                           => Known(sid[q], session[q].member)'
  <2> SUFFICES ASSUME NEW q \in Request \ {r}, session[q] # NULL, Known(sid[q], session[q].member)
               PROVE  Known(sid[q], session[q].member)'
    OBVIOUS
  <2>1. session[q].member \in Member \cup {NULL} /\ sid[q] \in Sid
    BY Served DEF Session
  <2>2. sid[q] = sid[r] => Holders(r, sid[r]) # {}
    BY DEF Holders
  <2>3. QED
    BY <1>1, <1>2, <1>3, <2>1, <2>2 DEF Known
<1>5. \A q \in Request : Private(q)' <=> Private(q)
  BY <1>1 DEF Private
<1>6. CopyOK(r)'
  <2>1. session[r] # NULL => Known(sid[r], session[r].member)'
    <3>1. CASE Register(r)
      <4>1. session[r].member = who[r] /\ who[r] \in Member
        BY <3>1, Served DEF Register, CopyOK, StateOK
      <4>2. sid[r] \in listed'[who[r]]
        BY <3>1, <4>1 DEF Register, MemberInv, TypeInv, TypeOK
      <4>3. QED
        BY <1>1, <4>1, <4>2 DEF Known
    <3>2. CASE Unregister(r)
      BY <3>2, Served DEF Unregister, StateOK
    <3>3. QED
      BY <3>1, <3>2
  <2>2. Differs(r)' => Private(r)' /\ dirty'[r]
    BY <1>1, <1>5, Served DEF CopyOK, Differs
  <2>3. QED
    BY <1>1, <1>2, <2>1, <2>2 DEF CopyOK, Rotating
<1>7. ASSUME NEW q \in Request \ {r}
      PROVE  CopyOK(q)'
  <2>1. Holders(q, sid[q])' \subseteq Holders(q, sid[q])
    BY <1>1 DEF Holders
  <2>2. QED
    BY <1>1, <1>2, <1>4, <1>5, <2>1, CopyKept
<1>8. SignedInIsListed'
  <2> SUFFICES ASSUME NEW b \in Browser, NEW s, cookie[b] = s, s # NULL, store[s] # NULL,
                      store[s].member # NULL
               PROVE  s \in (listed'[store[s].member] \cup unlisted')
    BY <1>1 DEF SignedInIsListed
  <2>1. s \in Sid /\ store[s] \in Session
    BY DEF MemberInv, TypeInv, TypeOK
  <2>2. store[s].member \in Member /\ s \in (listed[store[s].member] \cup unlisted)
    BY <2>1 DEF MemberInv, SignedInIsListed, Session
  <2>3. CASE s # sid[r]
    BY <1>2, <2>1, <2>2, <2>3
  <2>4. CASE s = sid[r]
    <3>1. ~ (Unregister(r) /\ Holders(r, sid[r]) = {} /\ sid[r] \notin unlisted)
      BY <2>4, Served DEF Unregister, CopyOK
    <3>2. QED
      BY <1>3, <2>2, <2>4, <3>1
  <2>5. QED
    BY <2>3, <2>4
<1>9. CopiesAgree'
  BY <1>1 DEF MemberInv, CopiesAgree
<1>10. QED
  BY <1>6, <1>7, <1>8, <1>9 DEF MemberInv

\* Statements and failures that touch no session.
LEMMA MemberMoves ==
  ASSUME MemberInv, TypeInv', NEW r \in Request,
         LockPasskeys(r) \/ DeletePasskey(r) \/ ReadSessions(r) \/ Fails(r)
  PROVE  MemberInv'
<1>1. /\ pc[r] # "idle" /\ \E l \in {"delete", "revoke", "destroy", "end"} : Goes(r, l)
      /\ UNCHANGED <<store, listed, cookie, sid, session, dirty, who>>
      /\ unlisted \subseteq unlisted'
      /\ pc[r] \in {"save", "register"} => sid[r] \in unlisted'
  BY DEF LockPasskeys, DeletePasskey, ReadSessions, Fails, stored, copies, kept, task, history
<1>2. /\ pc'[r] \in {"delete", "revoke", "destroy", "end"}
      /\ \A q \in Request \ {r} : pc'[q] = pc[q]
  BY <1>1 DEF Goes, MemberInv, TypeInv, TypeOK
<1>3. \A q \in Request \ {r} : found'[q] = found[q]
  BY DEF LockPasskeys, DeletePasskey, ReadSessions, Fails, task, MemberInv, TypeInv, TypeOK
<1>4. pc'[r] = "destroy" => sid[r] \notin found'[r]
  BY <1>1, <1>2 DEF LockPasskeys, DeletePasskey, ReadSessions, Fails, Goes, MemberInv,
                    TypeInv, TypeOK
<1>5. \A q \in Request : Private(q)' <=> Private(q)
  BY <1>1 DEF Private
<1>6. \A q \in Request : Known(sid[q], session[q].member) => Known(sid[q], session[q].member)'
  BY <1>1 DEF Known
<1>7. CopyOK(r)'
  <2>1. session[r] # NULL => Known(sid[r], session[r].member)'
    BY <1>1, <1>6, Served DEF CopyOK, Rotating, Known
  <2>2. Differs(r)' => Private(r)' /\ dirty'[r]
    BY <1>1, <1>5, Served DEF CopyOK, Differs
  <2>3. QED
    BY <1>1, <1>2, <1>4, <2>1, <2>2 DEF CopyOK, Rotating
<1>8. ASSUME NEW q \in Request \ {r}
      PROVE  CopyOK(q)'
  <2>1. Holders(q, sid[q])' \subseteq Holders(q, sid[q])
    BY <1>1 DEF Holders
  <2>2. QED
    BY <1>1, <1>2, <1>3, <1>5, <1>6, <2>1, CopyKept
<1>9. SignedInIsListed'
  BY <1>1 DEF MemberInv, SignedInIsListed
<1>10. CopiesAgree'
  BY <1>1 DEF MemberInv, CopiesAgree
<1>11. QED
  BY <1>7, <1>8, <1>9, <1>10 DEF MemberInv

\* A copy that is written back is of the member whose session it was.
LEMMA MemberEnd ==
  ASSUME MemberInv, TypeInv', NEW r \in Request, EndAnswer(r)
  PROVE  MemberInv'
<1>1. /\ pc[r] = "end" /\ pc' = [pc EXCEPT ![r] = "idle"] /\ session' = [session EXCEPT ![r] = NULL]
      /\ sid' = [sid EXCEPT ![r] = NULL] /\ dirty' = [dirty EXCEPT ![r] = FALSE]
      /\ who' = [who EXCEPT ![r] = NULL] /\ found' = [found EXCEPT ![r] = {}]
      /\ store' = IF session[r] # NULL /\ dirty[r]
                    THEN [store EXCEPT ![sid[r]] = session[r]] ELSE store
      /\ cookie' = IF session[r] \notin {NULL, NewSession}
                     THEN [cookie EXCEPT ![from[r]] = sid[r]] ELSE cookie
      /\ UNCHANGED <<listed, unlisted>> /\ sid[r] \in Sid
  BY Served DEF EndAnswer, Goes, history
<1>2. /\ pc'[r] = "idle" /\ session'[r] = NULL /\ sid'[r] = NULL
      /\ \A q \in Request \ {r} :
           /\ pc'[q] = pc[q] /\ session'[q] = session[q] /\ sid'[q] = sid[q]
           /\ dirty'[q] = dirty[q] /\ who'[q] = who[q] /\ found'[q] = found[q]
  BY <1>1 DEF MemberInv, TypeInv, TypeOK
<1>3. /\ \A s \in Sid : store'[s] = store[s]
                 \/ (s = sid[r] /\ session[r] # NULL /\ store'[s] = session[r])
      /\ \A b \in Browser : cookie'[b] = cookie[b] \/ (session[r] # NULL /\ cookie'[b] = sid[r])
  BY <1>1 DEF MemberInv, TypeInv, TypeOK
<1>4. session[r] # NULL => Known(sid[r], session[r].member)
  BY <1>1, Served DEF CopyOK, Rotating
<1>5. CopyOK(r)'
  BY <1>2 DEF CopyOK, Differs, Rotating
<1>6. ASSUME NEW q \in Request \ {r}
      PROVE  CopyOK(q)'
  <2>1. CASE pc[q] = "idle"
    BY <1>2, <2>1, Served DEF CopyOK, Differs, Rotating
  <2>2. CASE pc[q] # "idle" /\ sid[q] # sid[r]
    <3>1. Private(q) => Private(q)'
      BY <1>2, <1>3, <2>2, Served DEF Private
    <3>2. Holders(q, sid[q])' \subseteq Holders(q, sid[q])
      BY <1>2, <2>2 DEF Holders
    <3>3. Known(sid[q], session[q].member) => Known(sid[q], session[q].member)'
      BY <1>1, <1>2 DEF Known
    <3>4. store'[sid[q]] \in {store[sid[q]], NULL}
      BY <1>3, <2>2, Served
    <3>5. QED
      BY <1>1, <1>2, <3>1, <3>2, <3>3, <3>4, CopyKept
  <2>3. CASE pc[q] # "idle" /\ sid[q] = sid[r]
    <3>1. ~Private(q) /\ ~Rotating(q) /\ ~Differs(q)
      BY <2>3, Served DEF Private, CopyOK
    <3>2. session[q] # NULL /\ session[r] # NULL => session[q].member = session[r].member
      BY <2>3 DEF MemberInv, CopiesAgree
    <3>3. ~Differs(q)' /\ ~Rotating(q)'
      BY <1>2, <1>3, <2>3, <3>1, <3>2, Served DEF Differs, Rotating
    <3>4. session[q] # NULL => Known(sid[q], session[q].member)'
      BY <1>1, <1>2, <3>1, Served DEF CopyOK, Known
    <3>5. pc[q] = "unregister" =>
            sid[q] \in unlisted' \/ (store'[sid[q]] = NULL /\ Holders(q, sid[q])' = {})
      <4>1. CASE session[r] # NULL
        BY <1>1, <2>3, <4>1, Served DEF CopyOK, Holders
      <4>2. CASE session[r] = NULL
        <5>1. Holders(q, sid[q])' \subseteq Holders(q, sid[q]) /\ UNCHANGED store
          BY <1>1, <1>2, <4>2 DEF Holders
        <5>2. QED
          BY <1>1, <5>1, Served DEF CopyOK
      <4>3. QED
        BY <4>1, <4>2
    <3>6. pc[q] = "destroy" => sid[q] \notin found[q]
      BY Served DEF CopyOK
    <3>7. pc[q] # "register"
      BY <3>1 DEF Rotating
    <3>8. QED
      BY <1>2, <3>3, <3>4, <3>5, <3>6, <3>7 DEF CopyOK, Known
  <2>4. QED
    BY <2>1, <2>2, <2>3
<1>7. SignedInIsListed'
  <2> SUFFICES ASSUME NEW b \in Browser, NEW s, cookie'[b] = s, s # NULL, store'[s] # NULL
               PROVE  Known(s, store'[s].member)
    BY <1>1 DEF SignedInIsListed, Known
  <2>1. s \in Sid
    BY DEF TypeInv, TypeOK
  <2>2. CASE s = sid[r] /\ session[r] # NULL
    <3>1. dirty[r] => store'[s] = session[r]
      BY <1>1, <2>1, <2>2 DEF MemberInv, TypeInv, TypeOK
    <3>2. ~dirty[r] => store'[s] = store[s] /\ ~Differs(r)
      BY <1>1, <2>2, Served DEF CopyOK
    <3>3. QED
      BY <1>4, <2>2, <3>1, <3>2 DEF Differs
  <2>3. CASE ~ (s = sid[r] /\ session[r] # NULL)
    BY <1>3, <2>1, <2>3 DEF MemberInv, SignedInIsListed, Known
  <2>4. QED
    BY <2>2, <2>3
<1>8. CopiesAgree'
  BY <1>2 DEF MemberInv, CopiesAgree
<1>9. QED
  BY <1>5, <1>6, <1>7, <1>8 DEF MemberInv

LEMMA MemberCrash ==
  ASSUME MemberInv, TypeInv', Crash
  PROVE  MemberInv'
<1>1. /\ \A q \in Request : pc'[q] = "idle" /\ session'[q] = NULL
      /\ UNCHANGED <<store, listed, cookie, unlisted>>
  BY DEF Crash, stored
<1>2. \A q \in Request : CopyOK(q)'
  BY <1>1 DEF CopyOK, Differs, Rotating
<1>3. SignedInIsListed' /\ CopiesAgree'
  BY <1>1 DEF MemberInv, SignedInIsListed, CopiesAgree
<1>4. QED
  BY <1>2, <1>3 DEF MemberInv

LEMMA MemberExpires ==
  ASSUME MemberInv, TypeInv', NEW s \in Sid, Expires(s)
  PROVE  MemberInv'
<1>1. /\ \A t \in Sid : store'[t] \in {store[t], NULL}
      /\ UNCHANGED <<listed, cookie, pc, session, dirty, sid, who, found, unlisted>>
  BY DEF Expires, rows, kept, copies, task, MemberInv, TypeInv, TypeOK
<1>2. ASSUME NEW q \in Request
      PROVE  CopyOK(q)'
  <2>1. Holders(q, sid[q])' \subseteq Holders(q, sid[q])
    BY <1>1 DEF Holders
  <2>2. Private(q) => Private(q)'
    BY <1>1 DEF Private
  <2>3. Known(sid[q], session[q].member) => Known(sid[q], session[q].member)'
    BY <1>1 DEF Known
  <2>4. pc[q] # "idle" => store'[sid[q]] \in {store[sid[q]], NULL}
    BY <1>1, Served
  <2>5. QED
    BY <1>1, <2>1, <2>2, <2>3, <2>4, CopyKept
<1>3. SignedInIsListed' /\ CopiesAgree'
  BY <1>1 DEF MemberInv, SignedInIsListed, CopiesAgree, TypeInv, TypeOK
<1>4. QED
  BY <1>2, <1>3 DEF MemberInv

LEMMA MemberStep == MemberInv /\ [Next]_vars => MemberInv'
<1> SUFFICES ASSUME MemberInv, [Next]_vars
             PROVE  MemberInv'
  OBVIOUS
<1>1. TypeInv'
  BY TypeStep DEF MemberInv
<1>2. CASE UNCHANGED vars
  <2>1. UNCHANGED <<store, listed, cookie, pc, session, dirty, sid, who, found, unlisted>>
    BY <1>2 DEF vars, stored, kept, copies, task, history
  <2>2. QED
    BY <1>1, <2>1 DEF MemberInv, SignedInIsListed, CopiesAgree, CopyOK, Differs, Rotating, Private,
                      Known, Holders
<1>3. ASSUME NEW r \in Request, Statement(r)
      PROVE  MemberInv'
  BY <1>1, <1>3, MemberRotate, MemberSave, MemberDestroy, MemberList, MemberMoves DEF Statement
<1>4. CASE Next
  BY <1>1, <1>3, <1>4, MemberLoad, MemberHandler, MemberMoves, MemberRotateFails, MemberEnd,
     MemberCrash, MemberExpires
     DEF Next
<1>5. QED
  BY <1>2, <1>4

LEMMA MemberStarts == Init => MemberInv
<1> SUFFICES ASSUME Init
             PROVE  MemberInv
  OBVIOUS
<1>1. \A q \in Request : session[q] = NULL /\ pc[q] = "idle"
  BY DEF Init
<1>2. TypeInv
  BY TypeStarts
<1>3. SignedInIsListed
  BY <1>2 DEF Init, SignedInIsListed, TypeInv, TypeOK, Session
<1>4. QED
  BY <1>1, <1>2, <1>3 DEF MemberInv, CopiesAgree, CopyOK, Differs, Rotating

\* Every session that a browser is signed in with is on its member's list,
\* where a revocation finds it (session-registry.service.ts:12), but for those
\* that a request wrote back or the store refused to list.
THEOREM SignedInAlwaysListed == Spec => []SignedInIsListed
<1>1. MemberInv => SignedInIsListed
  BY DEF MemberInv
<1>2. QED
  BY MemberStarts, MemberStep, <1>1, PTL DEF Spec

\* Only a session that no browser knows is written with a member it had not.
LEMMA RotationStep ==
  ASSUME MemberInv, [Next]_vars, NEW b \in Browser, NEW s, cookie[b] = s, s # NULL,
         store[s] # NULL, store[s].member = NULL, store'[s] # NULL
  PROVE  store'[s].member = NULL
<1>1. s \in Sid
  BY DEF MemberInv, TypeInv, TypeOK
<1>2. CASE store'[s] = store[s]
  BY <1>2
<1>3. ASSUME NEW r \in Request, Load(r, b) \/ \E c \in Browser : Load(r, c)
      PROVE  store'[s] \in {store[s], NULL}
  BY <1>1, <1>3 DEF Load, MemberInv, TypeInv, TypeOK
<1>4. ASSUME NEW r \in Request, Handler(r)
      PROVE  store'[s] \in {store[s], NULL}
  <2>1. CASE SignOut(r)
    BY <1>1, <2>1 DEF SignOut, MemberInv, TypeInv, TypeOK
  <2>2. CASE ~SignOut(r)
    BY <1>4, <2>2, HandlerKeepsMember DEF MemberInv
  <2>3. QED
    BY <2>1, <2>2
<1>5. ASSUME NEW r \in Request, Statement(r)
      PROVE  store'[s] \in {store[s], NULL}
  <2>1. CASE SaveRotated(r)
    <3>1. Private(r)
      BY <2>1, Served DEF SaveRotated, CopyOK, Rotating
    <3>2. s # sid[r]
      BY <3>1 DEF Private
    <3>3. QED
      BY <1>1, <2>1, <3>2 DEF SaveRotated, MemberInv, TypeInv, TypeOK
  <2>2. CASE DestroySessions(r) \/ Rotate(r)
    BY <1>1, <2>2 DEF DestroySessions, Rotate, MemberInv, TypeInv, TypeOK
  <2>3. CASE LockPasskeys(r) \/ DeletePasskey(r) \/ ReadSessions(r) \/ Register(r) \/ Unregister(r)
    BY <2>3 DEF LockPasskeys, DeletePasskey, ReadSessions, Register, Unregister, stored
  <2>4. QED
    BY <1>5, <2>1, <2>2, <2>3 DEF Statement
<1>6. ASSUME NEW r \in Request, EndAnswer(r), store'[s] # store[s]
      PROVE  store'[s].member = NULL
  <2>1. s = sid[r] /\ session[r] # NULL /\ store'[s] = session[r]
    BY <1>1, <1>6 DEF EndAnswer, MemberInv, TypeInv, TypeOK
  <2>2. ~Private(r)
    BY <2>1 DEF Private
  <2>3. ~Differs(r)
    BY <2>2, Served DEF CopyOK
  <2>4. QED
    BY <2>1, <2>3 DEF Differs
<1>7. ASSUME (\E r \in Request : Fails(r) \/ RotateFails(r)) \/ Crash \/ \E t \in Sid : Expires(t)
      PROVE  store'[s] \in {store[s], NULL}
  BY <1>1, <1>7 DEF Fails, RotateFails, Crash, Expires, stored, MemberInv, TypeInv, TypeOK
<1>8. CASE UNCHANGED vars
  BY <1>2, <1>8 DEF vars, stored
<1>9. CASE Next
  BY <1>2, <1>3, <1>4, <1>5, <1>6, <1>7, <1>9 DEF Next
<1>10. QED
  BY <1>8, <1>9

\* No session that a browser held before it signed in is ever signed in
\* (session-rotation.service.ts:5).
THEOREM SignInAlwaysRotates == Spec => SignInRotates
<1>1. MemberInv /\ [Next]_vars =>
        [\A b \in Browser :
           LET s == cookie[b] IN
           s # NULL /\ store[s] # NULL /\ store[s].member = NULL /\ store'[s] # NULL
             => store'[s].member = NULL]_vars
  BY RotationStep
<1>2. QED
  BY MemberStarts, MemberStep, <1>1, PTL DEF Spec, SignInRotates
=============================================================================
