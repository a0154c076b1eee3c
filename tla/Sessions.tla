------------------------------ MODULE Sessions ------------------------------
(***************************************************************************)
(* Sessions, passkeys and step-up proofs, request by request.  A request   *)
(* works on the copy of its session that it loaded; the copy is written    *)
(* back when the answer ends, if the request changed it, whatever became   *)
(* of the stored session meanwhile.  Signing in rotates the id and lists   *)
(* it under the member, so that removing a passkey, or confirming a change *)
(* of address, can destroy the other sessions of that member.              *)
(*                                                                         *)
(* A challenge is only whether it is pending; a proof has an identity.     *)
(* Whether either is too old, and what a check of signatures answers, is a *)
(* choice.                                                                 *)
(***************************************************************************)
EXTENDS Naturals, FiniteSets

CONSTANTS
  Member, Browser,
  Request,      \* requests in flight at once
  Sid,          \* session ids; bounds how many are in use
  Credential,   \* passkeys that authenticators can mint
  Proof,        \* step-up proofs; bounds how many are ever given
  MaxRequests,  \* bounds the requests ever sent
  MaxFaults,    \* bounds the commands that fail, the crashes and the expiries
  NULL

ASSUME SessionsAssumption ==
  /\ IsFiniteSet(Credential) /\ MaxRequests \in Nat /\ MaxFaults \in Nat
  /\ NULL \notin Member \cup Sid \cup Credential \cup Proof

VARIABLES
  store,     \* the session stored under each id
  listed,    \* the ids listed for each member
  owner,     \* the member of each webauthn_credential row; NULL: no row
  joined,    \* the members that have a row
  cookie,    \* the id that each browser sends
  pc, from,  \* what each request does next; the browser it came from
  sid, session, dirty,  \* its session id, its copy, whether it changed the copy
  who, passkey, found,   \* whom and what it is about; what it last read
  sent, faults,  \* requests so far; faults so far
  served,    \* how many actions each proof has let through
  shared,    \* the proofs that two requests carried at once, and those that
             \* a crash left in the store
  unlisted   \* the ids taken off a list while a request held their session,
             \* and those that could not be listed

stored == <<store, listed, cookie>>
rows == <<owner, joined>>
copies == <<from, sid>>
kept == <<session, dirty>>
task == <<who, passkey, found>>
history == <<sent, faults, served, shared, unlisted>>
vars == <<stored, rows, pc, kept, copies, task, history>>

Ceremony == {"sign_in", "sign_up", "register"}

\* stepUpFor is the step-up challenge, by the member it was issued to; saved,
\* that the session has been changed, as every stored one has.
Session ==
  [member : Member \cup {NULL}, pending : SUBSET Ceremony,
   stepUpFor : Member \cup {NULL}, proof : Proof \cup {NULL},
   saved : BOOLEAN]

ASSUME NoSessionAssumption == NULL \notin Session

NewSession ==
  [member |-> NULL, pending |-> {}, stepUpFor |-> NULL, proof |-> NULL,
   saved |-> FALSE]

\* Every member that has a row has a passkey.
HavePasskey(members) == \A m \in members : \E c \in Credential : owner[c] = m

\* A stored session of m, with the proof p if it is one.
SessionOf(m, p) == [NewSession EXCEPT !.member = m, !.proof = p, !.saved = TRUE]

\* p waits to be used in the session stored under s.
Stored(p, s) == s # NULL /\ store[s] # NULL /\ store[s].proof = p

\* Some members have joined; some browsers are signed in, one may just have verified
\* a step-up.
Init ==
  /\ joined \in SUBSET Member /\ owner \in [Credential -> joined \cup {NULL}]
  /\ HavePasskey(joined)
  /\ store \in [Sid -> {NULL} \cup {SessionOf(m, p) : m \in joined, p \in Proof \cup {NULL}}]
  /\ \A p \in Proof, s, t \in Sid : Stored(p, s) /\ Stored(p, t) => s = t
  /\ cookie \in [Browser -> Sid \cup {NULL}]
  /\ \A s \in Sid : Cardinality({b \in Browser : cookie[b] = s}) = IF store[s] = NULL THEN 0 ELSE 1
  /\ listed = [m \in Member |-> {s \in Sid : store[s] # NULL /\ store[s].member = m}]
  /\ pc = [r \in Request |-> "idle"] /\ from = [r \in Request |-> NULL]
  /\ sid = from /\ session = from /\ who = from /\ passkey = from
  /\ found = [r \in Request |-> {}] /\ dirty = [r \in Request |-> FALSE]
  /\ sent = 0 /\ faults = 0 /\ served = [p \in Proof |-> 0] /\ shared = {}
  /\ unlisted = {}

-----------------------------------------------------------------------------
(* A request and its copy.                                                 *)

Goes(r, label) == pc' = [pc EXCEPT ![r] = label]
Keeps(r, copy) ==
  /\ session' = [session EXCEPT ![r] = copy]
  /\ dirty' = [dirty EXCEPT ![r] = @ \/ copy # session[r]]

\* The handler is done with this copy.
Answers(r, copy) == Goes(r, "end") /\ Keeps(r, copy)

\* Ids are random: a new one is nowhere yet.
Fresh(s) ==
  /\ store[s] = NULL /\ s \notin UNION {listed[m] : m \in Member} \cup unlisted
  /\ \A b \in Browser : cookie[b] # s
  /\ \A r \in Request : sid[r] # s /\ s \notin found[r]

\* The other requests that hold the session of id.
Holders(r, id) == {q \in Request \ {r} : sid[q] = id /\ session[q] # NULL}
HeldByOthers(r, ids) == {id \in ids : Holders(r, id) # {}}

\* express-session generates a session, or loads the cookie's;
\* absoluteSessionTtl stamps one that comes back the first time, or destroys
\* it past its cap.
Load(r, b) ==
  LET s == cookie[b]
      copy == IF s = NULL THEN NULL ELSE store[s]
  IN
  /\ pc[r] = "idle" /\ sent < MaxRequests /\ sent' = sent + 1
  /\ from' = [from EXCEPT ![r] = b]
  /\ \/ /\ copy = NULL
        /\ \E n \in Sid : Fresh(n) /\ sid' = [sid EXCEPT ![r] = n]
        /\ session' = [session EXCEPT ![r] = NewSession]
        /\ Goes(r, "handler") /\ UNCHANGED <<store, dirty, shared>>
     \/ /\ copy # NULL
        /\ sid' = [sid EXCEPT ![r] = s]
        /\ shared' = IF Holders(r, s) = {} THEN shared ELSE shared \cup ({copy.proof} \ {NULL})
        /\ \/ /\ session' = [session EXCEPT ![r] = copy] /\ Goes(r, "handler")
              /\ \E stamped \in BOOLEAN : dirty' = [dirty EXCEPT ![r] = stamped]
              /\ UNCHANGED store
           \/ /\ store' = [store EXCEPT ![s] = NULL]
              /\ Goes(r, "end") /\ UNCHANGED kept
  /\ UNCHANGED <<listed, cookie, rows, task, faults, served, unlisted>>

\* A mutation passes the CSRF check: its token names a stored session.
Posts(r) == pc[r] = "handler" /\ session[r].saved
SignedIn(r) == Posts(r) /\ session[r].member # NULL

\* The copy is saved if it changed, and the cookie is set; the cookie of a
\* session left alone is renewed.
EndAnswer(r) ==
  /\ pc[r] = "end"
  /\ Goes(r, "idle")
  /\ IF session[r] # NULL /\ dirty[r]
     THEN store' = [store EXCEPT ![sid[r]] = session[r]] ELSE UNCHANGED store
  /\ IF session[r] \notin {NULL, NewSession}
     THEN cookie' = [cookie EXCEPT ![from[r]] = sid[r]] ELSE UNCHANGED cookie
  /\ from' = [from EXCEPT ![r] = NULL] /\ sid' = [sid EXCEPT ![r] = NULL]
  /\ session' = [session EXCEPT ![r] = NULL] /\ dirty' = [dirty EXCEPT ![r] = FALSE]
  /\ who' = [who EXCEPT ![r] = NULL] /\ passkey' = [passkey EXCEPT ![r] = NULL]
  /\ found' = [found EXCEPT ![r] = {}]
  /\ UNCHANGED <<listed, rows, history>>

-----------------------------------------------------------------------------
(* Handlers that only change the copy.                                     *)

\* A query, a refusal, or the mint of a CSRF token, which keeps a new session.
Plain(r) ==
  /\ pc[r] = "handler"
  /\ \/ Answers(r, session[r])
     \/ Answers(r, [session[r] EXCEPT !.saved = TRUE])
  /\ UNCHANGED <<stored, rows, copies, task, history>>

\* Options of a ceremony that needs no member.
IssueChallenge(r, ceremony) ==
  /\ Posts(r) /\ ceremony \in {"sign_in", "sign_up"}
  /\ Answers(r, [session[r] EXCEPT !.pending = @ \cup {ceremony}])
  /\ UNCHANGED <<stored, rows, copies, task, history>>

IssueStepUp(r) ==
  /\ SignedIn(r)
  /\ Answers(r, [session[r] EXCEPT !.stepUpFor = session[r].member])
  /\ UNCHANGED <<stored, rows, copies, task, history>>

\* The challenge is taken, whatever the outcome.
VerifyStepUp(r, c) ==
  LET taken == [session[r] EXCEPT !.stepUpFor = NULL] IN
  /\ SignedIn(r)
  /\ \/ Answers(r, taken)
     \/ /\ session[r].stepUpFor = session[r].member /\ owner[c] = session[r].member
        /\ \E p \in Proof :
             /\ served[p] = 0 /\ p \notin shared
             /\ \A q \in Request : session[q] # NULL => session[q].proof # p
             /\ \A s \in Sid : ~Stored(p, s)
             /\ Answers(r, [taken EXCEPT !.proof = p])
  /\ UNCHANGED <<stored, rows, copies, task, history>>

-----------------------------------------------------------------------------
(* Actions that a step-up proof lets through.                              *)

\* Mutant: the proof stays for the rest of its five minutes.
SpentLater(r) == session[r]

\* The copy without its proof.
Spent(r) == [session[r] EXCEPT !.proof = NULL]

ConsumeStepUp(r) ==
  /\ SignedIn(r) /\ session[r].proof # NULL
  /\ served' = [served EXCEPT ![session[r].proof] = @ + 1]
  /\ UNCHANGED <<sent, faults, shared, unlisted>>

\* No proof, or one that is too old: it is spent all the same.
RefuseStepUp(r) ==
  /\ SignedIn(r) /\ Answers(r, Spent(r))
  /\ UNCHANGED <<stored, rows, copies, task, history>>

UpdateEmail(r) ==
  /\ ConsumeStepUp(r) /\ Answers(r, Spent(r))
  /\ UNCHANGED <<stored, rows, copies, task>>

IssueRegistration(r) ==
  /\ ConsumeStepUp(r)
  /\ Answers(r, [Spent(r) EXCEPT !.pending = @ \cup {"register"}])
  /\ UNCHANGED <<stored, rows, copies, task>>

\* A transaction opens; its first statement will see these rows.
RemovePasskey(r, c) ==
  /\ ConsumeStepUp(r) /\ Keeps(r, Spent(r)) /\ Goes(r, "lock")
  /\ who' = [who EXCEPT ![r] = session[r].member]
  /\ passkey' = [passkey EXCEPT ![r] = c]
  /\ found' = [found EXCEPT ![r] = {d \in Credential : owner[d] = session[r].member}]
  /\ UNCHANGED <<stored, rows, copies>>

-----------------------------------------------------------------------------
(* Removing a passkey.                                                     *)

\* Mutant: the rows are read without FOR UPDATE.
ReadPasskeys(r) ==
  /\ pc[r] = "lock"
  /\ Goes(r, IF passkey[r] \in found[r] /\ Cardinality(found[r]) > 1 THEN "delete" ELSE "end")
  /\ UNCHANGED <<stored, rows, copies, task, kept, history>>

\* SELECT ... FOR UPDATE waits for the rows that another removal locked, and
\* returns those it saw that are still there.
LockPasskeys(r) ==
  LET owned == {c \in found[r] : owner[c] = who[r]} IN
  /\ pc[r] = "lock"
  /\ \A q \in Request \ {r} : pc[q] = "delete" => found[q] \cap found[r] = {}
  /\ IF passkey[r] \in owned /\ Cardinality(owned) > 1
     THEN Goes(r, "delete") /\ found' = [found EXCEPT ![r] = owned]
     ELSE Goes(r, "end") /\ UNCHANGED found
  /\ UNCHANGED <<stored, rows, copies, who, passkey, kept, history>>

DeletePasskey(r) ==
  /\ pc[r] = "delete" /\ Goes(r, "revoke")
  /\ owner' = [owner EXCEPT ![passkey[r]] = NULL]
  /\ UNCHANGED <<stored, joined, copies, task, kept, history>>

\* The link of an e-mail change proved good: whoever sent it, its member's
\* other sessions go.
ConfirmEmailChange(r, m) ==
  /\ Posts(r) /\ m \in joined
  /\ Goes(r, "revoke") /\ who' = [who EXCEPT ![r] = m]
  /\ UNCHANGED <<stored, rows, copies, passkey, found, kept, history>>

\* revokeOthers reads the list, ...
ReadSessions(r) ==
  /\ pc[r] = "revoke"
  /\ found' = [found EXCEPT ![r] = listed[who[r]] \ {sid[r]}]
  /\ Goes(r, IF listed[who[r]] \subseteq {sid[r]} THEN "end" ELSE "destroy")
  /\ UNCHANGED <<stored, rows, copies, who, passkey, kept, history>>

\* ... then destroys what it listed, in one MULTI.
DestroySessions(r) ==
  /\ pc[r] = "destroy" /\ Goes(r, "end")
  /\ store' = [s \in Sid |-> IF s \in found[r] THEN NULL ELSE store[s]]
  /\ listed' = [listed EXCEPT ![who[r]] = @ \ found[r]]
  /\ unlisted' = unlisted \cup HeldByOthers(r, found[r])
  /\ UNCHANGED <<cookie, rows, copies, task, kept, sent, faults, served, shared>>

-----------------------------------------------------------------------------
(* Registering, signing in, up and out.                                    *)

Taken(r, ceremony) == [session[r] EXCEPT !.pending = @ \ {ceremony}]

\* A credential that some row has already is refused by the unique index.
VerifyRegistration(r, c) ==
  /\ SignedIn(r) /\ Answers(r, Taken(r, "register"))
  /\ \/ UNCHANGED owner
     \/ /\ "register" \in session[r].pending /\ owner[c] = NULL
        /\ owner' = [owner EXCEPT ![c] = session[r].member]
  /\ UNCHANGED <<stored, joined, copies, task, history>>

\* The session is to be m's, under another id.
SignsIn(r, m) == Goes(r, "rotate") /\ who' = [who EXCEPT ![r] = m]

VerifySignIn(r, c) ==
  /\ Posts(r) /\ Keeps(r, Taken(r, "sign_in"))
  /\ \/ Goes(r, "end") /\ UNCHANGED who
     \/ "sign_in" \in session[r].pending /\ owner[c] # NULL /\ SignsIn(r, owner[c])
  /\ UNCHANGED <<stored, rows, copies, passkey, found, history>>

\* The member and its first passkey in one transaction.
VerifySignUp(r, m, c) ==
  /\ Posts(r) /\ Keeps(r, Taken(r, "sign_up"))
  /\ \/ Goes(r, "end") /\ UNCHANGED <<who, rows>>
     \/ /\ "sign_up" \in session[r].pending /\ m \notin joined /\ owner[c] = NULL
        /\ joined' = joined \cup {m} /\ owner' = [owner EXCEPT ![c] = m]
        /\ SignsIn(r, m)
  /\ UNCHANGED <<stored, copies, passkey, found, history>>

\* Mutant: the session stays under the id it had before.
RotateNothing(r) ==
  /\ pc[r] = "rotate" /\ Goes(r, "save")
  /\ UNCHANGED <<stored, rows, copies, task, kept, history>>

\* regenerate destroys the session and makes one of a new id, ...
Rotate(r) ==
  /\ pc[r] = "rotate" /\ Goes(r, "save")
  /\ store' = [store EXCEPT ![sid[r]] = NULL]
  /\ \E n \in Sid : Fresh(n) /\ sid' = [sid EXCEPT ![r] = n]
  /\ dirty' = [dirty EXCEPT ![r] = TRUE]
  /\ UNCHANGED <<listed, cookie, from, rows, task, session, history>>

\* ... which is saved with the data it had, and only then becomes the member's.
SaveRotated(r) ==
  /\ pc[r] = "save" /\ Goes(r, "register")
  /\ store' = [store EXCEPT ![sid[r]] = session[r]]
  /\ Keeps(r, [session[r] EXCEPT !.member = who[r]])
  /\ UNCHANGED <<listed, cookie, rows, copies, task, history>>

\* Mutant: the list gets the id the browser came with.
RegisterCookie(r) ==
  /\ pc[r] = "register" /\ Goes(r, "end")
  /\ listed' = [listed EXCEPT ![who[r]] = @ \cup ({cookie[from[r]]} \ {NULL})]
  /\ UNCHANGED <<store, cookie, rows, copies, task, kept, history>>

Register(r) ==
  /\ pc[r] = "register" /\ Goes(r, "end")
  /\ listed' = [listed EXCEPT ![who[r]] = @ \cup {sid[r]}]
  /\ UNCHANGED <<store, cookie, rows, copies, task, kept, history>>

SignOut(r) ==
  /\ Posts(r)
  /\ store' = [store EXCEPT ![sid[r]] = NULL] /\ Keeps(r, NULL)
  /\ who' = [who EXCEPT ![r] = session[r].member]
  /\ Goes(r, IF session[r].member = NULL THEN "end" ELSE "unregister")
  /\ unlisted' = unlisted \cup HeldByOthers(r, {sid[r]})
  /\ UNCHANGED <<listed, cookie, rows, copies, passkey, found, sent, faults, served, shared>>

Unregister(r) ==
  /\ pc[r] = "unregister" /\ Goes(r, "end")
  /\ listed' = [listed EXCEPT ![who[r]] = @ \ {sid[r]}]
  /\ unlisted' = unlisted \cup HeldByOthers(r, {sid[r]})
  /\ UNCHANGED <<store, cookie, rows, copies, task, kept, sent, faults, served, shared>>

-----------------------------------------------------------------------------
(* What may go wrong.                                                      *)

\* A command of the store or a statement fails: the request is answered by
\* an error, and its copy saved like any other.
Fails(r) ==
  /\ pc[r] \in {"lock", "delete", "revoke", "destroy", "save", "register", "unregister"}
  /\ faults < MaxFaults /\ faults' = faults + 1
  /\ Goes(r, "end")
  /\ unlisted' = IF pc[r] \in {"save", "register"} THEN unlisted \cup {sid[r]} ELSE unlisted
  /\ UNCHANGED <<stored, rows, copies, task, kept, sent, served, shared>>

\* The session to rotate cannot be destroyed: the request, which fails, ends
\* with a new one.
RotateFails(r) ==
  /\ pc[r] = "rotate" /\ Goes(r, "end")
  /\ faults < MaxFaults /\ faults' = faults + 1
  /\ \E n \in Sid : Fresh(n) /\ sid' = [sid EXCEPT ![r] = n]
  /\ session' = [session EXCEPT ![r] = NewSession] /\ dirty' = [dirty EXCEPT ![r] = FALSE]
  /\ UNCHANGED <<stored, from, rows, task, sent, served, shared, unlisted>>

\* The process dies with the requests it served.
Crash ==
  /\ faults < MaxFaults /\ faults' = faults + 1
  /\ pc' = [r \in Request |-> "idle"]
  /\ from' = [r \in Request |-> NULL] /\ sid' = from' /\ session' = from'
  /\ who' = from' /\ passkey' = from'
  /\ found' = [r \in Request |-> {}] /\ dirty' = [r \in Request |-> FALSE]
  /\ shared' = shared \cup {p \in Proof : \E q \in Request : Stored(p, sid[q])}
  /\ UNCHANGED <<stored, rows, sent, served, unlisted>>

\* A session that no request came for, until the idle timeout.
Expires(s) ==
  /\ store[s] # NULL /\ store' = [store EXCEPT ![s] = NULL]
  /\ faults < MaxFaults /\ faults' = faults + 1
  /\ UNCHANGED <<listed, cookie, rows, pc, kept, copies, task>>
  /\ UNCHANGED <<sent, served, shared, unlisted>>

Handler(r) ==
  \/ Plain(r) \/ IssueStepUp(r) \/ RefuseStepUp(r) \/ UpdateEmail(r) \/ IssueRegistration(r)
  \/ SignOut(r)
  \/ \E ceremony \in Ceremony : IssueChallenge(r, ceremony)
  \/ \E c \in Credential : \/ VerifyStepUp(r, c) \/ RemovePasskey(r, c)
                           \/ VerifyRegistration(r, c) \/ VerifySignIn(r, c)
  \/ \E m \in Member : ConfirmEmailChange(r, m) \/ \E c \in Credential : VerifySignUp(r, m, c)

Statement(r) ==
  \/ LockPasskeys(r) \/ DeletePasskey(r) \/ ReadSessions(r) \/ DestroySessions(r)
  \/ Rotate(r) \/ SaveRotated(r) \/ Register(r) \/ Unregister(r)

Next ==
  \/ \E r \in Request :
       \/ \E b \in Browser : Load(r, b)
       \/ Handler(r) \/ Statement(r) \/ Fails(r) \/ RotateFails(r) \/ EndAnswer(r)
  \/ \E s \in Sid : Expires(s)
  \/ Crash

Spec == Init /\ [][Next]_vars

-----------------------------------------------------------------------------
(* Properties.                                                             *)

TypeOK ==
  /\ store \in [Sid -> Session \cup {NULL}] /\ listed \in [Member -> SUBSET Sid]
  /\ joined \subseteq Member /\ owner \in [Credential -> Member \cup {NULL}]
  /\ cookie \in [Browser -> Sid \cup {NULL}]
  /\ pc \in [Request -> {"idle", "handler", "end", "lock", "delete", "revoke", "destroy",
                         "rotate", "save", "register", "unregister"}]
  /\ from \in [Request -> Browser \cup {NULL}] /\ sid \in [Request -> Sid \cup {NULL}]
  /\ session \in [Request -> Session \cup {NULL}]
  /\ dirty \in [Request -> BOOLEAN] /\ sent \in 0 .. MaxRequests
  /\ who \in [Request -> Member \cup {NULL}]
  /\ passkey \in [Request -> Credential \cup {NULL}]
  /\ found \in [Request -> SUBSET (Credential \cup Sid)]
  /\ faults \in 0 .. MaxFaults /\ served \in [Proof -> Nat]
  /\ shared \subseteq Proof /\ unlisted \subseteq Sid

\* No order of removals, registrations and sign-ups leaves a member without a
\* passkey: there is no other way in (webauthn-credentials.service.ts:57).
PasskeyKept == HavePasskey(joined)

\* A session that a browser is signed in with is on its member's list, where a
\* revocation finds it (session-registry.service.ts:12), unless a request that
\* already held it wrote it back, or the store refused to list it.
SignedInIsListed ==
  \A b \in Browser :
    LET s == cookie[b] IN
    s # NULL /\ store[s] # NULL /\ store[s].member # NULL
      => s \in listed[store[s].member] \cup unlisted

\* An id that a browser held before it signed in is never signed in
\* (session-rotation.service.ts:5).
SignInRotates ==
  [][\A b \in Browser :
       LET s == cookie[b] IN
       s # NULL /\ store[s] # NULL /\ store[s].member = NULL /\ store'[s] # NULL
         => store'[s].member = NULL]_vars

\* A step-up proof lets a second action through only if a request loaded its
\* session while another held it, or the process died before it saved it
\* (consume-step-up.ts:22): in turn, whatever fails, no request uses it again.
StepUpServesInTurn == \A p \in Proof : served[p] <= 1 \/ p \in shared
=============================================================================
