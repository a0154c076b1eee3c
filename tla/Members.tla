------------------------------ MODULE Members -------------------------------
(***************************************************************************)
(* The addresses of members, and the mail that proves them.  Registering   *)
(* only queues a request, that a worker turns into one mail: a sign-up     *)
(* link, or a notice if the address has a member.  A change of address is  *)
(* pending until a link sent to the new address is followed.  Members and  *)
(* the worker interleave, statement by statement; a unique index on the    *)
(* address has the last word.                                              *)
(*                                                                         *)
(* Links expire, are followed twice or never: following one is a choice.   *)
(***************************************************************************)
EXTENDS Naturals, Sequences, FiniteSets

CONSTANTS
  Member, Email,
  FirstEmail,  \* the addresses that the members may have at first
  Change,      \* changes and confirmations of addresses in flight at once
  ATTEMPTS,    \* how often a job is tried
  MaxRequests, \* bounds the registrations, changes and confirmations
  MaxFaults,   \* bounds the mails that are refused and the crashes
  NULL

\* Members start with addresses of their own, or none yet.
MembersAssumption ==
  /\ NULL \notin Email
  /\ FirstEmail \subseteq [Member -> Email \cup {NULL}]
  /\ \A first \in FirstEmail, m, n \in Member :
       m # n /\ first[m] = first[n] => first[m] = NULL

VARIABLES
  email, pending, version,  \* the member rows; email NULL: no row
  queue,   \* the jobs that wait
  job,     \* what the worker is at: [job, owner], or NULL
  inbox,   \* the mail that each address received
  owed,    \* history: the registrations whose mail was neither sent nor given up
  change,  \* the state of each change or confirmation
  requests, faults

rows == <<email, pending, version>>
mail == <<queue, job, inbox, owed>>
vars == <<rows, mail, change, requests, faults>>

\* Mail that proves nothing; a link proves the address it is sent to.
Notice == [type |-> "notice"]

Idle == [pc |-> "idle"]

\* A job, and the registration that it answers: 0 if it answers none.
Job(kind, to, content, asked) ==
  [kind |-> kind, to |-> to, content |-> content, asked |-> asked, tries |-> 0]
Enqueued(kind, to, content, asked) == queue' = Append(queue, Job(kind, to, content, asked))

\* The member that has the address.
findMemberByEmail(e) == IF \E m \in Member : email[m] = e THEN CHOOSE m \in Member : email[m] = e ELSE NULL

Init ==
  /\ email \in FirstEmail
  /\ pending = [m \in Member |-> NULL] /\ version = [m \in Member |-> 0]
  /\ queue = <<>> /\ job = NULL /\ owed = {}
  /\ inbox = [e \in Email |-> {}]
  /\ change = [c \in Change |-> Idle] /\ requests = 0 /\ faults = 0

AsksAgain == requests < MaxRequests /\ requests' = requests + 1
Fault == faults < MaxFaults /\ faults' = faults + 1

-----------------------------------------------------------------------------
(* Registering, and the worker.                                            *)

Register(e) ==
  /\ AsksAgain /\ Enqueued("signup-request", e, NULL, requests') /\ owed' = owed \cup {requests'}
  /\ UNCHANGED <<rows, job, inbox, change, faults>>

\* A job is taken; SignupRequestService.handle looks for a member first, ...
TakeJob ==
  /\ queue # <<>> /\ job = NULL
  /\ job' = [job |-> Head(queue),
             owner |-> IF Head(queue).kind = "send" THEN NULL ELSE findMemberByEmail(Head(queue).to)]
  /\ queue' = Tail(queue)
  /\ UNCHANGED <<rows, inbox, owed, change, requests, faults>>

\* ... then queues the one mail.
Answer ==
  Job("send", job.job.to, IF job.owner = NULL THEN [type |-> "sign_up"] ELSE Notice, job.job.asked)

Resolve ==
  /\ job # NULL /\ job.job.kind = "signup-request"
  /\ queue' = Append(queue, Answer) /\ job' = NULL
  /\ UNCHANGED <<rows, inbox, owed, change, requests, faults>>

\* The mail reaches the address.
Delivers ==
  /\ job.job.kind = "send" /\ owed' = owed \ {job.job.asked}
  /\ inbox' = [inbox EXCEPT ![job.job.to] = @ \cup {job.job.content}]

Send ==
  /\ job # NULL /\ Delivers /\ job' = NULL
  /\ UNCHANGED <<rows, queue, change, requests, faults>>

\* The database, the queue or the mail server refuses: the job is tried again,
\* ATTEMPTS times in all.
Refuse ==
  LET tried == [job.job EXCEPT !.tries = @ + 1] IN
  /\ job # NULL /\ job' = NULL /\ Fault
  /\ IF tried.tries < ATTEMPTS
     THEN queue' = Append(queue, tried) /\ UNCHANGED owed
     ELSE owed' = owed \ {tried.asked} /\ UNCHANGED queue
  /\ UNCHANGED <<rows, inbox, change, requests>>

\* Mutant: a job is off the queue once it is taken.
LoseJob ==
  /\ job # NULL /\ job' = NULL /\ Fault
  /\ UNCHANGED <<rows, queue, inbox, owed, change, requests>>

\* The worker dies, possibly after it did the job, which stalls and is given
\* again.
WorkerDies ==
  /\ job # NULL /\ job' = NULL /\ Fault
  /\ \/ queue' = Append(queue, job.job) /\ UNCHANGED <<inbox, owed>>
     \/ queue' = Append(queue, job.job) /\ Delivers
     \/ /\ job.job.kind = "signup-request"
        /\ queue' = queue \o <<Answer, job.job>> /\ UNCHANGED <<inbox, owed>>
  /\ UNCHANGED <<rows, change, requests>>

\* The sign-up that a link leads to, in one transaction.
SignUp(m, e) ==
  /\ email[m] = NULL /\ [type |-> "sign_up"] \in inbox[e]
  /\ \A n \in Member : email[n] # e
  /\ email' = [email EXCEPT ![m] = e]
  /\ UNCHANGED <<pending, version, mail, change, requests, faults>>

-----------------------------------------------------------------------------
(* Changing an address: updateEmail.                                       *)

ReadMember(c, m, e) ==
  /\ change[c].pc = "idle" /\ email[m] # NULL /\ email[m] # e /\ AsksAgain
  /\ change' = [change EXCEPT ![c] = [pc |-> "owner", member |-> m, to |-> e,
                                      version |-> version[m], owner |-> NULL]]
  /\ UNCHANGED <<rows, mail, faults>>

FindOwner(c) ==
  /\ change[c].pc = "owner"
  /\ change' = [change EXCEPT ![c].pc = "pend", ![c].owner = findMemberByEmail(change[c].to)]
  /\ UNCHANGED <<rows, mail, requests, faults>>

SetPending(c) ==
  LET m == change[c].member IN
  /\ change[c].pc = "pend"
  /\ pending' = [pending EXCEPT ![m] = change[c].to]
  /\ version' = [version EXCEPT ![m] = change[c].version + 1]
  /\ change' = [change EXCEPT ![c].pc = "mail"]
  /\ UNCHANGED <<email, mail, requests, faults>>

\* A link to the new address, or a notice to the member that has it.
MailLink(c) ==
  /\ change[c].pc = "mail"
  /\ change' = [change EXCEPT ![c] = Idle]
  /\ Enqueued("send", change[c].to,
              IF change[c].owner # NULL THEN Notice
              ELSE [type |-> "change", member |-> change[c].member, version |-> change[c].version + 1],
              0)
  /\ UNCHANGED <<rows, job, inbox, owed, requests, faults>>

-----------------------------------------------------------------------------
(* Following a link: confirmEmailChange.                                   *)

Matches(m, e, v) == email[m] # NULL /\ pending[m] = e /\ version[m] = v

\* The row is read and matches, and no other member has the address.
Follow(c, e, link) ==
  /\ change[c].pc = "idle" /\ link.type = "change" /\ AsksAgain
  /\ Matches(link.member, e, link.version)
  /\ findMemberByEmail(e) \in {NULL, link.member}
  /\ change' = [change EXCEPT ![c] = [pc |-> "confirm", member |-> link.member, to |-> e,
                                      version |-> link.version, owner |-> NULL]]
  /\ UNCHANGED <<rows, mail, faults>>

\* Mutant: the row is not looked at again when it is written.
ConfirmsUnchecked(c) == TRUE

\* The row still matches when it is written, ...
Confirms(c) == Matches(change[c].member, change[c].to, change[c].version)

\* Mutant: there is no unique index.
AddressTakenUnchecked(m, e) == FALSE

\* ... and the index refuses an address that another member took since.
AddressTaken(m, e) == \E n \in Member \ {m} : email[n] = e

Confirm(c) ==
  LET m == change[c].member IN
  /\ change[c].pc = "confirm"
  /\ IF Confirms(c) /\ ~AddressTaken(m, change[c].to)
     THEN /\ email' = [email EXCEPT ![m] = change[c].to]
          /\ pending' = [pending EXCEPT ![m] = NULL]
          /\ version' = [version EXCEPT ![m] = change[c].version + 1]
          /\ queue' = Append(queue, Job("send", email[m], Notice, 0))
     ELSE UNCHANGED <<rows, queue>>
  /\ change' = [change EXCEPT ![c] = Idle]
  /\ UNCHANGED <<job, inbox, owed, requests, faults>>

\* A request fails or its process dies between two statements.
ChangeFails(c) ==
  /\ change[c].pc # "idle" /\ Fault
  /\ change' = [change EXCEPT ![c] = Idle]
  /\ UNCHANGED <<rows, mail, requests>>

Worker == TakeJob \/ Resolve \/ Send

Next ==
  \/ Worker \/ Refuse \/ WorkerDies
  \/ \E e \in Email : Register(e) \/ \E m \in Member : SignUp(m, e)
  \/ \E c \in Change :
       \/ FindOwner(c) \/ SetPending(c) \/ MailLink(c) \/ Confirm(c) \/ ChangeFails(c)
       \/ \E m \in Member, e \in Email : ReadMember(c, m, e)
       \/ \E e \in Email : \E link \in inbox[e] : Follow(c, e, link)

\* The worker takes jobs as long as there are some.
Spec == Init /\ [][Next]_vars /\ WF_vars(Worker)

-----------------------------------------------------------------------------
(* Properties.                                                             *)

\* Two members never have one address, whichever of a sign-up and a
\* confirmation comes first (race-safe-unique-email.ts:32).
AddressesUnique ==
  \A m, n \in Member : m # n /\ email[m] = email[n] => email[m] = NULL

\* A member's address becomes the one last asked for, which is pending, and
\* nothing an older link names (profile.service.ts:158).
TakesPending ==
  \A m \in Member :
    email[m] # NULL /\ email'[m] # email[m] => email'[m] = pending[m] /\ pending'[m] = NULL
LatestChangeWins == [][TakesPending]_vars

\* Every registration gets a mail of its own, or one of its jobs is known to
\* have failed, though the worker dies (registration.service.ts:17).
RegistrationsAnswered == \A n \in 1..MaxRequests : n \in owed ~> n \notin owed
=============================================================================
