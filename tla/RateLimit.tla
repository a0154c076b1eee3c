------------------------------ MODULE RateLimit ------------------------------
(***************************************************************************)
(* Throttling requests.  The guard spends a point of each of the keys a    *)
(* request draws on: one of its address (or its member), then one of the   *)
(* identifier it submits.  A key out of points is locked out, for twice as *)
(* long at each strike that comes before its strikes are forgotten.        *)
(*                                                                         *)
(* What the store holds expires by itself: every key of it has a number of *)
(* ticks to live.  Each call of the guard to the store is one step.        *)
(***************************************************************************)
EXTENDS Integers, Sequences

CONSTANTS
  Request, Key,
  Dimensions,   \* the lists of keys a request may draw on
  Points,       \* what each key has to spend in a window
  Duration,     \* durationSeconds, the ticks of a window
  STRIKE_RESET, MAX_BLOCK,
  MaxFaults     \* bound on the stops of the server in the middle of a request

VARIABLES
  spent,     \* the points spent on each key, and when that is forgotten
  strikes,   \* the lockouts of each key, and when they are forgotten
  block,     \* how long each key stays locked out
  request,   \* what each request does next, on which keys, after which strike
  faults,
  lockedBy,  \* the strike that the last lockout of each key was for
  overtaken, \* the requests past their look at a key that was locked out since
  quiet,     \* how long no strike was counted, or set to be forgotten
  orphaned   \* the keys whose strikes nobody will let expire

\* What is known of the constants: a route has keys, a window is shorter than
\* the longest lockout, and strikes are kept for a while.
RateLimitAssumption ==
  /\ Dimensions \subseteq Seq(Key) \ {<<>>}
  /\ Points \in [Key -> Nat]
  /\ Duration \in Nat \ {0} /\ MAX_BLOCK \in Nat /\ Duration < MAX_BLOCK
  /\ STRIKE_RESET \in Nat \ {0}

store == <<spent, strikes, block>>
lockouts == <<lockedBy, overtaken>>
watch == <<lockouts, quiet, orphaned>>
vars == <<store, request, faults, watch>>

Nothing == [count |-> 0, ttl |-> 0]
Never == -1   \* the time to live of a key without an expiry
Idle == [pc |-> "idle", keys |-> <<>>, strike |-> 0]

Init ==
  /\ spent = [k \in Key |-> Nothing] /\ strikes = [k \in Key |-> Nothing]
  /\ block = [k \in Key |-> 0]
  /\ request = [r \in Request |-> Idle]
  /\ faults = 0
  /\ lockedBy = [k \in Key |-> 0] /\ overtaken = {}
  /\ quiet = [k \in Key |-> STRIKE_RESET] /\ orphaned = {}

-----------------------------------------------------------------------------
Goes(r, label) == request' = [request EXCEPT ![r].pc = label]

\* The request is answered: refused, or let through to its handler.
Answered(r) == request' = [request EXCEPT ![r] = Idle]

At(r, label, k) ==
  request[r].pc = label /\ k = Head(request[r].keys)

Disturbed(k) == quiet' = [quiet EXCEPT ![k] = 0]

\* A request comes to a route with a budget.
Arrive(r, keys) ==
  /\ request[r].pc = "idle"
  /\ request' = [request EXCEPT ![r].pc = "look", ![r].keys = keys]
  /\ UNCHANGED <<store, faults, watch>>

\* Mutant: the guard does not look whether the key is locked out.
LookAway(r, k) ==
  /\ At(r, "look", k)
  /\ Goes(r, "consume") /\ overtaken' = overtaken \ {r}
  /\ UNCHANGED <<store, faults, lockedBy, quiet, orphaned>>

\* Is the key locked out?
Look(r, k) ==
  /\ At(r, "look", k)
  /\ IF block[k] > 0 THEN Answered(r) ELSE Goes(r, "consume")
  /\ overtaken' = overtaken \ {r}
  /\ UNCHANGED <<store, faults, lockedBy, quiet, orphaned>>

\* A point is spent, past the last one too; the window starts with the first.
Consume(r, k) ==
  LET used == spent[k].count
  IN /\ At(r, "consume", k)
     /\ spent' = [spent EXCEPT ![k] =
          IF used = 0 THEN [count |-> 1, ttl |-> Duration]
          ELSE [@ EXCEPT !.count = IF used > Points[k] THEN used ELSE used + 1]]
     /\ \/ used >= Points[k] /\ Goes(r, "strike")
        \/ /\ used < Points[k]
           /\ IF Len(request[r].keys) = 1 THEN Answered(r)
              ELSE request' = [request EXCEPT ![r].pc = "look", ![r].keys = Tail(@)]
     /\ UNCHANGED <<strikes, block, faults, watch>>

\* The length of a lockout.
PowerOfTwo[n \in Nat] == IF n = 0 THEN 1 ELSE 2 * PowerOfTwo[n - 1]

Doubled(strike) == Duration * PowerOfTwo[strike - 1]

BlockFor(strike) == IF Doubled(strike) > MAX_BLOCK THEN MAX_BLOCK ELSE Doubled(strike)

\* Mutant: the request that counts the second strike is the one to let them expire.
StrikeExpiresSecond(r, k) ==
  LET n == IF Doubled(strikes[k].count + 1) >= 2 * MAX_BLOCK
           THEN strikes[k].count ELSE strikes[k].count + 1
  IN /\ At(r, "strike", k)
     /\ strikes' = [strikes EXCEPT ![k] =
          IF @.count = 0 THEN [count |-> 1, ttl |-> Never] ELSE [@ EXCEPT !.count = n]]
     /\ request' = [request EXCEPT ![r].pc = IF n = 2 THEN "expire" ELSE "block",
                                   ![r].strike = n]
     /\ Disturbed(k)
     /\ UNCHANGED <<spent, block, faults, lockouts, orphaned>>

\* The strikes past the one whose lockout is the longest count as that one.
Strike(r, k) ==
  LET n == IF Doubled(strikes[k].count + 1) >= 2 * MAX_BLOCK
           THEN strikes[k].count ELSE strikes[k].count + 1
  IN /\ At(r, "strike", k)
     /\ strikes' = [strikes EXCEPT ![k] =
          IF @.count = 0 THEN [count |-> 1, ttl |-> Never] ELSE [@ EXCEPT !.count = n]]
     /\ request' = [request EXCEPT ![r].pc = IF n = 1 THEN "expire" ELSE "block",
                                   ![r].strike = n]
     /\ Disturbed(k)
     /\ UNCHANGED <<spent, block, faults, lockouts, orphaned>>

\* Only the first strike says when they are all forgotten.
Expire(r, k) ==
  /\ At(r, "expire", k)
  /\ strikes' = [strikes EXCEPT ![k] = IF @.count = 0 THEN @ ELSE [@ EXCEPT !.ttl = STRIKE_RESET]]
  /\ Goes(r, "block")
  /\ Disturbed(k)
  /\ UNCHANGED <<spent, block, faults, lockouts, orphaned>>

\* A request is past its look at k until it is answered or looks at another key.
PastLook(r, k) ==
  \E label \in {"consume", "strike", "expire", "block"} : At(r, label, k)

Block(r, k) ==
  /\ At(r, "block", k)
  /\ block' = [block EXCEPT ![k] = BlockFor(request[r].strike)]
  /\ Answered(r)
  /\ lockedBy' = [lockedBy EXCEPT ![k] = request[r].strike]
  /\ overtaken' = (overtaken \cup {q \in Request : PastLook(q, k)}) \ {r}
  /\ UNCHANGED <<spent, strikes, faults, quiet, orphaned>>

\* The server stops, or loses the store, in the middle of a request.
Stop(r) ==
  /\ request[r].pc # "idle" /\ faults < MaxFaults
  /\ faults' = faults + 1
  /\ orphaned' = orphaned \cup
       (IF request[r].pc = "expire" THEN {Head(request[r].keys)} ELSE {})
  /\ Answered(r)
  /\ UNCHANGED <<store, lockouts, quiet>>

-----------------------------------------------------------------------------
(* Time.                                                                   *)

Less(ttl) == IF ttl > 0 THEN ttl - 1 ELSE ttl

Aged(entry) ==
  IF entry.ttl = 1 THEN Nothing ELSE [entry EXCEPT !.ttl = Less(@)]

Tick ==
  /\ spent' = [k \in Key |-> Aged(spent[k])]
  /\ strikes' = [k \in Key |-> Aged(strikes[k])]
  /\ block' = [k \in Key |-> Less(block[k])]
  /\ quiet' = [k \in Key |-> IF quiet[k] < STRIKE_RESET THEN quiet[k] + 1 ELSE quiet[k]]
  /\ orphaned' = {k \in orphaned : strikes'[k].count > 0}
  /\ UNCHANGED <<request, faults, lockouts>>

Next ==
  \/ Tick
  \/ \E r \in Request :
       \/ Stop(r)
       \/ \E keys \in Dimensions : Arrive(r, keys)
       \/ \E k \in Key : Look(r, k) \/ Consume(r, k) \/ Strike(r, k) \/ Expire(r, k) \/ Block(r, k)

Spec == Init /\ [][Next]_vars

-----------------------------------------------------------------------------
(* Properties.                                                             *)

\* Each further violation doubles the lockout (rate-limit.guard.ts:39), except
\* that two at once may write theirs in the opposite order.  So a lockout may
\* wear off with time, and a violation makes it shorter only if it had looked
\* at the key before that lockout was set, and counted its strike before the
\* one that the lockout is for; a later one finds the key shut, or adds to it.
CutByOvertaken ==
  \A k \in Key :
    block'[k] < Less(block[k]) =>
      \E r \in overtaken :
        At(r, "block", k) /\ request'[r] = Idle /\ request[r].strike < lockedBy[k]
LockoutsCutByOvertaken == [][CutByOvertaken]_vars

\* The strikes of a key that had no further one for the reset time are
\* forgotten, unless the server stopped between counting the first one and
\* saying when they are.
StrikesAreForgotten ==
  \A k \in Key \ orphaned :
    /\ quiet[k] >= STRIKE_RESET
    /\ \A r \in Request : request[r].pc = "expire" => k # Head(request[r].keys)
    => strikes[k].count = 0
=============================================================================
