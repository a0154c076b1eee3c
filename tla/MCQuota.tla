------------------------------- MODULE MCQuota -------------------------------
(* Small instances of Quota for TLC. *)
EXTENDS Quota, TLC

CONSTANTS m1, m2, c1, c2

OneEach == c1 :> m1 @@ c2 :> m2

\* Two accounts and one of the rest.
SmallQuotas == [k \in Kind |-> IF k = "accounts" THEN 2 ELSE 1]
=============================================================================
