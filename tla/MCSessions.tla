----------------------------- MODULE MCSessions -----------------------------
(* A small instance of Sessions for TLC. *)
EXTENDS Sessions, TLC

Symmetry ==
  Permutations(Sid) \cup Permutations(Request) \cup Permutations(Credential)
    \cup Permutations(Browser)
=============================================================================
