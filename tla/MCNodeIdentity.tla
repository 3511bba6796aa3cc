--------------------------- MODULE MCNodeIdentity ---------------------------
(***************************************************************************)
(* The identity of one machine through three bound keys, two requests at a *)
(* time.  The members of each set are interchangeable.                     *)
(***************************************************************************)
EXTENDS NodeIdentityProps, TLC

Symmetry == Permutations(Keys) \cup Permutations(Tokens)
    \cup Permutations(Credentials) \cup Permutations(Challenges)
    \cup Permutations(Sessions) \cup Permutations(Requests)
=============================================================================
