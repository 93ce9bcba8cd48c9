-------------------------- MODULE MCVerifierService --------------------------
(* TLC instances of VerifierService.                                       *)
EXTENDS VerifierService, TLC

\* Ids, requests and origins are opaque tokens.
Symmetry ==
    Permutations(SessionIDs) \cup Permutations(Requests) \cup Permutations(Origins)
=============================================================================
