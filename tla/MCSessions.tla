------------------------------ MODULE MCSessions ------------------------------
(* Sessions for TLC: requests, accounts, addresses and token keys are interchangeable. *)
EXTENDS Sessions, TLC

SessionsSymmetry ==
  Permutations(Requests) \cup Permutations(TokenIds) \cup Permutations(UserIds)
    \cup Permutations(Emails)
=============================================================================
