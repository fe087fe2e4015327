-------------------------- MODULE MCCustomerAccounts --------------------------
(* Small instances of CustomerAccounts for TLC. *)
EXTENDS CustomerAccounts, TLC

Symmetry ==
  Permutations(UserIds) \cup Permutations(SessionIds) \cup Permutations(Links)
    \cup Permutations(Emails) \cup Permutations(Workers)
================================================================================
