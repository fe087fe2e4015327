--------------------------- MODULE MCAdminAccounts ----------------------------
(* AdminAccounts with a handful of accounts for TLC. *)
EXTENDS AdminAccounts, TLC

Symmetry ==
  Permutations(AdminIds) \cup Permutations(SessionIds)
  \cup Permutations(Emails) \cup Permutations(Workers)

================================================================================
