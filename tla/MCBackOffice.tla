----------------------------- MODULE MCBackOffice ------------------------------
(* Small instances of BackOffice for TLC. *)
EXTENDS BackOffice, TLC

Symmetry == Permutations(Tokens) \cup Permutations(Calls) \cup Permutations(Orders)
            \cup Permutations(Coupons) \cup Permutations(Files)
================================================================================
