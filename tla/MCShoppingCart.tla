---------------------------- MODULE MCShoppingCart -----------------------------
(* Small instances of ShoppingCart for TLC. *)
EXTENDS ShoppingCart, TLC

(* Two sizes and two colors of which one pair is not sold: the preselected *)
(* chips may name no variant.                                              *)
OddPairs == {<<"s1", "c1">>, <<"s2", "c1">>, <<"s2", "c2">>}
Diagonal == {<<"s1", "c1">>, <<"s2", "c2">>}

Symmetry == Permutations(Tabs)
================================================================================
