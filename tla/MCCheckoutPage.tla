---------------------------- MODULE MCCheckoutPage -----------------------------
(* Small instances of CheckoutPage for TLC. *)
EXTENDS CheckoutPage, TLC

On(methods) == [m \in Methods |-> m \in methods]

(* Staff left only the card on: the selection has to move, and when it can *)
(* depends on the gateway's answer.                                        *)
CardChoices == {On({"card"})}

(* Every combination of toggles. *)
AllChoices == Toggles

Symmetry == Permutations(Clicks)
================================================================================
