--------------------------- MODULE MCCheckoutLocks ----------------------------
(* CheckoutLocks for TLC: carts of one and of two lines. *)
EXTENDS CheckoutLocks, TLC

(* Both lines, or only the first. *)
OneOrBothLines ==
  LET first == CHOOSE v \in Variants : TRUE IN
  {cart \in [Variants -> 0..MaxQuantity] : cart[first] > 0}

================================================================================
