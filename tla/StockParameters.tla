---------------------------- MODULE StockParameters ----------------------------
(* The parameters shared by Reservation and the module that implements it  *)
(* under row locks, CheckoutLocks.                                         *)
EXTENDS Integers, FiniteSets

CONSTANTS
  Orders,       \* orders.id
  Variants,     \* product_variants.id
  Carts,        \* what an order may hold: units of each variant
  MaxQuantity,  \* most units of one variant in one cart
  MaxStock      \* bound: largest count staff enter for a variant

ASSUME OrdersAssumption == IsFiniteSet(Orders)
ASSUME MaxQuantityAssumption == MaxQuantity \in Nat
ASSUME MaxStockAssumption == MaxStock \in Nat
ASSUME CartsAssumption == Carts \subseteq [Variants -> 0..MaxQuantity]

NoUnits == [v \in Variants |-> 0]
================================================================================
