------------------------------ MODULE Reservation ------------------------------
(***************************************************************************)
(* What the order subsystem promises about stock, with the order states,   *)
(* the payment and the concurrency left out: an order either holds the     *)
(* units of its cart or holds nothing, and units move between the shelf    *)
(* and the orders, each move in one step.  OrderLifecycle implements this  *)
(* specification (docs/decisions/2026-10-04-payment-shipping-inventory.md, *)
(* "Inventory policy").                                                    *)
(***************************************************************************)
EXTENDS StockParameters

VARIABLES
  stock,   \* stock[v]: units on the shelf
  held,    \* held[o]: units order o holds
  supply   \* supply[v]: units the shop owns, on the shelf or held

vars == <<stock, held, supply>>

TypeOK ==
  /\ stock \in [Variants -> Nat]
  /\ held \in [Orders -> [Variants -> 0..MaxQuantity]]
  /\ supply \in [Variants -> Int]

Init ==
  /\ stock \in [Variants -> 0..MaxStock]
  /\ held = [o \in Orders |-> NoUnits]
  /\ supply = stock

(* Order o takes the units of its cart off the shelf, all lines or none. *)
Reserve(o, cart) ==
  /\ held[o] = NoUnits
  /\ \A v \in Variants : cart[v] <= stock[v]
  /\ held' = [held EXCEPT ![o] = cart]
  /\ stock' = [v \in Variants |-> stock[v] - cart[v]]
  /\ UNCHANGED supply

(* Everything order o holds goes back to the shelf. *)
Release(o) ==
  /\ held' = [held EXCEPT ![o] = NoUnits]
  /\ stock' = [v \in Variants |-> stock[v] + held[o][v]]
  /\ UNCHANGED supply

(* Staff count the shelf of variant v and enter n: the shop gained or lost *)
(* the difference.                                                         *)
Recount(v, n) ==
  /\ stock' = [stock EXCEPT ![v] = n]
  /\ supply' = [supply EXCEPT ![v] = @ + (n - stock[v])]
  /\ UNCHANGED held

Next ==
  \/ \E o \in Orders, cart \in Carts : Reserve(o, cart)
  \/ \E o \in Orders : Release(o)
  \/ \E v \in Variants, n \in 0..MaxStock : Recount(v, n)

Spec == Init /\ [][Next]_vars

--------------------------------------------------------------------------------
(* The units of variant v that orders hold, one element per unit. *)
HeldUnits(v) ==
  {u \in Orders \X (1..MaxQuantity) : u[2] <= held[u[1]][v]}

(***************************************************************************)
(* No unit is lost and none is counted twice: the shelf and the orders     *)
(* account for everything the shop owns of each variant ("stock is         *)
(* reserved, never lost, never double-restored").                          *)
(***************************************************************************)
StockConserved ==
  \A v \in Variants : stock[v] + Cardinality(HeldUnits(v)) = supply[v]

================================================================================
