-------------------------- MODULE Reservation_proofs ---------------------------
(***************************************************************************)
(* Reservation conserves stock, for any orders, variants, carts and        *)
(* bounds.                                                                 *)
(***************************************************************************)
EXTENDS Reservation, FiniteSetTheorems, TLAPS

(* HeldUnits for an arbitrary assignment of units to orders. *)
Units(h, v) == {u \in Orders \X (1..MaxQuantity) : u[2] <= h[u[1]][v]}

(* The units held by orders other than o, and n units held by o. *)
UnitsOfOthers(h, o, v) ==
  {u \in Orders \X (1..MaxQuantity) : u[1] # o /\ u[2] <= h[u[1]][v]}
UnitsOf(o, n) == {o} \X (1..n)

Holdings == [Orders -> [Variants -> 0..MaxQuantity]]

(* The set of units splits into those of o and those of the others, and o  *)
(* counts for as many as it holds.                                         *)
LEMMA UnitsSplit ==
  ASSUME NEW h \in Holdings, NEW o \in Orders, NEW v \in Variants
  PROVE  /\ Cardinality(UnitsOfOthers(h, o, v)) \in Nat
         /\ Cardinality(Units(h, v)) = Cardinality(UnitsOfOthers(h, o, v)) + h[o][v]
<1> DEFINE n == h[o][v]
           Others == UnitsOfOthers(h, o, v)
<1>1. n \in Nat /\ n <= MaxQuantity
  BY MaxQuantityAssumption DEF Holdings
<1>2. IsFiniteSet(Orders \X (1..MaxQuantity))
  <2>1. 1 \in Int /\ MaxQuantity \in Int
    BY MaxQuantityAssumption
  <2>2. IsFiniteSet(1..MaxQuantity)
    BY <2>1, FS_Interval
  <2> QED BY <2>2, OrdersAssumption, FS_Product
<1>3. IsFiniteSet(Others) /\ Cardinality(Others) \in Nat
  BY <1>2, FS_Subset, FS_CardinalityType DEF UnitsOfOthers
<1>4. IsFiniteSet(UnitsOf(o, n)) /\ Cardinality(UnitsOf(o, n)) = n
  <2>1. IsFiniteSet(1..n) /\ Cardinality(1..n) = n
    <3>1. 1 \in Int /\ n \in Int
      BY <1>1
    <3>2. /\ IsFiniteSet(1..n)
          /\ Cardinality(1..n) = IF 1 > n THEN 0 ELSE n - 1 + 1
      BY <3>1, FS_Interval
    <3> QED BY <3>2, <1>1
  <2>2. IsFiniteSet({o}) /\ Cardinality({o}) = 1
    BY FS_Singleton
  <2>3. IsFiniteSet({o} \X (1..n)) /\ Cardinality({o} \X (1..n)) = 1 * n
    BY <2>1, <2>2, FS_Product
  <2> QED BY <2>3, <1>1 DEF UnitsOf
<1>5. Others \cap UnitsOf(o, n) = {}
  BY DEF UnitsOfOthers, UnitsOf
<1>6. Units(h, v) = Others \cup UnitsOf(o, n)
  BY <1>1, MaxQuantityAssumption DEF Units, UnitsOfOthers, UnitsOf, Holdings
<1>7. Cardinality(Units(h, v)) = Cardinality(Others) + n - Cardinality({})
  BY <1>3, <1>4, <1>5, <1>6, FS_Union
<1> HIDE DEF n, Others
<1>8. Cardinality({}) = 0
  BY FS_EmptySet
<1>9. Cardinality(Units(h, v)) = Cardinality(Others) + n
  BY <1>1, <1>3, <1>7, <1>8
<1> QED BY <1>3, <1>9 DEF n, Others

(* Changing what one order holds changes the number of held units by the   *)
(* difference.                                                             *)
LEMMA UnitsChange ==
  ASSUME NEW h \in Holdings, NEW o \in Orders,
         NEW cart \in [Variants -> 0..MaxQuantity], NEW v \in Variants
  PROVE  Cardinality(Units([h EXCEPT ![o] = cart], v))
           = Cardinality(Units(h, v)) - h[o][v] + cart[v]
<1> DEFINE g == [h EXCEPT ![o] = cart]
<1>1. g \in Holdings /\ g[o] = cart
  BY DEF Holdings
<1>2. UnitsOfOthers(g, o, v) = UnitsOfOthers(h, o, v)
  BY DEF UnitsOfOthers, Holdings
<1> HIDE DEF g
<1>3. /\ Cardinality(UnitsOfOthers(h, o, v)) \in Nat
      /\ Cardinality(Units(h, v)) = Cardinality(UnitsOfOthers(h, o, v)) + h[o][v]
  BY UnitsSplit
<1>4. Cardinality(Units(g, v)) = Cardinality(UnitsOfOthers(h, o, v)) + cart[v]
  BY <1>1, <1>2, UnitsSplit
<1>5. h[o][v] \in Nat /\ cart[v] \in Nat
  BY MaxQuantityAssumption DEF Holdings
<1> QED BY <1>3, <1>4, <1>5 DEF g

(* Nothing is held when every order holds nothing. *)
LEMMA UnitsNone ==
  ASSUME NEW v \in Variants
  PROVE  Cardinality(Units([o \in Orders |-> NoUnits], v)) = 0
<1>1. Units([o \in Orders |-> NoUnits], v) = {}
  BY MaxQuantityAssumption DEF Units, NoUnits
<1> QED BY <1>1, FS_EmptySet

(***************************************************************************)
(* Stock on the shelf stays a natural number and orders hold units of      *)
(* their cart only.                                                        *)
(***************************************************************************)
THEOREM Typing == Spec => []TypeOK
<1>1. Init => TypeOK
  BY MaxStockAssumption, MaxQuantityAssumption DEF Init, TypeOK, NoUnits
<1>2. TypeOK /\ [Next]_vars => TypeOK'
  <2> SUFFICES ASSUME TypeOK, [Next]_vars PROVE TypeOK'
    OBVIOUS
  <2> USE DEF TypeOK
  <2>1. ASSUME NEW o \in Orders, NEW cart \in Carts, Reserve(o, cart)
        PROVE TypeOK'
    <3>1. cart \in [Variants -> 0..MaxQuantity]
      BY CartsAssumption
    <3>2. \A v \in Variants : stock[v] - cart[v] \in Nat
      BY <2>1, <3>1, MaxQuantityAssumption DEF Reserve
    <3> QED BY <2>1, <3>1, <3>2 DEF Reserve
  <2>2. ASSUME NEW o \in Orders, Release(o)
        PROVE TypeOK'
    <3>1. NoUnits \in [Variants -> 0..MaxQuantity]
      BY MaxQuantityAssumption DEF NoUnits
    <3>2. \A v \in Variants : stock[v] + held[o][v] \in Nat
      BY MaxQuantityAssumption
    <3> QED BY <2>2, <3>1, <3>2 DEF Release
  <2>3. ASSUME NEW v \in Variants, NEW n \in 0..MaxStock, Recount(v, n)
        PROVE TypeOK'
    BY <2>3, MaxStockAssumption DEF Recount
  <2>4. CASE UNCHANGED vars
    BY <2>4 DEF vars
  <2> QED BY <2>1, <2>2, <2>3, <2>4 DEF Next
<1> QED BY <1>1, <1>2, PTL DEF Spec

(* The step of the conservation argument: what leaves the shelf is what    *)
(* the order starts to hold, and the other way round.                      *)
LEMMA ConservedStep ==
  TypeOK /\ StockConserved /\ [Next]_vars => StockConserved'
<1> SUFFICES ASSUME TypeOK, StockConserved, [Next]_vars,
                    NEW v \in Variants
             PROVE  stock'[v] + Cardinality(Units(held', v)) = supply'[v]
  BY DEF StockConserved, HeldUnits, Units
<1>1. held \in Holdings /\ stock[v] \in Nat /\ supply[v] \in Int
  BY DEF TypeOK, Holdings
<1>2. stock[v] + Cardinality(Units(held, v)) = supply[v]
  BY DEF StockConserved, HeldUnits, Units
<1>3. Cardinality(Units(held, v)) \in Nat
  <2>1. IsFiniteSet(Orders)
    BY OrdersAssumption
  <2>2. CASE Orders = {}
    <3>1. Units(held, v) = {}
      BY <2>2 DEF Units
    <3> QED BY <3>1, FS_EmptySet
  <2>3. CASE Orders # {}
    <3>1. PICK o \in Orders : TRUE
      BY <2>3
    <3>2. held[o][v] \in Nat
      BY <1>1, MaxQuantityAssumption DEF Holdings
    <3> QED BY <1>1, <3>1, <3>2, UnitsSplit
  <2> QED BY <2>2, <2>3
<1>4. ASSUME NEW o \in Orders, NEW cart \in Carts, Reserve(o, cart)
      PROVE  stock'[v] + Cardinality(Units(held', v)) = supply'[v]
  <2>1. cart \in [Variants -> 0..MaxQuantity] /\ cart[v] \in Nat
    BY CartsAssumption, MaxQuantityAssumption
  <2>2. Cardinality(Units(held', v)) = Cardinality(Units(held, v)) - 0 + cart[v]
    <3>1. held[o][v] = 0 /\ held' = [held EXCEPT ![o] = cart]
      BY <1>4 DEF Reserve, NoUnits
    <3> QED BY <3>1, <2>1, <1>1, UnitsChange
  <2>3. stock'[v] = stock[v] - cart[v] /\ supply' = supply
    BY <1>4 DEF Reserve
  <2> QED BY <1>1, <1>2, <1>3, <2>1, <2>2, <2>3
<1>5. ASSUME NEW o \in Orders, Release(o)
      PROVE  stock'[v] + Cardinality(Units(held', v)) = supply'[v]
  <2>1. /\ NoUnits \in [Variants -> 0..MaxQuantity]
        /\ NoUnits[v] = 0
        /\ held[o][v] \in Nat
    BY <1>1, MaxQuantityAssumption DEF NoUnits, Holdings
  <2>2. Cardinality(Units(held', v)) = Cardinality(Units(held, v)) - held[o][v] + 0
    <3>1. held' = [held EXCEPT ![o] = NoUnits]
      BY <1>5 DEF Release
    <3> QED BY <3>1, <2>1, <1>1, UnitsChange
  <2>3. stock'[v] = stock[v] + held[o][v] /\ supply' = supply
    BY <1>5 DEF Release
  <2> QED BY <1>1, <1>2, <1>3, <2>1, <2>2, <2>3
<1>6. ASSUME NEW w \in Variants, NEW n \in 0..MaxStock, Recount(w, n)
      PROVE  stock'[v] + Cardinality(Units(held', v)) = supply'[v]
  <2>1. supply'[v] - supply[v] = stock'[v] - stock[v] /\ held' = held
    BY <1>6, <1>1, MaxStockAssumption DEF Recount, TypeOK
  <2>2. stock'[v] \in Int /\ supply'[v] \in Int
    BY <1>6, <1>1, MaxStockAssumption DEF Recount, TypeOK
  <2> QED BY <1>1, <1>2, <1>3, <2>1, <2>2
<1>7. CASE UNCHANGED vars
  BY <1>2, <1>7 DEF vars
<1> QED BY <1>4, <1>5, <1>6, <1>7 DEF Next

(***************************************************************************)
(* The shelf and the orders account for every unit, whatever the number of *)
(* orders, variants and units.                                             *)
(***************************************************************************)
THEOREM Conserved == Spec => []StockConserved
<1>1. Init => StockConserved
  <2> SUFFICES ASSUME Init, NEW v \in Variants
               PROVE  stock[v] + Cardinality(Units(held, v)) = supply[v]
    BY DEF StockConserved, HeldUnits, Units
  <2>1. Cardinality(Units(held, v)) = 0
    BY UnitsNone DEF Init
  <2>2. stock[v] = supply[v] /\ stock[v] \in Nat
    BY MaxStockAssumption DEF Init
  <2> QED BY <2>1, <2>2
<1> QED BY <1>1, Typing, ConservedStep, PTL DEF Spec

================================================================================
