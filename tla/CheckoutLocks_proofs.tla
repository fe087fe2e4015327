------------------------- MODULE CheckoutLocks_proofs -------------------------
(***************************************************************************)
(* Proofs about CheckoutLocks: under InnoDB's row locks the transactions   *)
(* that move stock are as good as single steps, for any number of them.    *)
(***************************************************************************)
EXTENDS CheckoutLocks, FiniteSetTheorems, TLAPS

TxRow == [phase : Phases, cart : Carts \cup {NoUnits}, line : Variants \cup {None},
          inserted : BOOLEAN, updated : SUBSET Variants]

LEMMA NextLineType ==
  ASSUME NEW cart, NEW updated, NEW line \in NextLine(cart, updated)
  PROVE  /\ line \in Variants \cup {None}
         /\ line = None => Lines(cart) \subseteq updated
  BY NoneAssumption DEF NextLine, Lines

(* Only order o's transaction moved, and it gained no lock on a row where  *)
(* another holds one.                                                      *)
LEMMA OneMoves ==
  ASSUME IInv, NEW o \in Orders, NEW row \in TxRow,
         tx' = [tx EXCEPT ![o] = row], UNCHANGED <<stock, supply>>,
         \A p \in Orders \ {o}, v \in Variants :
           /\ v \in row.updated => ~ExclusiveLock(p, v) /\ ~SharedLock(p, v)
           /\ row.line = v /\ row.inserted => ~ExclusiveLock(p, v),
         row.phase \in Taking => \A v \in row.updated : row.cart[v] <= stock[v],
         row.phase \in Active /\ row.line = None => Lines(row.cart) \subseteq row.updated,
         row.phase \notin Active =>
           row.updated = {} /\ ~row.inserted /\ row.line = None,
         row.phase # "none" => row.cart \in Carts
  PROVE  IInv'
  <1>1. tx'[o] = row /\ \A p \in Orders \ {o} : tx'[p] = tx[p]
    BY DEF IInv, TypeOK
  <1>2. TypeOK'
    BY DEF IInv, TypeOK, TxRow
  <1>3. LocksExclude'
    <2> SUFFICES ASSUME NEW p \in Orders, NEW q \in Orders, NEW v \in Variants,
                        p # q, ExclusiveLock(p, v)'
                 PROVE  ~ExclusiveLock(q, v)' /\ ~SharedLock(q, v)'
      BY DEF LocksExclude
    <2>1. CASE p = o
      BY <1>1, <2>1 DEF ExclusiveLock, SharedLock
    <2>2. CASE q = o
      BY <1>1, <2>2 DEF ExclusiveLock, SharedLock
    <2>3. CASE p # o /\ q # o
      BY <1>1, <2>3 DEF ExclusiveLock, SharedLock, IInv, LocksExclude
    <2> QED
      BY <2>1, <2>2, <2>3
  <1>4. TakenInStock'
    BY <1>1 DEF IInv, TakenInStock
  <1>5. LocksOfActive' /\ CartsKnown'
    BY <1>1 DEF IInv, LocksOfActive, CartsKnown
  <1> QED
    BY <1>2, <1>3, <1>4, <1>5 DEF IInv

LEMMA BeginInv ==
  ASSUME IInv, NEW o \in Orders, NEW phase \in Active, NEW cart \in Carts,
         Begin(o, phase, cart)
  PROVE  IInv'
  <1>1. PICK line \in NextLine(cart, {}) :
          tx' = [tx EXCEPT ![o] = [phase |-> phase, cart |-> cart, line |-> line,
                                   inserted |-> FALSE, updated |-> {}]]
    BY DEF Begin
  <1>2. line \in Variants \cup {None} /\ (line = None => Lines(cart) \subseteq {})
    BY NextLineType
  <1> DEFINE row == [phase |-> phase, cart |-> cart, line |-> line,
                     inserted |-> FALSE, updated |-> {}]
  <1>3. row \in TxRow
    BY <1>2 DEF TxRow, Phases
  <1>4. phase # "none"
    BY DEF Active, Taking
  <1> QED
    BY <1>1, <1>2, <1>3, <1>4, OneMoves DEF Begin

(* The transaction of o ends and changes no stock. *)
LEMMA RollBackInv ==
  ASSUME IInv, NEW o \in Orders, tx[o].phase \in Active, RollBack(o)
  PROVE  IInv'
  <1> DEFINE phase == CASE tx[o].phase = "placing"   -> "gone"
                        [] tx[o].phase = "releasing" -> "placed"
                        [] OTHER                     -> "released"
             row == [tx[o] EXCEPT !.phase = phase, !.line = None,
                                  !.inserted = FALSE, !.updated = {}]
  <1>1. tx[o] \in TxRow
    BY DEF IInv, TypeOK, TxRow
  <1>2. phase \in {"gone", "placed", "released"}
    OBVIOUS
  <1>3. phase \in Phases /\ phase \notin Active
    BY <1>2 DEF Phases, Active, Taking
  <1> HIDE DEF phase
  <1>4. row \in TxRow
    BY <1>1, <1>3 DEF TxRow
  <1>5. tx' = [tx EXCEPT ![o] = row] /\ UNCHANGED <<stock, supply>>
    BY <1>1 DEF RollBack, End, phase, IInv, TypeOK
  <1>6. tx[o].cart \in Carts
    BY DEF IInv, CartsKnown, Active, Taking
  <1>7. /\ row.phase = phase /\ row.line = None /\ row.inserted = FALSE
        /\ row.updated = {} /\ row.cart = tx[o].cart
    BY <1>1 DEF TxRow
  <1> HIDE DEF row
  <1>8. /\ row.phase \in Taking => \A v \in row.updated : row.cart[v] <= stock[v]
        /\ row.phase \in Active /\ row.line = None => Lines(row.cart) \subseteq row.updated
        /\ row.phase \notin Active =>
             row.updated = {} /\ ~row.inserted /\ row.line = None
        /\ row.phase # "none" => row.cart \in Carts
    BY <1>3, <1>6, <1>7
  <1>9. \A p \in Orders \ {o}, v \in Variants :
           /\ v \in row.updated => ~ExclusiveLock(p, v) /\ ~SharedLock(p, v)
           /\ row.line = v /\ row.inserted => ~ExclusiveLock(p, v)
    BY <1>7
  <1> QED
    BY <1>4, <1>5, <1>8, <1>9, OneMoves

LEMMA InsertItemInv ==
  ASSUME IInv, NEW o \in Orders, InsertItem(o)
  PROVE  IInv'
  <1> DEFINE row == [tx[o] EXCEPT !.inserted = TRUE]
  <1>1. tx[o] \in TxRow
    BY DEF IInv, TypeOK, TxRow
  <1>2. row \in TxRow /\ tx' = [tx EXCEPT ![o] = row]
    BY <1>1 DEF TxRow, InsertItem, IInv, TypeOK
  <1>3. \A p \in Orders \ {o}, v \in Variants :
           /\ v \in tx[o].updated => ~ExclusiveLock(p, v) /\ ~SharedLock(p, v)
           /\ tx[o].line = v => ~ExclusiveLock(p, v)
    BY DEF IInv, LocksExclude, ExclusiveLock, InsertItem, Blockers, BlockShared
  <1>4. tx[o].phase = "placing" /\ tx[o].line # None /\ tx[o].cart \in Carts
    BY DEF InsertItem, IInv, CartsKnown
  <1>5. \A v \in tx[o].updated : tx[o].cart[v] <= stock[v]
    BY <1>4 DEF IInv, TakenInStock, Taking
  <1>6. /\ row.phase = tx[o].phase /\ row.line = tx[o].line /\ row.inserted = TRUE
        /\ row.updated = tx[o].updated /\ row.cart = tx[o].cart
    BY <1>1 DEF TxRow
  <1>7. tx[o].phase \in Active
    BY <1>4 DEF Active, Taking
  <1> HIDE DEF row
  <1>8. \A p \in Orders \ {o}, v \in Variants :
           /\ v \in row.updated => ~ExclusiveLock(p, v) /\ ~SharedLock(p, v)
           /\ row.line = v /\ row.inserted => ~ExclusiveLock(p, v)
    BY <1>3, <1>6
  <1>9. /\ row.phase \in Taking => \A v \in row.updated : row.cart[v] <= stock[v]
        /\ row.phase \in Active /\ row.line = None => Lines(row.cart) \subseteq row.updated
        /\ row.phase \notin Active =>
             row.updated = {} /\ ~row.inserted /\ row.line = None
        /\ row.phase # "none" => row.cart \in Carts
    BY <1>4, <1>5, <1>6, <1>7
  <1> QED
    BY <1>2, <1>8, <1>9, OneMoves DEF InsertItem

(* An update of a line under an exclusive lock; a line taken is in stock. *)
LEMMA UpdatedInv ==
  ASSUME IInv, NEW o \in Orders, tx[o].phase \in Active, tx[o].line # None,
         BlockExclusive(o, tx[o].line) = {},
         tx[o].phase \in Taking => tx[o].cart[tx[o].line] <= stock[tx[o].line],
         Updated(o)
  PROVE  IInv'
  <1>1. PICK line \in NextLine(tx[o].cart, tx[o].updated \cup {tx[o].line}) :
          /\ tx' = [tx EXCEPT ![o].updated = @ \cup {tx[o].line},
                              ![o].line = line, ![o].inserted = FALSE]
          /\ UNCHANGED <<stock, supply>>
    BY DEF Updated
  <1>2. tx[o] \in TxRow
    BY DEF IInv, TypeOK, TxRow
  <1>3. /\ line \in Variants \cup {None}
        /\ line = None => Lines(tx[o].cart) \subseteq tx[o].updated \cup {tx[o].line}
    BY NextLineType
  <1> DEFINE row == [tx[o] EXCEPT !.updated = tx[o].updated \cup {tx[o].line},
                                  !.line = line, !.inserted = FALSE]
  <1>4. row \in TxRow /\ tx' = [tx EXCEPT ![o] = row]
    BY <1>1, <1>2, <1>3 DEF TxRow, IInv, TypeOK
  <1>5. /\ row.phase = tx[o].phase /\ row.line = line /\ row.inserted = FALSE
        /\ row.updated = tx[o].updated \cup {tx[o].line} /\ row.cart = tx[o].cart
    BY <1>2 DEF TxRow
  <1> HIDE DEF row
  <1>6. \A p \in Orders \ {o}, v \in Variants :
           v \in row.updated => ~ExclusiveLock(p, v) /\ ~SharedLock(p, v)
    <2> SUFFICES ASSUME NEW p \in Orders \ {o}, NEW v \in Variants, v \in row.updated
                 PROVE  ~ExclusiveLock(p, v) /\ ~SharedLock(p, v)
      OBVIOUS
    <2>1. CASE v \in tx[o].updated
      BY <2>1 DEF IInv, LocksExclude, ExclusiveLock
    <2>2. CASE v = tx[o].line
      BY <2>2 DEF BlockExclusive
    <2> QED
      BY <2>1, <2>2, <1>5
  <1>7. row.phase \in Taking => \A v \in row.updated : row.cart[v] <= stock[v]
    BY <1>5 DEF IInv, TakenInStock
  <1>8. tx[o].cart \in Carts
    BY DEF IInv, CartsKnown, Active, Taking
  <1> QED
    BY <1>1, <1>3, <1>4, <1>5, <1>6, <1>7, <1>8, OneMoves

(* What a committing transaction takes is in stock, line by line. *)
LEMMA CommitInStock ==
  ASSUME IInv, NEW o \in Orders, tx[o].phase \in Taking, tx[o].line = None
  PROVE  \A v \in Variants : tx[o].cart[v] <= stock[v]
  <1>1. tx[o].cart \in [Variants -> 0..MaxQuantity] /\ stock \in [Variants -> Nat]
    BY CartsAssumption DEF IInv, TypeOK, CartsKnown, Taking
  <1>2. Lines(tx[o].cart) \subseteq tx[o].updated
    BY DEF IInv, TakenInStock, Active
  <1> SUFFICES ASSUME NEW v \in Variants PROVE tx[o].cart[v] <= stock[v]
    OBVIOUS
  <1>3. CASE tx[o].cart[v] > 0
    BY <1>2, <1>3 DEF Lines, IInv, TakenInStock
  <1>4. CASE ~(tx[o].cart[v] > 0)
    BY <1>1, <1>4, MaxQuantityAssumption
  <1> QED
    BY <1>3, <1>4

LEMMA CommitInv ==
  ASSUME IInv, NEW o \in Orders, Commit(o)
  PROVE  IInv'
  <1>1. tx[o] \in TxRow /\ tx \in [Orders -> TxRow] /\ stock \in [Variants -> Nat]
    BY DEF IInv, TypeOK, TxRow
  <1>2. /\ tx[o].phase \in Active /\ tx[o].line = None
        /\ tx[o].cart \in [Variants -> 0..MaxQuantity] /\ tx[o].cart \in Carts
    BY CartsAssumption DEF Commit, IInv, CartsKnown, Active, Taking
  <1>3. PICK phase \in {"placed", "released"} : End(o, phase)
    BY DEF Commit
  <1>4. phase \in Phases /\ phase \notin Active
    BY DEF Phases, Active, Taking
  <1>5. /\ tx' \in [Orders -> TxRow]
        /\ \A p \in Orders \ {o} : tx'[p] = tx[p]
        /\ tx'[o].phase = phase /\ tx'[o].line = None /\ tx'[o].inserted = FALSE
        /\ tx'[o].updated = {} /\ tx'[o].cart = tx[o].cart
    <2> DEFINE row == [tx[o] EXCEPT !.phase = phase, !.line = None,
                                    !.inserted = FALSE, !.updated = {}]
    <2>1. row \in TxRow
      BY <1>1, <1>4 DEF TxRow
    <2>2. tx' = [tx EXCEPT ![o] = row]
      BY <1>1, <1>3 DEF End
    <2>3. /\ row.phase = phase /\ row.line = None /\ row.inserted = FALSE
          /\ row.updated = {} /\ row.cart = tx[o].cart
      BY <1>1 DEF TxRow
    <2> HIDE DEF row
    <2> QED
      BY <1>1, <2>1, <2>2, <2>3
  <1>6. stock' \in [Variants -> Nat]
        /\ \A v \in Variants : v \notin Lines(tx[o].cart) => stock'[v] = stock[v]
    <2>1. CASE tx[o].phase = "releasing"
      BY <1>1, <1>2, <2>1, MaxQuantityAssumption DEF Commit, Lines
    <2>2. CASE tx[o].phase # "releasing"
      <3>1. \A v \in Variants : tx[o].cart[v] <= stock[v]
        BY <1>2, <2>2, CommitInStock DEF Active
      <3>2. stock' = [v \in Variants |-> stock[v] - tx[o].cart[v]]
        BY <2>2 DEF Commit
      <3>3. \A v \in Variants : stock[v] \in Nat /\ tx[o].cart[v] \in Nat
        BY <1>1, <1>2, MaxQuantityAssumption
      <3>4. \A v \in Variants : stock[v] - tx[o].cart[v] \in Nat
        BY <3>1, <3>3
      <3> QED
        BY <3>2, <3>3, <3>4 DEF Lines
    <2> QED
      BY <2>1, <2>2
  <1>7. TypeOK'
    BY <1>5, <1>6 DEF Commit, IInv, TypeOK, TxRow
  <1>8. LocksExclude'
    BY <1>5, NoneAssumption DEF IInv, LocksExclude, ExclusiveLock, SharedLock
  <1>9. TakenInStock'
    <2> SUFFICES ASSUME NEW p \in Orders \ {o}
                 PROVE  tx[p].phase \in Taking =>
                          \A v \in tx[p].updated : tx[p].cart[v] <= stock'[v]
      BY <1>4, <1>5 DEF IInv, TakenInStock, Active
    <2>1. \A v \in tx[p].updated : v \in Variants /\ v \notin Lines(tx[o].cart)
      BY <1>1, <1>2 DEF IInv, TakenInStock, LocksExclude, ExclusiveLock, TxRow
    <2> QED
      BY <1>6, <2>1 DEF IInv, TakenInStock
  <1>10. LocksOfActive' /\ CartsKnown'
    BY <1>2, <1>4, <1>5 DEF IInv, LocksOfActive, CartsKnown
  <1> QED
    BY <1>7, <1>8, <1>9, <1>10 DEF IInv

LEMMA UpdateVariantInv ==
  ASSUME IInv, NEW v \in Variants, NEW n \in 0..MaxStock, UpdateVariant(v, n)
  PROVE  IInv'
  <1>1. TypeOK'
    BY MaxStockAssumption DEF IInv, TypeOK, UpdateVariant
  <1>2. TakenInStock'
    BY DEF IInv, TypeOK, TakenInStock, UpdateVariant, ExclusiveLock
  <1> QED
    BY <1>1, <1>2 DEF IInv, UpdateVariant, LocksExclude, LocksOfActive, CartsKnown,
                      ExclusiveLock, SharedLock

LEMMA InvInit == Init => IInv
  BY DEF Init, IInv, TypeOK, NoTx, Phases, LocksExclude, ExclusiveLock, SharedLock,
         TakenInStock, LocksOfActive, CartsKnown, Active, Taking

LEMMA InvStep == IInv /\ [Next]_vars => IInv'
  <1> SUFFICES ASSUME IInv, [Next]_vars PROVE IInv'
    OBVIOUS
  <1>1. ASSUME NEW o \in Orders, NEW cart \in Carts, BeginPlace(o, cart) PROVE IInv'
    BY <1>1, BeginInv DEF BeginPlace, Active, Taking
  <1>2. ASSUME NEW o \in Orders, BeginRelease(o) PROVE IInv'
    <2>1. tx[o].cart \in Carts
      BY <1>2 DEF BeginRelease, IInv, CartsKnown
    <2> QED
      BY <1>2, <2>1, BeginInv DEF BeginRelease, Active
  <1>3. ASSUME NEW o \in Orders, BeginRetake(o) PROVE IInv'
    <2>1. tx[o].cart \in Carts
      BY <1>3 DEF BeginRetake, IInv, CartsKnown
    <2> QED
      BY <1>3, <2>1, BeginInv DEF BeginRetake, Active, Taking
  <1>4. ASSUME NEW o \in Orders, InsertItem(o) PROVE IInv'
    BY <1>4, InsertItemInv
  <1>5. ASSUME NEW o \in Orders, DecrementStock(o) PROVE IInv'
    <2>1. tx[o].phase \in Active /\ tx[o].line # None
          /\ BlockExclusive(o, tx[o].line) = {} /\ Updated(o)
      BY <1>5 DEF DecrementStock, AtUpdate, Blockers, Active
    <2>2. tx[o].cart[tx[o].line] <= stock[tx[o].line]
      <3>1. tx[o].line \in Variants /\ tx[o].cart \in [Variants -> 0..MaxQuantity]
            /\ stock \in [Variants -> Nat]
        BY <2>1, CartsAssumption DEF IInv, TypeOK, CartsKnown, Active, Taking
      <3> QED
        BY <1>5, <3>1, MaxQuantityAssumption DEF DecrementStock
    <2> QED
      BY <2>1, <2>2, UpdatedInv
  <1>6. ASSUME NEW o \in Orders, OutOfStock(o) PROVE IInv'
    BY <1>6, RollBackInv DEF OutOfStock, Active
  <1>7. ASSUME NEW o \in Orders, IncrementStock(o) PROVE IInv'
    <2>1. tx[o].phase \in Active /\ tx[o].phase \notin Taking
      BY <1>7 DEF IncrementStock, Active, Taking
    <2>2. tx[o].line # None /\ BlockExclusive(o, tx[o].line) = {} /\ Updated(o)
      BY <1>7 DEF IncrementStock, Blockers
    <2> QED
      BY <2>1, <2>2, UpdatedInv
  <1>8. ASSUME NEW o \in Orders, Commit(o) PROVE IInv'
    BY <1>8, CommitInv
  <1>9. ASSUME NEW o \in Orders, TransactionFails(o) PROVE IInv'
    BY <1>9, RollBackInv DEF TransactionFails
  <1>10. ASSUME NEW o \in Orders, Deadlock(o) PROVE IInv'
    <2>1. Blockers(o) # {}
      BY <1>10 DEF Deadlock, InCycle, Stuck
    <2>2. tx[o].phase \in Active
      BY <2>1 DEF Blockers, IInv, LocksOfActive
    <2> QED
      BY <1>10, <2>2, RollBackInv DEF Deadlock
  <1>11. ASSUME NEW v \in Variants, NEW n \in 0..MaxStock, UpdateVariant(v, n)
         PROVE  IInv'
    BY <1>11, UpdateVariantInv
  <1>12. CASE UNCHANGED vars
    BY <1>12 DEF vars, IInv, TypeOK, LocksExclude, ExclusiveLock, SharedLock,
                 TakenInStock, LocksOfActive, CartsKnown
  <1> QED
    BY <1>1, <1>2, <1>3, <1>4, <1>5, <1>6, <1>7, <1>8, <1>9, <1>10, <1>11, <1>12
    DEF Next

(* Two-phase locking, and what it keeps in stock until the commit. *)
THEOREM Invariance == Spec => []IInv
  BY InvInit, InvStep, PTL DEF Spec

--------------------------------------------------------------------------------
(* Refinement: only a commit and a recount are steps of Reservation. *)

LEMMA Stutter ==
  ASSUME IInv, NEW o \in Orders, UNCHANGED <<stock, supply>>,
         \A p \in Orders \ {o} : tx'[p] = tx[p],
         LET held(t) == IF t.phase \in {"placed", "releasing"} THEN t.cart ELSE NoUnits
         IN  held(tx'[o]) = held(tx[o])
  PROVE  [R!Next]_R!vars
  <1>1. Held' = Held
    BY DEF Held
  <1> QED
    BY <1>1 DEF R!vars

LEMMA RollBackStutters ==
  ASSUME IInv, NEW o \in Orders, tx[o].phase \in Active, RollBack(o)
  PROVE  [R!Next]_R!vars
  <1>1. /\ tx \in [Orders -> TxRow] /\ UNCHANGED <<stock, supply>>
        /\ \A p \in Orders \ {o} : tx'[p] = tx[p]
        /\ tx'[o].cart = tx[o].cart
    BY DEF IInv, TypeOK, TxRow, RollBack, End
  <1>2. tx'[o].phase = CASE tx[o].phase = "placing"   -> "gone"
                         [] tx[o].phase = "releasing" -> "placed"
                         [] OTHER                     -> "released"
    BY <1>1 DEF RollBack, End, TxRow
  <1>3. tx[o].phase \in {"placing", "releasing", "retaking"}
    BY DEF Active, Taking
  <1> QED
    BY <1>1, <1>2, <1>3, Stutter

LEMMA UpdatedStutters ==
  ASSUME IInv, NEW o \in Orders, Updated(o)
  PROVE  [R!Next]_R!vars
  <1>1. /\ tx \in [Orders -> TxRow] /\ UNCHANGED <<stock, supply>>
        /\ \A p \in Orders \ {o} : tx'[p] = tx[p]
        /\ tx'[o].cart = tx[o].cart /\ tx'[o].phase = tx[o].phase
    BY DEF IInv, TypeOK, TxRow, Updated
  <1> QED
    BY <1>1, Stutter

LEMMA BeginStutters ==
  ASSUME IInv, NEW o \in Orders, NEW phase, NEW cart, Begin(o, phase, cart),
         \/ tx[o].phase \in {"none", "released"} /\ phase \in Taking
         \/ tx[o].phase = "placed" /\ phase = "releasing" /\ cart = tx[o].cart
  PROVE  [R!Next]_R!vars
  <1>1. /\ UNCHANGED <<stock, supply>>
        /\ \A p \in Orders \ {o} : tx'[p] = tx[p]
        /\ tx'[o].cart = cart /\ tx'[o].phase = phase
    BY DEF IInv, TypeOK, Begin
  <1> QED
    BY <1>1, Stutter DEF Taking

LEMMA CommitRefines ==
  ASSUME IInv, NEW o \in Orders, Commit(o)
  PROVE  [R!Next]_R!vars
  <1>1. /\ tx \in [Orders -> TxRow] /\ tx[o].cart \in Carts
        /\ tx[o].phase \in Active /\ tx[o].line = None
    BY DEF IInv, TypeOK, TxRow, CartsKnown, Commit, Active, Taking
  <1>2. CASE tx[o].phase = "releasing"
    <2>1. tx'[o].phase = "released" /\ \A p \in Orders \ {o} : tx'[p] = tx[p]
      BY <1>1, <1>2 DEF Commit, End, TxRow
    <2>2. Held[o] = tx[o].cart /\ Held' = [Held EXCEPT ![o] = NoUnits]
      BY <1>2, <2>1 DEF Held
    <2>3. R!Release(o)
      BY <1>2, <2>2 DEF R!Release, R!NoUnits, NoUnits, Commit
    <2> QED
      BY <2>3 DEF R!Next
  <1>3. CASE tx[o].phase \in Taking
    <2>1. \A v \in Variants : tx[o].cart[v] <= stock[v]
      BY <1>1, <1>3, CommitInStock
    <2>2. /\ tx'[o].phase = "placed" /\ tx'[o].cart = tx[o].cart
          /\ \A p \in Orders \ {o} : tx'[p] = tx[p]
          /\ stock' = [v \in Variants |-> stock[v] - tx[o].cart[v]]
      BY <1>1, <1>3 DEF Commit, End, TxRow, Taking
    <2>3. Held[o] = NoUnits /\ Held' = [Held EXCEPT ![o] = tx[o].cart]
      BY <1>3, <2>2 DEF Held, Taking
    <2>4. R!Reserve(o, tx[o].cart)
      BY <2>1, <2>2, <2>3 DEF R!Reserve, R!NoUnits, NoUnits, Commit
    <2> QED
      BY <1>1, <2>4 DEF R!Next
  <1> QED
    BY <1>1, <1>2, <1>3 DEF Active

LEMMA RefineInit == Init => R!Init
  BY DEF Init, R!Init, Held, NoTx, NoUnits, R!NoUnits

LEMMA RefineStep == IInv /\ [Next]_vars => [R!Next]_R!vars
  <1> SUFFICES ASSUME IInv, [Next]_vars PROVE [R!Next]_R!vars
    OBVIOUS
  <1>1. ASSUME NEW o \in Orders, NEW cart \in Carts, BeginPlace(o, cart)
        PROVE  [R!Next]_R!vars
    BY <1>1, BeginStutters DEF BeginPlace, Taking
  <1>2. ASSUME NEW o \in Orders, BeginRelease(o) \/ BeginRetake(o)
        PROVE  [R!Next]_R!vars
    BY <1>2, BeginStutters DEF BeginRelease, BeginRetake, Taking
  <1>3. ASSUME NEW o \in Orders, InsertItem(o) PROVE [R!Next]_R!vars
    <2>1. /\ tx \in [Orders -> TxRow] /\ UNCHANGED <<stock, supply>>
          /\ \A p \in Orders \ {o} : tx'[p] = tx[p]
          /\ tx'[o].cart = tx[o].cart /\ tx'[o].phase = tx[o].phase
      BY <1>3 DEF IInv, TypeOK, TxRow, InsertItem
    <2> QED
      BY <2>1, Stutter
  <1>4. ASSUME NEW o \in Orders, DecrementStock(o) \/ IncrementStock(o)
        PROVE  [R!Next]_R!vars
    BY <1>4, UpdatedStutters DEF DecrementStock, IncrementStock
  <1>5. ASSUME NEW o \in Orders, OutOfStock(o) \/ TransactionFails(o)
        PROVE  [R!Next]_R!vars
    BY <1>5, RollBackStutters DEF OutOfStock, TransactionFails, Active
  <1>6. ASSUME NEW o \in Orders, Deadlock(o) PROVE [R!Next]_R!vars
    <2>1. Blockers(o) # {}
      BY <1>6 DEF Deadlock, InCycle, Stuck
    <2>2. tx[o].phase \in Active
      BY <2>1 DEF Blockers, IInv, LocksOfActive
    <2> QED
      BY <1>6, <2>2, RollBackStutters DEF Deadlock
  <1>7. ASSUME NEW o \in Orders, Commit(o) PROVE [R!Next]_R!vars
    BY <1>7, CommitRefines
  <1>8. ASSUME NEW v \in Variants, NEW n \in 0..MaxStock, UpdateVariant(v, n)
        PROVE  [R!Next]_R!vars
    <2>1. R!Recount(v, n)
      BY <1>8 DEF UpdateVariant, R!Recount, Held
    <2> QED
      BY <2>1 DEF R!Next
  <1>9. CASE UNCHANGED vars
    BY <1>9 DEF vars, R!vars, Held
  <1> QED
    BY <1>1, <1>2, <1>3, <1>4, <1>5, <1>6, <1>7, <1>8, <1>9 DEF Next

(***************************************************************************)
(* Statements of any number of checkouts, releases and retries interleave  *)
(* under row locks, deadlocks and rollbacks included, and the stock moves  *)
(* as if each transaction were one step.                                   *)
(***************************************************************************)
THEOREM Refinement == Spec => ReservationSpec
  BY RefineInit, RefineStep, Invariance, PTL DEF Spec, ReservationSpec, R!Spec

(* Reservation's theorems, for the mapping above. *)
RP == INSTANCE Reservation_proofs WITH held <- Held

(***************************************************************************)
(* Between any two statements the shelf and the orders account for every   *)
(* unit: an uncommitted line is still on the shelf, a rolled back one was  *)
(* never off it.                                                           *)
(***************************************************************************)
THEOREM Conservation == Spec => []StockConserved
  <1>1. RP!Spec => []RP!StockConserved
    <2>1. RP!IsFiniteSet(Orders)
      BY OrdersAssumption DEF IsFiniteSet, RP!IsFiniteSet
    <2> QED
      BY <2>1, MaxQuantityAssumption, MaxStockAssumption, CartsAssumption, RP!Conserved, PTL
  <1>2. R!Init <=> RP!Init
    BY DEF R!Init, RP!Init, R!NoUnits, RP!NoUnits
  <1>3. [R!Next]_R!vars <=> [RP!Next]_RP!vars
    BY DEF R!Next, RP!Next, R!vars, RP!vars, R!Reserve, RP!Reserve, R!Release, RP!Release,
           R!Recount, RP!Recount, R!NoUnits, RP!NoUnits
  <1>4. RP!StockConserved <=> StockConserved
    BY DEF StockConserved, R!StockConserved, RP!StockConserved,
           R!HeldUnits, RP!HeldUnits, R!Cardinality, RP!Cardinality
  <1> QED
    BY <1>1, <1>2, <1>3, <1>4, Refinement, PTL DEF ReservationSpec, R!Spec, RP!Spec

--------------------------------------------------------------------------------
(* Waiting *)

(* Whoever keeps another waiting has its transaction open. *)
LEMMA BlockersAreOpen ==
  ASSUME IInv, NEW o \in Orders, NEW p \in Blockers(o)
  PROVE  p \in Orders /\ tx[p].phase \in Active
  <1>1. p \in Orders /\ \E v \in Variants \cup {None} : ExclusiveLock(p, v) \/ SharedLock(p, v)
    BY DEF Blockers, BlockShared, BlockExclusive, IInv, TypeOK
  <1> QED
    BY <1>1 DEF ExclusiveLock, SharedLock, IInv, LocksOfActive

(* Among finitely many transactions that wait for each other there is a    *)
(* smallest set that does: a cycle.                                        *)
LEMMA StuckHasCycle ==
  ASSUME NEW waiting \in SUBSET Orders, Stuck(waiting)
  PROVE  \E p \in waiting : InCycle(p)
  <1> DEFINE stuck == {some \in SUBSET waiting : Stuck(some)}
  <1>1. IsWellFoundedOn(StrictSubsetOrdering(Orders), SUBSET Orders)
    BY OrdersAssumption, FS_StrictSubsetOrderingWellFounded, FS_FiniteSubsetsOfFinite
  <1>2. stuck \subseteq SUBSET Orders /\ stuck # {}
    OBVIOUS
  <1>3. PICK cycle \in stuck : \A some \in stuck : <<some, cycle>> \notin StrictSubsetOrdering(Orders)
    BY <1>1, <1>2, WFMin
  <1>4. cycle \in SUBSET waiting /\ cycle \in SUBSET Orders /\ Stuck(cycle)
    BY <1>3
  <1>5. ASSUME NEW p \in cycle, NEW some \in SUBSET (cycle \ {p}) PROVE ~Stuck(some)
    <2>1. some \subseteq cycle /\ some # cycle
      BY <1>5
    <2>2. <<some, cycle>> \in StrictSubsetOrdering(Orders)
      BY <1>4, <2>1 DEF StrictSubsetOrdering
    <2>3. some \notin stuck
      BY <1>3, <2>2
    <2> QED
      BY <1>4, <2>1, <2>3
  <1>6. PICK p \in cycle : TRUE
    BY <1>4 DEF Stuck
  <1>7. InCycle(p)
    BY <1>4, <1>5, <1>6 DEF InCycle
  <1> QED
    BY <1>4, <1>6, <1>7

(* What holds in every state that satisfies the invariant: if none of the  *)
(* transactions o waits for, directly or not, gets its lock, all of them   *)
(* wait for each other.                                                    *)
LEMMA WaitsResolve == IInv => NoLostWait
  <1> SUFFICES ASSUME IInv, NEW o \in Orders, NEW waits \in SUBSET Orders,
                      tx[o].phase \in Active, o \in waits,
                      \A p \in waits : Blockers(p) \subseteq waits,
                      \A p \in waits : ~Granted(p)
               PROVE  \E p \in waits : InCycle(p)
    BY DEF NoLostWait
  <1> DEFINE open == {p \in waits : tx[p].phase \in Active}
  <1>1. ASSUME NEW p \in open PROVE Blockers(p) \cap open # {}
    <2>1. Blockers(p) # {} /\ Blockers(p) \subseteq waits
      BY <1>1 DEF Granted
    <2>2. \A q \in Blockers(p) : tx[q].phase \in Active
      BY <1>1, BlockersAreOpen
    <2> QED
      BY <2>1, <2>2
  <1>2. Stuck(open)
    BY <1>1 DEF Stuck
  <1>3. PICK p \in open : InCycle(p)
    BY <1>2, StuckHasCycle
  <1> QED
    BY <1>3

(***************************************************************************)
(* Deadlock detection leaves no wait behind, for any number of orders and  *)
(* variants: every chain of waits ends in a statement that gets its lock   *)
(* or in a cycle that InnoDB breaks.                                       *)
(***************************************************************************)
THEOREM NobodyForgotten == Spec => []NoLostWait
  BY WaitsResolve, Invariance, PTL

--------------------------------------------------------------------------------
(* Progress of one transaction *)

(* The loop works on lines it has not updated. *)
LineAhead == \A o \in Orders : tx[o].line \notin tx[o].updated

(* What a step of the system does to the transaction of order o. *)
Left(o) == tx'[o] = tx[o]
Begun(o) == tx[o].phase \notin Active /\ tx'[o].updated = {}
Ended(o) == tx'[o].phase \notin Active /\ tx'[o].updated = {}
Inserted(o) == ~tx[o].inserted /\ tx'[o] = [tx[o] EXCEPT !.inserted = TRUE]
LineDone(o) ==
  /\ tx[o].line # None
  /\ \E line \in NextLine(tx[o].cart, tx[o].updated \cup {tx[o].line}) :
       tx'[o] = [tx[o] EXCEPT !.updated = tx[o].updated \cup {tx[o].line},
                              !.line = line, !.inserted = FALSE]
TxStep(o) == Left(o) \/ Begun(o) \/ Ended(o) \/ Inserted(o) \/ LineDone(o)

LEMMA BeginIsStep ==
  ASSUME IInv, NEW p \in Orders, NEW phase, NEW cart, Begin(p, phase, cart),
         tx[p].phase \notin Active, NEW o \in Orders
  PROVE  TxStep(o)
  BY DEF Begin, TxStep, Left, Begun, IInv, TypeOK

LEMMA EndIsStep ==
  ASSUME IInv, NEW p \in Orders, NEW phase, phase \notin Active, End(p, phase),
         NEW o \in Orders
  PROVE  TxStep(o)
  <1>1. tx[p] \in TxRow
    BY DEF IInv, TypeOK, TxRow
  <1>2. CASE o = p
    <2>1. tx'[p].phase = phase /\ tx'[p].updated = {}
      BY <1>1 DEF End, TxRow, IInv, TypeOK
    <2> QED
      BY <1>2, <2>1 DEF TxStep, Ended
  <1>3. CASE o # p
    BY <1>3 DEF End, TxStep, Left, IInv, TypeOK
  <1> QED
    BY <1>2, <1>3

LEMMA RollBackIsStep ==
  ASSUME IInv, NEW p \in Orders, RollBack(p), NEW o \in Orders
  PROVE  TxStep(o)
  <1>1. \E phase \in {"gone", "placed", "released"} : End(p, phase)
    BY DEF RollBack
  <1> QED
    BY <1>1, EndIsStep DEF Active, Taking

LEMMA UpdatedIsStep ==
  ASSUME IInv, NEW p \in Orders, Updated(p), tx[p].line # None, NEW o \in Orders
  PROVE  TxStep(o)
  <1>1. PICK line \in NextLine(tx[p].cart, tx[p].updated \cup {tx[p].line}) :
          tx' = [tx EXCEPT ![p].updated = tx[p].updated \cup {tx[p].line},
                           ![p].line = line, ![p].inserted = FALSE]
    BY DEF Updated
  <1> QED
    BY <1>1 DEF TxStep, Left, LineDone, IInv, TypeOK

LEMMA TxSteps == IInv /\ [Next]_vars => \A o \in Orders : TxStep(o)
  <1> SUFFICES ASSUME IInv, [Next]_vars, NEW o \in Orders PROVE TxStep(o)
    OBVIOUS
  <1>1. ASSUME NEW p \in Orders, NEW cart \in Carts, BeginPlace(p, cart) PROVE TxStep(o)
    BY <1>1, BeginIsStep DEF BeginPlace, Active, Taking
  <1>2. ASSUME NEW p \in Orders, BeginRelease(p) \/ BeginRetake(p) PROVE TxStep(o)
    BY <1>2, BeginIsStep DEF BeginRelease, BeginRetake, Active, Taking
  <1>3. ASSUME NEW p \in Orders, InsertItem(p) PROVE TxStep(o)
    BY <1>3 DEF InsertItem, TxStep, Left, Inserted, IInv, TypeOK
  <1>4. ASSUME NEW p \in Orders, DecrementStock(p) \/ IncrementStock(p) PROVE TxStep(o)
    BY <1>4, UpdatedIsStep DEF DecrementStock, IncrementStock, AtUpdate
  <1>5. ASSUME NEW p \in Orders, OutOfStock(p) \/ TransactionFails(p) \/ Deadlock(p)
        PROVE  TxStep(o)
    BY <1>5, RollBackIsStep DEF OutOfStock, TransactionFails, Deadlock
  <1>6. ASSUME NEW p \in Orders, Commit(p) PROVE TxStep(o)
    <2>1. \E phase \in {"released", "placed"} : End(p, phase)
      BY <1>6 DEF Commit
    <2> QED
      BY <2>1, EndIsStep DEF Active, Taking
  <1>7. CASE UNCHANGED tx
    BY <1>7 DEF TxStep, Left
  <1>8. ASSUME NEW v \in Variants, NEW n \in 0..MaxStock, UpdateVariant(v, n)
        PROVE  UNCHANGED tx
    BY <1>8 DEF UpdateVariant
  <1> QED
    BY <1>1, <1>2, <1>3, <1>4, <1>5, <1>6, <1>7, <1>8 DEF Next, vars

LEMMA LineAheadInvariance == Spec => []LineAhead
  <1>1. Init => LineAhead
    BY DEF Init, NoTx, LineAhead
  <1>2. IInv /\ LineAhead /\ [Next]_vars => LineAhead'
    <2> SUFFICES ASSUME IInv, LineAhead, [Next]_vars, NEW o \in Orders
                 PROVE  tx'[o].line \notin tx'[o].updated
      BY DEF LineAhead
    <2>1. TxStep(o) /\ tx[o] \in TxRow
      BY TxSteps DEF IInv, TypeOK, TxRow
    <2>2. CASE Left(o) \/ Begun(o) \/ Ended(o)
      BY <2>2 DEF Left, Begun, Ended, LineAhead
    <2>3. CASE Inserted(o)
      BY <2>1, <2>3 DEF Inserted, TxRow, LineAhead
    <2>4. CASE LineDone(o)
      <3>1. PICK line \in NextLine(tx[o].cart, tx[o].updated \cup {tx[o].line}) :
              tx'[o] = [tx[o] EXCEPT !.updated = tx[o].updated \cup {tx[o].line},
                                     !.line = line, !.inserted = FALSE]
        BY <2>4 DEF LineDone
      <3>2. tx'[o].line = line /\ tx'[o].updated = tx[o].updated \cup {tx[o].line}
        BY <2>1, <3>1 DEF TxRow
      <3>3. tx[o].line \in Variants /\ tx[o].updated \subseteq Variants
        BY <2>1, <2>4 DEF LineDone, TxRow
      <3>4. line \notin tx[o].updated \cup {tx[o].line}
        BY <3>3, NoneAssumption DEF NextLine
      <3> QED
        BY <3>2, <3>4
    <2> QED
      BY <2>1, <2>2, <2>3, <2>4 DEF TxStep
  <1> QED
    BY <1>1, <1>2, Invariance, PTL DEF Spec

(***************************************************************************)
(* An open transaction keeps every row it has locked until it ends, and    *)
(* each of its statements locks one more: whatever the others do, it       *)
(* commits after at most two statements per line.                          *)
(***************************************************************************)
THEOREM Advance == Spec => TransactionsAdvance
  <1> DEFINE Advances ==
        \A o \in Orders :
          tx[o].phase \in Active =>
            \/ tx'[o] = tx[o]
            \/ Further(tx[o], tx'[o])
            \/ tx'[o].phase \notin Active
  <1>1. IInv /\ LineAhead /\ [Next]_vars => Advances
    <2> SUFFICES ASSUME IInv, LineAhead, [Next]_vars, NEW o \in Orders,
                        tx[o].phase \in Active
                 PROVE  \/ tx'[o] = tx[o]
                        \/ Further(tx[o], tx'[o])
                        \/ tx'[o].phase \notin Active
      OBVIOUS
    <2>1. TxStep(o) /\ tx[o] \in TxRow
      BY TxSteps DEF IInv, TypeOK, TxRow
    <2>2. CASE Left(o) \/ Begun(o) \/ Ended(o)
      BY <2>2 DEF Left, Begun, Ended
    <2>3. CASE Inserted(o)
      BY <2>1, <2>3 DEF Inserted, TxRow, Further
    <2>4. CASE LineDone(o)
      <3>1. /\ tx'[o].phase = tx[o].phase /\ tx'[o].cart = tx[o].cart
            /\ tx'[o].updated = tx[o].updated \cup {tx[o].line}
        BY <2>1, <2>4 DEF LineDone, TxRow
      <3>2. tx[o].line \notin tx[o].updated
        BY DEF LineAhead
      <3> QED
        BY <3>1, <3>2 DEF Further
    <2> QED
      BY <2>1, <2>2, <2>3, <2>4 DEF TxStep
  <1> QED
    BY <1>1, LineAheadInvariance, Invariance, PTL DEF Spec, TransactionsAdvance

================================================================================
