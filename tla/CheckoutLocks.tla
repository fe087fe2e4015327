---------------------------- MODULE CheckoutLocks -----------------------------
(***************************************************************************)
(* The transactions that move stock, statement by statement, with the row  *)
(* locks InnoDB takes on product_variants under them.  OrderLifecycle and  *)
(* Reservation take such a transaction as one step; this module shows that *)
(* they may.                                                               *)
(*                                                                         *)
(* A transaction works through the lines of its cart.  An INSERT into      *)
(* order_items takes a shared lock on the variant (foreign key), an UPDATE *)
(* of the stock an exclusive one; locks are kept until commit or rollback. *)
(* Nobody reads what is not committed, so stock is the committed value and *)
(* commit applies the updates.  The row lock on the order lets one         *)
(* transaction per order run at a time.                                    *)
(***************************************************************************)
EXTENDS StockParameters

CONSTANT None  \* no line is left

ASSUME NoneAssumption == None \notin Variants

Lines(cart) == {v \in Variants : cart[v] > 0}

Taking == {"placing", "retaking"}    \* decrementStock on every line
Active == Taking \cup {"releasing"}  \* a transaction is open
Phases == Active \cup {"none", "placed", "released", "gone"}

VARIABLES
  stock,  \* stock[v]: product_variants.stock_quantity, committed
  tx,     \* tx[o]: the transaction of order o and where it stands
  supply  \* history: see Reservation

vars == <<stock, tx, supply>>

(* line: the variant the transaction works on or waits for.  inserted: its *)
(* item of that line is inserted.  updated: the lines whose stock it       *)
(* updated.                                                                *)
NoTx == [phase |-> "none", cart |-> NoUnits, line |-> None,
         inserted |-> FALSE, updated |-> {}]

TypeOK ==
  /\ stock \in [Variants -> Nat]
  /\ tx \in [Orders -> [phase : Phases, cart : Carts \cup {NoUnits},
                        line : Variants \cup {None}, inserted : BOOLEAN,
                        updated : SUBSET Variants]]
  /\ supply \in [Variants -> Int]

Init ==
  /\ stock \in [Variants -> 0..MaxStock]
  /\ tx = [o \in Orders |-> NoTx]
  /\ supply = stock

--------------------------------------------------------------------------------
(* Locks *)

ExclusiveLock(o, v) == v \in tx[o].updated
SharedLock(o, v) == tx[o].line = v /\ tx[o].inserted

(* The others whose locks keep o from a shared or an exclusive lock on v. *)
BlockShared(o, v) == {p \in Orders \ {o} : ExclusiveLock(p, v)}
BlockExclusive(o, v) ==
  {p \in Orders \ {o} : ExclusiveLock(p, v) \/ SharedLock(p, v)}

(* What o waits for: its INSERT or its UPDATE on the line it works on. *)
Blockers(o) ==
  IF tx[o].line = None THEN {}
  ELSE IF tx[o].phase = "placing" /\ ~tx[o].inserted
         THEN BlockShared(o, tx[o].line)
         ELSE BlockExclusive(o, tx[o].line)

(* The next line of the loop over the items, in any order. *)
NextLine(cart, updated) ==
  IF Lines(cart) \ updated = {} THEN {None} ELSE Lines(cart) \ updated

--------------------------------------------------------------------------------
(* Transactions *)

Begin(o, phase, cart) ==
  /\ \E line \in NextLine(cart, {}) :
       tx' = [tx EXCEPT ![o] = [phase |-> phase, cart |-> cart, line |-> line,
                                inserted |-> FALSE, updated |-> {}]]
  /\ UNCHANGED <<stock, supply>>

(* placeOrder inserts the row of the order. *)
BeginPlace(o, cart) ==
  /\ tx[o].phase = "none"
  /\ Begin(o, "placing", cart)

(* A cancellation, a failed payment or an expiry claimed the release. *)
BeginRelease(o) ==
  /\ tx[o].phase = "placed"
  /\ Begin(o, "releasing", tx[o].cart)

(* reacquireInventoryForRetry found stock to take again. *)
BeginRetake(o) ==
  /\ tx[o].phase = "released"
  /\ Begin(o, "retaking", tx[o].cart)

(* The transaction ends in phase, its locks are gone. *)
End(o, phase) ==
  tx' = [tx EXCEPT ![o].phase = phase, ![o].line = None,
                   ![o].inserted = FALSE, ![o].updated = {}]

(* Mutant of RollBack: the transaction is forgotten with its locks. *)
RollBack_KeepsLocks(o) ==
  /\ tx' = [tx EXCEPT ![o].phase =
       CASE tx[o].phase = "placing"   -> "gone"
         [] tx[o].phase = "releasing" -> "placed"
         [] OTHER                     -> "released"]
  /\ UNCHANGED <<stock, supply>>

RollBack(o) ==
  /\ End(o, CASE tx[o].phase = "placing"   -> "gone"
              [] tx[o].phase = "releasing" -> "placed"
              [] OTHER                     -> "released")
  /\ UNCHANGED <<stock, supply>>

(* insertItem *)
InsertItem(o) ==
  /\ tx[o].phase = "placing" /\ tx[o].line # None /\ ~tx[o].inserted
  /\ Blockers(o) = {}
  /\ tx' = [tx EXCEPT ![o].inserted = TRUE]
  /\ UNCHANGED <<stock, supply>>

(* The UPDATE of the line's stock is done; the loop goes on. *)
Updated(o) ==
  \E line \in NextLine(tx[o].cart, tx[o].updated \cup {tx[o].line}) :
    /\ tx' = [tx EXCEPT ![o].updated = @ \cup {tx[o].line},
                        ![o].line = line, ![o].inserted = FALSE]
    /\ UNCHANGED <<stock, supply>>

(* The transaction may ask for the exclusive lock on its line. *)
AtUpdate(o) == tx[o].line # None /\ (tx[o].phase = "placing" => tx[o].inserted)

(* Mutant of DecrementStock: the stock is compared on a plain read, before *)
(* the lock.                                                               *)
DecrementStock_Unlocked(o) ==
  /\ tx[o].phase \in Taking /\ AtUpdate(o)
  /\ stock[tx[o].line] >= tx[o].cart[tx[o].line]
  /\ Updated(o)

(* decrementStock affecting a row: compared and written under the lock. *)
DecrementStock(o) ==
  /\ tx[o].phase \in Taking /\ AtUpdate(o)
  /\ Blockers(o) = {}
  /\ stock[tx[o].line] >= tx[o].cart[tx[o].line]
  /\ Updated(o)

(* Mutants of OutOfStock: the line is passed over; the transaction is left *)
(* open.                                                                   *)
OutOfStock_PassesOver(o) ==
  /\ tx[o].phase \in Taking /\ AtUpdate(o)
  /\ Blockers(o) = {}
  /\ stock[tx[o].line] < tx[o].cart[tx[o].line]
  /\ Updated(o)
OutOfStock_LeavesOpen(o) ==
  /\ tx[o].phase \in Taking /\ AtUpdate(o)
  /\ Blockers(o) = {}
  /\ stock[tx[o].line] < tx[o].cart[tx[o].line]
  /\ UNCHANGED vars

(* decrementStock affecting no row: everything is rolled back. *)
OutOfStock(o) ==
  /\ tx[o].phase \in Taking /\ AtUpdate(o)
  /\ Blockers(o) = {}
  /\ stock[tx[o].line] < tx[o].cart[tx[o].line]
  /\ RollBack(o)

(* incrementStock *)
IncrementStock(o) ==
  /\ tx[o].phase = "releasing" /\ tx[o].line # None
  /\ Blockers(o) = {}
  /\ Updated(o)

(* Every line is done. *)
Commit(o) ==
  /\ tx[o].phase \in Active /\ tx[o].line = None
  /\ IF tx[o].phase = "releasing"
       THEN /\ End(o, "released")
            /\ stock' = [v \in Variants |-> stock[v] + tx[o].cart[v]]
       ELSE /\ End(o, "placed")
            /\ stock' = [v \in Variants |-> stock[v] - tx[o].cart[v]]
  /\ UNCHANGED supply

(* A database error, a lock wait timeout or the death of the request. *)
TransactionFails(o) ==
  /\ tx[o].phase \in Active
  /\ RollBack(o)

(* Everyone in a set waits for someone in it. *)
Stuck(waiting) ==
  waiting # {} /\ \A p \in waiting : Blockers(p) \cap waiting # {}

(* A cycle of waits is a smallest such set. *)
InCycle(o) ==
  \E cycle \in SUBSET Orders :
    /\ o \in cycle /\ Stuck(cycle)
    /\ \A p \in cycle : \A some \in SUBSET (cycle \ {p}) : ~Stuck(some)

(* InnoDB rolls back one transaction of a cycle. *)
Deadlock(o) ==
  /\ InCycle(o)
  /\ RollBack(o)

(* Staff set the stock of a variant, one UPDATE. *)
UpdateVariant(v, n) ==
  /\ \A o \in Orders : ~ExclusiveLock(o, v) /\ ~SharedLock(o, v)
  /\ stock' = [stock EXCEPT ![v] = n]
  /\ supply' = [supply EXCEPT ![v] = @ + (n - stock[v])]
  /\ UNCHANGED tx

Next ==
  \/ \E o \in Orders :
       \/ \E cart \in Carts : BeginPlace(o, cart)
       \/ BeginRelease(o)
       \/ BeginRetake(o)
       \/ InsertItem(o)
       \/ DecrementStock(o)
       \/ OutOfStock(o)
       \/ IncrementStock(o)
       \/ Commit(o)
       \/ TransactionFails(o)
       \/ Deadlock(o)
  \/ \E v \in Variants, n \in 0..MaxStock : UpdateVariant(v, n)

Spec == Init /\ [][Next]_vars

(* The next statement of the transaction of o, or its commit. *)
Proceed(o) ==
  InsertItem(o) \/ DecrementStock(o) \/ OutOfStock(o) \/ IncrementStock(o)
  \/ Commit(o)

(* A statement whose lock comes free again and again gets it: InnoDB grants*)
(* locks in the order they were asked for and breaks deadlocks; PHP goes on*)
(* to the next statement.                                                  *)
Fairness ==
  /\ \A o \in Orders : SF_vars(Proceed(o))
  /\ WF_vars(\E o \in Orders : Deadlock(o))

FairSpec == Spec /\ Fairness

--------------------------------------------------------------------------------
(***************************************************************************)
(* Two-phase locking: an exclusive lock is the only lock on its row, only  *)
(* open transactions hold locks, and a line taken is still in stock until  *)
(* the commit takes it, with every line of the cart taken by then.         *)
(***************************************************************************)
LocksExclude ==
  \A o, p \in Orders, v \in Variants :
    o # p /\ ExclusiveLock(o, v) => ~ExclusiveLock(p, v) /\ ~SharedLock(p, v)
TakenInStock ==
  \A o \in Orders :
    /\ tx[o].phase \in Taking =>
         \A v \in tx[o].updated : tx[o].cart[v] <= stock[v]
    /\ tx[o].phase \in Active /\ tx[o].line = None =>
         Lines(tx[o].cart) \subseteq tx[o].updated
LocksOfActive ==
  \A o \in Orders :
    tx[o].phase \notin Active =>
      tx[o].updated = {} /\ ~tx[o].inserted /\ tx[o].line = None
CartsKnown == \A o \in Orders : tx[o].phase # "none" => tx[o].cart \in Carts

IInv == TypeOK /\ LocksExclude /\ TakenInStock /\ LocksOfActive /\ CartsKnown

(***************************************************************************)
(* Whatever interleaves, each transaction takes all its lines at once, or  *)
(* gives all of them back at once, or leaves no trace.                     *)
(***************************************************************************)
Held ==
  [o \in Orders |-> IF tx[o].phase \in {"placed", "releasing"}
                      THEN tx[o].cart ELSE NoUnits]
R == INSTANCE Reservation WITH held <- Held
ReservationSpec == R!Spec

(* The shelf and the orders account for every unit, between any two        *)
(* statements of any transactions.                                         *)
StockConserved == R!StockConserved

(***************************************************************************)
(* Nobody waits for nothing: whoever waits, the transactions it waits for, *)
(* those they wait for and so on include one whose next statement gets its *)
(* lock, or one InnoDB's deadlock detection finds in a cycle.  A lock that *)
(* outlived its transaction, or a wait detection cannot see, would leave   *)
(* orders and stock behind it until the lock wait timeout.                 *)
(***************************************************************************)
Granted(o) == tx[o].phase \in Active /\ Blockers(o) = {}
NoLostWait ==
  \A o \in Orders, waits \in SUBSET Orders :
    /\ tx[o].phase \in Active
    /\ o \in waits /\ \A p \in waits : Blockers(p) \subseteq waits
    => \E p \in waits : Granted(p) \/ InCycle(p)

(***************************************************************************)
(* A statement never undoes another: what an open transaction has locked   *)
(* it keeps until its end, and each step of its own locks a row more.      *)
(***************************************************************************)
Further(before, after) ==
  /\ after.phase = before.phase /\ after.cart = before.cart
  /\ \/ before.updated \subseteq after.updated /\ before.updated # after.updated
     \/ /\ before.updated = after.updated /\ before.line = after.line
        /\ ~before.inserted /\ after.inserted
TransactionsAdvance ==
  [][\A o \in Orders :
       tx[o].phase \in Active =>
         \/ tx'[o] = tx[o]
         \/ Further(tx[o], tx'[o])
         \/ tx'[o].phase \notin Active]_vars

(***************************************************************************)
(* Every transaction ends: none waits for ever for a row another keeps.    *)
(***************************************************************************)
TransactionsEnd ==
  \A o \in Orders : tx[o].phase \in Active ~> tx[o].phase \notin Active

================================================================================
