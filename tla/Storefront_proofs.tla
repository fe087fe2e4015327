--------------------------- MODULE Storefront_proofs ---------------------------
(***************************************************************************)
(* Proofs about the two ends of the storefront's checkout: the cart in the *)
(* tabs of one browser (ShoppingCart), for any tabs, variants and stock,   *)
(* and the card payment page (PaymentPage), for any number of polls, tries *)
(* and requests.                                                           *)
(***************************************************************************)
EXTENDS ShoppingCart, PaymentPage, TLAPS

--------------------------------------------------------------------------------
(* The cart: what its pure functions return *)

(* "Clamped to 1..stock_quantity": the cart-context's clamp stays in range *)
(* whenever there is stock at all, whatever quantity is asked for.         *)
LEMMA ClampInRange ==
  ASSUME NEW quantity \in Nat, NEW stock \in Nat, stock >= 1
  PROVE  Clamp(quantity, stock) \in 1..stock
  BY DEF Clamp, Min2

LEMMA ItemsOfCart ==
  ASSUME NEW cart \in Carts, NEW v \in Variants
  PROVE  /\ cart[v] \in CartItem
         /\ cart[v].stock \in Nat /\ cart[v].quantity \in Nat
  BY DEF Carts, CartItem

LEMMA QuantityReplaced ==
  ASSUME NEW item \in CartItem, NEW quantity
  PROVE  [item EXCEPT !.quantity = quantity] = [stock |-> item.stock, quantity |-> quantity]
  BY DEF CartItem

(* A line that is in the cart and within its stock has stock. *)
LEMMA LineHasStock ==
  ASSUME NEW cart \in Carts, WithinStock(cart), NEW v \in Variants, Holds(cart, v)
  PROVE  /\ cart[v].quantity \in 1..cart[v].stock
         /\ cart[v].stock >= 1
  <1>1. cart[v].quantity \in 1..cart[v].stock
    BY DEF WithinStock
  <1> QED
    BY <1>1, ItemsOfCart

(* One line replaced by another within its stock. *)
LEMMA LineReplaced ==
  ASSUME NEW cart \in Carts, WithinStock(cart), NEW v \in Variants,
         NEW item \in CartItem, item # NoItem => item.quantity \in 1..item.stock
  PROVE  /\ [cart EXCEPT ![v] = item] \in Carts
         /\ WithinStock([cart EXCEPT ![v] = item])
  BY DEF Carts, WithinStock, Holds

LEMMA EmptyCartSound == EmptyCart \in Carts /\ WithinStock(EmptyCart)
  BY DEF EmptyCart, NoItem, Carts, CartItem, WithinStock, Holds

(* addItem, called with a stock the button saw as positive. *)
LEMMA AddItemSound ==
  ASSUME NEW cart \in Carts, WithinStock(cart), NEW v \in Variants,
         NEW stock \in Nat, stock >= 1
  PROVE  AddItem(cart, v, stock, 1) \in Carts /\ WithinStock(AddItem(cart, v, stock, 1))
  <1>1. CASE Holds(cart, v)
    <2> DEFINE item == [stock |-> cart[v].stock,
                        quantity |-> Clamp(cart[v].quantity + 1, cart[v].stock)]
    <2>1. Clamp(cart[v].quantity + 1, cart[v].stock) \in 1..cart[v].stock
      <3>1. cart[v].stock >= 1
        BY <1>1, LineHasStock
      <3>2. cart[v].stock \in Nat /\ cart[v].quantity + 1 \in Nat
        BY ItemsOfCart
      <3> QED
        BY <3>1, <3>2, ClampInRange
    <2>2. item \in CartItem /\ item.quantity \in 1..item.stock
      BY <2>1, ItemsOfCart DEF CartItem
    <2>3. AddItem(cart, v, stock, 1) = [cart EXCEPT ![v] = item]
      BY <1>1, ItemsOfCart, QuantityReplaced DEF AddItem
    <2> QED
      BY <2>2, <2>3, LineReplaced
  <1>2. CASE ~Holds(cart, v)
    <2> DEFINE item == [stock |-> stock, quantity |-> Clamp(1, stock)]
    <2>1. item \in CartItem /\ item.quantity \in 1..item.stock
      BY ClampInRange DEF CartItem
    <2>2. AddItem(cart, v, stock, 1) = [cart EXCEPT ![v] = item]
      BY <1>2 DEF AddItem
    <2> QED
      BY <2>1, <2>2, LineReplaced
  <1> QED
    BY <1>1, <1>2

(* updateQuantity, called by the steppers for a line of the cart. *)
LEMMA UpdateQuantitySound ==
  ASSUME NEW cart \in Carts, WithinStock(cart), NEW v \in Variants,
         NEW quantity \in Nat, Holds(cart, v)
  PROVE  /\ UpdateQuantity(cart, v, quantity) \in Carts
         /\ WithinStock(UpdateQuantity(cart, v, quantity))
  <1> DEFINE item == [stock |-> cart[v].stock, quantity |-> Clamp(quantity, cart[v].stock)]
  <1>1. Clamp(quantity, cart[v].stock) \in 1..cart[v].stock
    <2>1. cart[v].stock >= 1 /\ cart[v].stock \in Nat
      BY LineHasStock, ItemsOfCart
    <2> QED
      BY <2>1, ClampInRange
  <1>2. item \in CartItem /\ item.quantity \in 1..item.stock
    BY <1>1, ItemsOfCart DEF CartItem
  <1>3. UpdateQuantity(cart, v, quantity) = [cart EXCEPT ![v] = item]
    BY ItemsOfCart, QuantityReplaced DEF UpdateQuantity
  <1> QED
    BY <1>2, <1>3, LineReplaced

LEMMA RemoveItemSound ==
  ASSUME NEW cart \in Carts, WithinStock(cart), NEW v \in Variants
  PROVE  RemoveItem(cart, v) \in Carts /\ WithinStock(RemoveItem(cart, v))
  <1>1. NoItem \in CartItem
    BY DEF NoItem, CartItem
  <1> QED
    BY <1>1, LineReplaced DEF RemoveItem

--------------------------------------------------------------------------------
(* The cart: the steps *)

(* What a tab's cache holds once it was read. *)
LEMMA CacheSound ==
  ASSUME CartIInv, NEW t \in Tabs, cached[t] # NoCart
  PROVE  cached[t] \in Carts /\ WithinStock(cached[t])
  BY DEF CartIInv, CartTypeOK, QuantitiesWithinStock

(* commit keeps the invariant for a cart that is sound, whether or not     *)
(* localStorage takes it.                                                  *)
LEMMA CommitCartIInv ==
  ASSUME CartIInv, NEW t \in Tabs, NEW next \in Carts, WithinStock(next),
         Commit(t, next), UNCHANGED page
  PROVE  CartIInv'
  <1>1. /\ cached' = [cached EXCEPT ![t] = next]
        /\ stored' \in {next, stored}
        /\ writer' \in {t, writer, "nobody"}
    BY DEF Commit
  <1>2. CartTypeOK'
    BY <1>1 DEF CartIInv, CartTypeOK
  <1>3. QuantitiesWithinStock'
    BY <1>1 DEF CartIInv, CartTypeOK, QuantitiesWithinStock, WithinStock, Holds
  <1>4. StoredIsLastWrite'
    BY TabsAssumption DEF Commit, CartIInv, CartTypeOK, StoredIsLastWrite
  <1>5. ChoiceIsSold'
    BY DEF CartIInv, ChoiceIsSold, Selected
  <1>6. ShownHasRead'
    BY <1>1, NoCartAssumption DEF CartIInv, CartTypeOK, ShownHasRead
  <1> QED
    BY <1>2, <1>3, <1>4, <1>5, <1>6 DEF CartIInv

(* The carts and the writer are left alone. *)
LEMMA PageTurnsCartIInv ==
  ASSUME CartIInv, NEW t \in Tabs, NEW shows \in ProductPage \cup {Elsewhere},
         page' = [page EXCEPT ![t] = shows], UNCHANGED <<stored, cached, writer>>,
         shows # Elsewhere => cached[t] # NoCart,
         shows # Elsewhere /\ shows.clicked => <<shows.size, shows.color>> \in Variants
  PROVE  CartIInv'
  <1>1. CartTypeOK'
    BY DEF CartIInv, CartTypeOK
  <1>2. QuantitiesWithinStock' /\ StoredIsLastWrite'
    BY DEF CartIInv, QuantitiesWithinStock, WithinStock, Holds, StoredIsLastWrite
  <1>3. ShownHasRead' /\ ChoiceIsSold'
    BY DEF CartIInv, CartTypeOK, ShownHasRead, ChoiceIsSold, Selected
  <1> QED
    BY <1>1, <1>2, <1>3 DEF CartIInv

LEMMA GetSnapshotCartIInv ==
  ASSUME CartIInv, NEW t \in Tabs, GetSnapshot(t)
  PROVE  CartIInv'
  <1>1. CartTypeOK'
    BY DEF GetSnapshot, CartIInv, CartTypeOK
  <1>2. QuantitiesWithinStock'
    BY DEF GetSnapshot, CartIInv, CartTypeOK, QuantitiesWithinStock, WithinStock, Holds
  <1>3. StoredIsLastWrite' /\ ChoiceIsSold' /\ ShownHasRead'
    BY NoCartAssumption
    DEF GetSnapshot, CartIInv, CartTypeOK, ShownHasRead, StoredIsLastWrite, ChoiceIsSold, Selected
  <1> QED
    BY <1>1, <1>2, <1>3 DEF CartIInv

LEMMA OpenProductCartIInv ==
  ASSUME CartIInv, NEW t \in Tabs, NEW seen \in [Variants -> StockLevels],
         NEW size \in Sizes, NEW color \in Colors, OpenProduct(t, seen, size, color)
  PROVE  CartIInv'
  <1> DEFINE shows == [seen |-> seen, size |-> size, color |-> color, clicked |-> FALSE]
  <1>1. shows \in ProductPage
    BY StockLevelsAssumption DEF ProductPage
  <1> QED
    BY <1>1, PageTurnsCartIInv DEF OpenProduct

LEMMA LeaveProductCartIInv ==
  ASSUME CartIInv, NEW t \in Tabs, LeaveProduct(t)
  PROVE  CartIInv'
  BY PageTurnsCartIInv DEF LeaveProduct

LEMMA ChooseCartIInv ==
  ASSUME CartIInv, NEW t \in Tabs, NEW size \in Sizes, NEW color \in Colors,
         page[t] # Elsewhere, <<size, color>> \in Variants,
         page' = [page EXCEPT ![t].size = size, ![t].color = color, ![t].clicked = TRUE],
         UNCHANGED <<stored, cached, writer>>
  PROVE  CartIInv'
  <1> DEFINE shows == [page[t] EXCEPT !.size = size, !.color = color, !.clicked = TRUE]
  <1>1. page[t] \in ProductPage
    BY DEF CartIInv, CartTypeOK
  <1>2. /\ shows \in ProductPage
        /\ shows.size = size /\ shows.color = color
    BY <1>1 DEF ProductPage
  <1>3. page' = [page EXCEPT ![t] = shows]
    BY DEF CartIInv, CartTypeOK
  <1> QED
    BY <1>2, <1>3, PageTurnsCartIInv DEF CartIInv, ShownHasRead

LEMMA ChooseSizeCartIInv ==
  ASSUME CartIInv, NEW t \in Tabs, NEW size \in Sizes, ChooseSize(t, size)
  PROVE  CartIInv'
  <1>1. PICK color \in ColorsForSize(size) :
          page' = [page EXCEPT ![t].size = size, ![t].color = color, ![t].clicked = TRUE]
    BY DEF ChooseSize
  <1> QED
    BY <1>1, ChooseCartIInv DEF ChooseSize, ColorsForSize

LEMMA ChooseColorCartIInv ==
  ASSUME CartIInv, NEW t \in Tabs, NEW color \in Colors, ChooseColor(t, color)
  PROVE  CartIInv'
  <1>1. page[t] \in ProductPage /\ page[t] # Elsewhere
    BY DEF ChooseColor, CartIInv, CartTypeOK
  <1>2. page[t].size \in Sizes /\ <<page[t].size, color>> \in Variants
    BY <1>1 DEF ProductPage, ChooseColor, ColorEnabled, ColorsForSize
  <1> DEFINE shows == [page[t] EXCEPT !.color = color, !.clicked = TRUE]
  <1>3. shows \in ProductPage /\ shows.size = page[t].size /\ shows.color = color
    BY <1>1 DEF ProductPage
  <1>4. page' = [page EXCEPT ![t] = shows]
    BY DEF ChooseColor, CartIInv, CartTypeOK
  <1> QED
    BY <1>1, <1>2, <1>3, <1>4, PageTurnsCartIInv DEF ChooseColor, CartIInv, ShownHasRead

LEMMA HandleAddCartIInv ==
  ASSUME CartIInv, NEW t \in Tabs, HandleAdd(t)
  PROVE  CartIInv'
  <1>1. page[t] \in ProductPage /\ Selected(t) \in Variants /\ page[t].seen[Selected(t)] > 0
    BY DEF HandleAdd, AddEnabled, CartIInv, CartTypeOK
  <1>2. page[t].seen[Selected(t)] \in Nat /\ page[t].seen[Selected(t)] >= 1
    BY <1>1 DEF ProductPage
  <1>3. cached[t] # NoCart
    BY DEF HandleAdd, AddEnabled, CartIInv, ShownHasRead
  <1> QED
    BY <1>1, <1>2, <1>3, CacheSound, AddItemSound, CommitCartIInv DEF HandleAdd

LEMMA StepperCartIInv ==
  ASSUME CartIInv, NEW t \in Tabs, NEW v \in Variants, Decrease(t, v) \/ Increase(t, v)
  PROVE  CartIInv'
  <1>1. cached[t] \in Carts /\ WithinStock(cached[t]) /\ Holds(cached[t], v)
    BY CacheSound DEF Decrease, Increase, CartLine
  <1>2. cached[t][v].quantity + 1 \in Nat /\ cached[t][v].quantity - 1 \in Nat
    BY <1>1, LineHasStock, ItemsOfCart
  <1> QED
    BY <1>1, <1>2, UpdateQuantitySound, CommitCartIInv DEF Decrease, Increase

LEMMA RemoveCartIInv ==
  ASSUME CartIInv, NEW t \in Tabs, NEW v \in Variants, Remove(t, v)
  PROVE  CartIInv'
  BY CacheSound, RemoveItemSound, CommitCartIInv DEF Remove, CartLine

LEMMA ClearCartCartIInv ==
  ASSUME CartIInv, NEW t \in Tabs, ClearCart(t)
  PROVE  CartIInv'
  BY EmptyCartSound, CommitCartIInv DEF ClearCart

LEMMA ReloadCartIInv ==
  ASSUME CartIInv, NEW t \in Tabs, Reload(t)
  PROVE  CartIInv'
  <1>1. CartTypeOK'
    BY DEF Reload, CartIInv, CartTypeOK
  <1>2. QuantitiesWithinStock'
    BY DEF Reload, CartIInv, CartTypeOK, QuantitiesWithinStock, WithinStock, Holds
  <1>3. StoredIsLastWrite'
    BY TabsAssumption DEF Reload, CartIInv, CartTypeOK, StoredIsLastWrite
  <1>4. ShownHasRead' /\ ChoiceIsSold'
    BY DEF Reload, CartIInv, CartTypeOK, ShownHasRead, ChoiceIsSold, Selected
  <1> QED
    BY <1>1, <1>2, <1>3, <1>4 DEF CartIInv

LEMMA InitCartIInv == CartInit => CartIInv
  BY EmptyCartSound, TabsAssumption
  DEF CartInit, CartIInv, CartTypeOK, ShownHasRead, QuantitiesWithinStock, StoredIsLastWrite,
      ChoiceIsSold

LEMMA NextCartIInv == CartIInv /\ [CartNext]_cartVars => CartIInv'
  <1> SUFFICES ASSUME CartIInv, [CartNext]_cartVars PROVE CartIInv'
    OBVIOUS
  <1>1. CASE UNCHANGED cartVars
    BY <1>1 DEF cartVars, CartIInv, CartTypeOK, ShownHasRead, QuantitiesWithinStock, WithinStock,
                Holds, StoredIsLastWrite, ChoiceIsSold, Selected
  <1>2. CASE CartNext
    BY <1>2, GetSnapshotCartIInv, OpenProductCartIInv, LeaveProductCartIInv, ChooseSizeCartIInv,
       ChooseColorCartIInv, HandleAddCartIInv, StepperCartIInv, RemoveCartIInv,
       ClearCartCartIInv, ReloadCartIInv
    DEF CartNext
  <1> QED
    BY <1>1, <1>2

(* The inductive invariant of the cart: a tab that shows a product has     *)
(* read its cart, so nothing is ever added to a cart that is not there.    *)
THEOREM CartInvariance == CartSpec => []CartIInv
  BY InitCartIInv, NextCartIInv, PTL DEF CartSpec

(* In every tab and in localStorage a line stays within 1 and the stock it *)
(* captured, for any number of tabs and additions.                         *)
THEOREM QuantitiesClamped == CartSpec => []QuantitiesWithinStock
  <1>1. CartIInv => QuantitiesWithinStock
    BY DEF CartIInv
  <1> QED
    BY <1>1, CartInvariance, PTL

(* localStorage is the cart of the tab that wrote it last, whole, although *)
(* any write may be refused by the browser.                                *)
THEOREM LastWriterStored == CartSpec => []StoredIsLastWrite
  <1>1. CartIInv => StoredIsLastWrite
    BY DEF CartIInv
  <1> QED
    BY <1>1, CartInvariance, PTL

(* The chips a customer clicked name a variant that is sold, for any sizes,*)
(* colors and pairs of them.                                               *)
THEOREM ChosenIsSold == CartSpec => []ChoiceIsSold
  <1>1. CartIInv => ChoiceIsSold
    BY DEF CartIInv
  <1> QED
    BY <1>1, CartInvariance, PTL

--------------------------------------------------------------------------------
(* The payment page *)

LEMMA InitIInv == Init => IInv
  BY MaxPollsAssumption, MaxTriesAssumption
  DEF Init, IInv, TypeOK, PaidShownIsPaid, OutcomeEndsPolling, SeenIsSo, LoadComesFirst,
      Statuses, Phases, Results, Initiations, NoTries, NoInitiation, Off

(* A step that leaves the requests of the intervals as they are, or drops  *)
(* some of them.                                                           *)
LEMMA FewerTicks ==
  ASSUME IInv, ticks' \subseteq ticks
  PROVE  /\ ticks' \subseteq Tick
         /\ order' = order => \A t \in ticks' : t.saw = "paid" => order' = "paid"
  BY DEF IInv, TypeOK, SeenIsSo

(* A new poll: its number has not been used. *)
LEMMA PollTypes ==
  ASSUME IInv, PollStatus
  PROVE  /\ timer' \in 1..MaxPolls /\ polls' \in 0..MaxPolls
         /\ tries' = tries /\ phase' = "polling"
  BY MaxPollsAssumption DEF IInv, TypeOK, PollStatus

LEMMA GatewaySettlesIInv ==
  ASSUME IInv, NEW result \in {"paid", "failed"}, GatewaySettles(result)
  PROVE  IInv'
  BY DEF GatewaySettles, Server!Settle, pageVars, pollVars, IInv, TypeOK, PaidShownIsPaid, OutcomeEndsPolling,
         SeenIsSo, LoadComesFirst, Statuses

(* What a request sees is what the order is, which stays so if it is paid. *)
LEMMA HandleTickIInv ==
  ASSUME IInv, NEW t \in ticks, NEW result \in Results, HandleTick(t, result)
  PROVE  IInv'
  <1>1. t \in Tick
    BY DEF IInv, TypeOK
  <1>2. [t EXCEPT !.saw = result] \in Tick /\ [t EXCEPT !.saw = result].saw = result
    BY <1>1 DEF Tick
  <1>3. TypeOK'
    BY <1>2 DEF HandleTick, pageVars, pollVars, IInv, TypeOK
  <1>4. SeenIsSo'
    BY <1>2 DEF HandleTick, pageVars, pollVars, IInv, SeenIsSo
  <1>5. LoadComesFirst' /\ PaidShownIsPaid' /\ OutcomeEndsPolling'
    BY DEF HandleTick, pageVars, pollVars, IInv, LoadComesFirst, PaidShownIsPaid,
           OutcomeEndsPolling
  <1> QED
    BY <1>3, <1>4, <1>5 DEF IInv

LEMMA HandleLoadIInv ==
  ASSUME IInv, NEW result \in Results, HandleLoad(result)
  PROVE  IInv'
  BY DEF HandleLoad, pageVars, pollVars, IInv, TypeOK, PaidShownIsPaid, OutcomeEndsPolling,
         SeenIsSo, LoadComesFirst, Results

LEMMA HandleInitiationIInv ==
  ASSUME IInv, NEW i \in Presses, NEW result \in {"started", "refused"},
         HandleInitiation(i, result)
  PROVE  IInv'
  <1>1. initiations' \in [Presses -> Initiations]
    BY DEF HandleInitiation, IInv, TypeOK, Initiations
  <1>2. load = "none"
    BY DEF HandleInitiation, IInv, LoadComesFirst, NoInitiation
  <1> QED
    BY <1>1, <1>2 DEF HandleInitiation, pageVars, pollVars, IInv, TypeOK, PaidShownIsPaid,
       OutcomeEndsPolling, SeenIsSo, LoadComesFirst

LEMMA IntervalFiresIInv ==
  ASSUME IInv, IntervalFires
  PROVE  IInv'
  <1>1. timer \in 1..MaxPolls
    BY MaxPollsAssumption DEF IntervalFires, IInv, TypeOK, Off
  <1>2. tries' \in [1..MaxPolls -> 0..MaxTries]
    BY <1>1, MaxTriesAssumption DEF IntervalFires, IInv, TypeOK
  <1>3. PICK id \in 1..MaxPending :
          ticks' = ticks \cup {[id |-> id, poll |-> timer, saw |-> "asked"]}
    BY DEF IntervalFires
  <1> DEFINE new == [id |-> id, poll |-> timer, saw |-> "asked"]
  <1>4. new \in Tick /\ new.saw = "asked" /\ ticks' = ticks \cup {new}
    BY <1>1, <1>3 DEF Tick, Results
  <1> HIDE DEF new
  <1>5. TypeOK'
    BY <1>2, <1>4 DEF IntervalFires, pageVars, IInv, TypeOK
  <1>6. SeenIsSo'
    BY <1>4 DEF IntervalFires, pageVars, IInv, SeenIsSo
  <1>7. LoadComesFirst' /\ PaidShownIsPaid' /\ OutcomeEndsPolling'
    BY DEF IntervalFires, pageVars, IInv, LoadComesFirst, PaidShownIsPaid, OutcomeEndsPolling
  <1> QED
    BY <1>5, <1>6, <1>7 DEF IInv

(* Any answer but "pending" stops the interval; "pending" leaves the page  *)
(* as it is.                                                               *)
LEMMA TickAnsweredIInv ==
  ASSUME IInv, NEW t \in ticks, TickAnswered(t)
  PROVE  IInv'
  <1>1. t.saw \in {"paid", "failed", "gone", "pending"}
    BY DEF TickAnswered, TickShown, IInv, TypeOK, Tick, Results, Statuses
  <1>2. ticks' \subseteq ticks /\ order' = order
    BY DEF TickAnswered, TickShown
  <1>3. phase' \in Phases /\ timer' \in 0..MaxPolls
    BY <1>1, MaxPollsAssumption DEF TickAnswered, TickShown, IInv, TypeOK, Phases, Off
  <1>4. TypeOK'
    BY <1>2, <1>3, FewerTicks DEF TickAnswered, TickShown, IInv, TypeOK
  <1>5. SeenIsSo'
    BY <1>2, FewerTicks DEF TickAnswered, TickShown, IInv, SeenIsSo
  <1>6. PaidShownIsPaid' /\ OutcomeEndsPolling'
    BY <1>1 DEF TickAnswered, TickShown, IInv, SeenIsSo, PaidShownIsPaid, OutcomeEndsPolling, Off
  <1>7. LoadComesFirst'
    BY <1>1 DEF TickAnswered, TickShown, IInv, LoadComesFirst, Off
  <1> QED
    BY <1>4, <1>5, <1>6, <1>7 DEF IInv

LEMMA TickLostIInv ==
  ASSUME IInv, NEW t \in ticks, TickLost(t)
  PROVE  IInv'
  BY FewerTicks DEF TickLost, pageVars, pollVars, IInv, TypeOK, PaidShownIsPaid,
                    OutcomeEndsPolling, SeenIsSo, LoadComesFirst

LEMMA LoadAnsweredIInv ==
  ASSUME IInv, LoadAnswered
  PROVE  IInv'
  <1>1. timer = Off /\ ticks' = ticks
    BY DEF LoadAnswered, IInv, LoadComesFirst, Statuses
  <1>2. CASE load = "pending" /\ hint
    <2>1. PollStatus
      BY <1>2 DEF LoadAnswered
    <2>2. TypeOK'
      BY <1>1, <2>1, PollTypes DEF LoadAnswered, IInv, TypeOK, Phases
    <2> QED
      BY <1>1, <2>1, <2>2, PollTypes DEF LoadAnswered, IInv, PaidShownIsPaid,
        OutcomeEndsPolling, SeenIsSo, LoadComesFirst
  <1>3. CASE ~(load = "pending" /\ hint)
    BY <1>1, <1>3 DEF LoadAnswered, pollVars, IInv, TypeOK, PaidShownIsPaid,
       OutcomeEndsPolling, SeenIsSo, LoadComesFirst, Statuses, Phases, Results
  <1> QED
    BY <1>2, <1>3

LEMMA LoadFailedIInv ==
  ASSUME IInv, LoadFailed
  PROVE  IInv'
  BY DEF LoadFailed, pollVars, IInv, TypeOK, PaidShownIsPaid, OutcomeEndsPolling,
         SeenIsSo, LoadComesFirst, Phases

LEMMA CheckStatusIInv ==
  ASSUME IInv, CheckStatus
  PROVE  IInv'
  <1>1. TypeOK'
    BY PollTypes DEF CheckStatus, IInv, TypeOK, Phases
  <1> QED
    BY <1>1, PollTypes DEF CheckStatus, IInv, PaidShownIsPaid, OutcomeEndsPolling, SeenIsSo,
       LoadComesFirst

(* Behind either button no interval runs.                                  *)
LEMMA HandlePayNowIInv ==
  ASSUME IInv, NEW i \in Presses, HandlePayNow(i)
  PROVE  IInv'
  BY DEF HandlePayNow, pollVars, IInv, TypeOK, PaidShownIsPaid, OutcomeEndsPolling,
         SeenIsSo, LoadComesFirst, Phases, Initiations

LEMMA InitiationAnsweredIInv ==
  ASSUME IInv, NEW i \in Presses, InitiationAnswered(i)
  PROVE  IInv'
  <1>1. /\ timer' \in 0..MaxPolls /\ polls' \in 0..MaxPolls /\ tries' = tries
        /\ phase' \in Phases
    BY PollTypes DEF InitiationAnswered, Phases
  <1>2. initiations' \in [Presses -> Initiations]
    BY DEF InitiationAnswered, IInv, TypeOK, Initiations
  <1>3. TypeOK'
    BY <1>1, <1>2 DEF InitiationAnswered, IInv, TypeOK
  <1>4. load = "none"
    BY DEF InitiationAnswered, IInv, LoadComesFirst, NoInitiation
  <1> QED
    BY <1>3, <1>4, PollTypes DEF InitiationAnswered, IInv, PaidShownIsPaid, OutcomeEndsPolling,
       SeenIsSo, LoadComesFirst

LEMMA InitiationFailedIInv ==
  ASSUME IInv, NEW i \in Presses, InitiationFailed(i)
  PROVE  IInv'
  <1>1. load = "none"
    BY DEF InitiationFailed, IInv, LoadComesFirst, NoInitiation
  <1> QED
    BY <1>1 DEF InitiationFailed, pollVars, IInv, TypeOK, PaidShownIsPaid, OutcomeEndsPolling,
         SeenIsSo, LoadComesFirst, Phases, Initiations

LEMMA GoToGatewayIInv ==
  ASSUME IInv, GoToGateway
  PROVE  IInv'
  BY DEF GoToGateway, pollVars, IInv, TypeOK, PaidShownIsPaid, OutcomeEndsPolling,
         SeenIsSo, LoadComesFirst

LEMMA ReturnByBackIInv ==
  ASSUME IInv, ReturnByBack
  PROVE  IInv'
  BY DEF ReturnByBack, pollVars, IInv, TypeOK, PaidShownIsPaid, OutcomeEndsPolling,
         SeenIsSo, LoadComesFirst

LEMMA NewPageIInv ==
  ASSUME IInv, Leave \/ \E back \in BOOLEAN : Open(back)
  PROVE  IInv'
  <1>1. /\ phase' = "loading" /\ load' \in {"none", "asked"}
        /\ timer' = Off /\ tries' = NoTries /\ polls' = polls
        /\ ticks' = {} /\ initiations' = NoInitiation /\ order' = order
    BY DEF Leave, Open
  <1>2. place' \in {"here", "away"} /\ hint' \in BOOLEAN
    BY DEF Leave, Open
  <1>3. TypeOK'
    BY <1>1, <1>2, MaxPollsAssumption, MaxTriesAssumption
    DEF IInv, TypeOK, Phases, Results, Initiations, NoTries, NoInitiation, Off
  <1> QED
    BY <1>1, <1>3 DEF IInv, PaidShownIsPaid, OutcomeEndsPolling, SeenIsSo, LoadComesFirst

LEMMA NextIInv == IInv /\ [Next]_vars => IInv'
  <1> SUFFICES ASSUME IInv, [Next]_vars PROVE IInv'
    OBVIOUS
  <1>1. CASE \E t \in ticks : TickProgress(t) \/ TickLost(t)
    BY <1>1, HandleTickIInv, TickAnsweredIInv, TickLostIInv DEF TickProgress
  <1>2. CASE UNCHANGED vars
    BY <1>2 DEF vars, pageVars, pollVars, IInv, TypeOK, PaidShownIsPaid, OutcomeEndsPolling,
                SeenIsSo, LoadComesFirst
  <1> QED
    BY <1>1, <1>2, GatewaySettlesIInv, HandleLoadIInv, HandleInitiationIInv,
       IntervalFiresIInv, LoadAnsweredIInv, LoadFailedIInv, CheckStatusIInv, HandlePayNowIInv,
       InitiationAnsweredIInv, InitiationFailedIInv, GoToGatewayIInv, ReturnByBackIInv, NewPageIInv
    DEF Next

(* The inductive invariant of the payment page: what an answer on its way  *)
(* says of a payment is still true, nothing is polled before the first     *)
(* answer, and an interval never runs behind an outcome.                   *)
THEOREM PaymentInvariance == Spec => []IInv
  BY InitIInv, NextIInv, PTL DEF Spec

(* "Payment confirmed" is only shown of a paid order, for any number of    *)
(* overlapping polls, late answers and retries.                            *)
THEOREM ConfirmedIsPaid == Spec => []PaidShownIsPaid
  <1>1. IInv => PaidShownIsPaid
    BY DEF IInv
  <1> QED
    BY <1>1, PaymentInvariance, PTL

(* No interval runs on behind an outcome or a button that starts a         *)
(* payment, however many payments are started at once.                     *)
THEOREM OutcomesEndPolling == Spec => []OutcomeEndsPolling
  <1>1. IInv => OutcomeEndsPolling
    BY DEF IInv
  <1> QED
    BY <1>1, PaymentInvariance, PTL

================================================================================
