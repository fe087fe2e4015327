----------------------------- MODULE ShoppingCart ------------------------------
(***************************************************************************)
(* The cart of the storefront: lib/cart-context.tsx, the variant selector  *)
(* of the product page and the steppers of the cart page, in the tabs of   *)
(* one browser.                                                            *)
(*                                                                         *)
(* Each tab keeps the cart in a module-level cache that is read from       *)
(* localStorage once, at the first render, and written through by every    *)
(* change.  Nothing listens to the storage event, so a tab never sees what *)
(* another one wrote after that: the last writer wins.                     *)
(***************************************************************************)
EXTENDS Naturals

CONSTANTS
  Tabs,         \* bound: tabs of the browser
  Sizes,
  Colors,
  Variants,     \* the <<size, color>> pairs the product is sold in
  StockLevels,  \* stock_quantity values the API may report
  NoCart,       \* cachedItems = null
  Elsewhere     \* the tab shows a page without a variant selector

ASSUME TabsAssumption == "nobody" \notin Tabs
ASSUME VariantsAssumption == Variants \subseteq Sizes \X Colors
ASSUME StockLevelsAssumption == StockLevels \subseteq Nat

NoItem == [stock |-> 0, quantity |-> 0]

Min2(a, b) == IF a <= b THEN a ELSE b
Clamp(quantity, stock) == IF Min2(quantity, stock) >= 1 THEN Min2(quantity, stock) ELSE 1

(* A line captures the stock the product page showed when it was added. *)
CartItem == [stock : Nat, quantity : Nat]
Carts == [Variants -> CartItem]
EmptyCart == [v \in Variants |-> NoItem]
Holds(cart, v) == cart[v] # NoItem

(* The product page: the stock it was rendered with, the chips chosen, and *)
(* (history) whether the customer clicked a chip at all.                   *)
ProductPage == [seen : [Variants -> Nat], size : Sizes, color : Colors, clicked : BOOLEAN]

ASSUME NoCartAssumption == NoCart \notin Carts
ASSUME ElsewhereAssumption == Elsewhere \notin ProductPage

VARIABLES
  stored,   \* localStorage["lucebianca:cart:v1"]
  cached,   \* cached[t]: cachedItems of tab t
  page,     \* page[t]: the product page tab t shows, or Elsewhere
  writer    \* history: the tab whose write is in localStorage, or "nobody"

cartVars == <<stored, cached, page, writer>>

CartTypeOK ==
  /\ stored \in Carts
  /\ cached \in [Tabs -> Carts \cup {NoCart}]
  /\ page \in [Tabs -> ProductPage \cup {Elsewhere}]
  /\ writer \in Tabs \cup {"nobody"}

CartInit ==
  /\ stored = EmptyCart
  /\ cached = [t \in Tabs |-> NoCart]
  /\ page = [t \in Tabs |-> Elsewhere]
  /\ writer = "nobody"

--------------------------------------------------------------------------------
(* The store *)

(* getSnapshot: the first render of the tab reads localStorage. *)
GetSnapshot(t) ==
  /\ cached[t] = NoCart
  /\ cached' = [cached EXCEPT ![t] = stored]
  /\ UNCHANGED <<stored, page, writer>>

(* commit: the cache always, localStorage unless it is blocked or full. *)
Commit(t, next) ==
  /\ cached' = [cached EXCEPT ![t] = next]
  /\ \/ stored' = next /\ writer' = t
     \/ /\ UNCHANGED stored
        /\ writer' = IF writer = t THEN "nobody" ELSE writer

(* Mutant of AddItem: only the first addition is clamped. *)
AddItem_Unclamped(cart, v, stock, quantity) ==
  [cart EXCEPT ![v] =
     IF Holds(cart, v)
     THEN [cart[v] EXCEPT !.quantity = cart[v].quantity + quantity]
     ELSE [stock |-> stock, quantity |-> Clamp(quantity, stock)]]

(* addItem: a line already there keeps the stock it captured first. *)
AddItem(cart, v, stock, quantity) ==
  [cart EXCEPT ![v] =
     IF Holds(cart, v)
     THEN [cart[v] EXCEPT !.quantity = Clamp(cart[v].quantity + quantity, cart[v].stock)]
     ELSE [stock |-> stock, quantity |-> Clamp(quantity, stock)]]

RemoveItem(cart, v) == [cart EXCEPT ![v] = NoItem]

UpdateQuantity(cart, v, quantity) ==
  [cart EXCEPT ![v] =
     IF Holds(cart, v)
     THEN [cart[v] EXCEPT !.quantity = Clamp(quantity, cart[v].stock)]
     ELSE cart[v]]

--------------------------------------------------------------------------------
(* The product page *)

(* The server renders the page with the stock of the catalogue, possibly a *)
(* cached one; the first size and the first color are preselected, whether *)
(* or not a variant joins them.                                            *)
OpenProduct(t, seen, size, color) ==
  /\ cached[t] # NoCart
  /\ page[t] = Elsewhere
  /\ page' = [page EXCEPT ![t] =
       [seen |-> seen, size |-> size, color |-> color, clicked |-> FALSE]]
  /\ UNCHANGED <<stored, cached, writer>>

LeaveProduct(t) ==
  /\ page[t] # Elsewhere
  /\ page' = [page EXCEPT ![t] = Elsewhere]
  /\ UNCHANGED <<stored, cached, writer>>

ColorsForSize(size) == {c \in Colors : <<size, c>> \in Variants}

(* The size chips: disabled when no variant of the size is in stock. *)
SizeEnabled(t, size) ==
  \E c \in ColorsForSize(size) : page[t].seen[<<size, c>>] > 0

(* The color chips of the chosen size. *)
ColorEnabled(t, color) ==
  /\ color \in ColorsForSize(page[t].size)
  /\ page[t].seen[<<page[t].size, color>>] > 0

(* Mutant of ChooseSize: the color stays. *)
ChooseSize_KeepsColor(t, size) ==
  /\ page[t] # Elsewhere
  /\ SizeEnabled(t, size)
  /\ page' = [page EXCEPT ![t].size = size, ![t].clicked = TRUE]
  /\ UNCHANGED <<stored, cached, writer>>

(* chooseSize: a color the size is not sold in gives way to one it is. *)
ChooseSize(t, size) ==
  /\ page[t] # Elsewhere
  /\ SizeEnabled(t, size)
  /\ \E color \in ColorsForSize(size) :
       /\ page[t].color \in ColorsForSize(size) => color = page[t].color
       /\ page' = [page EXCEPT ![t].size = size, ![t].color = color, ![t].clicked = TRUE]
  /\ UNCHANGED <<stored, cached, writer>>

ChooseColor(t, color) ==
  /\ page[t] # Elsewhere
  /\ ColorEnabled(t, color)
  /\ page' = [page EXCEPT ![t].color = color, ![t].clicked = TRUE]
  /\ UNCHANGED <<stored, cached, writer>>

Selected(t) == <<page[t].size, page[t].color>>

(* The "Add to Cart" button. *)
AddEnabled(t) ==
  /\ page[t] # Elsewhere
  /\ Selected(t) \in Variants
  /\ page[t].seen[Selected(t)] > 0

HandleAdd(t) ==
  /\ AddEnabled(t)
  /\ Commit(t, AddItem(cached[t], Selected(t), page[t].seen[Selected(t)], 1))
  /\ UNCHANGED page

--------------------------------------------------------------------------------
(* The cart page, the confirmation page and the tab itself *)

CartLine(t, v) == cached[t] # NoCart /\ Holds(cached[t], v)

(* The two buttons of a line stop at 1 and at the stock it captured.       *)
Decrease(t, v) ==
  /\ CartLine(t, v)
  /\ cached[t][v].quantity > 1
  /\ Commit(t, UpdateQuantity(cached[t], v, cached[t][v].quantity - 1))
  /\ UNCHANGED page

Increase(t, v) ==
  /\ CartLine(t, v)
  /\ cached[t][v].quantity < cached[t][v].stock
  /\ Commit(t, UpdateQuantity(cached[t], v, cached[t][v].quantity + 1))
  /\ UNCHANGED page

Remove(t, v) ==
  /\ CartLine(t, v)
  /\ Commit(t, RemoveItem(cached[t], v))
  /\ UNCHANGED page

(* Mutant of ClearCart: localStorage keeps the cart. *)
ClearCart_CacheOnly(t) ==
  /\ cached[t] # NoCart
  /\ page[t] = Elsewhere
  /\ cached' = [cached EXCEPT ![t] = EmptyCart]
  /\ UNCHANGED <<stored, page, writer>>

(* ClearCart: the confirmation page of an order that was found, the order  *)
(* just placed or one the customer comes back to.                          *)
ClearCart(t) ==
  /\ cached[t] # NoCart
  /\ page[t] = Elsewhere
  /\ Commit(t, EmptyCart)
  /\ UNCHANGED page

(* Closing or reloading the tab forgets its cache. *)
Reload(t) ==
  /\ cached[t] # NoCart
  /\ cached' = [cached EXCEPT ![t] = NoCart]
  /\ page' = [page EXCEPT ![t] = Elsewhere]
  /\ writer' = IF writer = t THEN "nobody" ELSE writer
  /\ UNCHANGED stored

CartNext ==
  \E t \in Tabs :
    \/ GetSnapshot(t)
    \/ \E seen \in [Variants -> StockLevels], size \in Sizes, color \in Colors :
         OpenProduct(t, seen, size, color)
    \/ LeaveProduct(t)
    \/ \E size \in Sizes : ChooseSize(t, size)
    \/ \E color \in Colors : ChooseColor(t, color)
    \/ HandleAdd(t)
    \/ \E v \in Variants : Decrease(t, v) \/ Increase(t, v) \/ Remove(t, v)
    \/ ClearCart(t)
    \/ Reload(t)

CartSpec == CartInit /\ [][CartNext]_cartVars

--------------------------------------------------------------------------------
(* Properties *)

WithinStock(cart) ==
  \A v \in Variants : Holds(cart, v) => cart[v].quantity \in 1..cart[v].stock

(* In every tab and in localStorage, a line asks for at least one unit and *)
(* at most the stock it captured, whatever the product page was rendered   *)
(* with and however often the customer adds the same variant (the comment  *)
(* "Clamped to 1..stock_quantity" of cart-context.tsx).                    *)
QuantitiesWithinStock ==
  /\ WithinStock(stored)
  /\ \A t \in Tabs : cached[t] # NoCart => WithinStock(cached[t])

(* localStorage holds the whole cart of the tab that wrote it last: a      *)
(* reload of that tab brings back what it showed, and another tab's write  *)
(* replaces it and is never merged with it.                                *)
StoredIsLastWrite == writer \in Tabs => cached[writer] = stored

(* Once the customer has clicked a chip, the chips name a variant that is  *)
(* sold, although the two that are preselected may not go together.        *)
ChoiceIsSold ==
  \A t \in Tabs : page[t] # Elsewhere /\ page[t].clicked => Selected(t) \in Variants

(* A tab that shows a product page has read the cart: its header did. *)
ShownHasRead == \A t \in Tabs : page[t] # Elsewhere => cached[t] # NoCart

(* The inductive invariant: "Add to Cart" adds to a cart that was read. *)
CartIInv ==
  /\ CartTypeOK
  /\ ShownHasRead
  /\ QuantitiesWithinStock
  /\ StoredIsLastWrite
  /\ ChoiceIsSold

================================================================================
