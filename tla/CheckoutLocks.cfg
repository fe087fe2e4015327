\* Three orders on two variants: every lock conflict and deadlock, and its end.
SPECIFICATION FairSpec
CONSTANTS
  Orders = {o1, o2, o3}
  Variants = {v1, v2}
  Carts <- OneOrBothLines
  MaxQuantity = 1
  MaxStock = 1
  None = None
INVARIANTS
  IInv
  NoLostWait
PROPERTIES
  ReservationSpec
  TransactionsEnd
