\* One order of one or two lines, every body staff can send, two requests and two cron runs.
SPECIFICATION Spec
CONSTANTS
  Orders = {o1}
  Variants = {v1, v2}
  Methods = {"cod", "card"}
  Workers = {w1, w2}
  Crons = {c1, c2}
  AdminForms <- AllForms
  MaxQuantity = 1
  MaxLines = 2
  MaxStock = 1
SYMMETRY Symmetry
INVARIANTS
  IInv
  NeverCancelledAndPaid
  CancelledIsReleased
PROPERTIES
  ReservationSpec
  PaidNeverReleased
