\* Cancelling an order whose card payment failed leaves it open.
SPECIFICATION Spec
CONSTANTS
  Orders = {o1}
  Variants = {v1}
  Methods = {"card"}
  Workers = {w1}
  Crons = {c1}
  AdminForms <- NoForms
  MaxQuantity = 1
  MaxLines = 1
  MaxStock = 1
PROPERTIES
  UnpaidOrdersCancel
