\* A failure is written over a payment staff just confirmed.
SPECIFICATION Spec
CONSTANTS
  Orders = {o1}
  Variants = {v1}
  Methods = {"card"}
  Workers = {w1}
  Crons = {c1}
  AdminForms <- ConfirmForms
  MaxQuantity = 1
  MaxLines = 1
  MaxStock = 1
PROPERTIES
  OnlyPendingFails
