\* Two card orders race for the same units; cron runs die; staff cancel, reopen and
\* confirm payments.
SPECIFICATION CronSpec
CONSTANTS
  Orders = {o1, o2}
  Variants = {v1}
  Methods = {"card"}
  Workers = {w1}
  Crons = {c1}
  AdminForms <- SingleForms
  MaxQuantity = 1
  MaxLines = 1
  MaxStock = 1
INVARIANTS
  StockConserved
  PaidHoldsStock
PROPERTIES
  PaymentsSettleOnce
  PaidIsFinal
  StaleOrdersExpire
