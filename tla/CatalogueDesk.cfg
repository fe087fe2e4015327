\* Product list, product form, coupons and reviews, one request of a handler beside the loads,
\* one load replaced while it is answered.
SPECIFICATION Spec
CONSTANTS
  Sections = {"products", "new", "edit", "coupons", "reviews"}
  Tokens = {t1}
  Calls = {c1}
  MaxLate = 1
  Nothing = Nothing
  Orders = {}
  LastPage = 1
  Filters = {""}
  Products = {p1}
  LastProductPage = 2
  MaxProductWrites = 1
  Coupons = {k1, k2}
  MaxCouponWrites = 1
  Variants = {v1}
  Files = {f1, f2}
  MaxRows = 1
  Entries = {e1}
  InboxFilters = {"open"}
  FirstFilter = "open"
  LastInboxPage = 2
  MaxInboxWrites = 1
SYMMETRY Symmetry
INVARIANTS
  MainImageIsChosen
  ButtonsWaitForAnswers
PROPERTIES
  ProductListIsCurrent
  CouponListIsCurrent
  InboxListIsCurrent
