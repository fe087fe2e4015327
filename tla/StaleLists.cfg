\* A list replaced while its body was being read comes back over the newer one.
SPECIFICATION Spec
CONSTANTS
  Sections = {"products", "new", "edit", "coupons", "reviews"}
  Tokens = {t1}
  Calls = {c1}
  MaxLate = 1
  Nothing = Nothing
  Orders = {}
  LastPage = 1
  Filters = {""}
  Products = {p1}
  LastProductPage = 2
  MaxProductWrites = 1
  Coupons = {k1, k2}
  MaxCouponWrites = 1
  Variants = {v1}
  Files = {f1, f2}
  MaxRows = 1
  Entries = {e1}
  InboxFilters = {"open", "all"}
  FirstFilter = "open"
  LastInboxPage = 2
  MaxInboxWrites = 1
SYMMETRY Symmetry
PROPERTY NoListFromThePast
