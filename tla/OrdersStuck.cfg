\* The next page is asked for again after its load failed.
SPECIFICATION Spec
CONSTANTS
  Sections = {"orders"}
  Tokens = {t1}
  Calls = {c1, c2}
  MaxLate = 1
  Nothing = Nothing
  Orders = {o1, o2}
  LastPage = 2
  Filters = {"", "pending"}
  Products = {}
  LastProductPage = 1
  MaxProductWrites = 0
  Coupons = {}
  MaxCouponWrites = 0
  Variants = {}
  Files = {}
  MaxRows = 0
  Entries = {}
  InboxFilters = {"open"}
  FirstFilter = "open"
  LastInboxPage = 1
  MaxInboxWrites = 0
INVARIANT LoadingIsUnderWay
