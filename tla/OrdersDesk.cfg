\* The orders page with two pages, and the messages, two requests under way, two filters each,
\* one load replaced while it is answered.
SPECIFICATION Spec
CONSTANTS
  Sections = {"orders", "messages"}
  Tokens = {t1}
  Calls = {c1, c2}
  MaxLate = 1
  Nothing = Nothing
  Orders = {o1, o2}
  LastPage = 2
  Filters = {"", "pending"}
  Products = {}
  LastProductPage = 1
  MaxProductWrites = 0
  Coupons = {}
  MaxCouponWrites = 0
  Variants = {}
  Files = {}
  MaxRows = 0
  Entries = {e1}
  InboxFilters = {"open", "all"}
  FirstFilter = "open"
  LastInboxPage = 1
  MaxInboxWrites = 1
SYMMETRY Symmetry
INVARIANTS
  CookieFollowsStore
  SelectsWaitForAnswers
PROPERTIES
  OrderListAnswersQuery
  InboxListIsCurrent
