\* One line, two coupon codes, two presses of the button; two presses or previews under way
\* at once, answered in any order; staff left only the card on.
SPECIFICATION Spec
CONSTANTS
  Variants = {v1}
  MaxQuantity = 1
  Codes = {"k1", "k2"}
  Clicks = {c1, c2}
  MaxRequests = 2
  Choices <- CardChoices
INVARIANTS
  OrdersWhatWasValidated
  MethodIsOffered
  CouponsAreAccepted
PROPERTIES
  OldChecksAreDropped
  SubmitComesBack
