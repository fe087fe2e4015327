\* One order, three polls of up to three tries, two status requests and two payments started under way.
SPECIFICATION Spec
CONSTANTS
  MaxTries = 3
  MaxPending = 2
  MaxPolls = 3
  Presses = {p1, p2}
INVARIANTS
  PaidShownIsPaid
  OutcomeEndsPolling
PROPERTIES
  PollingEnds
