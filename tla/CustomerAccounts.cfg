\* Two accounts, on one address or on two, met by two requests at once: sessions, one reset, two links.
SPECIFICATION Spec
CONSTANTS
  UserIds = {u1, u2}
  SessionIds = {s1, s2}
  Links = {l1, l2}
  Emails = {e1, e2}
  Workers = {w1, w2}
  MaxPassword = 1
SYMMETRY Symmetry
INVARIANTS
  IInv
  ResetEndsSessions
  VerifiedByProof
