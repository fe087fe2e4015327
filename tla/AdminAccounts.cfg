\* Three accounts, two of them able to delete each other at once.
SPECIFICATION Spec
CONSTANTS
  AdminIds = {a1, a2, a3}
  SessionIds = {s1, s2, s3}
  Emails = {e1, e2}
  Workers = {w1, w2}
SYMMETRY Symmetry
INVARIANTS
  NeverWithoutAdmin
  IInv
