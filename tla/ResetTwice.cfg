\* Two requests follow one reset link.
SPECIFICATION Spec
CONSTANTS
  UserIds = {u1}
  SessionIds = {s1}
  Links = {l1}
  Emails = {e1}
  Workers = {w1, w2}
  MaxPassword = 2
INVARIANTS
  LinkResetsOnce
