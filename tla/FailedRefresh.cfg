\* A refresh fails to issue the new pair.
SPECIFICATION Spec
CONSTANTS
  UserIds = {u1}
  SessionIds = {s1, s2, s3}
  Links = {l1}
  Emails = {e1}
  Workers = {w1, w2}
  MaxPassword = 0
PROPERTIES
  FailedRefreshRestores
