\* Three senders, a request timeout of two seconds, a margin of four, tokens that live
\* shorter and longer than the margin, and signed tokens kept for three seconds of five.
SPECIFICATION Spec
CONSTANTS
  s1 = s1
  s2 = s2
  s3 = s3
  Senders = {s1, s2, s3}
  Lives = {3, 5, 6}
  Margin = 4
  SignedLife = 5
  CacheTime = 3
  Timeout = 2
  MaxTime = 8
SYMMETRY Symmetry
INVARIANTS
  TypeOK
  TokensAreFresh
  MintsAreShared
  WaitIsBounded
PROPERTY UsableTokenIsKept
CHECK_DEADLOCK FALSE
