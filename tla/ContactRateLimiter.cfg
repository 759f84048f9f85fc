\* Two callers, three tokens a minute, a minute of ten units and a millisecond of two: a unit
\* refills three tenths of a token, and a hint cut to whole milliseconds is too short.
SPECIFICATION Spec
CONSTANTS
  c1 = c1
  c2 = c2
  Callers = {c1, c2}
  Limit = 3
  Minute = 10
  Milli = 2
  Floor = 2
  MaxTime = 9
INVARIANTS
  TypeOK
  GrantsAreBounded
  HintSuffices
PROPERTY ImplementsTokenBucket
CHECK_DEADLOCK FALSE
