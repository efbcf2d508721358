SPECIFICATION Spec
CONSTANTS
  p = p
  q = q
  s = s
  None = None
  Readers = {s}
  Plans <- MCReadPlan
  Commands = {p, q}
  Confirmed = {p}
  Malformed = {}
  RetryMax = 1
  MaxReads = 1
  MaxPolls = 0
PROPERTY DecodeIsForItsReader
CHECK_DEADLOCK FALSE
