SPECIFICATION FairSpec
CONSTANTS
  p = p
  q = q
  s = s
  None = None
  Readers = {s}
  Plans <- MCPlans
  Commands = {p, q}
  Confirmed = {p}
  Malformed = {q}
  RetryMax = 1
  MaxReads = 1
  MaxPolls = 1
INVARIANTS ReportedOnce OkMeansWritten ScanNeverLost PollNeverCancelled NoOrphanLink
PROPERTY CommandIsAnswered
CHECK_DEADLOCK FALSE
