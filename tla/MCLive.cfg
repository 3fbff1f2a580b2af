SPECIFICATION FairSpec
CONSTANTS
  x = x
  y = y
  None = None
  NoRecord = None
  Handler = {x, y}
  Host = {w1, w2}
  Evidence = {1, 2}
  OutcomeOf <- Allowed
  Safe = {2}
  Agenda <- Stories
  MaxConcurrent = 1
  MaxExpired = 1
  w1 = w1
  w2 = w2
  Settlement = Settlement
  p1 = p1
  p3 = p3
  p4 = p4
  t1 = t1
  j = j
  h1 = h1
  k1 = k1
  k2 = k2
  OutcomeKey = OutcomeKey
  PostRecovery = PostRecovery
INVARIANTS AnswersAreKept OnlyFailuresMixDecisions
PROPERTY EveryCallIsAnswered
CHECK_DEADLOCK FALSE
