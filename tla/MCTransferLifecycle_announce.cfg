SPECIFICATION Spec
CONSTANTS
  t1 = t1
  t2 = t2
  j = j
  a = a
  b = b
  k1 = k1
  k2 = k2
  h1 = h1
  Transfer = {t1}
  OtherJournal = {j}
  Account = {a, b}
  Source <- MCSource
  Destination <- MCDestination
  Amount <- MCAmount
  Unpostable = {}
  Opening <- MCOpening
  Key = {k1}
  Hash = {h1}
  PostKey = {k1}
  Instruction <- Linking
  Handler = {x}
  None = None
  OutcomeKey = OutcomeKey
  PostRecovery = PostRecovery
  MaxAttempts = 1
  MaxVersion = 3
INVARIANT CompletionIsAnnounced
CHECK_DEADLOCK FALSE
