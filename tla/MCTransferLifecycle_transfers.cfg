SPECIFICATION StorySpec
CONSTANTS
  t1 = t1
  t2 = t2
  j = j
  a = a
  b = b
  k1 = k1
  k2 = k2
  h1 = h1
  Transfer = {t1, t2}
  OtherJournal = {j}
  Account = {a, b}
  Source <- MCSource
  Destination <- MCDestination
  Amount <- MCAmount
  Unpostable = {}
  Opening <- MCOpening
  Key = {k1, k2}
  Hash = {h1}
  PostKey = {k1, k2}
  Instruction <- Everything
  Handler = {x, y}
  None = None
  OutcomeKey = OutcomeKey
  PostRecovery = PostRecovery
  MaxAttempts = 2
  MaxVersion = 5
SYMMETRY Symmetric
INVARIANTS TypeOK MoneyMovesWithStatus AnswersAreTrue JournalCompletesOneTransfer FundsFollowTransfers ReportsAreExact
PROPERTY HistoryStands
CHECK_DEADLOCK FALSE
