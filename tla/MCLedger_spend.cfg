SPECIFICATION SpendSpec
CONSTANTS
  r1 = r1
  r2 = r2
  r3 = r3
  Req = {r1, r2, r3}
  Nobody = Nobody
  NoJournal = NoJournal
  Account = {1, 2, 3}
  DebitNormal = {1}
  MayGoNegative = {1, 3}
  Key = {"k1", "k2", "k3"}
  Note = {"a"}
  MaxMinor = 10
  MaxAttempts = 2
  Metrics = FALSE
  UnitOf <- MCUnit
  JournalId <- MCJournalId
  Commands <- SpendingCommands
SYMMETRY Requests
INVARIANTS TypeOK NoOverdraft BooksBalance OneJournalPerKey ReversalsUndoOnce
PROPERTY ImplementsAtomicLedger
CHECK_DEADLOCK FALSE
