SPECIFICATION StorySpec
CONSTANTS
  w1 = w1
  w2 = w2
  k1 = k1
  k2 = k2
  p1 = p1
  p2 = p2
  Wallet = {w1, w2}
  Settlement = Settlement
  Key = {k1, k2}
  Command <- Commands
  Unpostable <- Rejected
  Payment = {p1, p2, p3, p4, p5}
  Existing <- Settling
  Opening <- Balances
  Asked <- AllCalls
  Suspendable = {w1}
  Handler = {x, y, z}
  None = None
  Rank <- Ranks
  MaxAttempts = 2
SYMMETRY Symmetric
INVARIANTS TypeOK OutcomesAreWhole OnePaymentPerKey AnswersAreTrue NoDeadlock NobodyOverdrawn FundsFollowPayments
PROPERTIES TransitionsAllowed 
CHECK_DEADLOCK FALSE
