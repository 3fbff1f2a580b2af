SPECIFICATION Spec
CONSTANTS
  w1 = w1
  w2 = w2
  k1 = k1
  k2 = k2
  p1 = p1
  p2 = p2
  Wallet = {w1, w2}
  Settlement = Settlement
  Key = {k1, k2}
  Command <- Commands
  Unpostable <- Rejected
  Payment = {p1, p2}
  Existing <- Failing
  Opening <- Balances
  Asked <- FailingCalls
  Suspendable = {}
  Handler = {x, y}
  None = None
  Rank <- Ranks
  MaxAttempts = 2
INVARIANT MetricsFailNoPayment
