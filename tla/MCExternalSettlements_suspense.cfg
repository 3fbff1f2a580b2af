SPECIFICATION SettlementSpec
CONSTANTS
  o1 = o1
  o2 = o2
  v1 = v1
  v2 = v2
  e1 = e1
  e2 = e2
  k1 = k1
  k2 = k2
  k3 = k3
  k4 = k4
  Operation = {o1, o2}
  Agenda <- Histories
  Handler = {x, y}
  None = None
  NoRecord = NoRecord
  MaxAttempts = 2
  Threshold = 2
  MaxExpiries = 2
  MaxSuspense = 2
INVARIANT ClearedForItsOwnOperation
