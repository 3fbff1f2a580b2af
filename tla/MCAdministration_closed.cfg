SPECIFICATION AdministrationSpec
CONSTANTS
  mk = mk
  cx = cx
  cy = cy
  g1 = g1
  g2 = g2
  g3 = g3
  g4 = g4
  g5 = g5
  p1 = p1
  p2 = p2
  m1 = m1
  m2 = m2
  j1 = j1
  j2 = j2
  v1 = v1
  v2 = v2
  k1 = k1
  k2 = k2
  k3 = k3
  k4 = k4
  k5 = k5
  ann = ann
  w1 = w1
  w2 = w2
  None = None
  NoRecord = NoRecord
  Principal = {mk, cx, cy}
  Approval = {g1, g2, g3, g4, g5}
  Policy = {v1, v2}
  Period = {p1, p2}
  Mapping = {m1, m2}
  Journal = {j1, j2}
  Customer = {ann}
  Wallet = {w1, w2}
  MaxVersion = 3
  Holders <- Scopes
  Given <- Standing
  Agenda <- JustWaiting
PROPERTY ClosedPeriodsTakeNoPosting
CHECK_DEADLOCK FALSE
