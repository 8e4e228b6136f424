CONSTANTS
  Requests = {r1, r2}
  Jobs = {j1}
  Ingests = {i1}
  DayLen = 3
  TTL = 4
  Limit = 3
  MaxCost = 2
  Chunks = 2
  MaxRetries = 1
SPECIFICATION Spec
SYMMETRY MCSymmetry
INVARIANTS QuotaTypeOK OvershootBounded UsageKept JobPaidOnce
