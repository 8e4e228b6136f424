CONSTANTS
  Arrivals = {r1, r2}
  MaxOf <- MCMaxOf
  Window = 2
SPECIFICATION RateFairSpec
INVARIANTS BurstBounded RetryAfterHonest
PROPERTY ThrottleEnds
