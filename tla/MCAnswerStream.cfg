CONSTANTS
  Streams = {c1, c2}
  Plains = {p1, p2}
  Attempts = 2
  Upstreams = 2
  Tokens = 2
  Threshold = 2
SPECIFICATION Spec
SYMMETRY MCSymmetry
INVARIANTS TypeOK OneAnswer CompleteUnlessCut OpenedByFailures
CHECK_DEADLOCK FALSE
