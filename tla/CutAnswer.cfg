CONSTANTS
  Streams = {c1}
  Plains = {p1}
  Attempts = 2
  Upstreams = 2
  Tokens = 2
  Threshold = 2
SPECIFICATION Spec
SYMMETRY MCSymmetry
INVARIANTS CutAnswersFail
CHECK_DEADLOCK FALSE
