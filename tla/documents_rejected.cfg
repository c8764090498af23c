SPECIFICATION Spec
CONSTANTS
  None = None
  first = first
  revised = revised
  full = full
  short = short
  part = part
  act = act
  held = held
  w1 = w1
  w2 = w2
  Payload = {first, revised}
  Form = {full, short, part}
  Cites <- Texts
  Ref = {act, held}
  Names <- Candidates
  Pinpoint <- Places
  Guessed = {part}
  Target <- Nowhere
  Worker = {w1}
  How = {"pipeline"}
  MaxStores = 2
  MaxEdits = 1
  MaxFaults = 0
INVARIANT RejectedStayAway
SYMMETRY Workers
CHECK_DEADLOCK FALSE
