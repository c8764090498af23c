SPECIFICATION Spec
CONSTANTS
  None = None
  first = first
  revised = revised
  full = full
  short = short
  part = part
  act = act
  held = held
  w1 = w1
  w2 = w2
  Payload = {first, revised}
  Form = {full, short, part}
  Cites <- Texts
  Ref = {act, held}
  Names <- Candidates
  Pinpoint <- Places
  Guessed = {part}
  Target <- Elsewhere
  Worker = {w1, w2}
  How = {"pipeline", "import"}
  MaxStores = 3
  MaxEdits = 2
  MaxFaults = 1
INVARIANTS TypeOK ArchiveComplete EdgesMatchText RejectionHolds
SYMMETRY Workers
CHECK_DEADLOCK FALSE
