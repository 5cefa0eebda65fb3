SPECIFICATION Spec
CONSTANTS
  Entries = {"typed", "upload", "channel text", "public file", "email"}
  Deliveries = {d1, d2}
  Sweeps = {s1}
  Files = {f1, f2}
  MaxVersion = 1
  Nobody = Nobody
CHECK_DEADLOCK FALSE
SYMMETRY Symmetry
INVARIANTS OneOutcome ReceivedIsWorked DoneWasWeighed

