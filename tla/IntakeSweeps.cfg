SPECIFICATION FairSpec
CONSTANTS
  Entries = {"upload"}
  Deliveries = {d1}
  Sweeps = {s1, s2}
  Files = {f1}
  MaxVersion = 2
  Nobody = Nobody
CHECK_DEADLOCK FALSE
INVARIANT IInv
PROPERTIES SweepClosesItsOwn FilesAreClosed
