SPECIFICATION FairSpec
CONSTANTS
  Entries = {"upload"}
  Deliveries = {d1}
  Sweeps = {s1}
  Files = {f1, f2}
  MaxVersion = 2
  Nobody = Nobody
CHECK_DEADLOCK FALSE
PROPERTY UploadedFileIsRead
