SPECIFICATION Spec
CONSTANTS
  Keys = {k1, k2}
  Requests = {r1}
  Sweeps = {s1}
  External = {whatsapp}
  WebApp = webapp
  Contents = {c1, c2}
  MaxVersion = 2
  NoKey = NoKey
  NoContent = NoContent
  Nobody = Nobody
SYMMETRY Symmetry
INVARIANTS SnapshotFaithful OnlyTheNewestIsDraft WorkHasDraft OneAnswerPerVersion AnswersAddressWhatWasShown StandingSaleIsAccepted
PROPERTIES FrozenIsPermanent ArchivedOnlyFinishes
