SPECIFICATION Spec
CONSTANTS
  MaxMessages = 1
  Workers = {w1, w2}
  WindowReset = 1
  WindowMax = 2
  MaxAttempts = 2
  MaxVersion = 2
  Nobody = Nobody
SYMMETRY Symmetry
INVARIANTS RunsAreCounted UndecidedOnTheDraft IInv
PROPERTY LateRunChangesNothing
