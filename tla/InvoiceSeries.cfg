SPECIFICATION Spec
CONSTANTS
  Quotes = {q1, q2}
  Workers = {w1, w2}
  LookAlikes = {}
  MaxRows = 2
  MaxVersion = 1
  MaxForeign = 1
  NoQuote = NoQuote
SYMMETRY Symmetry
INVARIANTS NumbersDoNotCross NothingAuthorizedIsLost IssuedIsAuthorized
