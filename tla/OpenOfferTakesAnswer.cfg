SPECIFICATION Spec
CONSTANTS
  Keys = {k1, k2}
  Requests = {r1}
  Sweeps = {s1}
  External = {whatsapp}
  WebApp = webapp
  Contents = {c1}
  MaxVersion = 2
  NoKey = NoKey
  NoContent = NoContent
  Nobody = Nobody
SYMMETRY Symmetry
INVARIANT OpenOfferTakesAnswer
