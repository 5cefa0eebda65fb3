SPECIFICATION Spec
CONSTANTS
  Keys = {k1}
  Requests = {r1, r2}
  Sweeps = {s1}
  External = {whatsapp}
  WebApp = webapp
  Contents = {c1, c2}
  MaxVersion = 2
  NoKey = NoKey
  NoContent = NoContent
  Nobody = Nobody
SYMMETRY Symmetry
INVARIANTS IInv
PROPERTIES SendOutcomeIsFinal LifecycleSpec
