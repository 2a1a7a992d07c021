SPECIFICATION Spec
CONSTANTS
  p = p
  a = a
  b = b
  k1 = k1
  k2 = k2
  Ids = {p, a, b}
  Proxy = p
  MaxContacts = 2
  Keys = {k1, k2}
  None = None
  Earlier <- MCEarlier
SYMMETRY Symmetry
INVARIANTS FilesSurvive ProxyKnown OneIdentity
