CONSTANTS
  Instances = {i1, i2}
  Passports = {p1, p2}
  Consumers = {c1, c2}
  MaxVersion = 5
  MaxOutages = 1
  None = None
SPECIFICATION Spec
SYMMETRY Symmetry
INVARIANTS PayloadAgrees OneConsumer
PROPERTIES PassportsAreFinal EditsAreKeptWhenReachable
