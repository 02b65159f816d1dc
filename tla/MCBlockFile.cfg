SPECIFICATION Spec
CONSTANTS
  Threads = {t1, t2}
  Offsets = {0, 1, 7}
  Vals = {v1, v2}
  Noise = Noise
  None = None
  SIZE = 2
  INTBITS = 4
  FaultSets = {{}, {"missing"}, {"overflow"}, {"ocalloc", "open", "short"}}
SYMMETRY FileSymmetry
INVARIANTS TypeOK
PROPERTIES ImplementsArray DamageContained ShortWriteMixes OverflowHitsRoot
