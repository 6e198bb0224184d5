SPECIFICATION Spec
CONSTANTS
  Callers = {c1, c2}
  Others = others
  Indexes = {i1, i2}
  Keys = {k1}
  NoKey = NoKey
  NoMac = NoMac
  MaxVersion = 2
SYMMETRY Symmetry
INVARIANTS StateAgrees OwnPatchesValid
