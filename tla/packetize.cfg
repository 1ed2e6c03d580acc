SPECIFICATION Spec
CONSTANTS
  PayloadMax = 3
  SizeMod = 64
  Sizes = {0, 1, 2, 3, 4, 5, 29, 30, 31, 58, 59, 60, 61}
INVARIANTS
  PackInv
  TypeOK
  Seamless
  WholeFile
