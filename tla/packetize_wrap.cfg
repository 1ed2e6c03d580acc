\* A file just below SizeMod bytes: the rounding wraps around.
SPECIFICATION Spec
CONSTANTS
  PayloadMax = 3
  SizeMod = 64
  Sizes = {30, 62}
INVARIANT WholeFile
