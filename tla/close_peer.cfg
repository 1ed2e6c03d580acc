\* The deadlines play no part.
SPECIFICATION Spec
CONSTANTS
  SeqMod = 4
  CloseRounds = 2
  WaitRounds = 2
  LingerRounds = 1
  SeqNums = {0}
  LateNumbers = {}
  MaxLosses = 1
INVARIANT ClosedForgetsPeer
