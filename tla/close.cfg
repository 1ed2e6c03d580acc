\* Deadlines of six, four and three rounds: a close() may time out before the
\* linger does and after it.
SPECIFICATION FairSpec
CONSTANTS
  SeqMod = 4
  CloseRounds = 6
  WaitRounds = 4
  LingerRounds = 3
  SeqNums = {0, 3}
  LateNumbers = {2}
  MaxLosses = 4
INVARIANTS
  CloseInv
  TypeOK
  CloseIsHeard
  ForgetsOnlyWhenAsked
  LossesExplainTimeout
PROPERTIES
  TimeRunsOut
  Termination
