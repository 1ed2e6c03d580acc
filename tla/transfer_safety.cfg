\* Numbers that wrap (x = 6), a skewed seq_base without a wrap (x = 1 with
\* garbage 7) and one with it (x = 6 with garbage 7).
SPECIFICATION Spec
CONSTANTS
  SeqMod = 8
  Unit = 4
  InitialSeqs = {1, 6}
  FileSizes = {0, 1, 3}
  GarbageBases = {0, 7}
INVARIANTS
  IndInv
  TypeOK
  AckedIsBuffered
  FinAckAnswersFin
  FinMeansComplete
  FileIntact
  CloseIsConfirmed
  TimerArmed
  RecoveryHoldsCount
  SkewOnlyStalls
  WindowIsEarned
PROPERTY ImplementsPromise
