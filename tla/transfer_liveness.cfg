\* The number of a late FIN may be any of the eight.
SPECIFICATION FairLateSpec
CONSTANTS
  SeqMod = 8
  Unit = 2
  InitialSeqs = {6}
  FileSizes = {0, 2}
  GarbageBases = {0}
INVARIANTS
  CutOffIsNoticed
PROPERTIES
  Termination
