\* Numbers that wrap, files of no, one and two packets.
SPECIFICATION FairSession
CONSTANTS
  SeqMod = 8
  Unit = 2
  MaxRetry = 1
  InitialSeqs = {6}
  FileSizes = {0, 1, 2}
  GarbageBases = {5}
INVARIANTS
  SessionInv
  SessionTypeOK
  EarlyFinEndsNothing
  HalfOpenIsNoticed
  ReceiverSuccessMeansFile
PROPERTIES
  ImplementsTransfer
  ImplementsHandshake
  SessionTermination
