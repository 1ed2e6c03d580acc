\* Three senders in a row, one of them with the last number before the wrap.
SPECIFICATION FairSpec
CONSTANTS
  SeqMod = 4
  MaxRetry = 2
  InitialSeqs = {0, 1, 3}
  GarbageBases = {0, 2}
INVARIANTS
  HandshakeInv
  TypeOK
  Agreement
  ConnectedWasAnswered
  ConnectedKnowsPeer
PROPERTIES
  Termination
  ImplementsConnection
