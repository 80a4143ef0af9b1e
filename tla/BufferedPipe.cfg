SPECIFICATION FairSpec
CONSTANTS
  aWriter1 = aWriter1
  aWriter2 = aWriter2
  bReader = bReader
  bWriter = bWriter
  NoThread = NoThread
  Threads <- Three
  End <- EndOfThree
  Readers <- MCReaders
  Cap = 1
  Lens = {0, 3}
  Sizes = {1, 2}
  MaxWrites = 3
CHECK_DEADLOCK FALSE
INVARIANTS InOrder NoDoubleClose
PROPERTIES ImplementsByteStream WriteReturns PeerCloseWakesReader
