SPECIFICATION FairSpec
CONSTANTS
  MaxAsks = 2
  NoSession = NoSession
  NoAsk = NoAsk
  Page = {p1}
  Rounds = 1
  MaxPieces = 1
  ChannelRoom = 1
  WireRoom = 1
INVARIANTS
  TypeOK
  ShownInOrder
  DoneTellsAll
  QuietResetHolds
  DecisionOfThisTalk
PROPERTIES
  AskEnds
