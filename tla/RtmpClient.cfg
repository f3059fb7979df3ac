CONSTANTS
  Options <- Callers
  Randoms <- Draws
  Room = 3
  MaxMedia = 3
  MaxQueue = 3
  MaxTurns = 2
SPECIFICATION Spec
INVARIANTS
  InOrder
  ResultsMatch
  NoGap
  PausesEnd
  Agreed
PROPERTY
  Ends
