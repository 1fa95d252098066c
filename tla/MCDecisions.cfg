SPECIFICATION Spec
CONSTANTS
  None = None
  Invalid = {"bad"}
  AddressOf <- HostAddress
  DefaultPort <- WiringPort
  Blank <- BlankWord
  Broken <- BrokenWord
  Slug <- Slugs
  Numeral <- Decimal
  MaxLogLines = 3
  OldCap = 2
  MaxLimit = 4
  MostAsked = 2
INVARIANTS
  RepairSettles
  BuilderShipsWhatIsAsked
  ScreenAgrees
  MapIsFair
  FeedIsHonest
  ConsoleTellsTheTruth
CHECK_DEADLOCK FALSE
