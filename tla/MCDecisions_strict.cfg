SPECIFICATION Spec
CONSTANTS
  None = None
  Invalid = {"bad"}
  AddressOf <- HostAddress
  DefaultPort <- WiringPort
  Blank <- BlankWord
  Broken <- BrokenWord
  Slug <- Slugs
  Numeral <- Decimal
  MaxLogLines = 3
  OldCap = 2
  MaxLimit = 4
  MostAsked = 2
INVARIANT
  ButtonsAreAccepted
\* In its place, each of these fails as well:
\*   EmptyMeansNothing
\*   EveryPickIsTold
CHECK_DEADLOCK FALSE
