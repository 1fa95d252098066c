SPECIFICATION Spec
CONSTANTS
  None = None
  NoAnswer = NoAnswer
  Product = {"controller", "slop"}
  Slop = "slop"
  Asker = {t1}
  MaxTip = 1
  MaxRestarts = 1
PROPERTIES
  OfferIsReal
  ReleaseIsOffered
