SPECIFICATION Spec
CONSTANTS
  Build = {shipped, broken}
  Working = {shipped}
  Shipped = shipped
  None = None
  Torn = Torn
INVARIANT BootOkMeansHealthyStart
