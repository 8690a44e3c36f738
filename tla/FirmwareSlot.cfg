SPECIFICATION Spec
CONSTANTS
  MaxVersion = 3
  Sizes = {1, 2, 3}
  MinSize = 1
  MaxSize = 2
  Signer = TRUE
  MaxFaults = 1
  None = None
  Torn = Torn
INVARIANTS
  OppositeSlot
