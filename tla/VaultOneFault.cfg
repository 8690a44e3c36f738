SPECIFICATION Spec
CONSTANTS
  Passphrases = {p1, p2}
  Texts = {t1, t2}
  MaxId = 3
  MaxSalts = 2
  MaxFaults = 1
  Faults = {"power", "lose"}
  FlashDirs = TRUE
  InitialCards = {"blank"}
  None = None
  Torn = Torn
INVARIANTS AckSurvives IdsAreUnique
