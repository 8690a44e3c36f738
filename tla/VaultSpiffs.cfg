SPECIFICATION FairSpec
CONSTANTS
  Passphrases = {p1, p2}
  Texts = {t1, t2}
  MaxId = 2
  MaxSalts = 1
  MaxFaults = 0
  Faults = {}
  FlashDirs = FALSE
  InitialCards = {"blank"}
  None = None
  Torn = Torn
PROPERTIES
  CreateSucceeds
