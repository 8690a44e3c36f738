SPECIFICATION FairSpec
CONSTANTS
  Passphrases = {p1}
  Texts = {t1}
  MaxId = 2
  MaxSalts = 2
  MaxFaults = 1
  Faults = {"power", "pull", "swap", "flash"}
  FlashDirs = TRUE
  InitialCards = {"blank", "foreign"}
  None = None
  Torn = Torn
INVARIANT TypeOK
PROPERTIES StoredIsOnCard MirrorSaltKept OperationsEnd
