SPECIFICATION Spec
CONSTANTS
  Passphrases = {p1, p2}
  Texts = {t1, t2}
  MaxId = 2
  MaxSalts = 1
  MaxFaults = 3
  Faults = {"power"}
  FlashDirs = TRUE
  InitialCards = {"blank"}
  None = None
  Torn = Torn
SYMMETRY Symmetric
INVARIANTS LabelMatchesContent RevealShowsEntry
PROPERTIES MirrorCatchesUp DeletedIsGone UnlockProvesPassphrase
