SPECIFICATION UpgradeSpec
CONSTANTS
  MinSize = 2
  MaxSize = 9
  Addresses <- MCAddresses
  Default = "default"
  OutOfRange = "out"
  Sectors <- MCSectors
  Flashes <- MCFlashes
  None = None
  ChunkSize = 4
  HeaderSize = 1
  ShaSize = 2
  MaxAttempts = 2
  SlotSize = 12
  FileSizes = {1, 5, 6, 9}
  OldSize = 5
  MaxTries = 2
  MaxHoles = 1
CHECK_DEADLOCK FALSE
INVARIANTS UpgradeTypeOK OverwritesAlone RunsWholeCode ReturnedIsWhole TornUntilWritten StaysInSlot UpgradeOrOld
PROPERTIES BootStartsOrHalts ImplementsBootChoice
