SPECIFICATION Spec
CONSTANTS
  Codes <- MCCodes
  Others <- MCOthers
  MaxSwitches = 2
  None = None
INVARIANTS CompleteHasAll CapturesPayload PartsFit
PROPERTY CaptureEnds
