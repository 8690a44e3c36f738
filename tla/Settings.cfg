SPECIFICATION Spec
CONSTANTS
  Default = Default
  Values = {Default, v1, v2}
  None = None
  Torn = Torn
INVARIANTS OneStore StoredSurvives CleanMeansStored RestoreIsComplete
