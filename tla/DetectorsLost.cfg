SPECIFICATION Spec
CONSTANTS
  Null = Null
  MaxEdits = 2
  MaxSaves = 1
  MaxOthers = 1
PROPERTY DetectorsSurvive
CHECK_DEADLOCK FALSE
