CONSTANTS
  T = 3
  Programs <- SecondLoop
SPECIFICATION Spec
PROPERTIES
  FirstInitializes
CHECK_DEADLOCK FALSE
