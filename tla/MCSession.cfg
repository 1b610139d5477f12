CONSTANTS
  Headers <- FileHeaders
  Keys = {"m", "d"}
  KeyEvents = 3
  Limits = {0, 1}
SPECIFICATION SessionSpec
INVARIANTS EndsClean ButtonsFollowKeys
PROPERTY Ends
CHECK_DEADLOCK FALSE
