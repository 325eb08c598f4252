CONSTANTS
  None = None
  Names = {1, 2, 3}
  Contents = {old, new}
  MaxChanges = 2
  MaxKills = 1
SPECIFICATION Spec
INVARIANTS ChangeIsDetected NoFalseAlarm
CHECK_DEADLOCK FALSE
