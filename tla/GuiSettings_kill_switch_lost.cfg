SPECIFICATION Spec
CONSTANTS
  MaxClicks = 3
  MaxLicenses = 1
INVARIANT ShownKillSwitchWorks
CHECK_DEADLOCK FALSE
