CONSTANTS
  Tids = {1, 2, 3}
  CrashTid = 2
  Newcomers = {3}
  Options <- MCOptions
  CanFail = {}
  Limit = 3
  MaxPlaceholders = 1
SPECIFICATION Spec
PROPERTY NoZombie
