SPECIFICATION Spec
CONSTANTS
  Users = {"asha"}
  Browsers = {"phone", "laptop"}
  Visitors = {"phone"}
  Uses <- MCUses
  SeedRoles <- MCSeedRoles
PROPERTIES
  EveryRoleSettles
CHECK_DEADLOCK FALSE
