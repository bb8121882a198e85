SPECIFICATION Spec
CONSTANTS
  Users = {"asha"}
  Browsers = {"phone", "laptop"}
  Visitors = {"phone"}
  Uses <- MCUses
  SeedRoles <- MCSeedRoles
INVARIANTS
  TypeOK
  ProfileBehindRole
PROPERTIES
  ShownToItsRole
  ChoosersSettle
CHECK_DEADLOCK FALSE
