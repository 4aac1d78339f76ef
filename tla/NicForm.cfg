SPECIFICATION Spec
CONSTANTS
  eth0 = eth0
  eth1 = eth1
  amber = amber
  control = control
  Blue = blue
  OtherRoles <- MCOtherRoles
  Listings <- MCListings
  Unused = Unused
INVARIANTS ConfiguredStaysChoice
