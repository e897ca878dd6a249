\* The claims, the drivers and the transmit workers of vif.c.
CONSTANTS
  shell = shell
  link = link
  pwm = pwm
  vpw = vpw
  none = none
  Owners = {link, shell}
  Link = link
  Buses = {pwm, vpw}
  NoBus = none
  NumGroups = 1
  GroupOf <- MCGroupOf
SPECIFICATION Spec
INVARIANTS
  TypeOK
  NobodyTornDown
  WiringFollowsClaim
  WorkerBelongsToClaim
  SendersExclude
PROPERTIES
  LeaseSpec
