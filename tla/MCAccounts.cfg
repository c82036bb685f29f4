SPECIFICATION Spec
CONSTANTS
  Emails = {a, b}
  NoEmail = NoEmail
  MaxUsers = 2
  MaxOrgs = 2
  Sessions = {s1, s2}
  Invitations = {i1, i2}
  Tokens = {t1}
  Callers = {c1, c2}
  Assigned = {"admin", "editor"}
  Registering = {FALSE}
  Verifying = {TRUE}
  MaxOpen = 1
  MaxRequests = 6
SYMMETRY Symmetry
INVARIANTS
  AccountsTypeOK
  OrganizationsKeepTheirOwner
  UsedOnce
  OnePlatformAdmin
CHECK_DEADLOCK FALSE
