CONSTANTS
  Requests = {r1, r2, r3}
  alice1 = alice1
  alice2 = alice2
  nameless = nameless
  alice = alice
  bob = bob
  good = good
  other = other
  Emails = {alice1}
  Passwords = {good}
  ShortPasswords = {short}
  LongPasswords = {long}
  Names = {alice}
  LocalPart <- MCLocalPart
  NoName = NoName
  Nobody = Nobody
  Absent = Absent
  Unowned = Unowned
  Outcomes = {"ok"}
  RefreshTTL = 1
  MaxTime = 1
SPECIFICATION Spec
SYMMETRY Symmetry
CHECK_DEADLOCK FALSE
INVARIANT RotationSingleUse
