CONSTANTS
  Requests = {r1, r2, r3}
  alice1 = alice1
  alice2 = alice2
  nameless = nameless
  alice = alice
  bob = bob
  good = good
  other = other
  Emails = {alice1, alice2, nameless}
  Passwords = {short, long, good, other}
  ShortPasswords = {short}
  LongPasswords = {long}
  Names = {alice, bob}
  LocalPart <- MCLocalPart
  NoName = NoName
  Nobody = Nobody
  Absent = Absent
  Unowned = Unowned
  Outcomes = {"ok", "failed", "lost"}
  RefreshTTL = 1
  MaxTime = 2
SPECIFICATION Spec
SYMMETRY Symmetry
CHECK_DEADLOCK FALSE
INVARIANTS TypeOK OwnerMatchesLocalPart WinnerKeepsAccount SessionsIndependent SessionsAuthenticated ConflictMeansRegistered NoReplay RegisteredNameIsTaken
PROPERTY NamespaceOwnerStable
