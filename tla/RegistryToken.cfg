CONSTANTS
  Requests = {r1}
  u1 = u1
  u2 = u2
  Users = {u1, u2}
  Names = {n1, n2}
  Anonymous = Anonymous
  Unowned = Unowned
  Absent = Absent
  l1 = l1
  l2 = l2
  l3 = l3
  Logins = {l1, l2, l3}
  Size <- MCSize
  Account <- MCAccount
  Stages <- MCStages
  NoLogin = NoLogin
SPECIFICATION CLISpec
SYMMETRY Symmetry
CHECK_DEADLOCK FALSE
INVARIANTS PushTokensOfOwners TokensOfExistingNames OwnersServed LoginRepairs RunKeepsSession
