CONSTANTS
  Requests = {r1, r2}
  Readers = {x1}
  Namespaces = {n1, n2}
  Names = {p1}
  Versions = {v1, v2}
  Descriptions = {textA, textB}
  Owners = {u1, u2}
  Digests = {d1, d2, d3}
  Content <- MCContent
  Home <- MCHome
  n1 = n1
  n2 = n2
  p1 = p1
  v1 = v1
  v2 = v2
  d1 = d1
  d2 = d2
  d3 = d3
  textA = textA
  textB = textB
  Broken = Broken
  Absent = Absent
  Unowned = Unowned
  Nobody = Nobody
  Everywhere = Everywhere
  Limits = {0, 2, 3}
  Offsets <- MCOffsets
  DefaultLimit = 1
  MaxLimit = 2
  NoRow = NoRow
  Blank = Blank
  Faults = TRUE
SPECIFICATION RegistrySpec
SYMMETRY Symmetry
CHECK_DEADLOCK FALSE
INVARIANTS RegistryTypeOK OnlyOwnersPublish DetailPageNeverFails PublishedVersionIsFound WalkShowsTotal
PROPERTY NamespacesKeepOwner
