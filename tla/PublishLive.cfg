CONSTANTS
  Requests = {r1, r2}
  Namespaces = {n1}
  Names = {p1}
  Versions = {v1, v2}
  Descriptions = {textA, textB}
  Owners = {u1}
  Digests = {d1, d2, d3}
  Content <- MCContent
  p1 = p1
  p2 = p2
  v1 = v1
  v2 = v2
  d1 = d1
  d2 = d2
  d3 = d3
  d4 = d4
  textA = textA
  textB = textB
  Broken = Broken
  Absent = Absent
  Unowned = Unowned
  NoRow = NoRow
  Blank = Blank
  Faults = TRUE
SPECIFICATION FairSpec
CHECK_DEADLOCK FALSE
PROPERTY EveryPublishAnswered
