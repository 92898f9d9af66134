\* One command, as in Task.cfg: the rows of the meta files it writes.
CONSTANTS
  cap = cap
  m1 = m1
  m2 = m2
  m3 = m3
  m4 = m4
  plain = plain
  late = late
  ring1 = ring1
  ring2 = ring2
  wide = wide
  None = None
  NA = NA
  Mixed = Mixed
  Refused = Refused
  Garbage = Garbage
  c1 = c1
  c2 = c2
  Cmds = {c1}
  TaskIds <- MCTaskIds
  Attr <- MCAttr
  TextOf <- MCTextOf
  Damaged = {m2}
  DeriveMaxHops = 2
  Joiners <- MCJoiners
  Statable = {"f64", "f32"}
  HeaderFields = {"name", "type", "unit", "ndim"}
  RangeMax = 12
  CellMax = 3
  KeyMax = 1
  Lines <- MCLines
  Number <- MCNumber
  HexDigits <- MCHexDigits
  DateText <- MCDateText
  Zone <- MCZone
  FilterMax = 3
  NameMax = 4
  NameLen = 4
  MaxSuffix = 1
  SeenMax = 2
  MaxFail = 1
  InitStates <- MCInitStates
SPECIFICATION Spec
INVARIANTS MetaHasTwoColumns
CHECK_DEADLOCK FALSE
