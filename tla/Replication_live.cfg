SPECIFICATION FairReplicationSpec
CONSTANTS
  a = a
  b = b
  c = c
  Nil = Nil
  Nodes = {a, b}
  Absent = {c}
  Manager = a
  Fresh = {}
  Dialers = {a}
  Authors = {b}
  WithBlob = {1}
  MaxHead = 2
  MaxEvents = 1
  MaxSteps = 2
  MaxDiscards = 1
  MaxTalks = 1
PROPERTIES
  Converges
CHECK_DEADLOCK FALSE
