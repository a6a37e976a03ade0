SPECIFICATION Spec
SYMMETRY Exchangeable
CONSTANTS
  Producer = {rust, ai}
  User = user
  Unit = {u}
  Query = query
  NodeId = {n1, n2}
  EdgeId = {e}
  MaxGeneration = 4
  MaxOperations = 3
  Discipline = {}
  Absent = Absent
INVARIANTS SummaryIsNet AppliedOnWhatItSaw
PROPERTIES EndpointsStay RefreshKeepsOthers
