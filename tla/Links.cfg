SPECIFICATION LinksSpec
CONSTANTS
  p1 = p1
  p2 = p2
  host = host
  lib = lib
  Nothing = Nothing
  Torn = Torn
  Process = {p1, p2}
  Source = {host, lib}
  Remote = {host}
  Alias = {}
  MaxCommit = 2
  MaxEdits = 1
  PlainField = {"database.nost"}
  BudgetField = {"analysis.max_input_tokens"}
  Default <- MCDefault
  Global <- MCGlobal
  Rules = {"one_writer", "one_refresh", "editor_waits", "open_first"}
INVARIANTS MirrorFollowsGraph
PROPERTIES UserFieldsKept
SYMMETRY Processes
CHECK_DEADLOCK FALSE
