CONSTANTS
  Literal <- MCLiteral
  Scrap = {"?"}
  MaxInteger = 7
  Texts <- MCTexts
  Upper <- MCUpper
  EvidenceRowLimit = 2
  Queries <- MCQueries
  Later <- MCLater
  Graphs <- MCGraphs
  Linked <- MCLinked
  Locators <- MCLocators
  Parameters <- MCParameters
  MaxCommits = 1
  MaxWrites = 2
  MaxRows = 32
  Evaluate <- evaluate
  MatchPattern <- match_pattern
  MatchedRows <- match_row
  AggregateRows <- aggregate_rows
  ContainsAggregate <- contains_aggregate
  ColumnNames <- column_names
  CalledRows <- run_call
  CalledColumns <- CallNames
  CompareValues <- Compare
  LabelsAsked <- required_labels
SPECIFICATION QuerySpec
INVARIANTS SummaryTellsTheChange ValuesHaveOneOrder PageIsSliceOfWhole GroupsPartTheRows
PROPERTIES OthersKeepTheirClaims MatchFindsThePaths MergeCreatesOnce SetSeesTheClauseStart DeletedNodesTakeTheirEdges
