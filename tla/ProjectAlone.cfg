CONSTANTS
  Process = {p1}
  Command = {"synchronize", "export", "query", "build", "link"}
  NostEnabled = TRUE
  Fact = {f1, f2, f3}
  MaxGeneration = 4
  Discipline = {"one_command", "mirror_waits"}
  Nothing = Nothing
SPECIFICATION Spec
INVARIANTS NoWorkLost BaselineIsAgreement
PROPERTIES ConflictModifiesNeither
