CONSTANTS
  db = db
  settings = settings
  nost = nost
  baseline = baseline
  Destination <- MCDestination
  Shape <- MCShape
  MaxTransaction = 3
  Faults = {"crash", "stage", "journal", "rename", "unlink"}
  Discipline = {"drop_after_error", "clean_start"}
  NoFile = NoFile
  Torn = Torn
SPECIFICATION Spec
PROPERTIES ImplementsAtomicFiles
