SPECIFICATION Spec
CONSTANTS
  MaxDepth = 3
  Nesting = 3
  LastOffset = 9999
  MaxSections = 6
  ValidAs <- TheValidAs
  Alphabet <- TheAlphabet
  AiOwner <- TheAiOwners
  NodeIds <- TheNodeIds
  EdgeIds <- TheEdgeIds
  MintedNode <- TheMintedNodes
  MintedEdge <- TheMintedEdges
  NameOf <- TheNames
  Characters <- TheCharacters
  GIT_IGNORE_FILE <- TheGitIgnore
  NOSTDB_IGNORE_FILE <- TheNostdbIgnore
  PRUNED_DIRECTORIES <- ThePruned
  SENSITIVE_NAMES <- TheSensitiveNames
  SENSITIVE_STARTS <- TheSensitiveStarts
  SENSITIVE_EXTENSIONS <- TheSensitiveExtensions
  LANGUAGES <- TheLanguages
  NAMED_FILES <- TheNamedFiles
  Lower <- TheLower
  NotText <- TheNotText
  Units <- TheUnits
  AnalyzerOwners <- TheAnalyzerOwners
  MAX_NEIGHBOURING_UNITS = 1
  MAX_EVIDENCE_SPANS = 2
  MAX_EXCERPT_BYTES = 2
INVARIANTS FormattingKeeps GraphSurvives ReadIsSound ScanFollowsTheRules DocumentsAreJudged WorkStaysAsPlanned SourceIsRead
