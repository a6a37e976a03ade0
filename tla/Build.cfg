CONSTANTS
  p1 = p1
  p2 = p2
  p3 = p3
  logo = logo
  dir = dir
  rust = rust
  text = text
  c1 = c1
  c2 = c2
  a = a
  b = b
  old = old
  new = new
  Files <- MCFiles
  Asset = {logo}
  Parent <- MCParent
  Root = root
  Language <- MCLanguage
  Covered = {rust}
  Content = {c1, c2}
  Name = {a, b}
  Version = {old, new}
  Parse <- MCParse
  MaxBuilds = 3
  MaxEdits = 2
  Broken = Broken
  Nothing = Nothing
SPECIFICATION MCSpec
INVARIANTS RecordsMatchDigest GraphMatchesTree
PROPERTIES IdentityKept
