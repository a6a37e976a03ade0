CONSTANTS
  f1 = f1
  f2 = f2
  f3 = f3
  Root = root
  here = here
  there = there
  x = x
  y = y
  z = z
  File = {root, f1, f2, f3}
  Base = {here, there}
  Locator = {x, y, z}
  Remote = {z}
  World <- MCWorld
  Limit <- MCLimit
  Nothing = Nothing
SPECIFICATION MCSpec
INVARIANTS NearestFirst EveryLinkAnswered WalkIsComplete
