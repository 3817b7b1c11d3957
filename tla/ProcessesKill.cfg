SPECIFICATION ProcSpec
CONSTANTS
  Proc = {m, p1, p2, p3}
  Main = m
  NULL = NULL
  Garbage = Garbage
  Sizes = {1, 2}
  Codes = {7}
  Setups <- Kills
SYMMETRY Symmetry
INVARIANTS IdleMeansDone
