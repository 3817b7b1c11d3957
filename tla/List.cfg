SPECIFICATION ListSpec
CONSTANTS
  Cell = {c1, c2, c3, c4}
  Item = {i1, i2, i3}
  Key = {0, 1, 2}
  NULL = NULL
  Uses <- Kinds
SYMMETRY Symmetry
PROPERTIES ListMeaning
