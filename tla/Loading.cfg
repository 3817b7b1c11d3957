SPECIFICATION Spec
CONSTANTS
  PageSize = 3
  NumPhysPages = 7
  UserStackSize = 1
  StackSize = 3
  BlankWord = 2
  Programs = {"small", "large", "odd"}
  Objects = {"small", "large", "odd", "both", "twobss", "apart", "gap", "late", "bare", "other"}
  Coff <- MCCoff
  Processes = {p1, p2, p3}
  None = None
INVARIANTS ImageIntact ConvertersAgree
PROPERTY AllOrNothing
SYMMETRY Renaming
CONSTRAINT NotStrayed
CHECK_DEADLOCK FALSE
