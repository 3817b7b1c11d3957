CONSTANTS
  ByteBits = 2
  PageSize = 8
  NumPhysPages = 4
  Families <- MCFamilies
  Memory <- MCMemory
SPECIFICATION Spec
INVARIANT Lockstep
PROPERTIES Restartable ChangedIsDirty
CHECK_DEADLOCK FALSE
