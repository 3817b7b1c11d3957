SPECIFICATION Spec
CONSTANTS
  SystemTick = 1
  ConsoleTime = 2
  TimerTicks = 2
  RotationTime = 3
  SeekTime = 2
  SectorsPerTrack = 3
  NumTracks = 2
  EOF = "EOF"
  Setups <- MCSetups
  Requests = 2
  Nobody = Nobody
INVARIANTS PendingExact CompletionIsOwn EchoExact
PROPERTIES LatencySound EverythingServed
CHECK_DEADLOCK FALSE
