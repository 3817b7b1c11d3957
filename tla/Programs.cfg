SPECIFICATION Spec
CONSTANTS
  Machines = {1, 2}
  NumBoxes = 2
  Plans <- MCPlans
  Reply = Reply
  NoMail = NoMail
  NumFloors = 3
  Capacity = 2
  Outings <- MCOutings
  NoOne = NoOne
  NumThreads = 2
  Loops = 2
  Variants <- MCVariants
  Unprinted = Unprinted
INVARIANTS MailOnce SendsPaced CountsExact FinalIsFinal
PROPERTIES EveryoneDone EveryoneArrives EveryonePrints
CHECK_DEADLOCK FALSE
