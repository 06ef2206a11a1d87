CONSTANTS
  MaxSize = 3
  KeyLimit = 3
  FirstKey = 2
SPECIFICATION Spec
INVARIANTS
  TypeOK
  FreeListExact
  SavedPoolSound
  UnvisitedAhead
PROPERTIES
  LoopMissesNoSurvivor
  NoEarlyReuse
  IsHandleTable
