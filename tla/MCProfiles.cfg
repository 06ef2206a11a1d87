CONSTANTS
  lower = lower
  upper = upper
  None = None
  NoFile = NoFile
  Torn = Torn
  Keys = {1, 2, 3}
  Forms = {lower, upper}
  MaxUsers = 2
  MaxId = 3
  MaxPersons = 3
  MaxProgress = 1
SPECIFICATION Spec
SYMMETRY TypedForms
CONSTRAINT FewTorn
INVARIANTS
  TypeOK
  PlayerListed
  FilesBelong
PROPERTIES
  ResumesPlayer
  ProgressKept
