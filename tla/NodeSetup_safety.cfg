SPECIFICATION Spec
CONSTANTS
  laptop = laptop
  desktop = desktop
  Dirs <- TwoDirs
  MaxNodes = 2
  MaxFaults = 3
SYMMETRY Alike
INVARIANTS TypeOK ReferencedArchive
PROPERTIES PulledIsOneMoment NodeKept
CHECK_DEADLOCK FALSE
