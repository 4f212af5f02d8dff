CONSTANTS
  NoMtime = NoMtime
  NoDigest = NoDigest
  Escaping = Escaping
  d1 = d1
  d2 = d2
  InputRoots <- MCInputRoots
  Commands <- MCCommands
  Effects <- MCEffects
  Surroundings <- MCSurroundings
SPECIFICATION Spec
INVARIANT CaptureIsExact
INVARIANT OnlyDroppedReportsAreMissing
INVARIANT UnstagingIsExact
CHECK_DEADLOCK FALSE
