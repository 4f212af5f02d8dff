CONSTANTS
  NoMtime = NoMtime
  NoTree = NoTree
  NoDigest = NoDigest
  d1 = d1
  d2 = d2
  Escaping = Escaping
  Pending = Pending
  NoCall = NoCall
  Disks <- MCDisks
SPECIFICATION AlgorithmsSpec
INVARIANT MergeIsTheUnion
INVARIANT RefusesOnlyClashes
INVARIANT TreeAgreesWithDigest
INVARIANT PathsLeadToTheSamePlace
INVARIANT EscapesAreExact
CHECK_DEADLOCK FALSE
