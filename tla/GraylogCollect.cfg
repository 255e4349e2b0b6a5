SPECIFICATION FairSpec
CONSTANTS
  Octets = 2
  OctetBits = 2
  Radix = 2
  Docs <- MCDocs
  Src <- MCSrc
  Stamps <- MCStamps
  Public <- MCPublic
  Settings <- MCSettings
  Spans <- MCSpans
  Unit = 2
  SearchSize = 1
  Began = 4
  MaxTime = 5
INVARIANTS
  RepeatsNeedTime
  NothingMissed
PROPERTIES
  CollectEnds
