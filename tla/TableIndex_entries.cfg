CONSTANTS
  Key = {1, 2, 5}
  Rid = {1, 2}
  KeySize <- Size
  Payload = 48
  TreePages = 12
  Digest <- Itself
  EntrySize <- Bytes
  BucketSize = 36
  MaxDepth = 2
  HashPages = 7
  Point <- Place
  Order = 2
  RTreeBound = 6
  Documents = {1, 2, 3}
  NoMatch = NoMatch
  BuiltScore <- Built
  DeltaScore <- Delta
  Queries <- Asked
SPECIFICATION Spec
INVARIANTS StructureSound SearchExact NearestExact RemovalExact
PROPERTIES EntriesRefined
CHECK_DEADLOCK FALSE
