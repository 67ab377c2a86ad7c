CONSTANTS
  Session = {s1, s2}
  Val = {a}
  Rid <- Rids
  Table = Table
  Seed <- OneRow
  InsertFails = {}
  RemoveFails = {}
  Closers = {}
  Kinds = {"insert", "delete"}
  MaxRows = 2
  MaxJournal = 3
  MaxOrphans = 0
SPECIFICATION Spec
SYMMETRY Symmetric
INVARIANTS NoDirtyInsertRead WritesLocked NoLockLeak IndexMatchesStore
PROPERTIES AtomicityHolds
