CONSTANTS
  Session = {s1, s2}
  Val = {a}
  Rid <- Rids
  Table = Table
  Seed <- OneRow
  InsertFails = {}
  RemoveFails = {}
  Closers = {s1}
  Kinds = {"insert", "delete"}
  MaxRows = 1
  MaxJournal = 2
  MaxOrphans = 0
SPECIFICATION Spec
PROPERTIES LocksKept
