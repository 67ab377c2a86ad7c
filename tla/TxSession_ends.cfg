CONSTANTS
  Session = {s1, s2}
  Val = {a}
  Rid <- Few
  Table = Table
  Seed <- OneRow
  InsertFails = {}
  RemoveFails = {}
  Closers = {s1}
  Kinds = {"delete", "select", "lookup"}
  MaxRows = 1
  MaxJournal = 1
  MaxOrphans = 0
SPECIFICATION FairSpec
PROPERTIES StatementEnds
