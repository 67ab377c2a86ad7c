SPECIFICATION Spec
CONSTANTS
  Table = {"a"}
  Index = {"x"}
  Type = {"point", "text"}
  Key = {1}
  Null = Null
  Plugin = {"IVF"}
  Config = {"c", "d"}
  Large = {"t_a", "ix_x", "SysIndexes"}
  MaxSlots = 2
  MaxOpens = 3
  MaxChanges = 3
  None = None
  Missing = Missing
  Zeros = Zeros
  Mixed = Mixed
  Gone = Gone
INVARIANTS SysMatchesMemory IndexHoldsRows
PROPERTIES OpenRestores CrashRollsBack
CHECK_DEADLOCK FALSE
