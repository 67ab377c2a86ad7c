CONSTANTS
  MaxPages = 3
  Data = {z, a}
  Zero = z
  Capacity = 2
  Thread = {t1, t2}
  MaxPins = 2
  NoPage = NoPage
SPECIFICATION Spec
SYMMETRY Symmetric
ACTION_CONSTRAINT Followed
INVARIANTS TypeOK PoolBounded PinnedResident CleanMatchesDisk
PROPERTIES StoreRefined
