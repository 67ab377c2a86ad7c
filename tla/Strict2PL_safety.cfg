CONSTANTS
  Tx = {t1, t2}
  Resource = {r1, r2}
  NoResource = NoResource
  Timed = {}
  Asked = {"S", "U", "X"}
  MaxCount = 2
SPECIFICATION Spec
SYMMETRY Symmetric
INVARIANTS TypeOK GrantsCompatible
PROPERTIES GrantsOnlyDropped ServiceRefined
CHECK_DEADLOCK TRUE
