CONSTANTS
  Tx = {t1, t2}
  Resource = {r1, r2}
  NoResource = NoResource
  Timed = {t1}
  Asked = {"S", "X"}
  MaxCount = 2
SPECIFICATION FairSpec
PROPERTIES AcquireEnds DeadlockBroken
