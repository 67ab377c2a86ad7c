CONSTANTS
  Val = {1, 2, 3}
  Size <- SizeOf
  Key <- KeyOf
  PageSize = 5
  HeaderSize = 1
  SlotSize = 1
  HeapPages = 2
  SeqPages = 4
SPECIFICATION Spec
INVARIANTS PagesSound InKeyOrder MetadataExact
PROPERTIES FileRefined ExtendsWhenFull
CHECK_DEADLOCK FALSE
