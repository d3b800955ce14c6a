\* Lists of up to four rows with two sort keys, read two at a time.
SPECIFICATION Spec
CONSTANTS
  Ids = {1, 2, 3, 4}
  SortKeys = {1, 2}
  PageSize = 2
CHECK_DEADLOCK FALSE
INVARIANTS
  PagesTypeOK
  NothingIsMissed
