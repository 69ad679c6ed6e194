SPECIFICATION FairSpec
CONSTANTS
  c = c
  FileSizes = {1, 2, 3, 4, 5, 6, 7, 8, 9, 10, 11, 12, 13}
  PolicyValues = {1, 2, 3, 4, 5, 6, 7, 8, 9, 10, 11, 12, 13, 14}
  DefaultSize = 4
INVARIANTS TypeOK Partition FixedNumCount ClosedForm
PROPERTIES Terminates
