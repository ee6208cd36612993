SPECIFICATION Spec
CONSTANTS
  d1 = d1
  d2 = d2
  w1 = w1
  w2 = w2
  r1 = r1
  r2 = r2
  NoRow = NoRow
  NoDataset = NoDataset
  Datasets = {d1}
  Workers = {w1}
  Requests = {r1}
  Batch = {}
  Sold = {}
  MaxFaults = 0
CHECK_DEADLOCK FALSE
PROPERTY DeletionAborts
