SPECIFICATION FairSpec
CONSTANTS
  d1 = d1
  d2 = d2
  w1 = w1
  w2 = w2
  r1 = r1
  r2 = r2
  NoRow = NoRow
  NoDataset = NoDataset
  Datasets = {d1, d2}
  Workers = {w1, w2}
  Requests = {r1}
  Batch = {}
  Sold = {}
  MaxFaults = 1
CHECK_DEADLOCK FALSE
INVARIANT CurrentIsRunning
PROPERTIES RefinesQueue QueuedIsFinished
