SPECIFICATION FairSpec
CONSTANTS
  NumModels = 2
  MaxVersion = 1
  CngkRows = 1
  w1 = w1
  w2 = w2
  w3 = w3
  Workers <- ThreeWorkers
  Free = free
  MaxThreadCount = 2
  Config <- HistogramAndTrained
  SubmitFrom = {0, 3}
  EditFrom = {}
  Refused = {}
  Faults = {"crash"}
PROPERTIES Progress RunsEnd
