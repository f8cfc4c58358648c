SPECIFICATION Spec
CONSTANTS
  NumModels = 1
  MaxVersion = 1
  CngkRows = 0
  w1 = w1
  w2 = w2
  w3 = w3
  Workers <- ThreeWorkers
  Free = free
  MaxThreadCount = 2
  Config <- OneTrained
  SubmitFrom = {0}
  EditFrom = {}
  Refused = {}
  Faults = {}
SYMMETRY Symmetry
INVARIANT CalculatingIsRun
