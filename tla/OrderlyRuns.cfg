SPECIFICATION Spec
CONSTANTS
  NumModels = 2
  MaxVersion = 2
  CngkRows = 1
  w1 = w1
  w2 = w2
  w3 = w3
  Workers <- ThreeWorkers
  Free = free
  MaxThreadCount = 2
  Config <- CurveAndResults
  SubmitFrom = {0, 3}
  EditFrom = {0}
  Refused = {"select"}
  Faults = {"crash", "stop"}
SYMMETRY Symmetry
INVARIANTS OneRunPerModel CompleteIsCurrent
PROPERTY ImplementsModelJob
