SPECIFICATION Spec
CONSTANTS
  NumModels = 2
  MaxVersion = 1
  CngkRows = 1
  w1 = w1
  w2 = w2
  w3 = w3
  Workers <- ThreeWorkers
  Free = free
  MaxThreadCount = 2
  Config <- CurveAndHistogram
  SubmitFrom = {0}
  EditFrom = {}
  Refused = {"insert", "update", "commit"}
  Faults = {"loss", "crash"}
SYMMETRY Symmetry
INVARIANTS TypeOK PoolBound EquationUnique EquationGap HistogramOfOneRun
PROPERTY TransactionIsolation
