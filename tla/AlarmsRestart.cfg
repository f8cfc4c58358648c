SPECIFICATION FairServiceSpec
CONSTANTS
  NumModels = 2
  MaxVersion = 1
  CngkRows = 0
  w1 = w1
  Workers <- OneWorker
  Free = free
  MaxThreadCount = 1
  Config <- LimitAndCurve
  SubmitFrom = {0}
  EditFrom = {}
  Refused = {}
  Faults = {"crash", "stop"}
  MaxAlarms = 1
INVARIANT KnownAlarmOpen
PROPERTIES AlarmIsRaised ImplementsCapacityMonitor
