SPECIFICATION FairServiceSpec
CONSTANTS
  NumModels = 1
  MaxVersion = 3
  CngkRows = 0
  w1 = w1
  Workers <- OneWorker
  Free = free
  MaxThreadCount = 1
  Config <- ChangedLimit
  SubmitFrom = {0}
  EditFrom = {0, 3}
  Refused = {}
  Faults = {"late"}
  MaxAlarms = 2
INVARIANTS AlarmTypeOK OpenAlarmKnown
PROPERTY AlarmIsEnded
