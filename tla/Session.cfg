SPECIFICATION FairSpec
CONSTANTS
  NoClient = none
  MaxSettings = 1
  SampleWindow = 2
  MaxMicros = 3
  SearchLimit = 1
  ReferenceLimit = 1
  CallLimit = 1
  Used <- MCUsed
  Durations <- MCDurations
  MaxReplies = 3
CHECK_DEADLOCK FALSE
INVARIANTS
  TypeOK
  ReachableServer
  SettingsTakeEffect
  HealthMatchesReplies
PROPERTY OperationsEnd
