SPECIFICATION FairSpec
CONSTANTS
  DispatchFailures = {"unconfigured", "timeout"}
  HeartbeatFailures = {"STALE"}
  Gap = 2
  Realert = 4
  Unconfigured = 6
  OnChange = 2
  Checkpoint = 4
  Hour = 4
  WriteCap = 6
  Faults = {"lost", "alert"}
INVARIANTS WithinCap
PROPERTIES AlertsApart RecoveryAnnounced FailureRepeated
