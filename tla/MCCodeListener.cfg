SPECIFICATION ListenerSpec
CONSTANTS
  Fncs = {1, 2}
  Values = {0, 1, 2, 3, 4}
  Sources <- MCSources
CHECK_DEADLOCK FALSE
INVARIANTS
  CfgFollowsSource
  CrashIsAnnounced
  NoFalseAlarm
