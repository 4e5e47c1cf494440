SPECIFICATION FairSpec
CONSTANTS
  ExecCap = 2
  UserCap = 2
INVARIANTS
  TypeOK
  T2QuietWhileRewriting
PROPERTIES
  PhaseGoesRound
  ResumesOnLiveFeeds
  PauseEnds
  ShutdownEnds
CHECK_DEADLOCK FALSE
