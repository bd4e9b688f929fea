SPECIFICATION EnginesFairSpec
CONSTANTS
  boot = boot
  attract = attract
  play = play
  none = none
  Main <- Mains
  Boot <- boot
  NoMain <- none
  MaxFrames = 4
  MaxBusy = 2
  StepBudget = 9
  ReadBudget = 3
  HostStack = 3
INVARIANT NewestMainRuns
INVARIANT BusyFramesExact
INVARIANT OnePassPerFrame
INVARIANT HostStackIsRestarts
PROPERTY RestartNotLost
PROPERTY FollowsContract
PROPERTY RunsEnd
