\* A run ends when its feed does: MaxBars bars, so the end is not a deadlock.
CONSTANTS
  Equities <- MCEquities
  Configs <- MCConfigs
  None = None
  MaxBars = 7
SPECIFICATION Spec
INVARIANTS
  TypeOK
  EpisodesFollowTheSwitch
  HaltDurations
  DrawdownHaltsAreExact
  LivePeakIsTheHaltPeak
CHECK_DEADLOCK FALSE
