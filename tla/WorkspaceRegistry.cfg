SPECIFICATION Spec
CONSTANTS
  Surfaces = {s1, s2}
  DP1 = DP1
  HDMI1 = HDMI1
  Names = {DP1, HDMI1}
  Boot = DP1
  BootOutputs <- TwoMonitors
  MaxHandle = 6
  MaxOut = 2
  MaxCommands = 2
  MaxFlight = 3
  CallerPrefs <- Given
SYMMETRY Symmetry
INVARIANTS TypeOK Partitioned MirrorsComplete
PROPERTIES ReplugRestores
CHECK_DEADLOCK FALSE
