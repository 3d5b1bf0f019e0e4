SPECIFICATION Spec
CONSTANTS
  Containers = {api, job}
  Watched = {api, job}
  OneShots = {job}
  Modes = {"ask", "never", "always"}
  MaxRuns = 2
  MaxLines = 1
  MaxFaults = 1
CHECK_DEADLOCK FALSE
INVARIANTS StreamsSound TwiceOnlyStale ReportedAttended GateNeedsThisRun
PROPERTIES QuitEnds
