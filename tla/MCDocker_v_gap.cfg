SPECIFICATION Spec
CONSTANTS
  Containers = {api, job}
  Watched = {api, job}
  OneShots = {job}
  Modes = {"ask", "never", "always"}
  MaxRuns = 2
  MaxLines = 1
  MaxFaults = 0
CHECK_DEADLOCK FALSE
INVARIANTS KeepsAttached
