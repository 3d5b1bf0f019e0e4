CONSTANTS
  Names <- MCNames
  Sorted <- MCSorted
  Processes <- MCProcesses
  Workloads <- MCWorkloads
  Traces <- MCTraces
  SpanCount = 1
  LiveLimit = 2
  Height = 1
  MaxLines = 3
  MaxFlight = 1
SPECIFICATION Spec
INVARIANTS SelectionSound ScrolledSeesAll
PROPERTIES StaysPut CatchesUp
