CONSTANTS
  Programs <- MCPrograms
  Ports <- MCPorts
  Services <- MCServices
  Scenes <- MCScenes
  SearchRange = 3
  DefaultPort = 1
  NoPort = NoPort
  Nobody = Nobody
  Foreign = Foreign
SPECIFICATION FairSpec
CHECK_DEADLOCK FALSE
INVARIANTS ValidationSound PortsSound NoDuplicate ReplacesOnlySurprises
PROPERTIES BootEnds
