\* The process starts, fails at any step, is ended by a signal and started again.
CONSTANTS
  Peers = {"p1", "p2", "p3", "p4"}
  PortOf <- ToBoth
  Ports = {9090, 0}
  ListenBacklog = 2
SPECIFICATION FairLifeSpec
INVARIANTS
  LifeTypeOK
  CleanupIsLast
PROPERTY
  ConnectionsAreTaken
