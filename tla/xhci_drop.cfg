SPECIFICATION Spec
CONSTANTS
  max_ports = 2
  RingSize = 4
  MaxPolls = 2
  MaxPortEvents = 2
  FirmwareCmd <- AnyCmd
  ErstbaLatches = FALSE
PROPERTY
  EventsGoToOwnedRing
