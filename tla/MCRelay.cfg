\* Both directions with the answers of CCustomPacketHandler, no TELEPORT.
CONSTANTS
  Sizes = {4, 7}
  Counts <- CustomCounts
  TeleportOn = FALSE
  TeleportSize = 6
  MaxPackets = 2
SPECIFICATION Spec
INVARIANTS
  TypeOK
  ReceiveInStep
  ClientStreamInStep
PROPERTY ToClient
