\* TELEPORT commands on: what still holds, and that nothing gets stuck.
CONSTANTS
  Sizes = {5}
  Counts <- CustomCounts
  TeleportOn = TRUE
  TeleportSize = 6
  MaxPackets = 2
SPECIFICATION FairSpec
INVARIANTS
  LockDiscipline
  ServerStreamInStep
PROPERTIES
  ToServer
  EveryPacketHandled
