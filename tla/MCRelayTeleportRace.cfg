\* TELEPORT commands on: the client's stream.
CONSTANTS
  Sizes = {5}
  Counts <- CustomCounts
  TeleportOn = TRUE
  TeleportSize = 6
  MaxPackets = 2
SPECIFICATION Spec
PROPERTY ToClient
