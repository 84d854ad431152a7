SPECIFICATION Spec
CONSTANTS
  Hooks = {"netplay_patch", "netcode_files"}
  PacketType = {0, 9, 11, 18}
  HighPart = {0, 1}
  LowPart = {0, 1}
  ORIGINAL = 4
INVARIANTS
  TypeOK
  RestoredInSync
  OneNinePerWait
PROPERTIES
  ResyncNeedsRepeats
  ResyncEnds
