SPECIFICATION FairFramingSpec
CONSTANTS
  Header = 2
  Sizes = {1, 2, 3}
  MaxPacket = 2
  Misread <- MCMisread
  MaxPackets = 3
PROPERTIES EveryPacketHanded IsPacketQueue
