SPECIFICATION FairSpec
CONSTANTS
  gui = gui
  dev = dev
  Nodes = {gui, dev}
  NoNode = NoNode
  Devices = {dev}
  MaxAlias = 3
  StartAlias <- MCStartAlias
  CidFrames = 2
  TxSize = 3
  MaxQueue = 2
CHECK_DEADLOCK FALSE
INVARIANT UniqueAliases
PROPERTY LoneNodeSucceeds
