CONSTANTS
  MaxBlocks = 2
  MCMaxBlocks = 2
  CounterMod = 7
  Cap = 2
  MaxFaults = 0
  Configs <- MCSizeConfigs
SPECIFICATION FairSpec
PROPERTY
  EverySizeSucceeds
