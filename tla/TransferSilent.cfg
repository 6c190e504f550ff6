CONSTANTS
  MaxBlocks = 1
  MCMaxBlocks = 1
  CounterMod = 6
  Cap = 2
  MaxFaults = 0
  Configs <- MCOneConfig
SPECIFICATION ServerFairSpec
PROPERTY
  ServerGivesUp
