CONSTANTS
  MaxBlocks = 2
  MCMaxBlocks = 2
  CounterMod = 7
  Cap = 2
  MaxFaults = 1
  Configs <- MCWhitelistConfigs
SPECIFICATION Spec
INVARIANT
  OnlyWhitelisted
