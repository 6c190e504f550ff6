\* The contract, termination and success, over a faulty channel, with waits that may
\* run out and with waits that do not
CONSTANTS
  MaxBlocks = 2
  MCMaxBlocks = 2
  CounterMod = 7
  Cap = 2
  MaxFaults = 1
  Configs <- MCBothConfigs
SPECIFICATION FairSpec
PROPERTIES
  ImplementsUpload Terminates HonestSucceeds
