\* Safety over a faulty channel and waits that may run out
CONSTANTS
  MaxBlocks = 9
  MCMaxBlocks = 9
  CounterMod = 10
  Cap = 3
  MaxFaults = 2
  Configs <- MCSlowConfigs
SPECIFICATION Spec
INVARIANTS
  TypeOK AckedDelivery StoredPrefix NoLeftovers OnlyAdmitted AcksApart Lockstep RolloverRefused
PROPERTIES
  EveryStepCounts
