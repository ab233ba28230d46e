SPECIFICATION Spec
CONSTANTS
  sda = sda sdb = sdb zram = zram part = part
  ana = ana bia = bia typo = typo tz = tz
  NoDisk = NoDisk NoPlan = NoPlan NoConfig = NoConfig
  Disks <- MCDisks
  Swaps <- MCSwaps
  Plannable <- MCPlannable
  Configs <- MCConfigs
  FormOk <- MCFormOk
  ValidConfigs <- MCValidConfigs
  Settings <- Waiting
  MaxCalls = 1
INVARIANTS
  NoRetryAfterWrite
CHECK_DEADLOCK FALSE
