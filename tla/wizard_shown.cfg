SPECIFICATION Spec
CONSTANTS
  sda = sda sdb = sdb zram = zram part = part
  ana = ana bia = bia typo = typo tz = tz
  NoDisk = NoDisk NoPlan = NoPlan NoConfig = NoConfig
  Disks <- MCDisks
  Swaps <- MCSwaps
  Plannable <- MCPlannable
  Configs <- MCConfigs
  FormOk <- MCFormOk
  ValidConfigs <- MCValidConfigs
  Settings <- InOrderOnly
  MaxCalls = 2
INVARIANTS
  SendsWhatWasShown
CHECK_DEADLOCK FALSE
