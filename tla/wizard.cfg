SPECIFICATION FairSpec
CONSTANTS
  sda = sda sdb = sdb zram = zram part = part
  ana = ana bia = bia typo = typo tz = tz
  NoDisk = NoDisk NoPlan = NoPlan NoConfig = NoConfig
  Disks <- MCDisks
  Swaps <- MCSwaps
  Plannable <- MCPlannable
  Configs <- MCConfigs
  FormOk <- MCFormOk
  ValidConfigs <- MCValidConfigs
  Settings <- AnySetting
  MaxCalls = 3
INVARIANTS
  OneRun
  SendsOnlyValidConfig
  PlanMatchesChoice
  PatientSendsWhatWasShown
  OutcomeStaysVisible
PROPERTIES
  RunEnds
CHECK_DEADLOCK FALSE
