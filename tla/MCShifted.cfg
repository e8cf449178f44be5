SPECIFICATION Spec
CONSTANTS
  PortType = "ethernet"
  Records = 2
  RawJob = FALSE
  CheckNeop = TRUE
  IrqMode = FALSE
  HasTimeout = TRUE
  StatusLen = 3
  PrSetting = "printing"
  KernelCap = 2
  PrinterCap = 2
  InputCap = 4
  PipeCap = 1
  MaxJobs = 1
  MaxStops = 0
INVARIANTS PrintsOnlyWhenReady
