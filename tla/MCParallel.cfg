SPECIFICATION HostSpec
CONSTANTS
  PortType = "parallel"
  Records = 2
  RawJob = FALSE
  CheckNeop = TRUE
  IrqMode = FALSE
  HasTimeout = TRUE
  StatusLen = 1
  PrSetting = "printing"
  KernelCap = 2
  PrinterCap = 2
  InputCap = 2
  PipeCap = 1
  MaxJobs = 1
  MaxStops = 0
INVARIANTS PrintsOnlyWhenReady
PROPERTIES Terminates
