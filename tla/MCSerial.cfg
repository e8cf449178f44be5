SPECIFICATION Spec
CONSTANTS
  PortType = "serial"
  Records = 2
  RawJob = FALSE
  CheckNeop = FALSE
  IrqMode = FALSE
  HasTimeout = TRUE
  StatusLen = 3
  PrSetting = "printing"
  KernelCap = 2
  PrinterCap = 2
  InputCap = 3
  PipeCap = 1
  MaxJobs = 2
  MaxStops = 1
INVARIANTS TypeOK NothingLost Delivered WholeJob SettingsAgree SettingsRestored PortLifecycle
