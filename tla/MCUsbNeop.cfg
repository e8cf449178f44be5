SPECIFICATION Spec
CONSTANTS
  PortType = "usb"
  Records = 2
  RawJob = FALSE
  CheckNeop = TRUE
  IrqMode = FALSE
  HasTimeout = TRUE
  StatusLen = 1
  PrSetting = "printing"
  KernelCap = 2
  PrinterCap = 2
  InputCap = 2
  PipeCap = 1
  MaxJobs = 1
  MaxStops = 1
INVARIANTS BuffersEmpty
