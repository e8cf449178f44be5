SPECIFICATION FairSpec
CONSTANTS
  PortType = "usb"
  Records = 2
  RawJob = TRUE
  CheckNeop = FALSE
  IrqMode = FALSE
  HasTimeout = FALSE
  StatusLen = 3
  PrSetting = "printing"
  KernelCap = 2
  PrinterCap = 2
  InputCap = 4
  PipeCap = 1
  MaxJobs = 1
  MaxStops = 1
INVARIANTS BuffersEmpty WholeJob
PROPERTIES Terminates
