CONSTANTS
  Ports = {1, 2, 3}
  SerialDevices = {"s"}
  ParallelDevices = {"l"}
  UsbDevices = {"u"}
  Pid12 = {"u"}
  EthernetDevices = {"n"}
  MaxHandle = 4
  MaxBaud = 1
  MaxPending = 3
  Printers <- MCPrinters
  DefBaud = 1
  Commands = {"CAN", "NUL", "status", "identity", "GS status", "GS identity", "MRS setting", "HRS setting"}
  Uris <- MCUris
  Slots <- MCSlots
  MaxPrinters = 1
  MaxIdentity = 3
  MaxOrphans = 1
SPECIFICATION MCSpec
CHECK_DEADLOCK FALSE
INVARIANTS TypeOK HandlesAccounted SettingsKept DriverBack DetectedRight HandshakeAfterFlush
PROPERTY Contract
