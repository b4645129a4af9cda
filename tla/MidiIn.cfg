CONSTANTS
  QCap = 3
  NSysBuf = 2
  NBuf = 1
  MaxMsgs = 4
  None = None
SPECIFICATION Spec
CHECK_DEADLOCK FALSE
PROPERTIES ImplementsMidiPath BufferComesBack
