CONSTANTS
  Daemons = {"one", "two"}
  Clients = {"c"}
  Name <- MCName
  Busy = {"one"}
  MaxPending = 2
  MaxInputs = 1
  Starts <- MCStarts
SPECIFICATION DaemonSpec
INVARIANTS NoneMissesTwoBlocks SocketIsItsOwn
PROPERTIES Stops Answered
CHECK_DEADLOCK FALSE
