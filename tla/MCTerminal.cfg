SPECIFICATION TerminalSpec
CONSTANTS
  Cap = 2
  PasteMax = 3
CHECK_DEADLOCK FALSE
INVARIANTS PasteResolves
