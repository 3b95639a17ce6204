SPECIFICATION PromptSpec
CONSTANTS
  Conns = {c1, c2}
  MaxConnections = 1
PROPERTIES
  ShutdownIsPrompt
CHECK_DEADLOCK FALSE
