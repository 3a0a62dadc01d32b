SPECIFICATION ScmsSpec
CONSTANTS
  ScmsHandlers = {h1, h2}
  MaxPin = 3
  KeyLabels = {k1}
INVARIANT BlockedCanBeUnblocked
CHECK_DEADLOCK FALSE
