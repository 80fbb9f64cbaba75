SPECIFICATION Spec
CONSTANTS
  Callers = {c1, c2}
  MaxHandshakes = 1
  MaxRetries = 1
  Tried = {"cancelled"}
PROPERTIES TerminalIsTerminal
CHECK_DEADLOCK FALSE
