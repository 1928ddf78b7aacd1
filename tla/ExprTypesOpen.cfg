SPECIFICATION TypeSpec
CONSTANTS
  MaxNodes = 5
  Reusable = TRUE
INVARIANT UnknownEventsStayOpen
CHECK_DEADLOCK FALSE
