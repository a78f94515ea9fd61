CONSTANTS
  Calls = {"first", "retry"}
  Keys = {"key"}
  KeyOf <- MCKeyOf
  ContentOf <- MCContentOf
  Orders = {"ac"}
  MaxRestarts = 0
SPECIFICATION Spec
INVARIANT PerformedOnce
CHECK_DEADLOCK FALSE
