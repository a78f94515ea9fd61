CONSTANTS
  Calls = {"first", "retry", "again", "other"}
  Keys = {"key"}
  KeyOf <- MCKeyOf
  ContentOf <- MCContentOf
  Orders = {"ac", "ca"}
  MaxRestarts = 1
SPECIFICATION Spec
INVARIANTS TypeOK SameAnswer AnswersOwnRequest RetriesAreSafe
CHECK_DEADLOCK FALSE
