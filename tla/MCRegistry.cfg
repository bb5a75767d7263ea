CONSTANTS
  Requests = {1, 2, 3}
  Names = {1, 2}
  NoOne = NoOne
SPECIFICATION MCSpec
INVARIANTS OneChannelPerName
PROPERTIES RequestsAnswered
CHECK_DEADLOCK FALSE
