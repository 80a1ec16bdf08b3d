\* A client and the server on one queue: does the client print its own answers?
SPECIFICATION Spec
CONSTANTS
  Clients = {"c1"}
  Requests = 2
\* The programs end.
CHECK_DEADLOCK FALSE
PROPERTIES
  OwnAnswers
