SPECIFICATION Spec
CONSTANTS
  Callers = {c1}
  Examples = {c3}
  Requests = 2
  MaxStarts = 2
\* The clients end, or wait for what does not come.
CHECK_DEADLOCK FALSE
PROPERTIES
  ExamplesEnd
