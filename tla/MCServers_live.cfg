\* More clients than workers; lines that never end; several lines each.
\* The example: two clients and one process, lines of one and two bytes.
CONSTANTS
  w1 = w1
  w2 = w2
  c1 = c1
  c2 = c2
  c3 = c3
  None = None
  Workers = {w1}
  Clients = {c1, c2}
  MayDie = {c1, c2}
  Lines <- OddLines
  MaxLines = 2
  BufferSize = 3
  BufferBytes = 5
  CreateMayFail = TRUE
  Peers = {c1, c2}
  Processes = {w1}
  MAX_LINE = 3
  MaxBytes = 3
  NOBODY = None
SPECIFICATION ServersSpec
PROPERTIES LinesAnswered ShutdownCompletes EchoServes
CHECK_DEADLOCK FALSE
