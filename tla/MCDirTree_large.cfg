\* A directory with one entry more than the buffer of a stream holds.
CONSTANTS
  Nodes = {1, 2, 3}
  Root = 0
  Disks <- OneDirectory
  Options = {{"tree"}}
  Paths = {1}
  MAX_DIR = 1
  Block = 2
  MaxChanges = 0
  MaxFaults = 0
SPECIFICATION DirTreeSpec
INVARIANTS AllListed
CHECK_DEADLOCK FALSE
