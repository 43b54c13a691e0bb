\* Command lines of up to five characters; C programs of up to six; requests of
\* up to eight bytes, one more than BUFFER_SIZE; trees of up to three nodes, one of
\* them created or removed meanwhile, in streams whose buffer holds two entries.
CONSTANTS
  Letters = {"a"}
  BLANK = " "
  Builtins <- MCBuiltins
  MaxLine = 6
  Room = 1
  Tokens = {t1, t2}
  NO_TOKEN = none
  GARBAGE = garbage
  MIN_PHYS_LENGTH = 2
  GROWTH_FACTOR = 2
  MaxLength = 5
  Ordinary = {"x"}
  MaxInput = 6
  Bytes = {"c", "C"}
  ToUpper <- MCToUpper
  CommandOf <- MCCommandOf
  BUFFER_SIZE = 7
  MAX_KEY_LEN = 1
  MaxRequest = 8
  HASH_SIZE = 2
  MaxNodes = 1
  Nodes = {1, 2, 3}
  Root = 0
  Disks <- MCDisks
  Options = {{}, {"tree", "summary", "verbose"}}
  Paths = {0, 3}
  MAX_DIR = 2
  Block = 2
  MaxChanges = 1
  MaxFaults = 1
SPECIFICATION ProgramSpec
INVARIANTS
  LineUnderstood RunsAsWritten  
  TeardownSound   TotalsAgree
PROPERTIES ImplementsVector ProgramsEnd
CHECK_DEADLOCK FALSE
