SPECIFICATION Spec
CONSTANTS
  U64_MAX = 9
  PUBKEY = 2
  FAT = 2
  BAD = 9
  U8_MAX = 3
  MAX_SEEDS = 2
  MAX_SEED_LEN = 2
  MAX_RETURN_DATA = 2
  MaxCalls = 2
  Pointers = {3, 4, 5, 6, 7, 9}
  Lengths = {0, 1, 2, 3}
  None = None
  Mappings <- MCMappings
  Memories <- MCMemories
  Derive <- MCDerive
  ProgramId <- MCProgramId
  Clocks <- MCClocks
  SearchArgs <- MCSearchArgs
INVARIANTS
  TypeOK
  GetDelivers
  FindsHighest
PROPERTIES
  FailuresLeave
  SearchEnds
