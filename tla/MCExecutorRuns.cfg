SPECIFICATION Spec
CONSTANTS
  U32 = 2
  U64 = 2
  PUBKEY = 2
  ALIGN = 2
  MAX_INCREASE = 2
  NumAccounts = 1
  AccountSize <- MCAccountSize
  InstructionSize = 2
  AccountOffset <- MCAccountOffset
  Pubkeys = {101, 102}
  ProgramIds = {101, 102}
  Elfs = {elf}
  BadElf = bad
  AccountInputs <- MCAccountInputs
  InstructionInputs <- MCInstructionInputs
  BUDGET = 4
  MAX_RETURN_DATA = 1
  ReturnDataInputs = {0, 1, 2}
  StoredLamports = {7}
  StoredDatum = 9
  MaxRuns = 3
  None = None
INVARIANTS
  TypeOK
  ProgramAgreement
  RunIsolation
PROPERTIES
  RunEnds
