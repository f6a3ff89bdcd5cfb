SPECIFICATION Spec
CONSTANTS
  U32 = 4
  U64 = 8
  PUBKEY = 32
  ALIGN = 8
  MAX_INCREASE = 10240
  MaxAccounts = 3
  Sizes = {0, 1, 7, 8, 9, 165}
  AccountSizesInputs <- MCAccountSizesInputs
  InstructionSizeInputs = {0, 1, 41}
INVARIANTS
  TypeOK
  NoOverrun
  ExactFit
  LayoutOK
  SlotsAligned
