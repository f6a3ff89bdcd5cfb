SPECIFICATION Spec
CONSTANTS
  a = a
  b = b
  NativeLoader = native_loader
  InstructionsSysvar = instructions
  SysvarProgram = sysvar
  Keys = {a, b, native_loader, instructions, sysvar}
  CHAIN_DEPTH = 5
  Messages <- MCMessages
INVARIANTS
  TypeOK
  MessageAccountsFirst
  LoadersOnce
  ChainsFollowOwners
  TooDeepOnlyIfDeep
PROPERTIES
  Returns
