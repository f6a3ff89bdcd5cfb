SPECIFICATION Spec
CONSTANTS
  acct = acct
  data = data
  ProgramId = program
  NativeLoader = native_loader
  InstructionsSysvar = instructions
  SysvarProgram = sysvar
  SystemProgram = system
  LoaderV4 = v4
  Upgradeable = v3
  BpfLoader = bpf_loader
  Keys = {acct, data, program, native_loader, instructions, sysvar, system, v4,
          v3, bpf_loader}
  Features = {"delay", "v4"}
  DelayVisibility = "delay"
  Elfs = {"local", "onchain"}
  BadElf = "bad"
  Slots = {0, 1, 2}
  ROOT = 1
  CHAIN_DEPTH = 5
  None = None
  Memoised = FALSE
  Commands <- MCCommands
  RpcAnswers <- MCRpcAnswers
  BuiltinFeature <- MCBuiltinFeature
INVARIANTS
  RunsTheFile
