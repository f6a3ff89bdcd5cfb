SPECIFICATION Spec
CONSTANTS
  p = p
  q = q
  d = d
  system = system
  zk = zk
  bpf_loader = bpf_loader
  native = native
  None = None
  LoaderV4 = v4
  Upgradeable = v3
  BpfLoaders = {bpf_loader}
  Keys = {p, q, d, system, zk, bpf_loader, native, v3, v4}
  Features = {"delay", "zk"}
  DelayVisibility = "delay"
  Elfs = {"elf1", "elf2"}
  BadElf = "bad"
  Slots = {0, 1, 3}
  ROOT = 2
  MaxCalls = 3
  BuiltinFeature <- MCBuiltinFeature
  Answers <- MCAnswers
  KeyLists <- MCKeyLists
INVARIANTS
  TypeOK
  BatchComplete
  BatchFaithful
  FailureKeepsCache
  PanicsOnChange
