SPECIFICATION Spec
CONSTANTS
  Blocks = {"a1", "a2", "a3", "b1", "b2", "c1", "c2", "c3"}
  Images <- MCImages
  Owners = {"upgradeable", "bpf_loader", "other"}
  MaxRuns = 3
  None = None
INVARIANTS
  OkIsWhole
  NeverMixed
