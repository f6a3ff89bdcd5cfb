SPECIFICATION Spec
CONSTANTS
  U64_MAX = 9
  Mappings <- MCMappings
  Memories <- MCMemories
INVARIANTS
  TypeOK
  Lockstep
  CopiedSoFar
PROPERTIES
  Implements
  Returns
