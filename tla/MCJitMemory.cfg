SPECIFICATION Spec
CONSTANTS
  PAGE_SIZE = 2
  SIZE_MAX = 15
  MAX_JIT_REGIONS = 3
  MAX_JIT_ALLOCATIONS = 3
  SMALL_JIT_POOL_SIZE = 6
  MAX_SMALL_JIT_POOLS = 2
  SMALL_JIT_MAX_ALLOCATION = 4
  KernelObjects = 3
  Window = 6
  Sizes = {0, 1, 4, 5, 15}
  Faults = {"create", "type", "close", "pages", "allocations"}
INVARIANTS
  CodeIsPrivate
  EmitterReachesExactlyLive
  ReleaseCanBeRetried
  RegistryIsSound
