SPECIFICATION Spec
CONSTANTS
  Rates = {0, 1}
  Target = 1
  Sessions = {s1, s2}
  MaxBundles = 2
  MaxDisturbances = 2
SYMMETRY Symmetry
INVARIANTS
  ClocksHandedBack
  SessionsAreAccounted
  BundledIsDelivered
  NewestBundleIsUnsent
  DrawsOnlyToConsole
