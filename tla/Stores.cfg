CONSTANTS
  r1 = r1
  r2 = r2
  r3 = r3
  w1 = w1
  w2 = w2
  w3 = w3
  Nobody = Nobody
  Runs = {r1, r2, r3}
  MaxRevision = 4
  MaxGeneration = 2
  Parts = {"sqlite", "calls", "purge", "files", "objects"}
SYMMETRY StoreSymmetry
SPECIFICATION AllSpec
INVARIANTS
  OneActiveRun
  NothingIsLostOrStranded
PROPERTIES
  TransactionsAreAtomic
CHECK_DEADLOCK FALSE
