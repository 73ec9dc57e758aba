SPECIFICATION Spec
CONSTANTS
  Checkouts = {k1, k2}
  Runtimes = {r1, r2}
  Others = {o1, o2}
  Plain = {r1, r2, o1}
  Alike = {r1}
  Address <- VmAddress
  Elsewhere = Elsewhere
  Garbled = Garbled
  None = None
  Commands = {c1, c2, c3}
SYMMETRY CommandSymmetry
INVARIANTS AliasesKept SessionIsOwn
PROPERTIES StartMeansOwn RewritesAreAtomic
CHECK_DEADLOCK FALSE
