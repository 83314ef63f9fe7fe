SPECIFICATION Spec
CONSTANTS
  k0 = k0
  k1 = k1
  k2 = k2
  n1 = n1
  n2 = n2
  l1 = l1
  l2 = l2
  b1 = b1
  b2 = b2
  b3 = b3
  None = None
  Size = 2
  Keys <- MCKeys
  Halves <- MCHalves
  Home <- MCHome
  Names <- MCNames
  Loaders <- MCLoaders
  Blocks <- MCBlocks
SYMMETRY Sym
INVARIANTS
  TypeOK
  LookupExact
  OneOwner
