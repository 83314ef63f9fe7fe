SPECIFICATION FairSpec
CONSTANTS
  c1 = c1
  c2 = c2
  c3 = c3
  Conns <- ThreeConns
  MaxConns = 1
  MaxClients = 2
  DrainMax = 1
  None = None
INVARIANTS
  TypeOK
  CounterExact
  CapacityRespected
  RegistryComplete
  FreedWhenQuiet
PROPERTIES
  KilledLeaves
  ShutdownCompletes
