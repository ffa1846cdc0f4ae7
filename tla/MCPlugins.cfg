SPECIFICATION Spec
CONSTANTS
  App = App
  Engines = {E1, E2}
  Holders = {H1, H2}
  Descriptors = {D1, D2}
  Capacity = 3
  MaxStates = 3
INVARIANTS
  UnloadWaits
PROPERTIES
  UnloadCompletes
CHECK_DEADLOCK FALSE
