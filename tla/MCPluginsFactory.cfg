SPECIFICATION Spec
CONSTANTS
  App = App
  Engines = {E1}
  Holders = {H1}
  Descriptors = {D1}
  Capacity = 1
  MaxStates = 2
INVARIANTS
  FamiliesHaveFactories
CHECK_DEADLOCK FALSE
