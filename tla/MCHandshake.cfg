SPECIFICATION Spec
CONSTANTS
  Families = {1, 3, 5, 7, 9}
  Schemas = {"echo_v01", "echo_v02"}
  Features = {"compress", "trace"}
  LimitModulus = 2097152
  Policies <- SomePolicies
INVARIANTS
  HandshakeIsMutual
  CapabilitiesSuitBoth
  DataFramesFit
CHECK_DEADLOCK FALSE
