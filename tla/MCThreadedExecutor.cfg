SPECIFICATION Spec
CONSTANTS
  Shards = {s1, s2}
  Clients = {c1, c2}
  Capacity = 2
  MaxTasks = 3
INVARIANTS
  CallsKeepTheirWord
PROPERTIES
  ImplementsTaskPool
  AcceptedTasksRun
  EveryCallReturns
