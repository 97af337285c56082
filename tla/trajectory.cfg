CONSTANTS
  Shards = {s1, s2}
  Models = {m1, m2}
  m1 = m1
  m2 = m2
  NULL = NULL
  EfoldRel = 15
  QuantityRel = 15
  Startup <- MCStartup
  Potential <- MCPotential
  NEnd <- MCNEnd
  SampleWidth = 15
  Solvers <- MCSolvers
  Spread = 1
  DropRequests <- MCDropRequests
  MaxStarts = 2
SPECIFICATION Spec
CHECK_DEADLOCK FALSE
INVARIANTS ReplicasAgree OneTokenPerNumber ValidatedSpans ResultsStand RaisesOnFailure
PROPERTY StageEnds
