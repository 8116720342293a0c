SPECIFICATION Spec
CHECK_DEADLOCK FALSE
CONSTANTS
  Null = Null
  Tolerance <- MCTolerance
  Bands <- MCBands
  MaxAge = 365
  MaxFacts = 150
  Quantity = 2
  Price = 1000
  Suites <- MCSuites
  Worlds <- MCWorlds
  BatchSize = 2
  Faults = 1
  Evaluations = 2
INVARIANTS
  AutoApprovedIsOwed
  OnePaymentPerInvoice
  GoldenRouting
  
  NoEvidenceRefused
