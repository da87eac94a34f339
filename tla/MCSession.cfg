SPECIFICATION Spec
CONSTANTS
  NFiles = 2
  MaxOpts = 3
INVARIANTS
  LeftoversKnown
PROPERTIES
  DataLostOnly
  ExistingLostOnlyEarly
