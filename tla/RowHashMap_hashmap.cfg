SPECIFICATION MapSpec
CONSTANTS
  Keys = {1, 2, 3}
  Rows = {a, b}
  HashValues = {0, 2, 5}
  InitialRowCapacity = 1
INVARIANTS
  MapTypeOK
  ChainsSound
PROPERTIES
  ImplementsRowSet
