SPECIFICATION Spec
CONSTANTS
  Programs <- MCPrograms
  Writes <- MCWrites
  Layouts <- MCLayouts
  OutMax = {1, 2, 3, 5, 20}
  InMax = {3, 5, 6, 8, 10, 20}
INVARIANTS
  OutputWhole
  GoodAccepted
  StdinFaithful
  CompressedExact
