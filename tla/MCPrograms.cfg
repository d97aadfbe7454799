SPECIFICATION Spec
CONSTANTS
  Width = 4
  LeafRegisters = 32
  MaxDepth = 3
  Engines = {"plain", "profiled"}
  Programs <- MCPrograms
  Executables <- MCExecutables
  Meanings <- MCMeanings
INVARIANTS
  NeverUnset
  DefinitionsHold
  FailuresHold
  LoweringMeans
