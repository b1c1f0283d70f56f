SPECIFICATION ApiSpec
CONSTANTS
  Programs <- MCPrograms
  Inputs <- MCInputs
  Simples <- MCSimples
INVARIANTS
  ApiTypeOK
  MatchExact
  SearchSound
  MissesOnlyHidden
PROPERTIES
  EnginesImplementScan
  CallReturns
