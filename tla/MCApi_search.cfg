SPECIFICATION ApiSpec
CONSTANTS
  Programs <- DocProgram_search
  Inputs <- DocInputs
  Simples <- NoSimples
INVARIANTS
  SearchFindsMatch
