SPECIFICATION LangSpec
CONSTANTS
  Expressions <- MCExpressions
  Regexes <- MCRegexes
  Texts <- MCLexTexts
  Lists <- FirstCall
  Inputs <- MCInputs
INVARIANTS
  LexRight
  LanguageRight
  FixedOccurs
  TypeOK
  CompiledWellFormed
  ChainsShort
  ParenVerdict
  FixedIsLiteral
PROPERTIES
  CompileReturns
