SPECIFICATION Spec
CONSTANTS
  Programs <- MCPrograms
  Inputs <- MCInputs
INVARIANTS
  TypeOK
  ThreadLists
  TablesHold
  PeeksRight
  ReportIsMatch
  ReportIsExtreme
PROPERTIES
  MovesForward
  ImplementsScan
  AbandonsOnlyHopeless
  Terminates
