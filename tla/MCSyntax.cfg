SPECIFICATION Spec
CHECK_DEADLOCK FALSE
CONSTANTS
  Words <- MCWords
  Programs <- MCPrograms
  LaidOut <- MCLaidOut
  Fillers <- MCFillers
  Damaged <- MCDamaged
INVARIANTS
  ParsedAsWritten
  PositionsAreRight
PROPERTIES
  FmtKeepsItems
  CheckAfterFmt
