SPECIFICATION Spec
CHECK_DEADLOCK FALSE
CONSTANT
  Programs <- MCPrograms
  Sources <- MCSources
INVARIANTS
  InterfacesInherit
  NamesAreReplaced
  CallersAgree
  KindsAreKept
  StructsAreDefined
