SPECIFICATION Spec
CONSTANTS
  Values <- MCValues
  Zero = 0
  Keys = {name, age}
  Absent = Absent
  Junk = Junk
  MaxArrays = 2
  MaxObjects = 2
  MaxLen = 3
  FirstVecCap = 1
  FirstObjCap = 1
INVARIANTS
  VectorsAreSound
  ObjectsAreSound
PROPERTY
  IsArrays
CONSTRAINT OneKind
CHECK_DEADLOCK FALSE
