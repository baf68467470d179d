SPECIFICATION StoreSpec
CONSTANTS
  Id = {i1, i2, i3}
  NoId = NoId
  Operation = {o1, o2}
INVARIANTS KeptIsStored OrphansAreCutOff
PROPERTY GetAllMissesNothing
SYMMETRY StoreSymmetry
