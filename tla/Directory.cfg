SPECIFICATION Spec
CONSTANTS
  Ids = {i1, i2, i3}
  Values = {v1, v2}
  None = None
  Readers = {r1}
  MaxTombstones = 1
  MaxSeq = 4
  MaxGeneration = 2
SYMMETRY Symmetry
INVARIANTS TypeOK CollectionOK TombstonesBounded ReplicaReflectsCursor
PROPERTY ImplementsMirror
