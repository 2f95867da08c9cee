SPECIFICATION Spec
CONSTANTS
  NumBlocks = 2
  Data = {d1, d2, d3}
  MaxLog = 4
INVARIANTS
  UndoRepairs
  NoStaleUndo
  RollbackRestores
PROPERTIES
  ImplementsAtomicDisk
