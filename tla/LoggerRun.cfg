SPECIFICATION Spec
CONSTANTS
  Threads = {a, b}
  NoThread = NoThread
  MaxPieces = 4
  MaxTime = 2
INVARIANTS WholeLines StampsInOrder
PROPERTY ImplementsSink
