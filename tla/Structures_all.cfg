SPECIFICATION Spec
CONSTANTS
  Cell = {c1, c2, c3, c4}
  Null = Null
  Data <- Item
  MisusedSize = 3
  Library = {"stack", "list", "tree", "graph", "queue"}
  V = 3
  Weight = {1, 3}
  MaxNodes = 6
  INT_MAX = 100
  AsDist <- MCAsDist
  Entry <- Entries
  Key = {1, 2, 3, 4, 5, 6, 7}
  Room = 6
INVARIANTS NodesAccounted TreeIsBalanced InOrder Symmetric PathsFromZeroEnd
PROPERTIES StackActsAsSequence ListActsAsSequence TreeActsAsSet
CHECK_DEADLOCK FALSE
