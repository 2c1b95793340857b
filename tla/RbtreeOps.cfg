SPECIFICATION RbSpec
CONSTANTS
  Nodes = {1, 2, 3, 4, 5, 6, 7, 8, 9, 10, 11}
  Null = Null
INVARIANT Linked
INVARIANT RedBlack
INVARIANT WalksSorted
INVARIANT ChildrenFirst
