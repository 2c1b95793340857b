SPECIFICATION SlfsSpec
CONSTANTS
  n1 = n1
  n2 = n2
  n3 = n3
  n4 = n4
  n5 = n5
  n6 = n6
  Null = Null
  Blank = Blank
  Junk = Junk
  Names = {n1, n2, n3}
  PAYLOAD = 2
  NBLKS = 5
  INODES = 4
  WORD = 64
  Sizes = {3, 4}
  Lengths = {1, 2, 3}
  Stack <- ErasedOrZero
  Updates = FALSE
INVARIANT ReadBack
INVARIANT FilesWhole
INVARIANT ChainsSound
SYMMETRY AnyName
