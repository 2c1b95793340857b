SPECIFICATION SlfsSpec
CONSTANTS
  n1 = n1
  n2 = n2
  n3 = n3
  n4 = n4
  n5 = n5
  n6 = n6
  Null = Null
  Blank = Blank
  Junk = Junk
  Names = {n1, n2, n3, n4, n5, n6}
  PAYLOAD = 2
  NBLKS = 7
  INODES = 6
  WORD = 64
  Sizes = {2}
  Lengths = {1}
  Stack <- ErasedOrZero
  Updates = FALSE
INVARIANT Reopens
SYMMETRY AnyName
