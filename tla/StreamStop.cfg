SPECIFICATION Spec
CONSTANTS
  Null = Null
  Early = FALSE
  Drivers = {d1}
  ENTRIES = 2
  BLOCKS = 2
  BUFFER = 1
  WRAP = 2
  Overlap = FALSE
PROPERTY OnlyCommandStarts
