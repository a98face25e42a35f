SPECIFICATION Spec
CONSTANTS
  Sizes = {1, 2}
  Capacity = 2
  MaxSent = 3
PROPERTIES
  ReadsEndAtEndOfFile
