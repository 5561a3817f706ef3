CONSTANTS
  CacheSize = 4
  BlockSize = 2
  Byte = {0, 1}
  Zero = 0
  MaxStore = 3
  Data <- mcData
  Sizes <- mcSizes
  MaxSize = 6
  Places = {0, 3, 5}
  MayFail = {"release"}
SPECIFICATION Spec
PROPERTY ImplementsOutFile
