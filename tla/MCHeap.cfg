CONSTANTS
  HDR = 16
  MIN_SPLIT_SIZE = 8
  PAGE_SIZE = 64
  heap_base = 1024
  heap_end = 1300
  Sizes = {1, 40}
  Aligns = {0, 48}
  MaxLive = 3
SPECIFICATION Spec
INVARIANTS ListOK CurrMapped
PROPERTY Allocates
