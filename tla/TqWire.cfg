SPECIFICATION Spec
CONSTANTS
  PnWindow <- Window
  PnLimit = 10000
  HuffmanTable <- Huffman
  StaticTable <- Static
  WindowSize = 2
  Items <- MCItems
  Starts = {0, 6}
  MaxSent = 3
  MaxUpdates = 2
INVARIANTS WireIntact KeysFollow
