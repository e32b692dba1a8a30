CONSTANTS
  IntWidth = 8
  SCREEN_WIDTH = 4
  SCREEN_HEIGHT = 2
  TabStop = 2
  BUFSIZE = 2
  MAX_ARGS = 3
  MaxChars = 4
  MaxRare = 1
  MaxMetas = 2
  Exit <- MCExit
  Programs <- MCPrograms
  CharKeys <- MCCharKeys
  RareKeys <- MCRareKeys
  MetaKeys <- MCMetaKeys
CHECK_DEADLOCK FALSE
SPECIFICATION Spec
INVARIANTS
  LinesIntact
  NoStuckMeta
  ScreenShowsEnd
