CONSTANTS
  Texts <- Nothing
  Values <- Nothing
  Guard = 2
  Deep = 3
  Name = {"a", "null"}
  slots <- MCslots
  Layouts <- MCLayouts
  Buffers <- MCBuffers
  Flags <- MCFlags
  Strings <- Emoji
  Escapes <- Nothing
SPECIFICATION JsonSpec
INVARIANT ComesBack
CHECK_DEADLOCK FALSE
