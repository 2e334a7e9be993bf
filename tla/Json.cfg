CONSTANTS
  Texts <- MCTexts
  Values <- MCValues
  Guard = 2
  Deep = 3
  Name = {"a", "null"}
  slots <- MCslots
  Layouts <- MCLayouts
  Buffers <- MCBuffers
  Flags <- MCFlags
  Strings <- Utf8Strings
  Escapes <- EscapeTexts
SPECIFICATION JsonSpec
INVARIANTS AcceptsJson AcceptsOnlyJson AppendsJson
INVARIANTS ComesBack DecodesToUtf8 EncodesUtf8
PROPERTY RoundTrip
CHECK_DEADLOCK FALSE
