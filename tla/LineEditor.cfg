CONSTANTS
  LineMax = 3
  HistoryMax = 2
  Char <- MCChar
  Space = {"A"}
  Blank = "A"
  Symbol = {"~"}
  Words <- MCWords
  Keys <- MCKeys
  Modes = {"sane", "quiet"}
  NoLine = NoLine
SPECIFICATION Spec
INVARIANT TerminalGivenBack
PROPERTIES NewestIsReturned FunctionKeysAtomic KeepsTheText KeepsTheHistory
CHECK_DEADLOCK FALSE
