CONSTANTS
  LineMax = 6
  NUL = NUL
  Wild = Wild
  letter = letter
  blank = blank
  bracket = bracket
  Char <- MCChar
  Space <- MCSpace
  Blank <- blank
  Symbol <- MCSymbol
  Words <- MCWords
  Recall <- MCRecall
  Prompts = {1}
  Widths = {3, 5, 9}
SPECIFICATION Spec
INVARIANTS TypeOK Terminated CursorInWindow RowFits
PROPERTY ImplementsTextField
