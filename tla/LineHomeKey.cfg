CONSTANTS
  LineMax = 3
  HistoryMax = 2
  Char = {"H", "a", "A"}
  Space = {"A"}
  Blank = "A"
  Symbol = {"a"}
  Words <- MCWords
  Keys <- Ss3Keys
  Modes = {"sane"}
  NoLine = NoLine
SPECIFICATION Spec
PROPERTY HomeGoesHome
CHECK_DEADLOCK FALSE
