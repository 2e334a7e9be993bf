CONSTANTS
  Thread = {t1, t2}
  Size = 2
  MaxStarts = 2
SPECIFICATION Spec
INVARIANT OnePicture
PROPERTIES NeverLocked ShowsTheFile
CHECK_DEADLOCK FALSE
