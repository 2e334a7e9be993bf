CONSTANTS
  Thread = {t1}
  Nothing = Nothing
  Thrown = Thrown
  Texts <- ChainTexts
  Params <- NoParams
  LostMax = 0
SPECIFICATION Spec
PROPERTY ChainsTogether
