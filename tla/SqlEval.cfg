CONSTANTS
  Thread = {t1, t2}
  Nothing = Nothing
  Thrown = Thrown
  Texts <- MCTexts
  Params <- MCParams
  LostMax = 1
SPECIFICATION Spec
INVARIANTS TypeOK StatementsOwned ConnectionsOwned
PROPERTIES ImplementsSession EvalEnds
