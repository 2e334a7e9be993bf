CONSTANTS
  c1 = c1
  c2 = c2
  Conn = {c1, c2}
  Listener = listener
  Uri <- MCUri
  Routes <- MCRoutes
  Default = "number"
  Scripts <- MCScripts
  MaxHead = 2
  Endless = 9
  Window = 1
  Rooms <- MCRooms
SPECIFICATION Spec
INVARIANTS TypeOK RequestsInOrder RepliesAreOwn SentBeforeClosed
PROPERTIES EveryRequestEnds EveryConnectionEnds
