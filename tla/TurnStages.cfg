CONSTANTS
  h1 = h1
  h2 = h2
  p1 = p1
  p2 = p2
  ann = ann
  card = card
  LastTurn = 1
  Threads = {h1, h2}
  MaxCalls = 2
  Processes = {p1, p2}
  Names = {ann, card}
  Persons = {ann}
  Mentions <- CardFirst
  Nobody = Nobody
  MaxRepeats = 1
  MaxFaults = 1
SPECIFICATION Spec
INVARIANTS TypeOK TokensResolved ReplyAnswersTurn HistoryKeysExist ChatRemembered
SYMMETRY Symmetry
VIEW View
CHECK_DEADLOCK FALSE
