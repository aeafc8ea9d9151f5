CONSTANTS
  h1 = h1
  h2 = h2
  p1 = p1
  p2 = p2
  ann = ann
  card = card
  LastTurn = 1
  Threads = {h1, h2}
  MaxCalls = 2
  Processes = {p1, p2}
  Names = {ann, card}
  Persons = {ann}
  Mentions <- CardFirst
  Nobody = Nobody
  MaxRepeats = 0
  MaxFaults = 0
SPECIFICATION Spec
INVARIANTS EveryTokenResolved
