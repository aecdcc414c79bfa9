SPECIFICATION MCSpec
CONSTANTS
  copied = copied
  typed = typed
  huge = huge
  DeskTexts = {copied}
  PageTexts = {typed, huge}
  Pieces <- MCPieces
  MaxPieces = 2
  Nows = {now}
  MaxGets = 1
INVARIANTS
  TextsWhole
  NoEcho
PROPERTIES
  CopyArrives
  AskAnswered
CHECK_DEADLOCK FALSE
