SPECIFICATION SessionSpec
CONSTANTS
  Garbage = Garbage
  MapSize = 8
  MaxMessages = 9
  Empty = Empty
  Word = Word
  PriceTexts <- MCPriceTexts
  NumberTexts <- MCNumberTexts
  OtherLines <- MCOtherLines
  IntMax = 5
  MaxClicks = 2
INVARIANTS
  OneWriteInFlight
  NoLostWakeup
  EngineGetsWhatWasEntered
  LinesParse
PROPERTIES
  ImplementsChannel
  DeliversAll
CHECK_DEADLOCK FALSE
