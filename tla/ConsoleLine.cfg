SPECIFICATION MCSpec
CONSTANTS
  Titles = {"iw3_mp", "t4_mp", "t4_sp", "iw4_mp"}
  Keyboard = {"grave", "hash", "lshift", "rshift", "escape"}
  MaxQueue = 2
  Chars = {"a", " "}
  Alnum = {"a"}
  Strokes <- MCStrokes
  BufferSize = 6
  console_history_count = 2
  conVisibleLineCount = 3
  MaxSubmitted = 3
  MaxSubmittedLength = 1
  MaxPrinted = 7
INVARIANTS
  StrokesInOrder
PROPERTIES
  LineIsEdited
