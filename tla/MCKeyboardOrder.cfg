SPECIFICATION KeyboardSpec
CONSTANTS
  Size = 3
  MaxLen = 4
  Keys = {"LETTER", "TAB", "ENTER"}
  MaxTyped = 6
INVARIANT InOrder
