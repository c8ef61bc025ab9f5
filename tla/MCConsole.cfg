SPECIFICATION Spec
CONSTANTS
  SCREEN_WIDTH = 3
  SCREEN_HEIGHT = 2
  TAB = 2
  ROWS = 9
  BYTE = 6
  SCANCODE_MAX = 57
  Scancodes <- MCScancodes
  PREFIX = 1
  MAX_EARLY = 2
  MAX_TEXT = 3
  MAX_KEYS = 3
INVARIANTS RowBounded ColumnInside CursorRight LossBounded
