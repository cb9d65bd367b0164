SPECIFICATION Spec
CONSTANTS
  Several = {1}
  Single = {}
  Chars = {"%", "1", "i", "p"}
  MaxLen = 3
  Args = {0, 100, 128, 201}
  Word = 256
INVARIANTS OutputTypeOK AloneStaysInFormat
PROPERTY PrintsItsFormat
