SPECIFICATION Spec
CONSTANTS
  Several = {1}
  Single = {2}
  Chars = {"%", "c", "n"}
  MaxLen = 2
  Args = {0}
  Word = 256
INVARIANT StaysInFormat
