SPECIFICATION Spec
CONSTANTS
  Callbacks = {a, b}
  Intervals = {2, 6}
  MAX_TIMER_NUM = 3
  Wrap = 44
  PRE = 1
  POST = 6
  PROCESS_WINDOW = 5
  DELETE_WINDOW = 7
  MaxGap = 3
  Stall = 1
  Off = Off
SYMMETRY Symmetry
INVARIANTS TypeOK InTurn Armed NeverLost
