SPECIFICATION Spec
CONSTANTS
  Order <- MCOrder
  HasTouch = TRUE
  Period = 1
  MaxPresses = 2
CHECK_DEADLOCK FALSE
INVARIANTS FramesKeepPresses GestureTwoPoints
PROPERTIES OnePressOneAnswer ButtonsStartClean ShutsDown
