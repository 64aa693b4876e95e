CONSTANTS
  NumPins <- MCNumPins
  Words <- MCWords
  SelectValues <- MCSelectValues
  EoiVectors <- MCEoiVectors
  InjectPins <- MCInjectPins
SPECIFICATION Spec


PROPERTY LevelHeldUntilEoi
