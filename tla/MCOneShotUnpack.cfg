CONSTANTS
  StackSize = 2
  Alphabet = {0, 1, 97, 129, 130, 145, 146, 161, 192, 193, 196, 204, 217, 220}
  MaxLen = 4
  Inputs <- MCInputs
SPECIFICATION OSpec
INVARIANTS AgreesWithPP ValueOwnsEverySV
PROPERTY Terminates
