SPECIFICATION DiffSpec
CONSTANTS
  a = a
  b = b
  list = list
  NoCell = NoCell
  Labels <- MCLabels
  Values <- MCValues
  Composite <- MCComposite
  Inputs <- MCHidden
INVARIANT
  DifferencesPrinted
