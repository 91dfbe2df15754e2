SPECIFICATION FSpec
CONSTANTS
  none = none
  short = short
  long = long
  Hashes = {1, 2, 3, 4}
  Texts = {none, short, long}
  TextLen <- MCTextLen
  U16Max = 16
  Files <- MCFiles
  Garbage = Garbage
INVARIANTS
  LabelsLand
  KeyTableSearchable
  TablesApart
  ReadsWhatWasWritten
  FailsOnlyPastEnd
