SPECIFICATION Spec
CONSTANTS
  Hashes <- MCHashes
  HashOf <- MCHashOf
  Known <- MCKnown
  Readable <- MCReadable
  U16Max = 65535
  SomeValue = "9"
  NoValue = "x"
  Unknown = Unknown
  MaxDuplicates = 2
  Dumps <- MCDumps
  Options <- MCOptions
  Large <- MCLarge
  Width <- MCWidth
  Shifted = Shifted
  Jobs = 2
  MaxCommands = 3
  MaxFaults = 1
INVARIANTS
  NothingTorn
  NeverMixed
  PackedAsExtracted
  EditsStayLocal
  ErrorsReported
PROPERTIES
  CommandsEnd
CHECK_DEADLOCK FALSE
