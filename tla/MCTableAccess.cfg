SPECIFICATION Spec
CONSTANTS
  h1 = h1
  h2 = h2
  NoHash = NoHash
  Labels = {1, 2, 3}
  FirstString = 2
  Hashes = {h1, h2}
  U16Max = 3
  U32Max = 5
  ColumnLists <- MCColumnLists
  RowLists <- MCRowLists
  MaxColumns = 3
  MaxRows = 2
  MaxChanges = 6
INVARIANTS
  LookupFindsColumn
  RowIdsResolve
  HashFindsRow
PROPERTY
  ConversionKeepsIds
