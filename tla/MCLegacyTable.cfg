SPECIFICATION RTSpec
CONSTANTS
  t1 = t1
  t2 = t2
  t3 = t3
  NoText = NoText
  Nothing = Nothing
  U16Max = 200
  Damageable <- MCDamageTables
  Text <- MCText
  TextLen <- MCTextLen
  HashSum <- MCHashSum
  Tables <- MCAllTables
  Options <- MCOptions
INVARIANTS
  TypeOK
  SpaceReservedIsUsed
  PointersLand
  ItemsDisjoint
  LookupsComplete
  RowsAligned
  ScrambleRangesAgree
  NoSilentTruncation
  FlagsAllOrNone
PROPERTIES
  OnlyLinksArePatched
  ReadBack
  ReadEnds
