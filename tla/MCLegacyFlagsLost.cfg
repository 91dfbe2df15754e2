SPECIFICATION RTSpec
CONSTANTS
  t1 = t1
  t2 = t2
  t3 = t3
  NoText = NoText
  Nothing = Nothing
  U16Max = 200
  Damageable <- MCNothing
  Text <- MCText
  TextLen <- MCTextLen
  HashSum <- MCHashSum
  Tables <- MCFlagTables
  Options <- MCOptions
INVARIANT
  FlagsComeBack
