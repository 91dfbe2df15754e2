SPECIFICATION Spec
CONSTANTS
  NoDir = NoDir
  Workers = {w1, w2}
  Disks <- MCDisks
  Commands <- MCCommands
  Size <- MCSize
  Part <- MCPart
  MaxRuns = 2
  MaxFaults = 1
INVARIANTS
  AllDoneIfApart
  
  OriginalsKept
