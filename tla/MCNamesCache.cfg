SPECIFICATION Spec
CONSTANTS
  Procs = {p1, p2, p3}
  Modes <- MCModes
  Key <- MCKey
  Hash <- MCHash
  LenMax = 3
  Nobody = Nobody
  Failure = Failure
INVARIANTS
  WrongOnlyIfTornOrTooLong
  FailsButNeverLies
PROPERTY
  Transparent
