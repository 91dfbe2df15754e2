SPECIFICATION Spec
CONSTANTS
  Procs = {p1, p2}
  Modes <- MCSplit
  Key <- MCKey
  Hash <- MCHash
  LenMax = 3
  Nobody = Nobody
  Failure = Failure
INVARIANT
  AllMatchedReplaced
