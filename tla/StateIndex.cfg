\* The daemon and a command append, an index is rebuilt twice, a view is
\* kept open.
CONSTANTS
  Writers = {w1, w2}
  MaxRecords = 3
  MaxFaults = 1
  KindOf <- MCKindOf
  Foreign = {}
  Rebuilders = {r1}
  MaxRebuilds = 2
  Limit = 1
  None = None
SYMMETRY Symmetric
SPECIFICATION SSpec
INVARIANTS LossHasACause ReversalsAreOvertakings CurrentIndexIsTheLog SourcesAgree
PROPERTIES ViewIsOfTheLog
CHECK_DEADLOCK FALSE
