\* Two processes filing, two operators answering, one file and no lock.
CONSTANTS
  Tuples = {t1}
  Requesters = {q1, q2}
  Operators = {o1, o2}
  LastWindow = 1
  OlderThan = 1
  MaxLog = 3
  MaxPictos = 2
  None = None
SPECIFICATION Spec
SYMMETRY Symmetric
INVARIANTS ApprovedHasPicto AuditBacked SweepSparesFresh AnsweredOnce
PROPERTIES ResolvedStaysResolved
CHECK_DEADLOCK FALSE
