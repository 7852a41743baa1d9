\* Two daemons, two contents that load and one that does not, one grant, one
\* failure.
CONSTANTS
  Daemons = {d1, d2}
  Configs = {c1, c2, bad}
  Broken = {bad}
  MaxPictos = 1
  MaxFaults = 1
  None = None
SYMMETRY Symmetric
SPECIFICATION Spec
INVARIANTS RecordedIsServed
PROPERTIES ActivationIsPaid ChangeIsAudited DriftIsEvident
