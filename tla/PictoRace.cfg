\* Three deciders on one two-use grant that expires: every interleaving of the
\* transactions.
CONSTANTS
  Ids = {k1}
  Deciders = {d1, d2, d3}
  Scopes = {push}
  Inputs = {}
  NoInput = NoInput
  MaxUses = 2
  MaxTtl = 1
  Horizon = 1
  None = None
SYMMETRY Symmetric
SPECIFICATION Spec
INVARIANTS OneCallPerUse AllowsAreAudited AuditIsTrue
PROPERTIES TerminalIsFinal ImplementsLedger
