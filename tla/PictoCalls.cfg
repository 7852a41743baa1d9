\* Two scopes, bound and unbound calls and grants, fair handlers: whether a
\* decision under way rests on a grant made for it, and ends.
CONSTANTS
  Ids = {k1}
  Deciders = {d1, d2}
  Scopes = {push, deploy}
  Inputs = {h1}
  NoInput = NoInput
  MaxUses = 1
  MaxTtl = 1
  Horizon = 0
  None = None
SPECIFICATION FairSpec
INVARIANTS AllowMatchesGrant
PROPERTIES DecisionEnds
