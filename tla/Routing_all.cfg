\* Every sequence of three results against every state of the pull requests.
SPECIFICATION Spec
CONSTANTS
  Heads = {h1, h2}
  None = None
  MaxComments = 3
SYMMETRY Symmetry
INVARIANTS  LeadFirst CalmIsTrue
PROPERTIES BlockerNeedsLead PushStopsAdvance
CONSTRAINT Tales
