\* Two callers of Generate and one page; two contexts, of which the policy
\* passes no plan for one, two versions of the binding and two presences.
SPECIFICATION Spec
CONSTANTS
  Contexts = {x1, x2}
  Guarded = {x2}
  Callers = {a1, a2}
  FallbackEnabled = TRUE
  MaxPlans = 2
  Keys = {k1, k2, k3}
  None = None
  MaxSeat = 2
  MaxCopies = 2
SYMMETRY Symmetry
INVARIANTS SharedFlight SameIntentOnce
CONSTRAINT Apart
CHECK_DEADLOCK FALSE
