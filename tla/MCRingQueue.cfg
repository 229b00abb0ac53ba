SPECIFICATION Spec
CONSTANTS
  Elem = {e1, e2}
  Zero = zero
  Nothing = nothing
  N = 4
INVARIANTS RingTypeOK CursorsAgree
PROPERTY IsFifo
