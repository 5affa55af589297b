SPECIFICATION Spec
CONSTANTS
  p1 = p1
  p2 = p2
  m1 = m1
  m2 = m2
  NoMessage = NoMessage
  Procs <- MCProcs
  Message <- MCMessage
  MAX_MESSAGES = 3
SYMMETRY Symm
INVARIANTS TypeOK RingOK BlockedOnlyWhenEmpty
PROPERTY FifoSpec
