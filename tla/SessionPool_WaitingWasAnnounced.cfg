CONSTANTS
  Sessions = {s1, s2, s3, s4}
  Capacity = 2
SPECIFICATION Spec
INVARIANT WaitingWasAnnounced
