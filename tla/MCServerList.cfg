\* Three connections, Stop at any time, the flag read before it is set.
CONSTANT Sockets = {s1, s2, s3}
SPECIFICATION Spec
INVARIANTS
  CountsThreads
  AliveWhileServed
  KeepsAccepting
PROPERTY StopDeletes
