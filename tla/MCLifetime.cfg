\* One proxy; two packets from each peer, both kinds of writes and of memory.
CONSTANT MaxPackets = 2
SPECIFICATION Spec
INVARIANTS
  ShutDownOnce
  OneStray
PROPERTIES
  EventuallyDeleted
  ThreadsEnd
