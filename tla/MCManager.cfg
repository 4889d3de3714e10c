\* Three proxies one after the other, with failures and StopAccept.
CONSTANT Proxies = {p1, p2, p3}
SPECIFICATION Spec
INVARIANTS
  OneAcceptor
  LiveProxiesListed
PROPERTY ListensAgain
