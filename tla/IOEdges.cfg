SPECIFICATION FairSpec
CONSTANTS
  Clients = {c1}
  Pollers = {p1, p2}
  Fds = {0, 9}
  Uses <- BothEvents
  Size = 2
  CountMod = 16
  MaxAdds = 3
  MaxRemoves = 2
  MaxArrivals = 3
INVARIANTS TypeOK IInv NoLostEdge RegistrationOnce
PROPERTIES ReadyIsTriggered
CHECK_DEADLOCK FALSE
