SPECIFICATION Spec
CONSTANTS
  Clients = {c1}
  Pollers = {p1, p2}
  Fds = {0}
  Uses <- BothEvents
  Size = 2
  CountMod = 16
  MaxAdds = 2
  MaxRemoves = 0
  MaxArrivals = 2
INVARIANTS NoAssertFails
CHECK_DEADLOCK FALSE
