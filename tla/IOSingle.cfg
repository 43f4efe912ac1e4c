SPECIFICATION Spec
CONSTANTS
  Clients = {c1, c2}
  Pollers = {p1, p2}
  Fds = {0, 1}
  Uses <- OneEventEach
  Size = 2
  CountMod = 16
  MaxAdds = 3
  MaxRemoves = 2
  MaxArrivals = 3
SYMMETRY ThreadSymmetry
INVARIANTS SingleInv PendingExact NoAssertFails
CHECK_DEADLOCK FALSE
