SPECIFICATION Spec
CONSTANTS
  quick = quick
  slow = slow
  Clients <- MCClients
  Slow <- MCSlow
  Threads = {t1, t2}
  MaxRequests <- MCMaxRequests
INVARIANTS TypeOK QueueExact OwnRequest OnlyLeavers
PROPERTIES Answered Quits
CHECK_DEADLOCK FALSE
