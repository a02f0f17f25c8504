CONSTANTS
  s1 = s1
  s2 = s2
  p1 = p1
  Senders <- MCSenders
  Points <- MCPoints
  MaxCommands = 3
  TTL = 1
  MaxTime = 1
  SeqMod = 16
  SendRetries = 2
  SocketCapacity = 1
  CommandQueueCapacity = 1
  MaxConns = 2
  MaxGenerations = 2
  MaxProducers = 1
SPECIFICATION CommandSpec
SYMMETRY Symmetry
INVARIANT StaleNeverExecutes
CHECK_DEADLOCK FALSE
