SPECIFICATION SrvSpec
CONSTANTS
  s1 = s1
  c1 = c1
  c2 = c2
  n1 = n1
  k1 = k1
  k2 = k2
  Unset = Unset
  Client <- MCClient
  Service <- OneService
  Name <- MCName
  SrvConn <- MCConn
  MaxListeners = 1
  MaxPending = 1
  MaxMsgs = 1
  MaxSends = 2
  Interrupted <- Uninterrupted
  Hasty = TRUE
INVARIANT WaitIsJustified
CHECK_DEADLOCK FALSE
