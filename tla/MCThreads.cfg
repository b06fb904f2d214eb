SPECIFICATION Spec
CONSTANTS
  boot = boot
  a = a
  b = b
  cpu0 = cpu0
  cpu1 = cpu1
  k1 = k1
  Idle = Idle
  NoThread = NoThread
  NoToken = NoToken
  Boot = boot
  Thread <- MCThread
  Cpu <- OneCpu
  Home <- AllOnCpu0
  HasIdle <- NoCpu
  Token <- MCToken
  Does <- Processes
  KernelPreempts = TRUE
INVARIANTS NoneForgotten ReapedIsDone
CHECK_DEADLOCK FALSE
