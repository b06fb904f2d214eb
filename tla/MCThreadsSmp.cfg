SPECIFICATION FairSpec
CONSTANTS
  boot = boot
  a = a
  b = b
  cpu0 = cpu0
  cpu1 = cpu1
  k1 = k1
  Idle = Idle
  NoThread = NoThread
  NoToken = NoToken
  Boot = boot
  Thread <- MCThread
  Cpu <- TwoCpus
  Home <- BOnCpu1
  HasIdle <- SecondCpu
  Token <- MCToken
  Does <- Clones
  KernelPreempts = TRUE
INVARIANTS QueuesSound NoLostFutexWakeup
PROPERTY EverybodyRuns
