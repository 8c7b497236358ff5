SPECIFICATION Spec
CONSTANTS
  fan = fan
  shell = shell
  Threads <- ShellOnly
  ShellThreads <- ShellOnly
  QueueLen = 1
  MaxSci = 2
  PwrUsed <- TwoStates
INVARIANT NoLostWakeup
