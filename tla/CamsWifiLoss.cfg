\* Wi-Fi loss with a viewer watching.
SPECIFICATION FairSpec
CONSTANTS
  fd1 = fd1
  Fds = {fd1}
  NoFd = NoFd
  QueueDepth = 1
  RingDepth = 1
  Faults = {"wifi"}
PROPERTY GateFollowsViewer
