SPECIFICATION FairSpec
CONSTANTS
  Fds = {fd1}
  NoFd = NoFd
  QueueDepth = 1
  RingDepth = 1
  Faults = {"peer_gone", "peer_close"}
PROPERTIES
  DeadViewerFreed
  StopWordObeyed
