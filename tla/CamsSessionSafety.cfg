SPECIFICATION Spec
CONSTANTS
  fd1 = fd1
  fd2 = fd2
  Fds = {fd1, fd2}
  NoFd = NoFd
  QueueDepth = 1
  RingDepth = 1
  Faults = {"peer_gone", "peer_close", "send_timeout", "wifi", "no_identity"}
SYMMETRY FdSymmetry
INVARIANTS
  TxExclusive
  AtMostOneLateFrame
  ViewerComplete
  RegistrationLive
PROPERTY SlotNotStolen
