\* A descriptor number that comes back before the clean-up
CONSTANTS
  Conns = {c1, c2}
  Fds <- ServerFds
  MaxClients = 2
  NoFd = NoFd
  NoConn = NoConn
SPECIFICATION Spec
INVARIANT
  LiveSocketKept
