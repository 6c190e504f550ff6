\* Three connections on a server that admits two, with the fairness of its threads
CONSTANTS
  Conns = {c1, c2, c3}
  Fds <- ServerFds
  MaxClients = 2
  NoFd = NoFd
  NoConn = NoConn
SPECIFICATION FairSpec
INVARIANTS
  TypeOK Admission GoneIsUnused NothingLeaked
PROPERTIES
  OnlyCleanUpTakes AcceptedSettles SlotsComeBack
