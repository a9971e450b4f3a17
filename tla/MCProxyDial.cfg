\* Every kind of proxy and option, two pieces or packets in each direction.
SPECIFICATION Spec
CONSTANTS
  SaltSize = 16
  Overhead = 16
  IVSize = 8
  maxPacketSize = 65536
  MaxUDP = 65507
  Kinds = {"socks5", "socks4", "http", "ssh", "ss", "relay", "direct", "reject"}
  MaxData = 2
  Payloads = {0, 65465, 65500}
INVARIANTS NoSocketLeft StreamsAreClean PacketsAreWhole
PROPERTIES NothingHangs
CHECK_DEADLOCK FALSE
