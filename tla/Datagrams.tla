----------------------------- MODULE Datagrams ------------------------------
(***************************************************************************)
(* How the packet connections of the proxies wrap a payload: the socks5    *)
(* UDP header (transport/socks5), the same without its first three bytes   *)
(* inside a cipher (proxy/shadowsocks over shadowaead or shadowstream),    *)
(* nothing (direct).                                                       *)
(*                                                                         *)
(* A packet is its length and what decoding looks at.  An AEAD notices     *)
(* altered bytes; behind a stream cipher they are a header of any type.    *)
(***************************************************************************)
EXTENDS Integers

CONSTANTS
  SaltSize,     \* of the AEAD cipher
  Overhead,     \* its tag
  IVSize,       \* of the stream cipher
  maxPacketSize \* of the buffer that a packet is encrypted in

ASSUME CipherAssumption ==
  SaltSize \in Nat /\ Overhead \in Nat /\ IVSize \in Nat /\ maxPacketSize \in Nat

IPv4len    == 4
IPv6len    == 16
AtypIPv4   == 1
AtypDomain == 3
AtypIPv6   == 4
Atyps      == {AtypIPv4, AtypDomain, AtypIPv6}

(* SerializeAddr: the type and, for a name, the length byte.               *)
SerializeAddr(atyp, dlen) == [atyp |-> atyp, dlen |-> IF atyp = AtypDomain THEN dlen ELSE 0]

(* SplitAddr, how many bytes the address takes; unknown types take none.   *)
SplitAddr(addr) ==
  CASE addr.atyp = AtypDomain -> 1 + 1 + addr.dlen + 2
    [] addr.atyp = AtypIPv4   -> 1 + IPv4len + 2
    [] addr.atyp = AtypIPv6   -> 1 + IPv6len + 2
    [] OTHER                  -> 0

(* UDPAddr: a name is not converted.                                       *)
Converts(addr) == addr.atyp \in Atyps \ {AtypDomain}

(* The fragment byte, the address and the length of the whole packet.      *)
EncodeUDPPacket(addr, payload) ==
  [frag |-> 0, addr |-> addr, len |-> 3 + SplitAddr(addr) + payload]

(* What a ReadFrom returns: the length of the payload, or an error.        *)
Error    == [ok |-> FALSE, n |-> 0]
Plain(n) == [ok |-> TRUE, n |-> n]

(* DecodeUDPPacket is given the whole buffer, so its test for five bytes   *)
(* never fails, and a datagram that is shorter than its own header is not  *)
(* an error: its n would be negative.                                      *)
DecodeUDPPacket(packet) ==
  IF packet.frag = 0 /\ SplitAddr(packet.addr) > 0
  THEN Plain(3 + SplitAddr(packet.addr))
  ELSE Error

(* Mutation of SocksReadFrom: only the address is taken off.               *)
SocksReadAddressOff(packet) ==
  IF DecodeUDPPacket(packet).ok /\ Converts(packet.addr)
  THEN Plain(packet.len - SplitAddr(packet.addr))
  ELSE Error

SocksReadFrom(packet) ==
  IF DecodeUDPPacket(packet).ok /\ Converts(packet.addr)
  THEN Plain(packet.len - DecodeUDPPacket(packet).n)
  ELSE Error

(* The ciphers; "dummy" is none.  What does not fit the buffer is an error *)
(* (io.ErrShortBuffer); ReadFrom's buffer takes any UDP datagram.          *)
InBuffer(n)   == IF n <= maxPacketSize THEN Plain(n) ELSE Error
AeadPack(n)   == InBuffer(SaltSize + n + Overhead)
StreamPack(n) == InBuffer(IVSize + n)
AeadUnpack(n) == IF n < SaltSize + Overhead THEN Error ELSE Plain(n - SaltSize - Overhead)
StreamUnpack(n) == IF n < IVSize THEN Error ELSE Plain(n - IVSize)

Pack(cipher, n) ==
  CASE cipher = "aead" -> AeadPack(n) [] cipher = "stream" -> StreamPack(n) [] OTHER -> Plain(n)
Unpack(cipher, n) ==
  CASE cipher = "aead" -> AeadUnpack(n) [] cipher = "stream" -> StreamUnpack(n) [] OTHER -> Plain(n)

(* The header without its reserved and fragment bytes, encrypted: the      *)
(* packets that are sent, none when Pack fails.                            *)
ShadowWriteTo(cipher, packet) ==
  LET packed == Pack(cipher, packet.len - 3)
  IN  {[packet EXCEPT !.len = n] : n \in IF packed.ok THEN {packed.n} ELSE {}}

ShadowReadFrom(cipher, packet) ==
  LET opened == Unpack(cipher, packet.len)
  IN  IF opened.ok /\ Converts(packet.addr) /\ SplitAddr(packet.addr) <= opened.n
      THEN Plain(opened.n - SplitAddr(packet.addr))
      ELSE Error
=============================================================================
