------------------------- MODULE ProxyDial_proofs -------------------------
(***************************************************************************)
(* Proofs about Datagrams and ProxyDial: for every length of payload and   *)
(* every size of a cipher's salt, tag and IV, what a packet connection     *)
(* unwraps is what was wrapped; and whatever the server does, a dial that  *)
(* failed and a connection that was closed leave no socket, and the two    *)
(* streams of a connection are free of handshake messages.                 *)
(***************************************************************************)
EXTENDS ProxyDial, FiniteSetTheorems, TLAPS

-----------------------------------------------------------------------------
(* Datagrams: there and back.                                              *)

LEMMA AddressLength ==
  ASSUME NEW atyp \in Atyps \cup {9}, NEW dlen \in Nat
  PROVE  LET addr == SerializeAddr(atyp, dlen)
         IN  /\ SplitAddr(addr) \in Nat
             /\ atyp # 9 => SplitAddr(addr) > 2
             /\ Converts(addr) <=> atyp \in {AtypIPv4, AtypIPv6}
BY DEF SerializeAddr, SplitAddr, Converts, Atyps, AtypIPv4, AtypIPv6, AtypDomain, IPv4len, IPv6len

(* A packet of the server, before a cipher.                                *)
Whole(atyp, dlen, frag, n) ==
  [EncodeUDPPacket(SerializeAddr(atyp, dlen), n) EXCEPT !.frag = frag]

LEMMA WholeFields ==
  ASSUME NEW atyp, NEW dlen, NEW frag, NEW n
  PROVE  Whole(atyp, dlen, frag, n) =
           [frag |-> frag, addr |-> SerializeAddr(atyp, dlen),
            len |-> 3 + SplitAddr(SerializeAddr(atyp, dlen)) + n]
BY DEF Whole, EncodeUDPPacket

(* EncodeUDPPacket and DecodeUDPPacket fit together (transport/socks5      *)
(* 370-417, proxy/socks5 157-190), for every payload: a packet with an IP  *)
(* address gives its payload, any other one an error.                      *)
THEOREM SocksRoundTrip ==
  ASSUME NEW atyp \in Atyps \cup {9}, NEW dlen \in Nat, NEW frag \in {0, 1}, NEW n \in Nat
  PROVE  SocksReadFrom(Whole(atyp, dlen, frag, n)) =
           IF atyp \in {AtypIPv4, AtypIPv6} /\ frag = 0 THEN Plain(n) ELSE Error
<1> DEFINE split == SplitAddr(SerializeAddr(atyp, dlen))
           whole == Whole(atyp, dlen, frag, n)
<1>1. whole.frag = frag /\ whole.addr = SerializeAddr(atyp, dlen) /\ whole.len = 3 + split + n
  BY WholeFields
<1>2. split \in Nat /\ (atyp # 9 => split > 2) /\ (Converts(whole.addr) <=> atyp \in {AtypIPv4, AtypIPv6})
  BY <1>1, AddressLength
<1>3. atyp \in {AtypIPv4, AtypIPv6} => atyp # 9
  BY DEF AtypIPv4, AtypIPv6
<1> HIDE DEF split, whole
<1>4. CASE atyp \in {AtypIPv4, AtypIPv6} /\ frag = 0
  <2>1. DecodeUDPPacket(whole) = Plain(3 + split)
    BY <1>1, <1>2, <1>3, <1>4 DEF DecodeUDPPacket, split
  <2>2. Plain(3 + split).ok /\ Plain(3 + split).n = 3 + split
    BY DEF Plain
  <2>3. SocksReadFrom(whole) = Plain(whole.len - (3 + split))
    BY <1>2, <1>4, <2>1, <2>2 DEF SocksReadFrom
  <2>4. whole.len - (3 + split) = n
    BY <1>1, <1>2
  <2>5. QED BY <1>4, <2>3, <2>4 DEF whole
<1>5. CASE ~(atyp \in {AtypIPv4, AtypIPv6} /\ frag = 0)
  <2>1. ~Converts(whole.addr) \/ DecodeUDPPacket(whole) = Error
    BY <1>1, <1>2, <1>5 DEF DecodeUDPPacket
  <2>2. ~Error.ok
    BY DEF Error
  <2>3. SocksReadFrom(whole) = Error
    BY <2>1, <2>2 DEF SocksReadFrom
  <2>4. QED BY <1>5, <2>3 DEF whole
<1>6. QED BY <1>4, <1>5

Ciphers == {"aead", "stream", "dummy"}

(* Whether a cipher takes n bytes: only those that use the buffer may not.  *)
Fits(cipher, n) ==
  CASE cipher = "aead"   -> SaltSize + n + Overhead <= maxPacketSize
    [] cipher = "stream" -> IVSize + n <= maxPacketSize
    [] OTHER             -> TRUE

LEMMA Unpacks ==
  ASSUME NEW cipher \in Ciphers, NEW n \in Nat
  PROVE  /\ Pack(cipher, n).ok <=> Fits(cipher, n)
         /\ Fits(cipher, n) => /\ Pack(cipher, n).n \in Nat
                               /\ Unpack(cipher, Pack(cipher, n).n) = Plain(n)
<1>1. CASE cipher = "aead"
  <2>1. Pack(cipher, n) = InBuffer(SaltSize + n + Overhead)
    BY <1>1 DEF Pack, AeadPack
  <2>2. /\ InBuffer(SaltSize + n + Overhead).ok <=> SaltSize + n + Overhead <= maxPacketSize
        /\ SaltSize + n + Overhead <= maxPacketSize =>
             InBuffer(SaltSize + n + Overhead).n = SaltSize + n + Overhead
    BY DEF InBuffer, Plain, Error
  <2>3. /\ SaltSize + n + Overhead \in Nat
        /\ ~(SaltSize + n + Overhead < SaltSize + Overhead)
        /\ SaltSize + n + Overhead - SaltSize - Overhead = n
    BY CipherAssumption
  <2>4. AeadUnpack(SaltSize + n + Overhead) = Plain(n)
    BY <2>3, CipherAssumption DEF AeadUnpack
  <2>5. Unpack(cipher, SaltSize + n + Overhead) = AeadUnpack(SaltSize + n + Overhead)
    BY <1>1 DEF Unpack
  <2>6. QED BY <1>1, <2>1, <2>2, <2>3, <2>4, <2>5 DEF Fits
<1>2. CASE cipher = "stream"
  <2>1. Pack(cipher, n) = InBuffer(IVSize + n)
    BY <1>2 DEF Pack, StreamPack
  <2>2. /\ InBuffer(IVSize + n).ok <=> IVSize + n <= maxPacketSize
        /\ IVSize + n <= maxPacketSize => InBuffer(IVSize + n).n = IVSize + n
    BY DEF InBuffer, Plain, Error
  <2>3. IVSize + n \in Nat /\ ~(IVSize + n < IVSize) /\ IVSize + n - IVSize = n
    BY CipherAssumption
  <2>4. StreamUnpack(IVSize + n) = Plain(n)
    BY <2>3, CipherAssumption DEF StreamUnpack
  <2>5. Unpack(cipher, IVSize + n) = StreamUnpack(IVSize + n)
    BY <1>2 DEF Unpack
  <2>6. QED BY <1>2, <2>1, <2>2, <2>3, <2>4, <2>5 DEF Fits
<1>3. CASE cipher = "dummy"
  BY <1>3 DEF Pack, Unpack, Fits, Plain
<1>4. QED BY <1>1, <1>2, <1>3 DEF Ciphers

LEMMA Wrapped ==
  ASSUME NEW cipher, NEW frag, NEW addr, NEW len
  PROVE  ShadowWriteTo(cipher, [frag |-> frag, addr |-> addr, len |-> len]) =
           IF Pack(cipher, len - 3).ok
           THEN {[frag |-> frag, addr |-> addr, len |-> Pack(cipher, len - 3).n]}
           ELSE {}
BY DEF ShadowWriteTo

LEMMA Unwrapped ==
  ASSUME NEW cipher, NEW p, NEW k \in Nat,
         Unpack(cipher, p.len) = Plain(k), SplitAddr(p.addr) \in Nat, SplitAddr(p.addr) <= k
  PROVE  ShadowReadFrom(cipher, p) = IF Converts(p.addr) THEN Plain(k - SplitAddr(p.addr)) ELSE Error
<1>1. Plain(k).ok /\ Plain(k).n = k
  BY DEF Plain
<1>2. QED BY <1>1 DEF ShadowReadFrom, Converts

(* The same through a cipher (proxy/shadowsocks 90-122, shadowaead and     *)
(* shadowstream packet.go), whatever the sizes of salt, tag, IV and        *)
(* buffer: what does not fit the buffer is not sent, and of what is sent   *)
(* the other side reads the payload or, without an IP address, an error.   *)
THEOREM ShadowRoundTrip ==
  ASSUME NEW cipher \in Ciphers,
         NEW atyp \in Atyps \cup {9}, NEW dlen \in Nat, NEW frag, NEW n \in Nat
  PROVE  /\ ShadowWriteTo(cipher, Whole(atyp, dlen, frag, n)) # {}
              <=> Fits(cipher, SplitAddr(SerializeAddr(atyp, dlen)) + n)
         /\ \A p \in ShadowWriteTo(cipher, Whole(atyp, dlen, frag, n)) :
              ShadowReadFrom(cipher, p) = IF atyp \in {AtypIPv4, AtypIPv6} THEN Plain(n) ELSE Error
<1> DEFINE addr == SerializeAddr(atyp, dlen)
           len == 3 + SplitAddr(addr) + n
           carried == ShadowWriteTo(cipher, Whole(atyp, dlen, frag, n))
<1>1. SplitAddr(addr) \in Nat /\ (Converts(addr) <=> atyp \in {AtypIPv4, AtypIPv6})
  BY AddressLength
<1>2. carried = IF Pack(cipher, len - 3).ok
                THEN {[frag |-> frag, addr |-> addr, len |-> Pack(cipher, len - 3).n]}
                ELSE {}
  <2>1. Whole(atyp, dlen, frag, n) = [frag |-> frag, addr |-> addr, len |-> len]
    BY WholeFields
  <2> HIDE DEF len, addr
  <2>2. QED BY <2>1, Wrapped
<1>3. len - 3 = SplitAddr(addr) + n /\ SplitAddr(addr) + n \in Nat
  BY <1>1
<1>4. SplitAddr(addr) <= SplitAddr(addr) + n /\ SplitAddr(addr) + n - SplitAddr(addr) = n
  BY <1>1
<1> HIDE DEF addr, len, carried
<1>5. carried # {} <=> Fits(cipher, SplitAddr(addr) + n)
  BY <1>2, <1>3, Unpacks
<1>6. ASSUME NEW p \in carried PROVE ShadowReadFrom(cipher, p) = IF Converts(addr) THEN Plain(n) ELSE Error
  <2>1. p.addr = addr /\ p.len = Pack(cipher, SplitAddr(addr) + n).n /\ Fits(cipher, SplitAddr(addr) + n)
    BY <1>2, <1>3, <1>5, <1>6
  <2>2. Unpack(cipher, p.len) = Plain(SplitAddr(addr) + n)
    BY <1>3, <2>1, Unpacks
  <2>3. QED BY <1>1, <1>3, <1>4, <2>1, <2>2, Unwrapped
<1>7. QED BY <1>1, <1>5, <1>6 DEF carried, addr

ReadBack(cipher, atyp, dlen, frag, n) ==
  \A p \in ShadowWriteTo(cipher, Whole(atyp, dlen, frag, n)) :
    ShadowReadFrom(cipher, p) = IF atyp \in {AtypIPv4, AtypIPv6} THEN Plain(n) ELSE Error

LEMMA AllReadBack ==
  \A cipher \in Ciphers, atyp \in Atyps \cup {9}, dlen \in Nat, n \in Nat :
    \A frag : ReadBack(cipher, atyp, dlen, frag, n)
<1> SUFFICES ASSUME NEW cipher \in Ciphers, NEW atyp \in Atyps \cup {9}, NEW dlen \in Nat,
                    NEW n \in Nat, NEW frag,
                    NEW p \in ShadowWriteTo(cipher, Whole(atyp, dlen, frag, n))
             PROVE  ShadowReadFrom(cipher, p) =
                      IF atyp \in {AtypIPv4, AtypIPv6} THEN Plain(n) ELSE Error
  BY DEF ReadBack
<1>1. QED BY ShadowRoundTrip

-----------------------------------------------------------------------------
(* The inductive invariant for the sockets: who closes a packet socket.    *)

Steps == {"connect", "sendHello", "sendAuth", "sendRequest", "readMethod", "readAuth", "readReply",
          "listen", "resolve", "fail", "ok", "failed", "closing", "closed"}

SocketInv ==
  /\ opt \in Options
  /\ step \in Steps
  /\ step = "connect" => ctrl = "none"
  /\ ctrl = "open" => step \notin {"failed", "closing", "closed"}
  /\ drain # "none" =>
       Association /\ step \in {"resolve", "fail", "ok", "failed", "closing", "closed"}
  /\ step = "listen" => Is("ss") \/ Is("direct") \/ Association
  /\ packet = "open" =>
       \/ drain \in {"copy", "closeCtrl", "closePacket"}
       \/ Is("ss")
       \/ Is("direct") /\ step \in {"ok", "closing"}
  /\ packet = "open" => step # "closed" \/ drain \in {"copy", "closeCtrl", "closePacket"}

LEMMA FirstSteps == ASSUME NEW o \in Options
  PROVE /\ FirstStep(o) \in {"ok", "failed", "connect", "listen"}
        /\ FirstStep(o) = "listen" => o.kind \in {"ss", "direct"}
BY DialAssumption DEF Options, FirstStep, Reject, Socks5UDP, Socks4UDP, HttpUDP, SshUDP

LEMMA SocketInvInit == Init => SocketInv
BY FirstSteps DEF Init, SocketInv, Steps, Is

LEMMA DialKeepsSockets == SocketInv /\ Dial => SocketInv'
<1> SUFFICES ASSUME SocketInv, Dial PROVE SocketInv'
  OBVIOUS
<1> USE DEF SocketInv, Is, UDP, Association, sockVars
<1>1. CASE Connect
  BY <1>1 DEF Connect, Socks5Dial, Socks4Dial, HttpDial, SshDial, ShadowDial, RelayDial, DirectDial,
              Dialled, Steps
<1>2. CASE ConnectFails \/ SendFails \/ ReceiveEOF \/ ListenFails \/ Resolve \/ ResolveFails
  BY <1>2 DEF ConnectFails, SendFails, ReceiveEOF, ListenFails, Resolve, ResolveFails, Sending, Steps
<1>3. CASE Send
  <2>1. step' \in {"readMethod", "readAuth", "readReply", "ok"} /\ step \in DOMAIN Sending
    BY <1>3 DEF Send, AfterSend
  <2>2. QED BY <1>3, <2>1 DEF Send, Sending, Steps
<1>4. CASE Receive
  <2>1. /\ step' \in {"sendAuth", "sendRequest", "listen", "ok", "fail"}
        /\ step' = "listen" => Association
    BY <1>4 DEF Receive, AfterAnswer, Socks5Answer, Socks4Answer, HttpAnswer, SshAnswer, RelayAnswer
  <2>2. QED BY <1>4, <2>1 DEF Receive, Steps
<1>5. CASE Listen
  BY <1>5 DEF Listen, Steps
<1>6. CASE Fail
  BY <1>6 DEF Fail, Steps
<1>7. QED BY <1>1, <1>2, <1>3, <1>4, <1>5, <1>6 DEF Dial

LEMMA SocketInvStep == SocketInv /\ [Next]_vars => SocketInv'
<1> SUFFICES ASSUME SocketInv, [Next]_vars PROVE SocketInv'
  OBVIOUS
<1> USE DEF SocketInv, Is, UDP, Association, sockVars, Steps
<1>1. CASE Dial
  BY <1>1, DialKeepsSockets
<1>2. CASE Drain
  BY <1>2 DEF Drain, DrainReads, DrainEnds, DrainClosesCtrl, DrainClosesPacket
<1>3. CASE Use
  BY <1>3 DEF Use, Write, ReadResponse, Read, ReadFrom
<1>4. CASE Close \/ ClosePacket
  BY <1>4 DEF Close, ClosePacket
<1>5. CASE Server
  BY <1>5 DEF Server, Answer, Speaks, Leaves, Arrives
<1>6. CASE UNCHANGED vars
  BY <1>6 DEF vars
<1>7. QED BY <1>1, <1>2, <1>3, <1>4, <1>5, <1>6 DEF Next

(* Whatever the server does and at whichever step a dial fails, the dial   *)
(* and a closed connection leave no socket, but for shadowsocks.go:77.     *)
THEOREM DialLeavesNoSocket == Spec => []NoSocketLeft
<1>1. SocketInv => NoSocketLeft
  BY DEF SocketInv, NoSocketLeft, Is
<1>2. Spec => []SocketInv
  BY SocketInvInit, SocketInvStep, PTL DEF Spec
<1>3. QED BY <1>1, <1>2, PTL

-----------------------------------------------------------------------------
(* The inductive invariant for packets: what is in flight will be read as  *)
(* it was sent.                                                            *)

Results == [ok : BOOLEAN, n : Int]
Unwrap(p) ==
  CASE Is("socks5") -> SocksReadFrom(p)
    [] Is("ss") -> ShadowReadFrom(opt.cipher, p)
    [] OTHER -> Plain(p.len)

PacketInv ==
  /\ flying \in Seq([frag : Nat, addr : [atyp : Nat, dlen : Nat], len : Int])
  /\ asked \in Seq(Results) /\ read \in Seq(Results)
  /\ Len(read) + Len(flying) = Len(asked)
  /\ \A i \in 1..Len(read) : read[i] = asked[i]
  /\ \A i \in 1..Len(flying) : Unwrap(flying[i]) = asked[Len(read) + i]

(* What Arrives sends and what it expects for it.                          *)
Sent(atyp, dlen, frag, n) == Carriers(Whole(atyp, dlen, frag, n), n)
Expected(atyp, frag, n) ==
  IF Is("direct") \/ (atyp \in {AtypIPv4, AtypIPv6} /\ (frag = 0 \/ ~Is("socks5")))
  THEN Plain(n) ELSE Error

SentRight(atyp, dlen, frag, n) ==
  /\ \A p \in Sent(atyp, dlen, frag, n) :
       /\ Unwrap(p) = Expected(atyp, frag, n)
       /\ p \in [frag : Nat, addr : [atyp : Nat, dlen : Nat], len : Int]
  /\ Expected(atyp, frag, n) \in Results

LEMMA SentIsExpected ==
  SocketInv /\ packet = "open" =>
    \A atyp \in Atyps \cup {9}, dlen \in {0, 1}, frag \in {0, 1}, n \in Nat : SentRight(atyp, dlen, frag, n)
<1> SUFFICES ASSUME SocketInv, packet = "open",
                    NEW atyp \in Atyps \cup {9}, NEW dlen \in {0, 1}, NEW frag \in {0, 1}, NEW n \in Nat
             PROVE  SentRight(atyp, dlen, frag, n)
  OBVIOUS
<1> DEFINE addr == SerializeAddr(atyp, dlen)
           len == 3 + SplitAddr(addr) + n
           Fine(p) == /\ Unwrap(p) = Expected(atyp, frag, n)
                      /\ p \in [frag : Nat, addr : [atyp : Nat, dlen : Nat], len : Int]
<1>1. Is("socks5") \/ Is("ss") \/ Is("direct")
  BY DEF SocketInv, Association
<1>2. addr \in [atyp : Nat, dlen : Nat] /\ SplitAddr(addr) \in Nat
  <2>1. addr \in [atyp : Nat, dlen : Nat]
    BY DEF SerializeAddr, Atyps, AtypIPv4, AtypIPv6, AtypDomain
  <2>2. QED BY <2>1, AddressLength
<1>3. Whole(atyp, dlen, frag, n) = [frag |-> frag, addr |-> addr, len |-> len]
  BY WholeFields
<1>4. len \in Nat /\ len - 3 \in Nat
  BY <1>2
<1>5. Expected(atyp, frag, n) \in Results
  BY DEF Expected, Results, Plain, Error
<1>6. CASE Is("socks5")
  <2>1. Sent(atyp, dlen, frag, n) = {Whole(atyp, dlen, frag, n)}
    BY <1>6 DEF Sent, Carriers, Is
  <2>2. Unwrap(Whole(atyp, dlen, frag, n)) = SocksReadFrom(Whole(atyp, dlen, frag, n))
    BY <1>6 DEF Unwrap, Is
  <2>3. Expected(atyp, frag, n) = IF atyp \in {AtypIPv4, AtypIPv6} /\ frag = 0 THEN Plain(n) ELSE Error
    BY <1>6 DEF Expected, Is
  <2>4. Whole(atyp, dlen, frag, n) \in [frag : Nat, addr : [atyp : Nat, dlen : Nat], len : Int]
    BY <1>2, <1>3, <1>4
  <2>5. Fine(Whole(atyp, dlen, frag, n))
    BY <2>2, <2>3, <2>4, SocksRoundTrip
  <2>6. QED BY <1>5, <2>1, <2>5 DEF SentRight
<1>7. CASE Is("ss")
  <2>1. Sent(atyp, dlen, frag, n) = ShadowWriteTo(opt.cipher, Whole(atyp, dlen, frag, n))
    BY <1>7 DEF Sent, Carriers, Is
  <2>2. opt.cipher \in Ciphers
    BY DEF SocketInv, Options, Ciphers
  <2>3. ASSUME NEW p \in ShadowWriteTo(opt.cipher, Whole(atyp, dlen, frag, n)) PROVE Fine(p)
    <3>1. Unwrap(p) = ShadowReadFrom(opt.cipher, p)
      BY <1>7 DEF Unwrap, Is
    <3>2. Expected(atyp, frag, n) = IF atyp \in {AtypIPv4, AtypIPv6} THEN Plain(n) ELSE Error
      BY <1>7 DEF Expected, Is
    <3> HIDE DEF addr, len, Fine
    <3>3. ShadowReadFrom(opt.cipher, p) = IF atyp \in {AtypIPv4, AtypIPv6} THEN Plain(n) ELSE Error
      <4>1. dlen \in Nat
        OBVIOUS
      <4>2. ReadBack(opt.cipher, atyp, dlen, frag, n)
        BY <2>2, <4>1, AllReadBack, Zenon
      <4>3. QED BY <2>3, <4>2 DEF ReadBack
    <3>4. /\ Pack(opt.cipher, len - 3).ok
          /\ p = [frag |-> frag, addr |-> addr, len |-> Pack(opt.cipher, len - 3).n]
      <4>1. p \in ShadowWriteTo(opt.cipher, [frag |-> frag, addr |-> addr, len |-> len])
        BY <1>3, <2>3
      <4>2. p \in IF Pack(opt.cipher, len - 3).ok
                  THEN {[frag |-> frag, addr |-> addr, len |-> Pack(opt.cipher, len - 3).n]}
                  ELSE {}
        BY <4>1, Wrapped
      <4>3. QED BY <4>2
    <3>5. Pack(opt.cipher, len - 3).n \in Nat
      BY <1>4, <2>2, <3>4, Unpacks
    <3>6. p \in [frag : Nat, addr : [atyp : Nat, dlen : Nat], len : Int]
      BY <1>2, <3>4, <3>5
    <3>7. QED BY <3>1, <3>2, <3>3, <3>6 DEF Fine
  <2>4. QED BY <1>5, <2>1, <2>3 DEF SentRight
<1>8. CASE Is("direct")
  <2>1. Sent(atyp, dlen, frag, n) = {[frag |-> frag, addr |-> addr, len |-> n]}
    BY <1>3, <1>8 DEF Sent, Carriers, Is
  <2>2. Fine([frag |-> frag, addr |-> addr, len |-> n])
    BY <1>2, <1>8 DEF Unwrap, Expected, Is
  <2>3. QED BY <1>5, <2>1, <2>2 DEF SentRight
<1>9. QED BY <1>1, <1>6, <1>7, <1>8

LEMMA ArrivesKeepsPackets == SocketInv /\ PacketInv /\ Arrives => PacketInv'
<1> SUFFICES ASSUME SocketInv, PacketInv, Arrives PROVE PacketInv'
  OBVIOUS
<1>1. PICK atyp \in Atyps \cup {9}, dlen \in {0, 1}, frag \in {0, 1}, n \in Payloads :
        \E p \in Sent(atyp, dlen, frag, n) :
          /\ flying' = Append(flying, p)
          /\ asked' = Append(asked, Expected(atyp, frag, n))
  BY ZenonT(40) DEF Arrives, Sent, Expected, Whole
<1>2. n \in Nat /\ packet = "open" /\ UNCHANGED <<opt, read>>
  BY DialAssumption DEF Arrives
<1> DEFINE r == Expected(atyp, frag, n)
           Packets == [frag : Nat, addr : [atyp : Nat, dlen : Nat], len : Int]
<1>3. PICK p \in Packets : /\ flying' = Append(flying, p) /\ asked' = Append(asked, r)
                           /\ Unwrap(p) = r /\ r \in Results
  <2>1. SentRight(atyp, dlen, frag, n)
    BY <1>2, SentIsExpected
  <2>2. QED BY <1>1, <2>1, Zenon DEF SentRight
<1>4. \A q : Unwrap(q)' = Unwrap(q)
  BY <1>2 DEF Unwrap, Is
<1>5. flying \in Seq(Packets) /\ asked \in Seq(Results) /\ read \in Seq(Results)
  BY DEF PacketInv
<1> HIDE DEF r, Packets
<1>6. /\ flying' \in Seq(Packets) /\ Len(flying') = Len(flying) + 1
      /\ asked' \in Seq(Results) /\ Len(asked') = Len(asked) + 1
      /\ \A i \in 1..Len(flying) : flying'[i] = flying[i]
      /\ flying'[Len(flying) + 1] = p
      /\ \A i \in 1..Len(asked) : asked'[i] = asked[i]
      /\ asked'[Len(asked) + 1] = r
  BY <1>3, <1>5
<1>7. Len(flying) \in Nat /\ Len(asked) \in Nat /\ Len(read) \in Nat /\ Len(read) + Len(flying) = Len(asked)
  BY <1>5 DEF PacketInv
<1>8. ASSUME NEW i \in 1..Len(read) PROVE read'[i] = asked'[i]
  <2>1. i \in 1..Len(asked)
    BY <1>7
  <2>2. asked'[i] = asked[i] /\ read' = read
    BY <1>2, <1>6, <2>1
  <2>3. read[i] = asked[i]
    BY DEF PacketInv
  <2>4. QED BY <2>2, <2>3
<1>9. ASSUME NEW i \in 1..Len(flying') PROVE Unwrap(flying'[i]) = asked'[Len(read) + i]
  <2>1. CASE i = Len(flying) + 1
    BY <1>3, <1>6, <1>7, <2>1
  <2>2. CASE i # Len(flying) + 1
    <3>1. i \in 1..Len(flying) /\ Len(read) + i \in 1..Len(asked)
      BY <1>6, <1>7, <2>2
    <3>2. flying'[i] = flying[i] /\ asked'[Len(read) + i] = asked[Len(read) + i]
      BY <1>6, <3>1
    <3>3. QED BY <3>1, <3>2 DEF PacketInv
  <2>3. QED BY <2>1, <2>2
<1>10. Len(read') + Len(flying') = Len(asked') /\ read' \in Seq(Results)
  BY <1>2, <1>5, <1>6, <1>7
<1>11. (\A i \in 1..Len(flying) : Unwrap(flying[i]) = asked[Len(read) + i])'
  BY <1>2, <1>4, <1>9
<1>12. flying' \in Seq([frag : Nat, addr : [atyp : Nat, dlen : Nat], len : Int])
  BY <1>6 DEF Packets
<1>13. (\A i \in 1..Len(read) : read[i] = asked[i])'
  BY <1>2, <1>8
<1>14. QED BY <1>6, <1>10, <1>11, <1>12, <1>13 DEF PacketInv

LEMMA ReadFromKeepsPackets == SocketInv /\ PacketInv /\ ReadFrom => PacketInv'
<1> SUFFICES ASSUME SocketInv, PacketInv, ReadFrom PROVE PacketInv'
  OBVIOUS
<1> DEFINE r == Unwrap(Head(flying))
           Packets == [frag : Nat, addr : [atyp : Nat, dlen : Nat], len : Int]
<1>1. flying # <<>> /\ flying' = Tail(flying) /\ read' = Append(read, r) /\ UNCHANGED <<opt, asked>>
  BY DEF ReadFrom, Unwrap
<1>2. flying \in Seq(Packets) /\ asked \in Seq(Results) /\ read \in Seq(Results)
  BY DEF PacketInv
<1>3. \A q : Unwrap(q)' = Unwrap(q)
  BY <1>1 DEF Unwrap, Is
<1>4. Len(flying) \in Nat /\ Len(flying) > 0 /\ Len(asked) \in Nat /\ Len(read) \in Nat
  BY <1>1, <1>2
<1>5. Len(read) + Len(flying) = Len(asked) /\ Len(read) + 1 \in 1..Len(asked)
  BY <1>4 DEF PacketInv
<1>6. r = asked[Len(read) + 1] /\ r \in Results
  <2>1. Head(flying) = flying[1] /\ 1 \in 1..Len(flying)
    BY <1>1, <1>2, <1>4
  <2>2. Unwrap(flying[1]) = asked[Len(read) + 1]
    BY <2>1 DEF PacketInv
  <2>3. QED BY <1>2, <1>5, <2>1, <2>2
<1> HIDE DEF r, Packets
<1>7. /\ flying' \in Seq(Packets) /\ Len(flying') = Len(flying) - 1
      /\ \A i \in 1..Len(flying') : flying'[i] = flying[i + 1] /\ i + 1 \in 1..Len(flying)
      /\ read' \in Seq(Results) /\ Len(read') = Len(read) + 1
      /\ read'[Len(read) + 1] = r
      /\ \A i \in 1..Len(read) : read'[i] = read[i]
  BY <1>1, <1>2, <1>4, <1>6
<1>8. ASSUME NEW i \in 1..Len(read') PROVE read'[i] = asked'[i]
  <2>1. CASE i = Len(read) + 1
    BY <1>1, <1>6, <1>7, <2>1
  <2>2. CASE i # Len(read) + 1
    <3>1. i \in 1..Len(read)
      BY <1>4, <1>7, <2>2
    <3>2. read'[i] = read[i] /\ asked' = asked
      BY <1>1, <1>7, <3>1
    <3>3. QED BY <3>1, <3>2 DEF PacketInv
  <2>3. QED BY <2>1, <2>2
<1>9. ASSUME NEW i \in 1..Len(flying') PROVE Unwrap(flying'[i]) = asked'[Len(read') + i]
  <2>1. Len(read') + i = Len(read) + (i + 1)
    BY <1>4, <1>7
  <2>2. Unwrap(flying[i + 1]) = asked[Len(read) + (i + 1)]
    BY <1>7 DEF PacketInv
  <2>3. QED BY <1>1, <1>7, <2>1, <2>2
<1>10. asked' \in Seq(Results) /\ Len(read') + Len(flying') = Len(asked')
  BY <1>1, <1>2, <1>4, <1>5, <1>7
<1>11. (\A i \in 1..Len(flying) : Unwrap(flying[i]) = asked[Len(read) + i])'
  BY <1>3, <1>9
<1>12. flying' \in Seq([frag : Nat, addr : [atyp : Nat, dlen : Nat], len : Int])
  BY <1>7 DEF Packets
<1>13. (\A i \in 1..Len(read) : read[i] = asked[i])'
  BY <1>8
<1>14. QED BY <1>7, <1>10, <1>11, <1>12, <1>13 DEF PacketInv

LEMMA PacketInvStep == SocketInv /\ PacketInv /\ [Next]_vars => PacketInv'
<1> SUFFICES ASSUME SocketInv, PacketInv, [Next]_vars, ~Arrives, ~ReadFrom PROVE PacketInv'
  BY ArrivesKeepsPackets, ReadFromKeepsPackets
<1>1. UNCHANGED <<opt, flying, asked, read>>
  BY DEF Next, Dial, Connect, Socks5Dial, Socks4Dial, HttpDial, SshDial, ShadowDial, RelayDial,
         DirectDial, Dialled, ConnectFails, Send, SendFails, Receive, ReceiveEOF, Listen, ListenFails,
         Resolve, ResolveFails, Fail, Drain, DrainReads, DrainEnds, DrainClosesCtrl, DrainClosesPacket,
         Use, Write, ReadResponse, Read, Close, ClosePacket, Server, Answer, Speaks, Leaves,
         udpVars, vars
<1>2. QED BY <1>1 DEF PacketInv, Unwrap, Is

(* Every packet connection returns the payloads as they were sent, in      *)
(* their order, for all lengths and ciphers (SocksRoundTrip and            *)
(* ShadowRoundTrip, applied to what is in flight).                         *)
THEOREM PacketsAreReadWhole == Spec => []PacketsAreWhole
<1>1. Init => PacketInv
  BY DEF Init, PacketInv
<1>2. PacketInv => PacketsAreWhole
  <2> SUFFICES ASSUME PacketInv PROVE PacketsAreWhole
    OBVIOUS
  <2>1. /\ read \in Seq(Results) /\ asked \in Seq(Results) /\ Len(read) <= Len(asked)
        /\ \A i \in 1..Len(read) : read[i] = asked[i]
    BY DEF PacketInv
  <2>2. SubSeq(read, 1, Len(read)) = SubSeq(asked, 1, Len(read))
    BY <2>1
  <2>3. QED BY <2>1, <2>2 DEF PacketsAreWhole, IsPrefix
<1>3. Spec => [](SocketInv /\ PacketInv)
  BY <1>1, SocketInvInit, SocketInvStep, PacketInvStep, PTL DEF Spec
<1>4. QED BY <1>2, <1>3, PTL

-----------------------------------------------------------------------------
(* The inductive invariant for streams: at each step of a dial, what the   *)
(* server has been sent and what it has answered.                          *)

Messages ==
  [what : {"hello", "auth", "request", "data", "noAuth", "userPass", "refused", "granted"}, n : Nat]

StreamTypes ==
  /\ sent \in Seq(Messages) /\ inbox \in Seq(Messages) /\ got \in Seq(Messages)
  /\ answered \in 0..Len(sent) /\ early \in Nat
  /\ granted \in BOOLEAN /\ pending \in BOOLEAN /\ replied \in BOOLEAN /\ ended \in BOOLEAN

(* The order of what the server receives: greetings, one request, data.    *)
Greeting == \A i \in 1..Len(sent) : sent[i].what \in {"hello", "auth"}
AskedAt(r) ==
  /\ r \in 1..Len(sent) /\ sent[r].what = "request"
  /\ \A i \in 1..r - 1 : sent[i].what \in {"hello", "auth"}
  /\ \A i \in r + 1..Len(sent) : sent[i].what = "data"

(* The server owes no answer, or has dealt with the last message but one.  *)
Settled == \A i \in answered + 1..Len(sent) : sent[i].what = "data"

(* Behind k answers, what waits to be read is the rest of the server's     *)
(* data after what the reader has been given.                              *)
Follows(k) ==
  /\ Len(got) + Len(inbox) = early + k
  /\ \A j \in k + 1..Len(inbox) : inbox[j] = Data(Len(got) + j - k)

(* The server has said nothing, and then the answer of the request.        *)
Nothing == inbox = <<>> /\ early = 0 /\ ~granted
AnswerWaits ==
  /\ Len(inbox) > 0 /\ Follows(1)
  /\ inbox[1].what = "granted" <=> granted
  /\ ~granted => early = 0

(* A connection in use; the kinds whose dial waits for the grant.          *)
Open == step = "ok" /\ ctrl = "open"
Asks == ~Lazy /\ ~Is("direct") /\ ~Is("ss")

(* Which kinds take which steps.                                           *)
KindInv ==
  /\ step \in {"sendHello", "readMethod", "sendAuth", "readAuth"} => Is("socks5") \/ Is("ssh")
  /\ step = "sendRequest" => ~Lazy /\ ~Is("direct")
  /\ step = "readReply" => Asks
  /\ step \in {"listen", "resolve"} => UDP /\ ~Is("relay")
  /\ pending => Lazy /\ step # "connect"
  /\ ended => Lazy

(* What the server has been sent.                                          *)
OnlyData == \A i \in 1..Len(sent) : sent[i].what = "data"
SentInv ==
  IF Is("direct") THEN OnlyData ELSE
    /\ Greeting \/ \E r \in 1..Len(sent) : AskedAt(r)
    /\ step \in {"connect", "sendHello", "readMethod", "sendAuth", "readAuth", "sendRequest"} => Greeting
    /\ step = "readReply" => AskedAt(Len(sent))
    /\ Open /\ Streams /\ ~Lazy => \E r \in 1..Len(sent) : AskedAt(r)
    /\ Open /\ Lazy => IF pending THEN sent = <<>> ELSE AskedAt(1)

(* What it has answered.                                                   *)
ReplyInv ==
  /\ step \in {"connect", "sendHello", "sendAuth", "sendRequest"} =>
       Nothing /\ answered = Len(sent) /\ got = <<>>
  /\ step = "connect" => sent = <<>> /\ ~replied
  /\ step = "sendRequest" /\ Is("ss") => sent = <<>>
  /\ step \in {"readMethod", "readAuth"} =>
       /\ Len(sent) > 0 /\ early = 0 /\ ~granted /\ got = <<>>
       /\ \/ answered = Len(sent) - 1 /\ inbox = <<>>
          \/ answered = Len(sent) /\ Len(inbox) = 1
  /\ step = "readReply" =>
       /\ got = <<>>
       /\ \/ answered = Len(sent) - 1 /\ Nothing
          \/ answered = Len(sent) /\ AnswerWaits
  /\ step \in {"listen", "resolve", "ok"} /\ ctrl = "open" /\ Asks => granted /\ Settled
  /\ Open /\ Lazy =>
       IF pending THEN Nothing /\ answered = 0 /\ got = <<>> /\ ~replied
       ELSE IF replied THEN Settled
       ELSE got = <<>> /\ ((answered = 0 /\ Nothing) \/ (Settled /\ answered > 0 /\ AnswerWaits))

(* What the reader has been given.                                         *)
GotInv ==
  /\ IF Is("http") THEN \A i \in 1..Len(got) : got[i].what = "data"
                   ELSE \A i \in 1..Len(got) : got[i] = Data(i)
  /\ Open /\ Streams /\ Ready /\ ~ended =>
       IF Is("http") THEN \A i \in 1..Len(inbox) : inbox[i].what = "data" ELSE Follows(0)

StreamInv == StreamTypes /\ KindInv /\ SentInv /\ ReplyInv /\ GotInv

-----------------------------------------------------------------------------
(* Steps that touch none of the stream's state.                            *)

LEMMA AppendTo ==
  ASSUME NEW S, NEW s \in Seq(S), NEW e \in S
  PROVE  /\ Append(s, e) \in Seq(S) /\ Len(Append(s, e)) = Len(s) + 1
         /\ \A i \in 1..Len(s) : Append(s, e)[i] = s[i]
         /\ Append(s, e)[Len(s) + 1] = e
         /\ Len(s) \in Nat
OBVIOUS

LEMMA TailOf ==
  ASSUME NEW S, NEW s \in Seq(S), s # <<>>
  PROVE  /\ Tail(s) \in Seq(S) /\ Len(Tail(s)) = Len(s) - 1
         /\ \A i \in 1..Len(s) - 1 : Tail(s)[i] = s[i + 1]
         /\ Head(s) = s[1] /\ Head(s) \in S
         /\ Len(s) \in Nat /\ Len(s) > 0
OBVIOUS

streamVars == <<sent, inbox, got, answered, early, granted, pending, replied, ended>>

LEMMA QuietStep ==
  ASSUME StreamInv, UNCHANGED opt, UNCHANGED streamVars,
         ctrl' \in {ctrl, "closed"},
         \/ step' \in {step, "fail", "failed", "closing", "closed"}
         \/ step = "listen" /\ step' \in {"resolve", "ok"}
         \/ step = "resolve" /\ step' = "ok"
  PROVE  StreamInv'
<1> USE DEF StreamInv, streamVars, Is, UDP, Streams, Lazy, Asks
<1>1. StreamTypes'
  BY DEF StreamTypes
<1>2. KindInv'
  BY DEF KindInv
<1>3. Open' => Open \/ (~Streams /\ ~Lazy)
  BY DEF Open, KindInv
<1>4. Greeting' = Greeting /\ Settled' = Settled /\ OnlyData' = OnlyData /\ \A r : AskedAt(r)' = AskedAt(r)
  BY DEF Greeting, Settled, OnlyData, AskedAt
<1>5. Nothing' = Nothing /\ Follows(0)' = Follows(0) /\ AnswerWaits' = AnswerWaits
  BY DEF Nothing, Follows, AnswerWaits
<1>6. SentInv'
  BY <1>3, <1>4 DEF SentInv
<1>7. ReplyInv'
  <2>1. ctrl' = "open" => ctrl = "open"
    OBVIOUS
  <2>2. QED BY <1>3, <1>4, <1>5, <2>1 DEF ReplyInv
<1>8. GotInv'
  BY <1>3, <1>5 DEF GotInv, Ready
<1>9. QED BY <1>1, <1>2, <1>6, <1>7, <1>8

LEMMA StreamInvInit == Init => StreamInv
<1> SUFFICES ASSUME Init PROVE StreamInv
  OBVIOUS
<1>1. step \in {"ok", "failed", "connect", "listen"} /\ ctrl = "none" /\ opt \in Options
  BY FirstSteps DEF Init
<1>2. step = "listen" => UDP /\ ~Is("relay")
  <2>1. step = FirstStep(opt) /\ opt.network \in {"tcp", "udp"}
    BY <1>1 DEF Init, Options
  <2>2. opt.network = "tcp" \/ opt.kind = "relay" => FirstStep(opt) \in {"ok", "connect"}
    BY DEF FirstStep, Reject, Socks5UDP, Socks4UDP, HttpUDP, SshUDP
  <2>3. QED BY <2>1, <2>2 DEF UDP, Is
<1>3. ~Open
  BY <1>1 DEF Open
<1>4. StreamTypes
  <2>1. sent = <<>> /\ inbox = <<>> /\ got = <<>>
    BY DEF Init
  <2>2. sent \in Seq(Messages) /\ inbox \in Seq(Messages) /\ got \in Seq(Messages) /\ Len(sent) = 0
    BY <2>1
  <2>3. answered \in 0..Len(sent) /\ early \in Nat
    BY <2>2 DEF Init
  <2>4. /\ granted \in BOOLEAN /\ pending \in BOOLEAN /\ replied \in BOOLEAN /\ ended \in BOOLEAN
    BY DEF Init
  <2>5. QED BY <2>2, <2>3, <2>4 DEF StreamTypes
<1>5. KindInv
  BY <1>1, <1>2 DEF Init, KindInv
<1>6. Greeting
  BY DEF Init, Greeting
<1>7. SentInv
  BY <1>1, <1>3, <1>4, <1>6 DEF SentInv, OnlyData, Init
<1>8. ReplyInv
  BY <1>1, <1>3 DEF ReplyInv, Init, Nothing
<1>9. GotInv
  BY <1>3 DEF GotInv, Init
<1>10. QED BY <1>4, <1>5, <1>7, <1>8, <1>9 DEF StreamInv

-----------------------------------------------------------------------------
(* The dial.                                                               *)

LEMMA ConnectKeepsStream == SocketInv /\ StreamInv /\ Connect => StreamInv'
<1> SUFFICES ASSUME SocketInv, StreamInv, Connect PROVE StreamInv'
  OBVIOUS
<1>1. /\ step = "connect" /\ pending' = Lazy
      /\ UNCHANGED <<opt, sent, inbox, got, answered, early, granted, replied, ended>>
      /\ step' \in {"sendHello", "sendRequest", "fail", "ok"}
      /\ step' = "sendHello" => Is("socks5") \/ Is("ssh")
      /\ step' = "sendRequest" => ~Lazy /\ ~Is("direct")
      /\ step' = "ok" => Lazy \/ Is("direct")
  BY DEF Connect, Socks5Dial, Socks4Dial, HttpDial, SshDial, ShadowDial, RelayDial, DirectDial,
         Dialled, Is, Lazy, connVars, serverVars
<1>2. Nothing /\ answered = 0 /\ got = <<>> /\ sent = <<>> /\ inbox = <<>> /\ ~replied /\ ~pending
  BY <1>1 DEF StreamInv, ReplyInv, KindInv, Nothing, StreamTypes
<1>3. /\ Lazy' = Lazy /\ \A k : Is(k)' = Is(k) /\ UDP' = UDP /\ Streams' = Streams
      /\ Nothing' = Nothing
  BY <1>1 DEF Lazy, Is, UDP, Streams, Nothing
<1>4. StreamTypes'
  BY <1>1 DEF StreamInv, StreamTypes, Lazy, Is
<1>5. KindInv'
  BY <1>1, <1>3 DEF StreamInv, KindInv, Lazy, Is
<1>6. Greeting' /\ sent' = <<>> /\ Len(sent') = 0
  BY <1>1, <1>2 DEF Greeting
<1>7. SentInv'
  <2>1. OnlyData'
    BY <1>6 DEF OnlyData
  <2>2. ~pending' \/ Lazy'
    BY <1>1, <1>3
  <2>3. QED BY <1>1, <1>3, <1>6, <2>1, <2>2, Zenon DEF SentInv, Open
<1>8. ReplyInv'
  BY <1>1, <1>2, <1>3, <1>6 DEF ReplyInv, Open, Asks
<1>9. GotInv'
  <2>1. got' = <<>> /\ inbox' = <<>> /\ early' = 0 /\ Len(got') = 0 /\ Len(inbox') = 0
    BY <1>1, <1>2 DEF Nothing
  <2>2. QED BY <2>1 DEF GotInv, Follows
<1>10. QED BY <1>4, <1>5, <1>7, <1>8, <1>9 DEF StreamInv

LEMMA SendKeepsStream == SocketInv /\ StreamInv /\ Send => StreamInv'
<1> SUFFICES ASSUME SocketInv, StreamInv, Send PROVE StreamInv'
  OBVIOUS
<1> DEFINE m == Message(Sending[step])
<1>1. /\ step \in {"sendHello", "sendAuth", "sendRequest"}
      /\ sent' = Append(sent, m)
      /\ UNCHANGED <<opt, ctrl, inbox, got, answered, early, granted, pending, replied, ended>>
      /\ step = "sendHello" => step' = "readMethod"
      /\ step = "sendAuth" => step' = "readAuth"
      /\ step = "sendRequest" => step' = IF Is("ss") THEN "ok" ELSE "readReply"
      /\ m.what = IF step = "sendHello" THEN "hello" ELSE IF step = "sendAuth" THEN "auth" ELSE "request"
      /\ m \in Messages
  BY DEF Send, Sending, AfterSend, Message, Messages, sockVars, serverVars
<1>2. Nothing /\ answered = Len(sent) /\ got = <<>> /\ Greeting /\ ~Lazy /\ ~Is("direct") /\ ~pending
  BY <1>1 DEF StreamInv, ReplyInv, SentInv, KindInv, Lazy, Is
<1>3. sent \in Seq(Messages)
  BY DEF StreamInv, StreamTypes
<1> HIDE DEF m
<1>4. /\ sent' \in Seq(Messages) /\ Len(sent') = Len(sent) + 1 /\ Len(sent) \in Nat
      /\ \A i \in 1..Len(sent) : sent'[i] = sent[i]
      /\ sent'[Len(sent')] = m
  BY <1>1, <1>3, AppendTo
<1>5. /\ Lazy' = Lazy /\ \A k : Is(k)' = Is(k) /\ UDP' = UDP /\ Streams' = Streams
      /\ Nothing' = Nothing
  BY <1>1 DEF Lazy, Is, UDP, Streams, Nothing
<1>6. StreamTypes'
  BY <1>1, <1>2, <1>4 DEF StreamInv, StreamTypes
<1>7. KindInv'
  BY <1>1, <1>2, <1>5 DEF StreamInv, KindInv, Asks, Is
<1>8. \A i \in 1..Len(sent) : sent'[i].what \in {"hello", "auth"}
  BY <1>2, <1>4 DEF Greeting
<1>9. step # "sendRequest" => Greeting'
  BY <1>1, <1>4, <1>8 DEF Greeting
<1>10. step = "sendRequest" => AskedAt(Len(sent))'
  BY <1>1, <1>4, <1>8 DEF AskedAt
<1>11. SentInv'
  BY <1>1, <1>2, <1>4, <1>5, <1>9, <1>10 DEF SentInv, Open
<1>12. ReplyInv'
  BY <1>1, <1>2, <1>4, <1>5 DEF ReplyInv, Open, Nothing, Asks
<1>13. GotInv'
  <2>1. got' = <<>> /\ inbox' = <<>> /\ early' = 0 /\ Len(got') = 0 /\ Len(inbox') = 0
    BY <1>1, <1>2 DEF Nothing
  <2>2. QED BY <2>1 DEF GotInv, Follows
<1>14. QED BY <1>6, <1>7, <1>11, <1>12, <1>13 DEF StreamInv

LEMMA ReceiveKeepsStream == SocketInv /\ StreamInv /\ Receive => StreamInv'
<1> SUFFICES ASSUME SocketInv, StreamInv, Receive PROVE StreamInv'
  OBVIOUS
<1>1. PICK k \in Taken : inbox' = SubSeq(inbox, k + 1, Len(inbox))
  BY DEF Receive
<1>2. /\ step \in {"readMethod", "readAuth", "readReply"} /\ inbox # <<>>
      /\ step' = AfterAnswer(Head(inbox).what)
      /\ UNCHANGED <<opt, ctrl, sent, got, answered, early, granted, pending, replied, ended>>
  BY DEF Receive, sockVars, connVars, serverVars
<1>3. inbox \in Seq(Messages) /\ Len(inbox) \in Nat /\ Len(inbox) > 0 /\ Head(inbox) = inbox[1]
  BY <1>2, TailOf DEF StreamInv, StreamTypes
<1>4. k \in 1..Len(inbox) /\ (~Is("http") => k = 1)
  BY <1>1, <1>3 DEF Taken
<1>5. /\ inbox' \in Seq(Messages) /\ Len(inbox') = Len(inbox) - k
      /\ \A i \in 1..Len(inbox') : inbox'[i] = inbox[i + k]
  BY <1>1, <1>3, <1>4
<1>6. Asks /\ got = <<>> /\ ~pending /\ ~Lazy
  BY <1>2 DEF StreamInv, ReplyInv, KindInv, Asks, Is, Lazy
<1>7. /\ step' \in {"sendAuth", "sendRequest", "listen", "ok", "fail"}
      /\ step' \in {"sendAuth", "sendRequest"} =>
           step \in {"readMethod", "readAuth"} /\ (Is("socks5") \/ Is("ssh"))
      /\ step' = "sendAuth" => Is("socks5")
      /\ step' \in {"listen", "ok"} => step = "readReply" /\ inbox[1].what = "granted"
      /\ step' = "listen" => UDP /\ Is("socks5")
      /\ step' = "ok" => ~Association
  <2>1. step # "readReply" => Is("socks5") \/ Is("ssh")
    BY <1>2 DEF StreamInv, KindInv
  <2>2. QED
    BY <1>2, <1>3, <2>1 DEF AfterAnswer, Socks5Answer, Socks4Answer, HttpAnswer, SshAnswer, RelayAnswer,
                           Association, Is
<1>8. /\ Lazy' = Lazy /\ \A kind : Is(kind)' = Is(kind) /\ UDP' = UDP /\ Streams' = Streams
      /\ Greeting' = Greeting /\ OnlyData' = OnlyData /\ Settled' = Settled /\ \A r : AskedAt(r)' = AskedAt(r)
  BY <1>2 DEF Lazy, Is, UDP, Streams, Greeting, OnlyData, Settled, AskedAt
<1>9. StreamTypes'
  BY <1>2, <1>5 DEF StreamInv, StreamTypes
<1>10. KindInv'
  BY <1>2, <1>6, <1>7, <1>8 DEF StreamInv, KindInv, Is, Lazy, Asks
<1>11. Len(sent) > 0 /\ Len(sent) \in Nat /\ answered = Len(sent)
  <2>1. CASE step \in {"readMethod", "readAuth"}
    BY <1>2, <1>3, <2>1 DEF StreamInv, ReplyInv, StreamTypes
  <2>2. CASE step = "readReply"
    BY <1>2, <1>3, <1>6, <2>2 DEF StreamInv, ReplyInv, Nothing, StreamTypes, AskedAt, SentInv, Asks
  <2>3. QED BY <1>2, <2>1, <2>2
<1>12. SentInv'
  <2>1. step' \in {"sendAuth", "sendRequest"} => Greeting
    BY <1>2, <1>7 DEF StreamInv, SentInv, Is
  <2>2. step = "readReply" => \E r \in 1..Len(sent) : AskedAt(r)
    BY <1>2, <1>6, <1>11 DEF StreamInv, SentInv, Asks
  <2>3. step' = "ok" => step = "readReply"
    BY <1>7
  <2>4. Greeting \/ \E r \in 1..Len(sent) : AskedAt(r)
    BY <1>6 DEF StreamInv, SentInv, Asks
  <2>5. sent' = sent /\ ~Lazy' /\ ~Is("direct") /\ step' \in {"sendAuth", "sendRequest", "listen", "ok", "fail"}
    BY <1>2, <1>6, <1>7, <1>8 DEF Asks
  <2>6. QED BY <1>8, <2>1, <2>2, <2>3, <2>4, <2>5, Zenon DEF SentInv, Open
<1>13. ReplyInv'
  <2>1. step' \in {"sendAuth", "sendRequest"} => Nothing' /\ answered' = Len(sent') /\ got' = <<>>
    <3>1. step \in {"readMethod", "readAuth"} => early = 0 /\ ~granted /\ got = <<>> /\ Len(inbox) = 1
      BY <1>2, <1>3, <1>11 DEF StreamInv, ReplyInv
    <3>2. Len(inbox) = 1 => inbox' = <<>>
      BY <1>3, <1>4, <1>5
    <3>3. QED BY <1>2, <1>7, <1>11, <3>1, <3>2 DEF Nothing
  <2>2. step' \in {"listen", "ok"} => granted /\ Settled
    <3>1. step = "readReply" => AnswerWaits
      BY <1>2, <1>3, <1>11 DEF StreamInv, ReplyInv, Nothing
    <3>2. Settled
      BY <1>11 DEF Settled
    <3>3. QED BY <1>7, <3>1, <3>2 DEF AnswerWaits
  <2>3. ~Is("ss")
    BY <1>6 DEF Asks
  <2>4. QED BY <1>2, <1>6, <1>7, <1>8, <2>1, <2>2, <2>3 DEF ReplyInv, Open
<1>14. GotInv'
  <2>1. got' = <<>> /\ Len(got') = 0
    BY <1>2, <1>6
  <2>2. ASSUME step' = "ok"
        PROVE  IF Is("http") THEN \A i \in 1..Len(inbox') : inbox'[i].what = "data" ELSE Follows(0)'
    <3>1. AnswerWaits
      BY <1>2, <1>3, <1>7, <1>11, <2>2 DEF StreamInv, ReplyInv, Nothing
    <3>2. Len(inbox) = early + 1 /\ early \in Nat /\ \A j \in 2..Len(inbox) : inbox[j] = Data(0 + j - 1)
      BY <1>6, <3>1 DEF AnswerWaits, Follows, StreamInv, StreamTypes
    <3>3. \A i \in 1..Len(inbox') : i + k \in 2..Len(inbox) /\ inbox'[i] = Data(i + k - 1)
      BY <1>3, <1>4, <1>5, <3>2
    <3>4. CASE Is("http")
      <4>1. \A n : Data(n).what = "data"
        BY DEF Data
      <4>2. QED BY <3>3, <3>4, <4>1
    <3>5. CASE ~Is("http")
      <4>1. k = 1 /\ early' = early
        BY <1>2, <1>4, <3>5
      <4>2. Len(got') + Len(inbox') = early' + 0
        BY <1>5, <2>1, <3>2, <4>1
      <4>3. \A j \in 0 + 1..Len(inbox') : inbox'[j] = Data(Len(got') + j - 0)
        BY <1>3, <1>5, <2>1, <3>3, <4>1
      <4>4. QED BY <3>5, <4>2, <4>3 DEF Follows
    <3>6. QED BY <3>4, <3>5
  <2>3. \A i \in 1..Len(got') : FALSE
    BY <2>1
  <2>4. Open' => step' = "ok"
    BY DEF Open
  <2>5. Is("http")' = Is("http")
    BY <1>8
  <2>6. QED BY <2>2, <2>3, <2>4, <2>5, Zenon DEF GotInv
<1>15. QED BY <1>9, <1>10, <1>12, <1>13, <1>14 DEF StreamInv

-----------------------------------------------------------------------------
(* Using the connection.                                                   *)

LEMMA NextPieceIsData ==
  ASSUME sent \in Seq(Messages)
  PROVE  NextPiece \in Messages /\ NextPiece.what = "data"
<1>1. Len(sent) \in Nat /\ IsFiniteSet(1..Len(sent))
  BY FS_Interval
<1>2. IsFiniteSet(Pieces)
  BY <1>1, FS_Subset DEF Pieces
<1>3. Cardinality(Pieces) \in Nat
  BY <1>2, FS_CardinalityType
<1>4. QED BY <1>3 DEF NextPiece, Data, Messages

LEMMA WriteKeepsStream == SocketInv /\ StreamInv /\ Write => StreamInv'
<1> SUFFICES ASSUME SocketInv, StreamInv, Write PROVE StreamInv'
  OBVIOUS
<1> DEFINE request == Message("request")
           p == NextPiece
<1>1. /\ Open /\ Streams
      /\ UNCHANGED <<opt, step, ctrl, inbox, got, answered, early, granted, replied, ended>>
      /\ IF pending THEN sent' = Append(Append(sent, request), p) ELSE sent' = Append(sent, p)
      /\ pending' = FALSE
  <2>1. step = "ok" /\ ctrl = "open" /\ Streams
        /\ UNCHANGED <<opt, step, ctrl, inbox, got, answered, early, granted, replied, ended>>
    BY DEF Write, sockVars, serverVars
  <2>2. sent \in Seq(Messages) /\ pending \in BOOLEAN /\ (pending => Is("relay"))
    BY DEF StreamInv, StreamTypes, KindInv, Lazy
  <2>3. p \in Messages /\ request \in Messages
    BY <2>2, NextPieceIsData DEF Message, Messages
  <2>4. CASE Is("relay")
    <3>1. sent' = sent \o (IF pending THEN <<request>> ELSE <<>>) \o <<p>> /\ pending' = FALSE
      BY <2>4 DEF Write, RelayWrite
    <3> HIDE DEF p, request
    <3>2. CASE pending
      <4>1. sent' = (sent \o <<request>>) \o <<p>>
        BY <3>1, <3>2
      <4>2. Append(sent, request) \in Seq(Messages) /\ sent \o <<request>> = Append(sent, request)
        BY <2>2, <2>3
      <4>3. Append(sent, request) \o <<p>> = Append(Append(sent, request), p)
        BY <2>3, <4>2
      <4>4. QED BY <2>1, <3>1, <3>2, <4>1, <4>2, <4>3 DEF Open
    <3>3. CASE ~pending
      BY <2>1, <2>2, <2>3, <3>1, <3>3 DEF Open
    <3>4. QED BY <3>2, <3>3
  <2>5. CASE ~Is("relay")
    BY <2>1, <2>2, <2>5 DEF Write, Open
  <2>6. QED BY <2>4, <2>5
<1>2. sent \in Seq(Messages) /\ answered \in 0..Len(sent) /\ Len(sent) \in Nat /\ pending \in BOOLEAN
  BY DEF StreamInv, StreamTypes
<1>3. /\ request \in Messages /\ request.what = "request"
      /\ p \in Messages /\ p.what = "data"
  BY <1>2, NextPieceIsData DEF Message, Messages
<1>4. /\ Lazy' = Lazy /\ \A k : Is(k)' = Is(k) /\ UDP' = UDP /\ Streams' = Streams /\ Asks' = Asks
      /\ Nothing' = Nothing /\ AnswerWaits' = AnswerWaits /\ Open' = Open
      /\ \A k : Follows(k)' = Follows(k)
  BY <1>1 DEF Lazy, Is, UDP, Streams, Nothing, AnswerWaits, Follows, Open, Asks
<1> HIDE DEF request, p
<1>5. CASE pending
  <2>1. Lazy /\ ~Is("direct") /\ sent = <<>> /\ Nothing /\ answered = 0 /\ got = <<>> /\ ~replied
    <3>1. Lazy /\ ~Is("direct")
      BY <1>5 DEF StreamInv, KindInv, Lazy, Is
    <3>2. QED BY <1>1, <1>5, <3>1 DEF StreamInv, SentInv, ReplyInv
  <2>2. sent' \in Seq(Messages) /\ Len(sent') = 2 /\ sent'[1] = request /\ sent'[2] = p
    <3>1. <<>> \in Seq(Messages) /\ sent' = Append(Append(<<>>, request), p)
      BY <1>1, <1>5, <2>1
    <3> DEFINE one == Append(<<>>, request)
    <3>2. one \in Seq(Messages) /\ Len(one) = 1 /\ one[1] = request
      BY <1>3, <3>1
    <3> HIDE DEF one
    <3>3. sent' = Append(one, p)
      BY <3>1 DEF one
    <3>4. /\ sent' \in Seq(Messages) /\ Len(sent') = Len(one) + 1
          /\ \A i \in 1..Len(one) : sent'[i] = one[i]
          /\ sent'[Len(one) + 1] = p
      <4>1. one \in Seq(Messages) /\ p \in Messages
        BY <1>3, <3>2
      <4>2. /\ Append(one, p) \in Seq(Messages) /\ Len(Append(one, p)) = Len(one) + 1
            /\ \A i \in 1..Len(one) : Append(one, p)[i] = one[i]
            /\ Append(one, p)[Len(one) + 1] = p
        BY <4>1, AppendTo
      <4>3. QED BY <3>3, <4>2
    <3>5. QED BY <3>2, <3>4
  <2>3. AskedAt(1)'
    BY <1>3, <2>2 DEF AskedAt
  <2>4. StreamTypes'
    <3>1. answered' \in 0..Len(sent') /\ pending' \in BOOLEAN
      <4>1. answered' = 0 /\ Len(sent') = 2 /\ pending' = FALSE
        BY <1>1, <2>1, <2>2
      <4>2. answered' \in 0..Len(sent')
        BY <4>1
      <4>3. pending' \in BOOLEAN
        BY <1>1, Zenon
      <4>4. QED BY <4>2, <4>3
    <3>2. QED BY <1>1, <2>2, <3>1 DEF StreamInv, StreamTypes
  <2>5. KindInv'
    BY <1>1, <1>4, Zenon DEF StreamInv, KindInv, Open
  <2>6. SentInv'
    BY <1>1, <1>4, <2>1, <2>2, <2>3 DEF SentInv, Open
  <2>7. ReplyInv'
    BY <1>1, <1>4, <2>1 DEF ReplyInv, Open, Asks
  <2>8. GotInv'
    <3>1. ~Ready'
      BY <1>1, <1>4, <2>1 DEF Ready
    <3>2. got' = <<>> /\ Len(got') = 0
      BY <1>1, <2>1
    <3>3. QED BY <3>1, <3>2 DEF GotInv
  <2>9. QED BY <2>4, <2>5, <2>6, <2>7, <2>8 DEF StreamInv
<1>6. CASE ~pending
  <2>1. /\ sent' \in Seq(Messages) /\ Len(sent') = Len(sent) + 1 /\ pending' = pending
        /\ \A i \in 1..Len(sent) : sent'[i] = sent[i]
        /\ sent'[Len(sent) + 1] = p
    <3>1. sent' = Append(sent, p) /\ pending' = pending
      BY <1>1, <1>2, <1>6
    <3>2. QED BY <1>2, <1>3, <3>1, AppendTo
  <2>2. Settled => Settled'
    <3>1. ASSUME Settled, NEW i \in answered' + 1..Len(sent') PROVE sent'[i].what = "data"
      <4>1. i = Len(sent) + 1 \/ i \in answered + 1..Len(sent)
        BY <1>1, <1>2, <2>1
      <4>2. QED BY <1>2, <1>3, <2>1, <3>1, <4>1 DEF Settled
    <3>2. QED BY <3>1 DEF Settled
  <2>3. \A r \in 1..Len(sent) : AskedAt(r) => AskedAt(r)' /\ r \in 1..Len(sent')
    <3>1. ASSUME NEW r \in 1..Len(sent), AskedAt(r) PROVE AskedAt(r)' /\ r \in 1..Len(sent')
      <4>1. \A i \in 1..r : i \in 1..Len(sent)
        BY <1>2
      <4>2. \A i \in r + 1..Len(sent') : i = Len(sent) + 1 \/ i \in r + 1..Len(sent)
        BY <1>2, <2>1
      <4>3. QED BY <1>2, <1>3, <2>1, <3>1, <4>1, <4>2 DEF AskedAt
    <3>2. QED BY <3>1
  <2>4. Lazy => AskedAt(1) /\ 1 \in 1..Len(sent)
    BY <1>1, <1>6 DEF StreamInv, SentInv, AskedAt, Lazy, Is
  <2>5. StreamTypes'
    BY <1>1, <1>2, <2>1 DEF StreamInv, StreamTypes
  <2>6. KindInv'
    BY <1>1, <1>4, Zenon DEF StreamInv, KindInv, Open
  <2>7. SentInv'
    <3>1. ~Is("direct") /\ ~Lazy => \E r \in 1..Len(sent) : AskedAt(r)
      BY <1>1 DEF StreamInv, SentInv
    <3>2. ~Is("direct") => \E r \in 1..Len(sent') : AskedAt(r)'
      BY <2>3, <2>4, <3>1
    <3>3. Lazy' => AskedAt(1)'
      BY <1>4, <2>3, <2>4
    <3>4. step' = "ok" /\ ~pending' /\ Is("direct")' = Is("direct")
      BY <1>1, <1>4 DEF Open
    <3>5. Is("direct") => OnlyData'
      <4>1. Is("direct") => OnlyData
        BY DEF StreamInv, SentInv
      <4>2. \A i \in 1..Len(sent') : i \in 1..Len(sent) \/ i = Len(sent) + 1
        BY <1>2, <2>1
      <4>3. QED BY <1>3, <2>1, <4>1, <4>2 DEF OnlyData
    <3>6. QED BY <3>2, <3>3, <3>4, <3>5 DEF SentInv
  <2>8. ReplyInv'
    <3>1. Asks => granted /\ Settled
      BY <1>1 DEF StreamInv, ReplyInv, Open
    <3>2. Lazy =>
            IF replied THEN Settled
            ELSE got = <<>> /\ ((answered = 0 /\ Nothing) \/ (Settled /\ answered > 0 /\ AnswerWaits))
      BY <1>1, <1>6 DEF StreamInv, ReplyInv
    <3>3. step' = "ok" /\ ~pending'
      BY <1>1 DEF Open
    <3>4. QED BY <1>1, <1>4, <2>2, <3>1, <3>2, <3>3 DEF ReplyInv
  <2>9. GotInv'
    <3>1. Ready' = Ready
      BY <1>1, <1>4 DEF Ready
    <3>2. QED BY <1>1, <1>4, <3>1 DEF StreamInv, GotInv
  <2>10. QED BY <2>5, <2>6, <2>7, <2>8, <2>9 DEF StreamInv
<1>7. QED BY <1>2, <1>5, <1>6

LEMMA ReadResponseKeepsStream == SocketInv /\ StreamInv /\ ReadResponse => StreamInv'
<1> SUFFICES ASSUME SocketInv, StreamInv, ReadResponse PROVE StreamInv'
  OBVIOUS
<1>1. /\ Open /\ Lazy /\ ~replied /\ inbox # <<>> /\ inbox' = Tail(inbox) /\ replied' = TRUE
      /\ ended' = (Head(inbox).what # "granted")
      /\ UNCHANGED <<opt, step, ctrl, sent, got, answered, early, granted, pending>>
  BY DEF ReadResponse, Open, sockVars, serverVars
<1>2. inbox \in Seq(Messages) /\ got \in Seq(Messages) /\ early \in Nat
  BY DEF StreamInv, StreamTypes
<1>3. /\ inbox' \in Seq(Messages) /\ Len(inbox') = Len(inbox) - 1 /\ Len(inbox) \in Nat /\ Len(inbox) > 0
      /\ \A i \in 1..Len(inbox) - 1 : inbox'[i] = inbox[i + 1]
      /\ Head(inbox) = inbox[1]
  BY <1>1, <1>2, TailOf
<1>4. ~pending /\ Settled /\ AnswerWaits /\ got = <<>>
  BY <1>1 DEF StreamInv, ReplyInv, Nothing
<1>5. /\ Lazy' = Lazy /\ \A k : Is(k)' = Is(k) /\ UDP' = UDP /\ Streams' = Streams /\ Asks' = Asks
      /\ Settled' = Settled /\ Greeting' = Greeting /\ OnlyData' = OnlyData /\ Open' = Open
      /\ \A r : AskedAt(r)' = AskedAt(r)
  BY <1>1 DEF Lazy, Is, UDP, Streams, Settled, Greeting, OnlyData, AskedAt, Open, Asks
<1>6. StreamTypes'
  BY <1>1, <1>3 DEF StreamInv, StreamTypes
<1>7. KindInv'
  BY <1>1, <1>5 DEF StreamInv, KindInv
<1>8. SentInv'
  <2>1. SentInv
    BY DEF StreamInv
  <2>2. QED BY <1>1, <1>5, <2>1, Zenon DEF SentInv
<1>9. ReplyInv'
  <2>1. step' = "ok" /\ ~Asks' /\ Lazy' /\ ~pending' /\ replied'
    BY <1>1, <1>4, <1>5 DEF Open, Asks
  <2>2. QED BY <1>4, <1>5, <2>1 DEF ReplyInv
<1>10. GotInv'
  <2>1. ~Is("http") /\ ~Is("http")' /\ got' = <<>> /\ Len(got') = 0
    BY <1>1, <1>4, <1>5 DEF Lazy, Is
  <2>2. Len(inbox) = early + 1 /\ \A j \in 2..Len(inbox) : inbox[j] = Data(0 + j - 1)
    BY <1>4 DEF AnswerWaits, Follows
  <2>3. Len(got') + Len(inbox') = early' + 0
    BY <1>1, <1>2, <1>3, <2>1, <2>2
  <2>4. \A j \in 0 + 1..Len(inbox') : inbox'[j] = Data(Len(got') + j - 0)
    <3>1. ASSUME NEW j \in 1..Len(inbox') PROVE inbox'[j] = Data(j)
      <4>1. j \in 1..Len(inbox) - 1 /\ j + 1 \in 2..Len(inbox) /\ 0 + (j + 1) - 1 = j
        BY <1>3
      <4>2. QED BY <1>3, <2>2, <4>1
    <3>2. QED BY <1>3, <2>1, <3>1
  <2>5. Follows(0)'
    BY <2>3, <2>4 DEF Follows
  <2>6. \A i \in 1..Len(got') : FALSE
    BY <2>1
  <2>7. QED BY <2>1, <2>5, <2>6, Zenon DEF GotInv
<1>11. QED BY <1>6, <1>7, <1>8, <1>9, <1>10 DEF StreamInv

LEMMA ReadKeepsStream == SocketInv /\ StreamInv /\ Read => StreamInv'
<1> SUFFICES ASSUME SocketInv, StreamInv, Read PROVE StreamInv'
  OBVIOUS
<1>1. /\ Open /\ Streams /\ Ready /\ ~ended /\ inbox # <<>> /\ inbox' = Tail(inbox)
      /\ got' = Append(got, Head(inbox))
      /\ UNCHANGED <<opt, step, ctrl, sent, replied, ended, answered, early, granted, pending>>
  BY DEF Read, Open, sockVars, serverVars
<1>2. inbox \in Seq(Messages) /\ got \in Seq(Messages) /\ early \in Nat
  BY DEF StreamInv, StreamTypes
<1>3. /\ inbox' \in Seq(Messages) /\ Len(inbox') = Len(inbox) - 1 /\ Len(inbox) \in Nat /\ Len(inbox) > 0
      /\ \A i \in 1..Len(inbox) - 1 : inbox'[i] = inbox[i + 1]
      /\ Head(inbox) = inbox[1] /\ inbox[1] \in Messages
  BY <1>1, <1>2, TailOf
<1>4. /\ got' \in Seq(Messages) /\ Len(got') = Len(got) + 1 /\ Len(got) \in Nat
      /\ \A i \in 1..Len(got) : got'[i] = got[i]
      /\ got'[Len(got) + 1] = inbox[1]
  BY <1>1, <1>2, <1>3, AppendTo
<1>5. Lazy => ~pending /\ replied
  BY <1>1 DEF StreamInv, ReplyInv, Nothing, Ready
<1>6. /\ Lazy' = Lazy /\ \A k : Is(k)' = Is(k) /\ UDP' = UDP /\ Streams' = Streams /\ Asks' = Asks
      /\ Settled' = Settled /\ Greeting' = Greeting /\ OnlyData' = OnlyData /\ Open' = Open
      /\ \A r : AskedAt(r)' = AskedAt(r)
      /\ Ready' = Ready
  BY <1>1 DEF Lazy, Is, UDP, Streams, Settled, Greeting, OnlyData, AskedAt, Open, Asks, Ready
<1>7. StreamTypes'
  BY <1>1, <1>3, <1>4 DEF StreamInv, StreamTypes
<1>8. KindInv'
  BY <1>1, <1>6 DEF StreamInv, KindInv
<1>9. SentInv'
  <2>1. SentInv
    BY DEF StreamInv
  <2>2. QED BY <1>1, <1>6, <2>1, Zenon DEF SentInv
<1>10. ReplyInv'
  <2>1. step' = "ok"
    BY <1>1 DEF Open
  <2>2. (Asks => granted /\ Settled) /\ (Lazy => Settled)
    BY <1>1, <1>5 DEF StreamInv, ReplyInv, Open
  <2>3. QED BY <1>1, <1>5, <1>6, <2>1, <2>2 DEF ReplyInv
<1>11. GotInv'
  <2>1. CASE Is("http")
    <3>1. /\ \A i \in 1..Len(inbox) : inbox[i].what = "data"
          /\ \A i \in 1..Len(got) : got[i].what = "data"
      BY <1>1, <2>1 DEF StreamInv, GotInv
    <3>2. \A i \in 1..Len(inbox') : inbox'[i].what = "data"
      <4>1. \A i \in 1..Len(inbox') : i \in 1..Len(inbox) - 1 /\ i + 1 \in 1..Len(inbox)
        BY <1>3
      <4>2. QED BY <1>3, <3>1, <4>1
    <3>3. \A i \in 1..Len(got') : got'[i].what = "data"
      <4>1. \A i \in 1..Len(got') : i \in 1..Len(got) \/ i = Len(got) + 1
        BY <1>4
      <4>2. 1 \in 1..Len(inbox)
        BY <1>3
      <4>3. QED BY <1>4, <3>1, <4>1, <4>2
    <3>4. QED BY <1>6, <2>1, <3>2, <3>3 DEF GotInv
  <2>2. CASE ~Is("http")
    <3>1. /\ Len(got) + Len(inbox) = early + 0
          /\ \A j \in 1..Len(inbox) : inbox[j] = Data(Len(got) + j)
          /\ \A i \in 1..Len(got) : got[i] = Data(i)
      BY <1>1, <1>3, <1>4, <2>2 DEF StreamInv, GotInv, Follows
    <3>2. ASSUME NEW i \in 1..Len(got') PROVE got'[i] = Data(i)
      <4>1. i \in 1..Len(got) \/ i = Len(got) + 1
        BY <1>4
      <4>2. 1 \in 1..Len(inbox)
        BY <1>3
      <4>3. QED BY <1>4, <3>1, <4>1, <4>2
    <3>3. Len(got') + Len(inbox') = early' + 0
      <4>1. /\ early' = early /\ early \in Nat /\ Len(got) \in Nat /\ Len(inbox) \in Nat
            /\ Len(got') = Len(got) + 1 /\ Len(inbox') = Len(inbox) - 1
            /\ Len(got) + Len(inbox) = early
        BY <1>1, <1>2, <1>3, <1>4, <3>1
      <4>2. QED BY ONLY <4>1
    <3>4. ASSUME NEW j \in 0 + 1..Len(inbox') PROVE inbox'[j] = Data(Len(got') + j - 0)
      <4>1. j \in 1..Len(inbox) - 1 /\ j + 1 \in 1..Len(inbox) /\ Len(got) + (j + 1) = Len(got') + j - 0
        BY <1>3, <1>4
      <4>2. QED BY <1>3, <3>1, <4>1
    <3>5. Follows(0)'
      BY <3>3, <3>4 DEF Follows
    <3>6. QED BY <1>6, <2>2, <3>2, <3>5 DEF GotInv
  <2>3. QED BY <2>1, <2>2
<1>12. QED BY <1>7, <1>8, <1>9, <1>10, <1>11 DEF StreamInv

-----------------------------------------------------------------------------
(* The server.                                                             *)

LEMMA AnswerKeepsStream == SocketInv /\ StreamInv /\ Answer => StreamInv'
<1> SUFFICES ASSUME SocketInv, StreamInv, Answer PROVE StreamInv'
  OBVIOUS
<1>1. PICK i \in 1..Len(sent), a \in {"noAuth", "userPass", "refused", "granted"} :
        /\ Unanswered(i) /\ answered' = i
        /\ inbox' = Append(inbox, Message(a))
        /\ granted' = (a = "granted" /\ sent[i].what = "request")
  BY DEF Answer, Answers
<1> DEFINE m == Message(a)
<1>2. /\ ctrl = "open" /\ ~Is("ss")
      /\ UNCHANGED <<opt, step, ctrl, sent, got, early, replied, ended, pending>>
  BY DEF Answer, Owes, sockVars, connVars
<1>3. m \in Messages /\ m.what = a
  BY DEF Message, Messages
<1>4. /\ sent \in Seq(Messages) /\ inbox \in Seq(Messages) /\ got \in Seq(Messages) /\ early \in Nat
      /\ answered \in 0..Len(sent) /\ Len(sent) \in Nat
      /\ i \in answered + 1..Len(sent) /\ sent[i].what # "data" /\ answered' = i
  BY <1>1 DEF StreamInv, StreamTypes, Unanswered
<1>5. ~Settled
  BY <1>4 DEF Settled
<1> HIDE DEF m
<1>6. /\ inbox' \in Seq(Messages) /\ Len(inbox') = Len(inbox) + 1 /\ Len(inbox) \in Nat
      /\ \A j \in 1..Len(inbox) : inbox'[j] = inbox[j]
      /\ inbox'[Len(inbox) + 1] = m
  <2>1. inbox' = Append(inbox, m)
    BY <1>1 DEF m
  <2>2. QED BY <1>3, <1>4, <2>1, AppendTo
<1>7. /\ Lazy' = Lazy /\ \A k : Is(k)' = Is(k) /\ UDP' = UDP /\ Streams' = Streams /\ Asks' = Asks
      /\ Greeting' = Greeting /\ OnlyData' = OnlyData /\ Open' = Open /\ \A r : AskedAt(r)' = AskedAt(r)
      /\ Ready' = Ready
  BY <1>2 DEF Lazy, Is, UDP, Streams, Greeting, OnlyData, AskedAt, Open, Asks, Ready
<1>8. granted' \in BOOLEAN
  BY <1>1, Zenon
<1>9. StreamTypes'
  BY <1>2, <1>4, <1>6, <1>8 DEF StreamInv, StreamTypes
<1>10. KindInv'
  BY <1>2, <1>7 DEF StreamInv, KindInv
<1>11. SentInv'
  <2>1. SentInv
    BY DEF StreamInv
  <2>2. step' = step /\ pending' = pending /\ sent' = sent
    BY <1>2
  <2>3. QED BY <1>7, <2>1, <2>2 DEF SentInv
(* The steps of the dial at which an answer is owed.                       *)
<1>12. step \notin {"connect", "sendHello", "sendAuth", "sendRequest"}
  BY <1>4 DEF StreamInv, ReplyInv
<1>13. step \in {"readMethod", "readAuth"} =>
         /\ got = <<>> /\ early = 0 /\ Len(sent) > 0
         /\ answered' = Len(sent) /\ Len(inbox') = 1 /\ ~granted'
  <2>1. ASSUME step \in {"readMethod", "readAuth"}
        PROVE  got = <<>> /\ early = 0 /\ Len(sent) > 0 /\ answered = Len(sent) - 1 /\ inbox = <<>>
    BY <1>4, <2>1 DEF StreamInv, ReplyInv
  <2>2. ASSUME step \in {"readMethod", "readAuth"} PROVE sent[i].what # "request"
    <3>1. Greeting
      BY <2>2 DEF StreamInv, SentInv, KindInv, Is
    <3>2. QED BY <1>1, <3>1 DEF Greeting
  <2>3. step \in {"readMethod", "readAuth"} => ~granted'
    BY <1>1, <2>2
  <2>4. QED BY <1>4, <1>6, <2>1, <2>3
<1>14. ASSUME got = <<>>, Nothing, sent[i].what = "request"
       PROVE  AnswerWaits'
  <2>1. Len(inbox) = 0 /\ Len(got') = 0 /\ early' = 0 /\ Len(inbox') = 1 /\ inbox'[1] = m
    BY <1>2, <1>6, <1>14 DEF Nothing
  <2>2. Follows(1)'
    BY <2>1 DEF Follows
  <2>3. (inbox'[1].what = "granted") <=> granted'
    BY <1>1, <1>3, <1>14, <2>1
  <2>4. QED BY <2>1, <2>2, <2>3 DEF AnswerWaits
<1>15. step = "readReply" => got = <<>> /\ answered' = Len(sent) /\ AnswerWaits'
  <2> SUFFICES ASSUME step = "readReply" PROVE got = <<>> /\ answered' = Len(sent) /\ AnswerWaits'
    OBVIOUS
  <2>1. got = <<>> /\ answered = Len(sent) - 1 /\ Nothing
    BY <1>4 DEF StreamInv, ReplyInv
  <2>2. i = Len(sent)
    BY <1>4, <2>1
  <2>3. sent[i].what = "request"
    BY <2>2 DEF StreamInv, SentInv, KindInv, Asks, AskedAt
  <2>4. QED BY <1>4, <1>14, <2>1, <2>2, <2>3
<1>16. ~(step \in {"listen", "resolve", "ok"} /\ Asks)
  BY <1>2, <1>5 DEF StreamInv, ReplyInv
<1>17. Open /\ Lazy => ~pending /\ ~replied /\ got = <<>> /\ Settled' /\ answered' > 0 /\ AnswerWaits'
  <2> SUFFICES ASSUME Open, Lazy
               PROVE  ~pending /\ ~replied /\ got = <<>> /\ Settled' /\ answered' > 0 /\ AnswerWaits'
    OBVIOUS
  <2>1. ~Is("direct")
    BY DEF Lazy, Is
  <2>2. IF pending THEN sent = <<>> ELSE AskedAt(1)
    BY <2>1 DEF StreamInv, SentInv
  <2>3. ~pending
    BY <1>4, <2>2
  <2>4. ~replied /\ got = <<>> /\ answered = 0 /\ Nothing
    BY <1>5, <2>3 DEF StreamInv, ReplyInv
  <2>5. i = 1 /\ sent[i].what = "request"
    BY <1>4, <2>2, <2>3 DEF AskedAt
  <2>6. Settled'
    BY <1>2, <1>4, <2>2, <2>3, <2>5 DEF AskedAt, Settled
  <2>7. QED BY <1>4, <1>14, <2>3, <2>4, <2>5, <2>6
<1>18. ReplyInv'
  <2>1. step' = step /\ ctrl' = ctrl /\ sent' = sent /\ got' = got /\ early' = early
        /\ pending' = pending /\ replied' = replied
    BY <1>2
  <2>2. QED BY <1>7, <1>12, <1>13, <1>15, <1>16, <1>17, <2>1 DEF ReplyInv
<1>19. GotInv'
  <2>1. Open /\ Streams /\ Ready => Is("direct")
    BY <1>2, <1>16, <1>17 DEF Open, Ready, Asks
  <2>2. ~Is("direct")
    BY <1>4 DEF StreamInv, SentInv, OnlyData
  <2>3. QED BY <1>2, <1>7, <2>1, <2>2 DEF StreamInv, GotInv
<1>20. QED BY <1>9, <1>10, <1>11, <1>18, <1>19 DEF StreamInv

LEMMA SpeaksKeepsStream == SocketInv /\ StreamInv /\ Speaks => StreamInv'
<1> SUFFICES ASSUME SocketInv, StreamInv, Speaks PROVE StreamInv'
  OBVIOUS
<1> DEFINE p == Data(early + 1)
<1>1. /\ ctrl = "open" /\ (granted \/ Is("direct") \/ (Is("ss") /\ sent # <<>>))
      /\ early' = early + 1 /\ inbox' = Append(inbox, p)
      /\ UNCHANGED <<opt, step, ctrl, sent, got, answered, granted, replied, ended, pending>>
  BY DEF Speaks, sockVars, connVars
<1>2. inbox \in Seq(Messages) /\ got \in Seq(Messages) /\ early \in Nat /\ sent \in Seq(Messages)
  BY DEF StreamInv, StreamTypes
<1>3. p \in Messages /\ p.what = "data"
  BY <1>2 DEF Data, Messages
<1> HIDE DEF p
<1>4. /\ inbox' \in Seq(Messages) /\ Len(inbox') = Len(inbox) + 1 /\ Len(inbox) \in Nat
      /\ \A j \in 1..Len(inbox) : inbox'[j] = inbox[j]
      /\ inbox'[Len(inbox) + 1] = p
  BY <1>1, <1>2, <1>3, AppendTo
<1>5. /\ Lazy' = Lazy /\ \A k : Is(k)' = Is(k) /\ UDP' = UDP /\ Streams' = Streams /\ Asks' = Asks
      /\ Greeting' = Greeting /\ OnlyData' = OnlyData /\ Open' = Open /\ \A r : AskedAt(r)' = AskedAt(r)
      /\ Settled' = Settled /\ Ready' = Ready
  BY <1>1 DEF Lazy, Is, UDP, Streams, Greeting, OnlyData, AskedAt, Open, Asks, Ready, Settled
<1>6. ASSUME NEW k \in {0, 1}, Follows(k) PROVE Follows(k)'
  <2>1. Len(got) \in Nat /\ Len(got) + Len(inbox) = early + k /\ got' = got
    BY <1>1, <1>2, <1>6 DEF Follows
  <2>2. /\ Len(got) \in Nat /\ Len(got') = Len(got) /\ Len(inbox') = Len(inbox) + 1 /\ early' = early + 1
        /\ Len(got) + Len(inbox) = early + k /\ Len(inbox) \in Nat /\ early \in Nat /\ k \in Nat
    BY <1>1, <1>2, <1>4, <2>1
  <2>3. Len(got') + Len(inbox') = early' + k
    BY ONLY <2>2
  <2>4. ASSUME NEW j \in k + 1..Len(inbox') PROVE inbox'[j] = Data(Len(got') + j - k)
    <3>1. CASE j \in 1..Len(inbox)
      <4>1. j \in k + 1..Len(inbox) /\ inbox'[j] = inbox[j]
        BY <1>4, <3>1
      <4>2. QED BY <1>6, <2>1, <4>1 DEF Follows
    <3>2. CASE j = Len(inbox) + 1
      <4>1. Len(got') + j - k = early + 1
        BY ONLY <2>2, <3>2
      <4>2. QED BY <1>4, <3>2, <4>1 DEF p
    <3>3. QED BY <1>4, <3>1, <3>2
  <2>5. QED BY <2>3, <2>4 DEF Follows
<1>7. granted /\ AnswerWaits => AnswerWaits'
  <2> SUFFICES ASSUME granted, AnswerWaits PROVE AnswerWaits'
    OBVIOUS
  <2>1. Follows(1)'
    BY <1>6 DEF AnswerWaits
  <2>2. inbox'[1] = inbox[1] /\ Len(inbox') > 0 /\ granted' = granted
    BY <1>1, <1>4 DEF AnswerWaits
  <2>3. QED BY <2>1, <2>2 DEF AnswerWaits
<1>8. StreamTypes'
  BY <1>1, <1>2, <1>4 DEF StreamInv, StreamTypes
<1>9. KindInv'
  BY <1>1, <1>5 DEF StreamInv, KindInv
<1>10. SentInv'
  <2>1. SentInv
    BY DEF StreamInv
  <2>2. step' = step /\ pending' = pending /\ sent' = sent
    BY <1>1
  <2>3. QED BY <1>5, <2>1, <2>2 DEF SentInv
<1>11. ReplyInv'
  <2>1. step # "connect"
    BY <1>1 DEF SocketInv
  <2>2. step \notin {"sendHello", "readMethod", "sendAuth", "readAuth"}
    BY <1>1 DEF StreamInv, ReplyInv, KindInv, Nothing, Is
  <2>3. step # "sendRequest"
    <3>1. ASSUME step = "sendRequest" PROVE FALSE
      <4>1. ~granted /\ answered = Len(sent) /\ ~Is("direct")
        BY <3>1 DEF StreamInv, ReplyInv, KindInv, Nothing
      <4>2. Is("ss") /\ sent # <<>>
        BY <1>1, <4>1
      <4>3. QED BY <3>1, <4>2 DEF StreamInv, ReplyInv
    <3>2. QED BY <3>1
  <2>4. step = "readReply" => got' = <<>> /\ answered' = Len(sent') /\ AnswerWaits'
    <3>1. step = "readReply" => granted
      BY <1>1 DEF StreamInv, KindInv, Asks
    <3>2. step = "readReply" => got = <<>> /\ answered = Len(sent) /\ AnswerWaits
      BY <3>1 DEF StreamInv, ReplyInv, Nothing
    <3>3. QED BY <1>1, <1>7, <3>1, <3>2
  <2>5. Open /\ Lazy =>
          /\ ~pending
          /\ IF replied THEN Settled ELSE got' = <<>> /\ Settled /\ answered > 0 /\ AnswerWaits'
    <3> SUFFICES ASSUME Open, Lazy
                 PROVE  /\ ~pending
                        /\ IF replied THEN Settled ELSE got' = <<>> /\ Settled /\ answered > 0 /\ AnswerWaits'
      OBVIOUS
    <3>1. granted
      BY <1>1 DEF Lazy, Is
    <3>2. QED BY <1>1, <1>7, <3>1 DEF StreamInv, ReplyInv, Nothing
  <2>6. step \in {"listen", "resolve", "ok"} /\ Asks => granted /\ Settled
    BY <1>1 DEF StreamInv, ReplyInv
  <2>7. step' = step /\ ctrl' = ctrl /\ granted' = granted /\ pending' = pending /\ replied' = replied
        /\ answered' = answered
    BY <1>1
  <2>8. QED BY <1>5, <2>1, <2>2, <2>3, <2>4, <2>5, <2>6, <2>7 DEF ReplyInv
<1>12. GotInv'
  <2>1. Follows(0) => Follows(0)'
    BY <1>6
  <2>2. (\A i \in 1..Len(inbox) : inbox[i].what = "data") => \A i \in 1..Len(inbox') : inbox'[i].what = "data"
    BY <1>3, <1>4
  <2>3. got' = got /\ ended' = ended
    BY <1>1
  <2>4. GotInv
    BY DEF StreamInv
  <2>5. QED BY <1>5, <2>1, <2>2, <2>3, <2>4 DEF GotInv
<1>13. QED BY <1>8, <1>9, <1>10, <1>11, <1>12 DEF StreamInv

(* What a server sends on an association's control connection is thrown    *)
(* away by its goroutine; nobody reads it as a stream.                     *)
LEMMA DrainReadsKeepsStream == SocketInv /\ StreamInv /\ DrainReads => StreamInv'
<1> SUFFICES ASSUME SocketInv, StreamInv, DrainReads PROVE StreamInv'
  OBVIOUS
<1>1. /\ drain = "copy" /\ inbox' = <<>>
      /\ UNCHANGED <<opt, step, ctrl, sent, got, answered, early, granted, replied, ended, pending>>
  BY DEF DrainReads, sockVars, connVars, serverVars
<1>2. ~Streams /\ ~Lazy /\ step \in {"resolve", "fail", "ok", "failed", "closing", "closed"}
  BY <1>1 DEF SocketInv, Association, Streams, Lazy, Is
<1>3. /\ Lazy' = Lazy /\ \A k : Is(k)' = Is(k) /\ UDP' = UDP /\ Streams' = Streams /\ Asks' = Asks
      /\ Greeting' = Greeting /\ OnlyData' = OnlyData /\ Open' = Open /\ \A r : AskedAt(r)' = AskedAt(r)
      /\ Settled' = Settled /\ step' = step /\ ctrl' = ctrl /\ granted' = granted
  BY <1>1 DEF Lazy, Is, UDP, Streams, Greeting, OnlyData, AskedAt, Open, Asks, Settled
<1>4. StreamTypes'
  <2>1. inbox' \in Seq(Messages)
    BY <1>1
  <2>2. QED BY <1>1, <2>1 DEF StreamInv, StreamTypes
<1>5. KindInv'
  BY <1>1, <1>3 DEF StreamInv, KindInv
<1>6. SentInv'
  <2>1. SentInv
    BY DEF StreamInv
  <2>2. step' = step /\ pending' = pending /\ sent' = sent
    BY <1>1
  <2>3. QED BY <1>3, <2>1, <2>2 DEF SentInv
<1>7. ReplyInv'
  BY <1>2, <1>3 DEF StreamInv, ReplyInv
<1>8. GotInv'
  <2>1. got' = got
    BY <1>1
  <2>2. QED BY <1>2, <1>3, <2>1 DEF StreamInv, GotInv
<1>9. QED BY <1>4, <1>5, <1>6, <1>7, <1>8 DEF StreamInv

LEMMA StreamInvStep == SocketInv /\ StreamInv /\ [Next]_vars => StreamInv'
<1> SUFFICES ASSUME SocketInv, StreamInv, [Next]_vars PROVE StreamInv'
  OBVIOUS
<1>1. CASE \/ ConnectFails \/ SendFails \/ ReceiveEOF \/ Listen \/ ListenFails \/ Resolve \/ ResolveFails
           \/ Fail \/ Close \/ ClosePacket
  BY <1>1, QuietStep
     DEF ConnectFails, SendFails, ReceiveEOF, Listen, ListenFails, Resolve, ResolveFails, Fail, Close,
         ClosePacket, streamVars, sockVars, connVars, serverVars
<1>2. CASE DrainEnds \/ DrainClosesCtrl \/ DrainClosesPacket \/ ReadFrom \/ Leaves \/ Arrives
  BY <1>2, QuietStep
     DEF DrainEnds, DrainClosesCtrl, DrainClosesPacket, ReadFrom, Leaves, Arrives, streamVars, sockVars,
         connVars, serverVars
<1>3. CASE UNCHANGED vars
  BY <1>3, QuietStep DEF vars, streamVars, sockVars, connVars, serverVars
<1>4. QED
  BY <1>1, <1>2, <1>3, ConnectKeepsStream, SendKeepsStream, ReceiveKeepsStream, WriteKeepsStream,
     ReadResponseKeepsStream, ReadKeepsStream, AnswerKeepsStream, SpeaksKeepsStream,
     DrainReadsKeepsStream
     DEF Next, Dial, Drain, Use, Server

(* Whatever the server answers, and however early it speaks: a connection  *)
(* that was dialled has been granted, the request goes once and before any *)
(* data, and the reader is given the target's data and no answer           *)
(* (socks5.go:49-79, relay.go:140-184, http.go:60-96).                     *)
THEOREM StreamsStayClean == Spec => []StreamsAreClean
<1>1. SocketInv /\ StreamInv => StreamsAreClean
  <2> SUFFICES ASSUME SocketInv, StreamInv PROVE StreamsAreClean
    OBVIOUS
  <2>1. step = "ok" /\ ctrl = "open" /\ ~Lazy /\ ~Is("direct") /\ ~Is("ss") => granted
    BY DEF StreamInv, ReplyInv, Asks
  <2>2. Pieces # {} /\ ~Is("direct") =>
          \E i \in 1..Len(sent) :
            /\ sent[i].what = "request"
            /\ \A j \in 1..Len(sent) : j # i => sent[j].what # "request"
            /\ \A j \in 1..i : sent[j].what # "data"
    <3> SUFFICES ASSUME NEW d \in 1..Len(sent), sent[d].what = "data", ~Is("direct")
                 PROVE  \E i \in 1..Len(sent) :
                          /\ sent[i].what = "request"
                          /\ \A j \in 1..Len(sent) : j # i => sent[j].what # "request"
                          /\ \A j \in 1..i : sent[j].what # "data"
      BY DEF Pieces
    <3>1. PICK r \in 1..Len(sent) : AskedAt(r)
      BY DEF StreamInv, SentInv, Greeting
    <3>2. Len(sent) \in Nat
      BY DEF StreamInv, StreamTypes
    <3>3. \A j \in 1..Len(sent) : j \in 1..r - 1 \/ j = r \/ j \in r + 1..Len(sent)
      BY <3>2
    <3>4. \A j \in 1..r : j \in 1..r - 1 \/ j = r
      BY <3>2
    <3>5. QED BY <3>1, <3>3, <3>4 DEF AskedAt
  <2>3. IF Is("http") THEN \A i \in 1..Len(got) : got[i].what = "data"
                      ELSE got = [i \in 1..Len(got) |-> Data(i)]
    <3>1. got \in Seq(Messages)
      BY DEF StreamInv, StreamTypes
    <3>2. got = [i \in 1..Len(got) |-> got[i]]
      BY <3>1
    <3>3. QED BY <3>2 DEF StreamInv, GotInv
  <2>4. QED BY <2>1, <2>2, <2>3 DEF StreamsAreClean
<1>2. Spec => [](SocketInv /\ StreamInv)
  BY SocketInvInit, SocketInvStep, StreamInvInit, StreamInvStep, PTL DEF Spec
<1>3. QED BY <1>1, <1>2, PTL
=============================================================================
