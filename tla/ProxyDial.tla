------------------------------ MODULE ProxyDial ------------------------------
(***************************************************************************)
(* One dial through one proxy, and what its connection is used for:        *)
(* DialContext and DialUDP of proxy/socks5, socks4, http, ssh, shadowsocks,*)
(* relay, direct and reject, with the client side of the handshakes in     *)
(* transport/.  The kind of proxy, the network and the options are chosen  *)
(* at the start; the server answers, refuses, speaks early, stays silent   *)
(* or goes away.                                                           *)
(*                                                                         *)
(* A handshake message is its name, stream data are numbered pieces, a UDP *)
(* packet is what Datagrams says.  Wrong versions, wrong methods and the   *)
(* refusals of each protocol are the answer "refused".                     *)
(***************************************************************************)
EXTENDS Datagrams, SequencesExt

CONSTANTS
  Kinds,    \* registered protocols
  MaxData,  \* bound: pieces or packets of each side
  Payloads, \* bound: lengths of UDP payloads
  MaxUDP    \* what a UDP datagram carries

ASSUME DialAssumption ==
  /\ Kinds \subseteq {"socks5", "socks4", "http", "ssh", "ss", "relay", "direct", "reject"}
  /\ MaxData \in Nat /\ Payloads \subseteq Nat /\ MaxUDP \in Nat

VARIABLES
  opt,      \* kind, network, user, noDelay, v6, unix, cipher
  step,     \* what the dial does next; "ok" and "failed" are its results
  ctrl,     \* the stream connection to the proxy
  packet,   \* the packet socket
  drain,    \* the goroutine of a socks5 association
  pending,  \* relay: the request waits in wbuf
  replied,  \* relay: once.Do has read the response
  ended,    \* the reader of the connection has had an error
  sent,     \* what the server has received on ctrl
  answered, \* position in sent of the last handshake message it has answered
  granted,  \* its last answer was a grant of the request
  gone,     \* the server has closed its side
  inbox,    \* what it has sent on ctrl and nobody has read
  early,    \* pieces of stream data the server has sent
  got,      \* pieces the reader has been given
  flying,   \* UDP packets to us
  asked,    \* their payloads, ReadFrom's results must be
  read      \* the results

sockVars == <<ctrl, packet, drain>>
connVars == <<pending, replied, ended, sent, got>>
serverVars == <<answered, granted, gone, early>>
udpVars == <<flying, asked, read>>
vars == <<opt, step, sockVars, connVars, serverVars, inbox, udpVars>>

Is(kind) == opt.kind = kind
UDP == opt.network = "udp"
Lazy == Is("relay") /\ ~opt.noDelay
Association == Is("socks5") /\ UDP

(* What each kind can do without a connection to its server: reject has    *)
(* its answer, a packet socket is its own, UDP may be unsupported.         *)
Socks5UDP(o) == IF o.unix THEN "failed" ELSE "connect"
Socks4UDP == "failed"
HttpUDP == "failed"
SshUDP == "failed"
Reject == "ok"
FirstStep(o) ==
  IF o.kind = "reject" THEN Reject
  ELSE IF o.network = "tcp" \/ o.kind = "relay" THEN "connect"
  ELSE CASE o.kind = "socks5" -> Socks5UDP(o)
         [] o.kind = "socks4" -> Socks4UDP
         [] o.kind = "http" -> HttpUDP
         [] o.kind = "ssh" -> SshUDP
         [] OTHER -> "listen"

Options ==
  {o \in [kind : Kinds, network : {"tcp", "udp"}, user : {"none", "full", "noPassword"},
          noDelay : BOOLEAN, v6 : BOOLEAN, unix : BOOLEAN, cipher : {"aead", "stream", "dummy"}] :
     /\ o.user # "none" => o.kind \in {"socks5", "relay"}
     /\ o.noDelay => o.kind = "relay"
     /\ o.v6 => o.kind = "socks4"
     /\ o.unix => o.kind = "socks5"
     /\ o.cipher # "dummy" => o.kind = "ss"}

Init ==
  /\ opt \in Options
  /\ step = FirstStep(opt)
  /\ ctrl = "none" /\ packet = "none" /\ drain = "none"
  /\ pending = FALSE /\ replied = FALSE /\ ended = FALSE
  /\ sent = <<>> /\ answered = 0 /\ granted = FALSE /\ gone = FALSE
  /\ inbox = <<>> /\ early = 0 /\ got = <<>>
  /\ flying = <<>> /\ asked = <<>> /\ read = <<>>

-----------------------------------------------------------------------------
(* Dialling.                                                               *)

Message(what) == [what |-> what, n |-> 0]
Data(k) == [what |-> "data", n |-> k]

ConnectFails ==
  /\ step = "connect"
  /\ step' = "failed"
  /\ UNCHANGED <<opt, sockVars, connVars, serverVars, inbox, udpVars>>

(* dialer.DialContext has returned a connection.                           *)
Dialled(kind, next) ==
  /\ Is(kind) /\ step = "connect"
  /\ ctrl' = "open"
  /\ step' = next
  /\ pending' = Lazy
  /\ UNCHANGED <<opt, packet, drain, replied, ended, sent, got, serverVars, inbox, udpVars>>

(* Each DialContext goes on.  socks4 finds out now that it cannot ask for  *)
(* an IPv6 address; relay without noDelay puts the request into wbuf and   *)
(* is ready.                                                               *)
Socks5Dial == Dialled("socks5", "sendHello")
Socks4Dial == Dialled("socks4", IF opt.v6 THEN "fail" ELSE "sendRequest")
HttpDial == Dialled("http", "sendRequest")
SshDial == Dialled("ssh", "sendHello")
ShadowDial == Dialled("ss", "sendRequest")
RelayDial == Dialled("relay", IF Lazy THEN "ok" ELSE "sendRequest")
DirectDial == Dialled("direct", "ok")
Connect == Socks5Dial \/ Socks4Dial \/ HttpDial \/ SshDial \/ ShadowDial \/ RelayDial \/ DirectDial

Sending == [sendHello |-> "hello", sendAuth |-> "auth", sendRequest |-> "request"]

(* shadowsocks sends the address and expects no answer.                    *)
AfterSend ==
  CASE step = "sendHello" -> "readMethod"
    [] step = "sendAuth" -> "readAuth"
    [] OTHER -> IF Is("ss") THEN "ok" ELSE "readReply"

Send ==
  /\ step \in DOMAIN Sending
  /\ ~gone
  /\ sent' = Append(sent, Message(Sending[step]))
  /\ step' = AfterSend
  /\ UNCHANGED <<opt, sockVars, pending, replied, ended, got, serverVars, inbox, udpVars>>

SendFails ==
  /\ step \in DOMAIN Sending
  /\ gone
  /\ step' = "fail"
  /\ UNCHANGED <<opt, sockVars, connVars, serverVars, inbox, udpVars>>

(* What each client makes of an answer.  A socks5 server names the method, *)
(* also one that was not offered: without a user, or with an empty         *)
(* password, "userPass" is an error.                                       *)
Socks5Answer(answer) ==
  CASE step = "readMethod" /\ answer = "noAuth" -> "sendRequest"
    [] step = "readMethod" /\ answer = "userPass" /\ opt.user = "full" -> "sendAuth"
    [] step = "readAuth" /\ answer = "granted" -> "sendRequest"
    [] step = "readReply" /\ answer = "granted" -> IF UDP THEN "listen" ELSE "ok"
    [] OTHER -> "fail"

Socks4Answer(answer) == IF answer = "granted" THEN "ok" ELSE "fail"
HttpAnswer(answer) == IF answer = "granted" THEN "ok" ELSE "fail"
SshAnswer(answer) ==
  CASE step = "readMethod" /\ answer = "noAuth" -> "sendRequest"
    [] step = "readReply" /\ answer = "granted" -> "ok"
    [] OTHER -> "fail"
RelayAnswer(answer) == IF answer = "granted" THEN "ok" ELSE "fail"

AfterAnswer(answer) ==
  CASE Is("socks5") -> Socks5Answer(answer)
    [] Is("socks4") -> Socks4Answer(answer)
    [] Is("http") -> HttpAnswer(answer)
    [] Is("ssh") -> SshAnswer(answer)
    [] OTHER -> RelayAnswer(answer)

(* io.ReadFull takes an answer and no more; http's bufio.Reader takes what *)
(* has arrived, and is thrown away.                                        *)
Taken == IF Is("http") THEN 1..Len(inbox) ELSE {1}

Receive ==
  /\ step \in {"readMethod", "readAuth", "readReply"}
  /\ inbox # <<>>
  /\ \E k \in Taken : inbox' = SubSeq(inbox, k + 1, Len(inbox))
  /\ step' = AfterAnswer(Head(inbox).what)
  /\ UNCHANGED <<opt, sockVars, connVars, serverVars, udpVars>>

ReceiveEOF ==
  /\ step \in {"readMethod", "readAuth", "readReply"}
  /\ inbox = <<>> /\ gone
  /\ step' = "fail"
  /\ UNCHANGED <<opt, sockVars, connVars, serverVars, inbox, udpVars>>

(* dialer.ListenPacket; a socks5 association starts its goroutine.         *)
Listen ==
  /\ step = "listen"
  /\ packet' = "open"
  /\ drain' = IF Association THEN "copy" ELSE "none"
  /\ step' = IF Is("direct") THEN "ok" ELSE "resolve"
  /\ UNCHANGED <<opt, ctrl, connVars, serverVars, inbox, udpVars>>

ListenFails ==
  /\ step = "listen"
  /\ step' = "fail"
  /\ UNCHANGED <<opt, sockVars, connVars, serverVars, inbox, udpVars>>

Resolve ==
  /\ step = "resolve"
  /\ step' = "ok"
  /\ UNCHANGED <<opt, sockVars, connVars, serverVars, inbox, udpVars>>

(* The server's host has no address, or its socks5 bound address is a name.*)
ResolveFails ==
  /\ step = "resolve"
  /\ step' = "fail"
  /\ UNCHANGED <<opt, sockVars, connVars, serverVars, inbox, udpVars>>

(* Mutation of Fail: no deferred close.                                    *)
FailOnly ==
  /\ step = "fail"
  /\ step' = "failed"
  /\ UNCHANGED <<opt, sockVars, connVars, serverVars, inbox, udpVars>>

(* The deferred SafeConnClose, and socks5's own.                           *)
Fail ==
  /\ step = "fail"
  /\ ctrl' = IF ctrl = "open" THEN "closed" ELSE ctrl
  /\ step' = "failed"
  /\ UNCHANGED <<opt, packet, drain, connVars, serverVars, inbox, udpVars>>

-----------------------------------------------------------------------------
(* The goroutine of an association: io.Copy, c.Close, pc.Close.            *)

DrainReads ==
  /\ drain = "copy" /\ ctrl = "open"
  /\ inbox # <<>>
  /\ inbox' = <<>>
  /\ UNCHANGED <<opt, step, sockVars, connVars, serverVars, udpVars>>

DrainEnds ==
  /\ drain = "copy"
  /\ ctrl = "closed" \/ (gone /\ inbox = <<>>)
  /\ drain' = "closeCtrl"
  /\ UNCHANGED <<opt, step, ctrl, packet, connVars, serverVars, inbox, udpVars>>

DrainClosesCtrl ==
  /\ drain = "closeCtrl"
  /\ ctrl' = "closed"
  /\ drain' = "closePacket"
  /\ UNCHANGED <<opt, step, packet, connVars, serverVars, inbox, udpVars>>

(* Mutation of DrainClosesPacket: only the control connection is closed.   *)
DrainKeepsPacket ==
  /\ drain = "closePacket"
  /\ drain' = "done"
  /\ UNCHANGED <<opt, step, ctrl, packet, connVars, serverVars, inbox, udpVars>>

DrainClosesPacket ==
  /\ drain = "closePacket"
  /\ packet' = "closed"
  /\ drain' = "done"
  /\ UNCHANGED <<opt, step, ctrl, connVars, serverVars, inbox, udpVars>>

-----------------------------------------------------------------------------
(* Using the connection, and closing it.                                   *)

Pieces == {i \in 1..Len(sent) : sent[i].what = "data"}
NextPiece == Data(Cardinality(Pieces) + 1)
Streams == Is("relay") \/ ~UDP

(* Mutation of RelayWrite: wbuf is not reset.                              *)
RelayWriteKeepingRequest ==
  /\ sent' = sent \o (IF pending THEN <<Message("request")>> ELSE <<>>) \o <<NextPiece>>
  /\ pending' = pending

(* relayConn: the request goes in one Write with the first data.           *)
RelayWrite ==
  /\ sent' = sent \o (IF pending THEN <<Message("request")>> ELSE <<>>) \o <<NextPiece>>
  /\ pending' = FALSE

Write ==
  /\ step = "ok" /\ ctrl = "open" /\ Streams /\ ~gone
  /\ Cardinality(Pieces) < MaxData
  /\ IF Is("relay") THEN RelayWrite ELSE sent' = Append(sent, NextPiece) /\ UNCHANGED pending
  /\ UNCHANGED <<opt, step, sockVars, replied, ended, got, serverVars, inbox, udpVars>>

(* relayConn.Read: the response is read once, before the first data.       *)
ReadResponse ==
  /\ step = "ok" /\ ctrl = "open" /\ Lazy
  /\ ~replied /\ ~ended
  /\ inbox # <<>>
  /\ inbox' = Tail(inbox)
  /\ replied' = TRUE
  /\ ended' = (Head(inbox).what # "granted")
  /\ UNCHANGED <<opt, step, sockVars, pending, sent, got, serverVars, udpVars>>

Ready == ~Lazy \/ replied

Read ==
  /\ step = "ok" /\ ctrl = "open" /\ Streams
  /\ Ready /\ ~ended
  /\ inbox # <<>>
  /\ inbox' = Tail(inbox)
  /\ got' = Append(got, Head(inbox))
  /\ UNCHANGED <<opt, step, sockVars, pending, replied, ended, sent, serverVars, udpVars>>

(* ReadFrom of a packet connection.                                        *)
ReadFrom ==
  /\ step = "ok" /\ packet = "open"
  /\ flying # <<>>
  /\ flying' = Tail(flying)
  /\ read' = Append(read, CASE Is("socks5") -> SocksReadFrom(Head(flying))
                            [] Is("ss") -> ShadowReadFrom(opt.cipher, Head(flying))
                            [] OTHER -> Plain(Head(flying).len))
  /\ UNCHANGED <<opt, step, sockVars, connVars, serverVars, inbox, asked>>

(* Close, of an association in two steps; an sshConn's client closes ctrl. *)
Close ==
  /\ step = "ok"
  /\ ctrl' = IF ctrl = "open" THEN "closed" ELSE ctrl
  /\ step' = "closing"
  /\ UNCHANGED <<opt, packet, drain, connVars, serverVars, inbox, udpVars>>

ClosePacket ==
  /\ step = "closing"
  /\ packet' = IF packet = "open" THEN "closed" ELSE packet
  /\ step' = "closed"
  /\ UNCHANGED <<opt, ctrl, drain, connVars, serverVars, inbox, udpVars>>

-----------------------------------------------------------------------------
(* The server.                                                             *)

(* The handshake message that the server has to deal with next, if any.    *)
Unanswered(i) ==
  /\ i \in answered + 1..Len(sent) /\ sent[i].what # "data"
  /\ \A j \in answered + 1..i - 1 : sent[j].what = "data"
Owes == (\E i \in 1..Len(sent) : Unanswered(i)) /\ ~Is("ss") /\ ~gone
Answers(what) ==
  CASE what = "hello" -> {"noAuth", "userPass", "refused"}
    [] OTHER -> {"granted", "refused"}

Answer ==
  /\ ctrl = "open" /\ Owes
  /\ \E i \in 1..Len(sent) :
       /\ Unanswered(i)
       /\ answered' = i
       /\ \E a \in Answers(sent[i].what) :
            /\ inbox' = Append(inbox, Message(a))
            /\ granted' = (a = "granted" /\ sent[i].what = "request")
  /\ UNCHANGED <<opt, step, sockVars, connVars, gone, early, udpVars>>

(* The target's data follow the grant, whether or not we have spoken; what *)
(* comes on an association's control connection is for nobody.             *)
Speaks ==
  /\ ctrl = "open" /\ (Streams \/ Association) /\ ~gone
  /\ granted \/ Is("direct") \/ (Is("ss") /\ sent # <<>>)
  /\ early < MaxData
  /\ early' = early + 1
  /\ inbox' = Append(inbox, Data(early + 1))
  /\ UNCHANGED <<opt, step, sockVars, connVars, answered, granted, gone, udpVars>>

Leaves ==
  /\ ctrl = "open" /\ ~gone
  /\ gone' = TRUE
  /\ UNCHANGED <<opt, step, sockVars, connVars, answered, granted, early, inbox, udpVars>>

(* The packets in which a payload of n bytes comes: one, or none when it   *)
(* cannot be encrypted.  The server encrypts as we do.                     *)
Carriers(whole, n) ==
  CASE Is("socks5") -> {whole}
    [] Is("ss") -> ShadowWriteTo(opt.cipher, whole)
    [] OTHER -> {[whole EXCEPT !.len = n]}

(* A packet from the server: from an address of any type, also one that    *)
(* does not exist, or a fragment.                                          *)
Arrives ==
  /\ packet = "open" /\ step = "ok"
  /\ Len(asked) < MaxData
  /\ \E atyp \in Atyps \cup {9}, dlen \in {0, 1}, frag \in {0, 1}, n \in Payloads :
       LET whole == [EncodeUDPPacket(SerializeAddr(atyp, dlen), n) EXCEPT !.frag = frag]
           fine  == atyp \in {AtypIPv4, AtypIPv6} /\ (frag = 0 \/ ~Is("socks5"))
       IN  \E p \in Carriers(whole, n) :
             /\ p.len <= MaxUDP
             /\ flying' = Append(flying, p)
             /\ asked' = Append(asked, IF Is("direct") \/ fine THEN Plain(n) ELSE Error)
  /\ UNCHANGED <<opt, step, sockVars, connVars, serverVars, inbox, read>>

Dial ==
  \/ Connect \/ ConnectFails \/ Send \/ SendFails \/ Receive \/ ReceiveEOF
  \/ Listen \/ ListenFails \/ Resolve \/ ResolveFails \/ Fail
Drain == DrainReads \/ DrainEnds \/ DrainClosesCtrl \/ DrainClosesPacket
Use == Write \/ ReadResponse \/ Read \/ ReadFrom
Server == Answer \/ Speaks \/ Leaves \/ Arrives

Next == Dial \/ Drain \/ Use \/ Close \/ ClosePacket \/ Server

(* The dialling goroutine and the association's run; a connection need not *)
(* be used nor closed, and the server owes nothing.                        *)
Spec == Init /\ [][Next]_vars /\ WF_vars(Dial) /\ WF_vars(Drain) /\ WF_vars(ClosePacket)

-----------------------------------------------------------------------------
(* A dial that failed leaves no socket (socks5.go:58-60, 92-96; each       *)
(* DialContext's deferred close), nor does a closed connection; a packet   *)
(* socket that is still there belongs to the association's goroutine,      *)
(* which sees its control connection closed.  The exception is             *)
(* shadowsocks.go:77: when the host cannot be resolved its packet socket   *)
(* is never closed.                                                        *)
NoSocketLeft ==
  step \in {"failed", "closed"} =>
    /\ ctrl # "open"
    /\ packet = "open" => drain \in {"copy", "closeCtrl", "closePacket"} \/ (Is("ss") /\ step = "failed")

(* The server of a connection that was dialled has been asked once, before *)
(* any data, and has granted the request (relay without noDelay: it is     *)
(* asked with the first data); the reader is given the target's data, in   *)
(* order, from the first piece on, and never an answer.  The exception is  *)
(* http.go:76: what arrived together with the response is lost.            *)
StreamsAreClean ==
  /\ step = "ok" /\ ctrl = "open" /\ ~Lazy /\ ~Is("direct") /\ ~Is("ss") => granted
  /\ Pieces # {} /\ ~Is("direct") =>
       \E i \in 1..Len(sent) :
         /\ sent[i].what = "request"
         /\ \A j \in 1..Len(sent) : j # i => sent[j].what # "request"
         /\ \A j \in 1..i : sent[j].what # "data"
  /\ IF Is("http") THEN \A i \in 1..Len(got) : got[i].what = "data"
                   ELSE got = [i \in 1..Len(got) |-> Data(i)]

(* ReadFrom of every packet connection returns the payloads that were      *)
(* sent, or an error for what it cannot take (socks5.go:171-190,           *)
(* shadowsocks.go:104-122), each in its turn.                              *)
PacketsAreWhole == IsPrefix(read, asked)

(* A UDP association ends with its control connection (socks5.go:128), and *)
(* a dial ends unless the server owes it an answer: no step of a handshake *)
(* waits for one that was not asked for or cannot come any more.           *)
Dialling == step \notin {"ok", "failed", "closing", "closed"}
NothingHangs ==
  /\ (Association /\ gone) ~> packet # "open"
  /\ Dialling ~> (~Dialling \/ Owes)
=============================================================================
