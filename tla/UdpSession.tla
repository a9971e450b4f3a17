----------------------------- MODULE UdpSession -----------------------------
(***************************************************************************)
(* One UDP session through tun2socks (tunnel/udp.go): the stack hands over *)
(* the application's endpoint (the origin), handleUDPConn dials the packet *)
(* connection of the proxy, and one goroutine per direction passes packets *)
(* until its reads time out.  Nothing ends a UDP session but silence or an *)
(* error, and the read deadline of each end is set by both goroutines.     *)
(*                                                                         *)
(* Time is counted in ticks.  A packet is what the code can tell of it:    *)
(* "own", from the destination; "foreign", from anybody else; "bad", one   *)
(* that the proxy's ReadFrom cannot decode.  Each session has a UUID and   *)
(* connections of its own, so one session is all there is to see.          *)
(***************************************************************************)
EXTENDS Integers, Sequences

CONSTANTS
  Timeout, \* udpSessionTimeout in ticks
  MaxQueue \* packets an endpoint holds; the others are dropped

ASSUME UdpAssumption == Timeout \in Nat \ {0} /\ MaxQueue \in Nat \ {0}

Ends     == {"origin", "remote"}
Dirs     == {"up", "down"}
Src(d)   == IF d = "up" THEN "origin" ELSE "remote"
Dst(d)   == IF d = "up" THEN "remote" ELSE "origin"
Other(d) == IF d = "up" THEN "down" ELSE "up"
Never    == Timeout + 1
Packets(e) == IF e = "origin" THEN {"own"} ELSE {"own", "foreign", "bad"}

VARIABLES
  arrived, \* packets in the receive queue of each end
  silent,  \* the peer will send nothing more
  broken,  \* reads and writes of the end fail: ICMP error, the control connection ended
  conn,    \* our side of each end
  armed,   \* ticks since its read deadline was set, or Never
  pc,      \* what the goroutine of each direction does next
  result,  \* how its copyPacketData ended
  stage,   \* what handleUDPConn does next
  joined,  \* the tracker is in manager.connections
  passed   \* ticks since the direction last passed a packet on, or since pipePacket

peerVars    == <<arrived, silent, broken>>
copyVars    == <<pc, result>>
handlerVars == <<stage, joined>>
vars == <<peerVars, conn, armed, copyVars, handlerVars, passed>>

TypeOK ==
  /\ arrived \in [Ends -> Seq({"own", "foreign", "bad"})]
  /\ \A e \in Ends : Len(arrived[e]) <= MaxQueue
  /\ silent \in [Ends -> BOOLEAN]
  /\ broken \in [Ends -> BOOLEAN]
  /\ conn \in [Ends -> {"none", "open", "closed"}]
  /\ armed \in [Ends -> 0..Never]
  /\ pc \in [Dirs -> {"unused", "arm", "read", "write", "refresh", "done"}]
  /\ result \in [Dirs -> {"none", "timeout", "error"}]
  /\ stage \in {"queued", "dial", "pipe", "leave", "closeRemote", "closeOrigin", "closed"}
  /\ joined \in BOOLEAN
  /\ passed \in [Dirs -> 0..Timeout]

(* core/udp.go has made the endpoint of the first packet.                  *)
Init ==
  /\ arrived = [e \in Ends |-> IF e = "origin" THEN <<"own">> ELSE <<>>]
  /\ silent = [e \in Ends |-> FALSE]
  /\ broken = [e \in Ends |-> FALSE]
  /\ conn = [e \in Ends |-> IF e = "origin" THEN "open" ELSE "none"]
  /\ armed = [e \in Ends |-> Never]
  /\ pc = [d \in Dirs |-> "unused"]
  /\ result = [d \in Dirs |-> "none"]
  /\ stage = "queued"
  /\ joined = FALSE
  /\ passed = [d \in Dirs |-> 0]

-----------------------------------------------------------------------------
(* The peers and the clock.                                                *)

Arrives(e) ==
  /\ conn[e] = "open"
  /\ ~silent[e]
  /\ Len(arrived[e]) < MaxQueue
  /\ \E p \in Packets(e) : arrived' = [arrived EXCEPT ![e] = Append(@, p)]
  /\ UNCHANGED <<silent, broken, conn, armed, copyVars, handlerVars, passed>>

FallsSilent(e) ==
  /\ ~silent[e]
  /\ silent' = [silent EXCEPT ![e] = TRUE]
  /\ UNCHANGED <<arrived, broken, conn, armed, copyVars, handlerVars, passed>>

Breaks(e) ==
  /\ conn[e] = "open"
  /\ ~broken[e]
  /\ broken' = [broken EXCEPT ![e] = TRUE]
  /\ UNCHANGED <<arrived, silent, conn, armed, copyVars, handlerVars, passed>>

Later(n) == IF n < Timeout THEN n + 1 ELSE n

Tick ==
  /\ \E e \in Ends : armed[e] # Never
  /\ stage # "closed"
  /\ armed' = [e \in Ends |-> IF armed[e] = Never THEN Never ELSE Later(armed[e])]
  /\ passed' = [d \in Dirs |-> Later(passed[d])]
  /\ UNCHANGED <<peerVars, conn, copyVars, handlerVars>>

-----------------------------------------------------------------------------
(* handleUDPConn.                                                          *)

Process ==
  /\ stage = "queued"
  /\ stage' = "dial"
  /\ UNCHANGED <<peerVars, conn, armed, copyVars, joined, passed>>

DialFails ==
  /\ stage = "dial"
  /\ stage' = "closeOrigin"
  /\ UNCHANGED <<peerVars, conn, armed, copyVars, joined, passed>>

(* DialUDP returns; its tracker joins, pipePacket starts.                  *)
Dial ==
  /\ stage = "dial"
  /\ conn' = [conn EXCEPT !["remote"] = "open"]
  /\ joined' = TRUE
  /\ pc' = [d \in Dirs |-> "arm"]
  /\ passed' = [d \in Dirs |-> 0]
  /\ stage' = "pipe"
  /\ UNCHANGED <<peerVars, armed, result>>

(* Mutation of PipeEnds: wg.Add(1).                                        *)
PipeEndsEarly ==
  /\ stage = "pipe"
  /\ \E d \in Dirs : pc[d] = "done"
  /\ stage' = "leave"
  /\ UNCHANGED <<peerVars, conn, armed, copyVars, joined, passed>>

(* wg.Wait returns.                                                        *)
PipeEnds ==
  /\ stage = "pipe"
  /\ \A d \in Dirs : pc[d] = "done"
  /\ stage' = "leave"
  /\ UNCHANGED <<peerVars, conn, armed, copyVars, joined, passed>>

(* The deferred pc.Close is the tracker's.                                 *)
Leave ==
  /\ stage = "leave"
  /\ joined' = FALSE
  /\ stage' = "closeRemote"
  /\ UNCHANGED <<peerVars, conn, armed, copyVars, passed>>

CloseRemote ==
  /\ stage = "closeRemote"
  /\ conn' = [conn EXCEPT !["remote"] = "closed"]
  /\ stage' = "closeOrigin"
  /\ UNCHANGED <<peerVars, armed, copyVars, joined, passed>>

CloseOrigin ==
  /\ stage = "closeOrigin"
  /\ conn' = [conn EXCEPT !["origin"] = "closed"]
  /\ stage' = "closed"
  /\ UNCHANGED <<peerVars, armed, copyVars, joined, passed>>

-----------------------------------------------------------------------------
(* copyPacketData, the goroutine of direction d.                           *)

Due(e) == armed[e] = Timeout
Queue(d) == arrived[Src(d)]
EndsWith(d, how) ==
  /\ result' = [result EXCEPT ![d] = how]
  /\ pc' = [pc EXCEPT ![d] = "done"]

(* Mutation of Arm: the loop is entered without a deadline.                *)
ArmNothing(d) ==
  /\ pc[d] = "arm"
  /\ pc' = [pc EXCEPT ![d] = "read"]
  /\ UNCHANGED <<peerVars, conn, armed, result, handlerVars, passed>>

(* src.SetReadDeadline at the head of the loop.                            *)
Arm(d) ==
  /\ pc[d] = "arm"
  /\ armed' = [armed EXCEPT ![Src(d)] = 0]
  /\ pc' = [pc EXCEPT ![d] = "read"]
  /\ UNCHANGED <<peerVars, conn, result, handlerVars, passed>>

(* A packet to pass on.                                                    *)
ReadPacket(d) ==
  /\ pc[d] = "read"
  /\ conn[Src(d)] = "open" /\ ~Due(Src(d))
  /\ Queue(d) # <<>> /\ Head(Queue(d)) = "own"
  /\ arrived' = [arrived EXCEPT ![Src(d)] = Tail(@)]
  /\ pc' = [pc EXCEPT ![d] = "write"]
  /\ UNCHANGED <<silent, broken, conn, armed, result, handlerVars, passed>>

(* symmetricNATPacketConn drops it and reads again, under the deadline     *)
(* that was set before.                                                    *)
DropForeign(d) ==
  /\ pc[d] = "read"
  /\ conn[Src(d)] = "open" /\ ~Due(Src(d))
  /\ Queue(d) # <<>> /\ Head(Queue(d)) = "foreign"
  /\ arrived' = [arrived EXCEPT ![Src(d)] = Tail(@)]
  /\ UNCHANGED <<silent, broken, conn, armed, copyVars, handlerVars, passed>>

(* A packet that cannot be decoded, or the connection fails.               *)
ReadFails(d) ==
  /\ pc[d] = "read"
  /\ \/ conn[Src(d)] # "open" \/ broken[Src(d)]
     \/ ~Due(Src(d)) /\ Queue(d) # <<>> /\ Head(Queue(d)) = "bad"
  /\ EndsWith(d, "error")
  /\ UNCHANGED <<peerVars, conn, armed, handlerVars, passed>>

(* The deadline, whatever is queued.                                       *)
ReadTimesOut(d) ==
  /\ pc[d] = "read"
  /\ conn[Src(d)] = "open" /\ Due(Src(d))
  /\ EndsWith(d, "timeout")
  /\ UNCHANGED <<peerVars, conn, armed, handlerVars, passed>>

Write(d) ==
  /\ pc[d] = "write"
  /\ conn[Dst(d)] = "open" /\ ~broken[Dst(d)]
  /\ passed' = [passed EXCEPT ![d] = 0]
  /\ pc' = [pc EXCEPT ![d] = "refresh"]
  /\ UNCHANGED <<peerVars, conn, armed, result, handlerVars>>

(* A single packet may fail too: too long, no buffer space.                *)
WriteFails(d) ==
  /\ pc[d] = "write"
  /\ EndsWith(d, "error")
  /\ UNCHANGED <<peerVars, conn, armed, handlerVars, passed>>

(* Mutation of Refresh: of the source again.                               *)
RefreshSource(d) ==
  /\ pc[d] = "refresh"
  /\ armed' = [armed EXCEPT ![Src(d)] = 0]
  /\ pc' = [pc EXCEPT ![d] = "arm"]
  /\ UNCHANGED <<peerVars, conn, result, handlerVars, passed>>

(* dst.SetReadDeadline: the other direction's read is given more time,     *)
(* also while it waits in it.                                              *)
Refresh(d) ==
  /\ pc[d] = "refresh"
  /\ armed' = [armed EXCEPT ![Dst(d)] = 0]
  /\ pc' = [pc EXCEPT ![d] = "arm"]
  /\ UNCHANGED <<peerVars, conn, result, handlerVars, passed>>

Peers   == \E e \in Ends : Arrives(e) \/ FallsSilent(e) \/ Breaks(e)
Handler == Process \/ DialFails \/ Dial \/ PipeEnds \/ Leave \/ CloseRemote \/ CloseOrigin
Copy(d) ==
  \/ Arm(d) \/ ReadPacket(d) \/ DropForeign(d) \/ ReadFails(d) \/ ReadTimesOut(d)
  \/ Write(d) \/ WriteFails(d) \/ Refresh(d)

Next == Peers \/ Tick \/ Handler \/ \E d \in Dirs : Copy(d)

(* Goroutines run and time passes.  A dial may never return: the context of *)
(* DialUDP (socks5.go:79) bounds the connect, and nothing the handshake.    *)
Fairness ==
  /\ WF_vars(Handler /\ stage # "dial")
  /\ WF_vars(Tick)
  /\ \A d \in Dirs : WF_vars(Copy(d))

Spec == Init /\ [][Next]_vars /\ Fairness

-----------------------------------------------------------------------------
(* While a goroutine copies, both ends are open and the manager lists the  *)
(* session (udp.go:18, 36-37, 58: the order of the deferred calls against  *)
(* wg.Wait); when the handler has returned nothing is left.                *)
CopiesOnOpenConns ==
  /\ \A d \in Dirs : pc[d] \notin {"unused", "done"} =>
       joined /\ \A e \in Ends : conn[e] = "open"
  /\ joined => conn["remote"] = "open"
  /\ stage = "closed" => ~joined /\ \A e \in Ends : conn[e] # "open"

(* A packet in either direction keeps both directions alive (udp.go:73,    *)
(* 86): a read times out only when neither direction has passed a packet   *)
(* for the whole timeout.  The one exception is the race in the code: the  *)
(* other goroutine has written its packet and has not yet moved the        *)
(* deadline.                                                               *)
TimeoutMeansQuiet ==
  [][\A d \in Dirs : result'[d] = "timeout" /\ result[d] # "timeout" =>
        /\ passed[d] = Timeout
        /\ passed[Other(d)] = Timeout \/ pc[Other(d)] = "refresh"]_vars

(* Sessions whose dial has returned do not pile up (udp.go:72-87): when     *)
(* both peers are silent the handler returns, and once one direction has    *)
(* ended the silence of the other one's source is enough, whatever the      *)
(* first one's still sends.                                                 *)
SessionEnds ==
  /\ (stage \notin {"queued", "dial"} /\ \A e \in Ends : silent[e]) ~> stage = "closed"
  /\ \A d \in Dirs : (pc[d] = "done" /\ silent[Src(Other(d))]) ~> stage = "closed"
=============================================================================
