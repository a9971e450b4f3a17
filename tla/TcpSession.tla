----------------------------- MODULE TcpSession -----------------------------
(***************************************************************************)
(* One TCP connection through tun2socks: tunnel/tcp.go with the tracker of *)
(* tunnel/statistic.  The stack hands over the application's connection    *)
(* (the origin), handleTCPConn dials the remote through the proxy, and one *)
(* goroutine per direction copies, until it half-closes and arms a read    *)
(* deadline for the other one.                                             *)
(*                                                                         *)
(* Sessions share nothing but the unbuffered queue and the registry, where *)
(* each has a UUID of its own, so one session is all there is to see.  A   *)
(* stream is the number of its bytes: one goroutine reads and writes it in *)
(* order.  Byte counters of the statistics are left out.                   *)
(***************************************************************************)
EXTENDS Naturals

CONSTANT MaxBytes \* bound: bytes a peer sends

ASSUME SessionAssumption == MaxBytes \in Nat

Ends    == {"origin", "remote"}
Dirs    == {"up", "down"}
Src(d)  == IF d = "up" THEN "origin" ELSE "remote"
Dst(d)  == IF d = "up" THEN "remote" ELSE "origin"
Other(d) == IF d = "up" THEN "down" ELSE "up"

VARIABLES
  sent,       \* bytes each peer has sent
  fin,        \* it has sent its FIN
  reset,      \* the connection to it is broken
  stalled,    \* it does not read: writes to it block
  conn,       \* our side of each connection
  calls,      \* what the remote connection implements of half-close and deadlines
  readShut,   \* CloseRead was called
  writeShut,  \* CloseWrite was called
  deadline,   \* the read deadline
  pc,         \* what the goroutine of each direction does next
  hand,       \* bytes it has read and not written
  given,      \* bytes it has written
  result,     \* how its io.CopyBuffer ended
  stage,      \* what handleTCPConn does next
  joined      \* the tracker is in manager.connections

peerVars    == <<sent, fin, reset, stalled>>
connVars    == <<conn, calls, readShut, writeShut, deadline>>
copyVars    == <<pc, hand, given, result>>
handlerVars == <<stage, joined>>
vars == <<peerVars, connVars, copyVars, handlerVars>>

(* *net.TCPConn has all; wrappers that embed the interface net.Conn have    *)
(* only the deadline, and of an ssh channel's (ssh.go:86) that fails.       *)
ConnCalls == {{"halfClose", "deadline"}, {"deadline"}, {}}

TypeOK ==
  /\ sent \in [Ends -> 0..MaxBytes]
  /\ fin \in [Ends -> BOOLEAN]
  /\ reset \in [Ends -> BOOLEAN]
  /\ stalled \in [Ends -> BOOLEAN]
  /\ conn \in [Ends -> {"none", "open", "closed"}]
  /\ calls \in ConnCalls
  /\ readShut \in [Ends -> BOOLEAN]
  /\ writeShut \in [Ends -> BOOLEAN]
  /\ deadline \in [Ends -> {"none", "armed", "passed"}]
  /\ pc \in [Dirs -> {"unused", "read", "write", "closeRead", "closeWrite", "arm", "done"}]
  /\ hand \in [Dirs -> 0..MaxBytes]
  /\ given \in [Dirs -> 0..MaxBytes]
  /\ result \in [Dirs -> {"none", "eof", "error"}]
  /\ stage \in {"queued", "dial", "pipe", "leave", "closeRemote", "closeOrigin", "closed"}
  /\ joined \in BOOLEAN

(* gonet.NewTCPConn is in HandleTCP; nothing is dialled yet.               *)
Init ==
  /\ sent = [e \in Ends |-> 0]
  /\ fin = [e \in Ends |-> FALSE]
  /\ reset = [e \in Ends |-> FALSE]
  /\ stalled = [e \in Ends |-> FALSE]
  /\ conn = [e \in Ends |-> IF e = "origin" THEN "open" ELSE "none"]
  /\ calls \in ConnCalls
  /\ readShut = [e \in Ends |-> FALSE]
  /\ writeShut = [e \in Ends |-> FALSE]
  /\ deadline = [e \in Ends |-> "none"]
  /\ pc = [d \in Dirs |-> "unused"]
  /\ hand = [d \in Dirs |-> 0]
  /\ given = [d \in Dirs |-> 0]
  /\ result = [d \in Dirs |-> "none"]
  /\ stage = "queued"
  /\ joined = FALSE

-----------------------------------------------------------------------------
(* The peers: the application behind the TUN device, and the proxy server.  *)

PeerSends(e) ==
  /\ conn[e] = "open"
  /\ ~fin[e] /\ ~reset[e]
  /\ sent[e] < MaxBytes
  /\ sent' = [sent EXCEPT ![e] = @ + 1]
  /\ UNCHANGED <<fin, reset, stalled, connVars, copyVars, handlerVars>>

PeerFins(e) ==
  /\ conn[e] = "open"
  /\ ~fin[e] /\ ~reset[e]
  /\ fin' = [fin EXCEPT ![e] = TRUE]
  /\ UNCHANGED <<sent, reset, stalled, connVars, copyVars, handlerVars>>

PeerResets(e) ==
  /\ conn[e] = "open"
  /\ ~reset[e]
  /\ reset' = [reset EXCEPT ![e] = TRUE]
  /\ UNCHANGED <<sent, fin, stalled, connVars, copyVars, handlerVars>>

(* Its receive window closes, or opens again.                              *)
PeerStalls(e) ==
  /\ conn[e] = "open"
  /\ \E full \in BOOLEAN : stalled' = [stalled EXCEPT ![e] = full]
  /\ UNCHANGED <<sent, fin, reset, connVars, copyVars, handlerVars>>

-----------------------------------------------------------------------------
(* handleTCPConn.                                                          *)

Process ==
  /\ stage = "queued"
  /\ stage' = "dial"
  /\ UNCHANGED <<peerVars, connVars, copyVars, joined>>

DialFails ==
  /\ stage = "dial"
  /\ stage' = "closeOrigin"
  /\ UNCHANGED <<peerVars, connVars, copyVars, joined>>

(* DialContext returns a connection; its tracker joins, pipe starts.       *)
Dial ==
  /\ stage = "dial"
  /\ conn' = [conn EXCEPT !["remote"] = "open"]
  /\ joined' = TRUE
  /\ pc' = [d \in Dirs |-> "read"]
  /\ stage' = "pipe"
  /\ UNCHANGED <<peerVars, calls, readShut, writeShut, deadline, hand, given, result>>

(* Mutation of PipeEnds: wg.Add(1).                                        *)
PipeEndsEarly ==
  /\ stage = "pipe"
  /\ \E d \in Dirs : pc[d] = "done"
  /\ stage' = "leave"
  /\ UNCHANGED <<peerVars, connVars, copyVars, joined>>

(* wg.Wait returns.                                                        *)
PipeEnds ==
  /\ stage = "pipe"
  /\ \A d \in Dirs : pc[d] = "done"
  /\ stage' = "leave"
  /\ UNCHANGED <<peerVars, connVars, copyVars, joined>>

(* The deferred remoteConn.Close is the tracker's.                         *)
Leave ==
  /\ stage = "leave"
  /\ joined' = FALSE
  /\ stage' = "closeRemote"
  /\ UNCHANGED <<peerVars, connVars, copyVars>>

CloseRemote ==
  /\ stage = "closeRemote"
  /\ conn' = [conn EXCEPT !["remote"] = "closed"]
  /\ stage' = "closeOrigin"
  /\ UNCHANGED <<peerVars, calls, readShut, writeShut, deadline, copyVars, joined>>

CloseOrigin ==
  /\ stage = "closeOrigin"
  /\ conn' = [conn EXCEPT !["origin"] = "closed"]
  /\ stage' = "closed"
  /\ UNCHANGED <<peerVars, calls, readShut, writeShut, deadline, copyVars, joined>>

-----------------------------------------------------------------------------
(* unidirectionalStream, the goroutine of direction d.                     *)

Unread(d)  == sent[Src(d)] - given[d]
Timely(e)  == deadline[e] # "passed"
Usable(e)  == conn[e] = "open" /\ ~reset[e]

Read(d) ==
  /\ pc[d] = "read"
  /\ conn[Src(d)] = "open" /\ ~readShut[Src(d)] /\ Timely(Src(d))
  /\ \E n \in 1..MaxBytes : /\ n <= Unread(d)
                            /\ hand' = [hand EXCEPT ![d] = n]
  /\ pc' = [pc EXCEPT ![d] = "write"]
  /\ UNCHANGED <<peerVars, connVars, given, result, handlerVars>>

(* FIN after the last byte, or the read half was shut.                     *)
ReadEOF(d) ==
  /\ pc[d] = "read"
  /\ Timely(Src(d))
  /\ readShut[Src(d)] \/ (Usable(Src(d)) /\ fin[Src(d)] /\ Unread(d) = 0)
  /\ result' = [result EXCEPT ![d] = "eof"]
  /\ pc' = [pc EXCEPT ![d] = "closeRead"]
  /\ UNCHANGED <<peerVars, connVars, hand, given, handlerVars>>

(* Reset, closed under the reader, or the deadline: it does not look at    *)
(* what is unread.                                                         *)
ReadFails(d) ==
  /\ pc[d] = "read"
  /\ ~Usable(Src(d)) \/ ~Timely(Src(d))
  /\ result' = [result EXCEPT ![d] = "error"]
  /\ pc' = [pc EXCEPT ![d] = "closeRead"]
  /\ UNCHANGED <<peerVars, connVars, hand, given, handlerVars>>

Write(d) ==
  /\ pc[d] = "write"
  /\ Usable(Dst(d)) /\ ~writeShut[Dst(d)] /\ ~stalled[Dst(d)]
  /\ given' = [given EXCEPT ![d] = @ + hand[d]]
  /\ hand' = [hand EXCEPT ![d] = 0]
  /\ pc' = [pc EXCEPT ![d] = "read"]
  /\ UNCHANGED <<peerVars, connVars, result, handlerVars>>

(* Mutation of WriteFails: the buffer is written again after a part of it. *)
WriteRetried(d) ==
  /\ pc[d] = "write"
  /\ ~Usable(Dst(d)) \/ writeShut[Dst(d)]
  /\ \E n \in 0..hand[d] : given' = [given EXCEPT ![d] = @ + n]
  /\ UNCHANGED <<peerVars, connVars, pc, hand, result, handlerVars>>

(* Some of the bytes may have gone before.                                 *)
WriteFails(d) ==
  /\ pc[d] = "write"
  /\ ~Usable(Dst(d)) \/ writeShut[Dst(d)]
  /\ \E n \in 0..hand[d] : given' = [given EXCEPT ![d] = @ + n]
  /\ hand' = [hand EXCEPT ![d] = 0]
  /\ result' = [result EXCEPT ![d] = "error"]
  /\ pc' = [pc EXCEPT ![d] = "closeRead"]
  /\ UNCHANGED <<peerVars, connVars, handlerVars>>

(* gonet's connection has all calls, the tracker passes them on if it can.  *)
CanHalfClose(e)    == e = "origin" \/ "halfClose" \in calls
CanSetDeadline(e)  == e = "origin" \/ "deadline" \in calls

(* Mutation of CloseRead: of the destination instead of the source.        *)
CloseReadOfDst(d) ==
  /\ pc[d] = "closeRead"
  /\ readShut' = [readShut EXCEPT ![Dst(d)] = @ \/ CanHalfClose(Dst(d))]
  /\ pc' = [pc EXCEPT ![d] = "closeWrite"]
  /\ UNCHANGED <<peerVars, conn, calls, writeShut, deadline, hand, given, result, handlerVars>>

CloseRead(d) ==
  /\ pc[d] = "closeRead"
  /\ readShut' = [readShut EXCEPT ![Src(d)] = @ \/ CanHalfClose(Src(d))]
  /\ pc' = [pc EXCEPT ![d] = "closeWrite"]
  /\ UNCHANGED <<peerVars, conn, calls, writeShut, deadline, hand, given, result, handlerVars>>

CloseWrite(d) ==
  /\ pc[d] = "closeWrite"
  /\ writeShut' = [writeShut EXCEPT ![Dst(d)] = @ \/ CanHalfClose(Dst(d))]
  /\ pc' = [pc EXCEPT ![d] = "arm"]
  /\ UNCHANGED <<peerVars, conn, calls, readShut, deadline, hand, given, result, handlerVars>>

(* Mutation of Arm: no deadline.                                           *)
ArmNothing(d) ==
  /\ pc[d] = "arm"
  /\ pc' = [pc EXCEPT ![d] = "done"]
  /\ UNCHANGED <<peerVars, connVars, hand, given, result, handlerVars>>

(* dst.SetReadDeadline, whose error is ignored, and wg.Done.               *)
Arm(d) ==
  /\ pc[d] = "arm"
  /\ deadline' = [deadline EXCEPT ![Dst(d)] = IF CanSetDeadline(Dst(d)) THEN "armed" ELSE @]
  /\ pc' = [pc EXCEPT ![d] = "done"]
  /\ UNCHANGED <<peerVars, conn, calls, readShut, writeShut, hand, given, result, handlerVars>>

(* tcpWaitTimeout passes.                                                  *)
DeadlinePasses(e) ==
  /\ deadline[e] = "armed"
  /\ conn[e] = "open"
  /\ deadline' = [deadline EXCEPT ![e] = "passed"]
  /\ UNCHANGED <<peerVars, conn, calls, readShut, writeShut, copyVars, handlerVars>>

Peers   == \E e \in Ends : PeerSends(e) \/ PeerFins(e) \/ PeerResets(e) \/ PeerStalls(e)
Handler == Process \/ DialFails \/ Dial \/ PipeEnds \/ Leave \/ CloseRemote \/ CloseOrigin
Copy(d) ==
  \/ Read(d) \/ ReadEOF(d) \/ ReadFails(d) \/ Write(d) \/ WriteFails(d)
  \/ CloseRead(d) \/ CloseWrite(d) \/ Arm(d)

Next == Peers \/ Handler \/ (\E d \in Dirs : Copy(d)) \/ (\E e \in Ends : DeadlinePasses(e))

(* Goroutines run and timers fire.  A dial may never return: its context    *)
(* ends after 5 s, but a handshake does not look at it.                     *)
Fairness ==
  /\ WF_vars(Handler /\ stage # "dial")
  /\ \A d \in Dirs : WF_vars(Copy(d))
  /\ \A e \in Ends : WF_vars(DeadlinePasses(e))

Spec == Init /\ [][Next]_vars /\ Fairness

-----------------------------------------------------------------------------
(* A goroutine that copies finds both connections as it needs them: open,  *)
(* its source not shut for reading, its destination not for writing; and   *)
(* the session is listed in the manager.  Nothing is left when it is over. *)
CopiesOnOpenConns ==
  /\ \A d \in Dirs : pc[d] \in {"read", "write"} =>
       /\ \A e \in Ends : conn[e] = "open"
       /\ ~readShut[Src(d)] /\ ~writeShut[Dst(d)]
       /\ joined
  /\ stage = "closed" => ~joined /\ \A e \in Ends : conn[e] # "open"

(* Half-close (tcp.go:64-72): one direction that has ended leaves the      *)
(* other one alone until the deadline, and what it called complete has all *)
(* bytes.                                                                  *)
Refused == /\ stage \in {"closeOrigin", "closed"}
           /\ \A d \in Dirs : pc[d] = "unused"

Ended(d) ==
  IF Refused \/ result[d] = "error" THEN "cut"
  ELSE IF result[d] = "eof" THEN "complete" ELSE "open"

Stream == INSTANCE Duplex WITH
  sent     <- [d \in Dirs |-> sent[Src(d)]],
  finished <- [d \in Dirs |-> fin[Src(d)]],
  broken   <- [d \in Dirs |-> reset[Src(d)]],
  given    <- given,
  ended    <- [d \in Dirs |-> Ended(d)],
  late     <- [d \in Dirs |-> ~Timely(Src(d))]

ImplementsDuplex == Stream!Spec

(* A session of which one direction has ended comes to an end, since the   *)
(* deadline bounds the other one's reads where the connection supports it, *)
(* which an ssh connection does not: after the application's FIN it stays  *)
(* as long as the remote end likes.  And only a peer that does not read    *)
(* can hold up a write, for which there is no deadline.                    *)
HalfClosedEnds ==
  \A d \in Dirs :
    pc[d] = "done" /\ CanSetDeadline(Dst(d)) ~> (stage = "closed" \/ stalled[Src(d)])
=============================================================================
