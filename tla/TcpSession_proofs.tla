------------------------- MODULE TcpSession_proofs -------------------------
(***************************************************************************)
(* Proofs about TcpSession: whatever the peers send, however their steps   *)
(* and those of the two goroutines mix, a session copies on open           *)
(* connections only and implements Duplex.                                 *)
(***************************************************************************)
EXTENDS TcpSession, TLAPS

(* What the stage of the handler says of everything else.                   *)
Unstarted == \A d \in Dirs : pc[d] = "unused"
Joinable  == \A d \in Dirs : pc[d] = "done"

StageInv ==
  /\ stage \in {"queued", "dial"} =>
       Unstarted /\ ~joined /\ conn["origin"] = "open" /\ conn["remote"] = "none"
  /\ stage = "pipe" => joined /\ \A d \in Dirs : pc[d] # "unused"
  /\ stage \in {"leave", "closeRemote"} => Joinable
  /\ stage \in {"pipe", "leave", "closeRemote"} => \A e \in Ends : conn[e] = "open"
  /\ stage \in {"closeOrigin", "closed"} => Unstarted \/ Joinable
  /\ stage \in {"closeRemote", "closeOrigin", "closed"} => ~joined
  /\ stage = "closeOrigin" => conn["origin"] = "open" /\ conn["remote"] # "open"
  /\ stage = "closed" => \A e \in Ends : conn[e] # "open"

(* What the stage of a goroutine says of its direction.                     *)
Copying(d) == pc[d] \in {"unused", "read", "write"}

CopyInv(d) ==
  /\ result[d] = "none" <=> Copying(d)
  /\ Copying(d) => ~readShut[Src(d)] /\ ~writeShut[Dst(d)]
  /\ deadline[Dst(d)] # "none" => pc[d] = "done"
  /\ pc[d] = "unused" => given[d] = 0
  /\ pc[d] = "write" <=> hand[d] # 0
  /\ given[d] + hand[d] <= sent[Src(d)]

SessionInv ==
  /\ TypeOK
  /\ StageInv
  /\ \A d \in Dirs : CopyInv(d)

-----------------------------------------------------------------------------
LEMMA EndsOfDirs ==
  /\ \A d \in Dirs : /\ Src(d) \in Ends /\ Dst(d) \in Ends /\ Src(d) # Dst(d)
                     /\ Other(d) \in Dirs
                     /\ Src(Other(d)) = Dst(d) /\ Dst(Other(d)) = Src(d)
  /\ \A d, u \in Dirs : d # u => Src(d) # Src(u) /\ Dst(d) # Dst(u) /\ Src(d) = Dst(u) /\ u = Other(d)
BY DEF Src, Dst, Other, Dirs, Ends

LEMMA SessionInvInit == Init => SessionInv
<1> SUFFICES ASSUME Init PROVE SessionInv
  OBVIOUS
<1> USE DEF Init
<1>1. TypeOK
  <2>1. 0 \in 0..MaxBytes
    BY SessionAssumption
  <2>2. QED BY <2>1 DEF TypeOK
<1>2. StageInv
  BY DEF StageInv, Unstarted, Joinable, Ends
<1>3. \A d \in Dirs : CopyInv(d)
  BY EndsOfDirs DEF CopyInv, Copying
<1>4. QED BY <1>1, <1>2, <1>3 DEF SessionInv

LEMMA PeersStep == SessionInv /\ Peers => SessionInv'
<1> SUFFICES ASSUME SessionInv, NEW e \in Ends,
                    PeerSends(e) \/ PeerFins(e) \/ PeerResets(e) \/ PeerStalls(e)
             PROVE  SessionInv'
  BY DEF Peers
<1> USE DEF SessionInv, PeerSends, PeerFins, PeerResets, PeerStalls
<1>1. TypeOK'
  <2> USE DEF TypeOK, connVars, copyVars, handlerVars
  <2>1. CASE PeerSends(e)
    <3>1. sent[e] + 1 \in 0..MaxBytes
      BY <2>1, SessionAssumption
    <3>2. QED BY <2>1, <3>1
  <2>2. CASE PeerFins(e) BY <2>2
  <2>3. CASE PeerResets(e) BY <2>3
  <2>4. CASE PeerStalls(e) BY <2>4
  <2>5. QED BY <2>1, <2>2, <2>3, <2>4
<1>2. StageInv'
  BY DEF StageInv, Unstarted, Joinable, connVars, copyVars, handlerVars
<1>3. ASSUME NEW d \in Dirs PROVE CopyInv(d)'
  <2>1. sent'[Src(d)] >= sent[Src(d)]
    BY EndsOfDirs, SessionAssumption DEF TypeOK
  <2>2. sent[Src(d)] \in Nat /\ sent'[Src(d)] \in Nat
    BY EndsOfDirs, <1>1 DEF TypeOK
  <2>3. QED BY <2>1, <2>2 DEF CopyInv, Copying, connVars, copyVars, TypeOK
<1>4. QED BY <1>1, <1>2, <1>3

LEMMA HandlerStep == SessionInv /\ Handler => SessionInv'
<1> SUFFICES ASSUME SessionInv, Handler PROVE SessionInv'
  OBVIOUS
<1> USE DEF SessionInv
<1>1. TypeOK'
  <2> USE DEF TypeOK, peerVars, connVars, copyVars
  <2>1. CASE Process \/ DialFails \/ PipeEnds
    BY <2>1 DEF Process, DialFails, PipeEnds
  <2>2. CASE Dial BY <2>2 DEF Dial, Ends
  <2>3. CASE Leave BY <2>3 DEF Leave
  <2>4. CASE CloseRemote \/ CloseOrigin BY <2>4 DEF CloseRemote, CloseOrigin, Ends
  <2>5. QED BY <2>1, <2>2, <2>3, <2>4 DEF Handler
<1>2. StageInv'
  <2> USE DEF StageInv, Unstarted, Joinable, TypeOK, connVars, copyVars
  <2>1. CASE Process BY <2>1 DEF Process
  <2>2. CASE DialFails BY <2>2 DEF DialFails
  <2>3. CASE Dial BY <2>3 DEF Dial, Ends, Dirs
  <2>4. CASE PipeEnds BY <2>4 DEF PipeEnds
  <2>5. CASE Leave BY <2>5 DEF Leave
  <2>6. CASE CloseRemote BY <2>6 DEF CloseRemote, Ends
  <2>7. CASE CloseOrigin BY <2>7 DEF CloseOrigin, Ends
  <2>8. QED BY <2>1, <2>2, <2>3, <2>4, <2>5, <2>6, <2>7 DEF Handler
<1>3. ASSUME NEW d \in Dirs PROVE CopyInv(d)'
  <2> USE DEF CopyInv, Copying, peerVars, connVars, copyVars
  <2>1. CASE Dial
    BY <2>1 DEF Dial, StageInv, Unstarted
  <2>2. CASE ~Dial
    BY <2>2 DEF Handler, Process, DialFails, PipeEnds, Leave, CloseRemote, CloseOrigin
  <2>3. QED BY <2>1, <2>2
<1>4. QED BY <1>1, <1>2, <1>3

LEMMA CopyStep == ASSUME NEW d \in Dirs PROVE SessionInv /\ Copy(d) => SessionInv'
<1> SUFFICES ASSUME SessionInv, Copy(d) PROVE SessionInv'
  OBVIOUS
<1> USE DEF SessionInv
<1>1. /\ Src(d) \in Ends /\ Dst(d) \in Ends
      /\ sent[Src(d)] \in 0..MaxBytes /\ given[d] \in Nat /\ hand[d] \in Nat
      /\ given[d] + hand[d] <= sent[Src(d)]
      /\ hand[d] # 0 => pc[d] = "write"
  BY EndsOfDirs, SessionAssumption DEF TypeOK, CopyInv
<1>2. stage = "pipe"
  BY DEF StageInv, Unstarted, Joinable, TypeOK, Copy, Read, ReadEOF, ReadFails, Write, WriteFails,
         CloseRead, CloseWrite, Arm
<1>3. TypeOK'
  <2> USE SessionAssumption, <1>1 DEF TypeOK, peerVars, connVars, handlerVars
  <2>1. CASE Read(d) BY <2>1 DEF Read
  <2>2. CASE ReadEOF(d) \/ ReadFails(d) BY <2>2 DEF ReadEOF, ReadFails
  <2>3. CASE Write(d) BY <2>3 DEF Write
  <2>4. CASE WriteFails(d) BY <2>4 DEF WriteFails
  <2>5. CASE CloseRead(d) BY <2>5 DEF CloseRead, CanHalfClose
  <2>6. CASE CloseWrite(d) BY <2>6 DEF CloseWrite, CanHalfClose
  <2>7. CASE Arm(d) BY <2>7 DEF Arm
  <2>8. QED BY <2>1, <2>2, <2>3, <2>4, <2>5, <2>6, <2>7 DEF Copy
<1>4. StageInv'
  <2>1. stage' = stage /\ joined' = joined /\ conn' = conn
    BY DEF Copy, Read, ReadEOF, ReadFails, Write, WriteFails, CloseRead, CloseWrite, Arm,
           connVars, handlerVars
  <2>2. pc'[d] # "unused" /\ \A u \in Dirs : u # d => pc'[u] = pc[u]
    BY DEF TypeOK, Copy, Read, ReadEOF, ReadFails, Write, WriteFails, CloseRead, CloseWrite, Arm
  <2>3. QED BY <1>2, <2>1, <2>2 DEF StageInv
<1>5. CopyInv(d)'
  <2> USE SessionAssumption, EndsOfDirs, <1>1
      DEF TypeOK, CopyInv, Copying, peerVars, connVars
  <2>1. CASE Read(d) BY <2>1 DEF Read, Unread
  <2>2. CASE ReadEOF(d) \/ ReadFails(d) BY <2>2 DEF ReadEOF, ReadFails
  <2>3. CASE Write(d) BY <2>3 DEF Write
  <2>4. CASE WriteFails(d) BY <2>4 DEF WriteFails
  <2>5. CASE CloseRead(d) BY <2>5 DEF CloseRead
  <2>6. CASE CloseWrite(d) BY <2>6 DEF CloseWrite
  <2>7. CASE Arm(d) BY <2>7 DEF Arm
  <2>8. QED BY <2>1, <2>2, <2>3, <2>4, <2>5, <2>6, <2>7 DEF Copy
<1>6. ASSUME NEW u \in Dirs, u # d PROVE CopyInv(u)'
  <2>1. Src(u) # Src(d) /\ Dst(u) # Dst(d) /\ Src(u) \in Ends /\ Dst(u) \in Ends
    BY <1>6, EndsOfDirs
  <2>2. pc'[u] = pc[u] /\ result'[u] = result[u] /\ given'[u] = given[u] /\ hand'[u] = hand[u]
    BY <1>6 DEF TypeOK, Copy, Read, ReadEOF, ReadFails, Write, WriteFails,
                CloseRead, CloseWrite, Arm
  <2>3. /\ readShut'[Src(u)] = readShut[Src(u)] /\ writeShut'[Dst(u)] = writeShut[Dst(u)]
        /\ deadline'[Dst(u)] = deadline[Dst(u)] /\ sent'[Src(u)] = sent[Src(u)]
    BY <1>1, <2>1 DEF TypeOK, Copy, Read, ReadEOF, ReadFails, Write, WriteFails,
                CloseRead, CloseWrite, Arm, peerVars, connVars
  <2>4. QED BY <2>2, <2>3 DEF CopyInv, Copying
<1>7. QED BY <1>3, <1>4, <1>5, <1>6

LEMMA DeadlineStep == ASSUME NEW e \in Ends PROVE SessionInv /\ DeadlinePasses(e) => SessionInv'
<1> SUFFICES ASSUME SessionInv, DeadlinePasses(e) PROVE SessionInv'
  OBVIOUS
<1> USE DEF SessionInv, DeadlinePasses, peerVars, copyVars, handlerVars
<1>1. TypeOK'
  BY DEF TypeOK
<1>2. StageInv'
  BY DEF StageInv, Unstarted, Joinable
<1>3. ASSUME NEW d \in Dirs PROVE CopyInv(d)'
  <2>1. deadline'[Dst(d)] # "none" => deadline[Dst(d)] # "none"
    BY EndsOfDirs DEF TypeOK
  <2>2. QED BY <2>1 DEF CopyInv, Copying
<1>4. QED BY <1>1, <1>2, <1>3

LEMMA SessionInvStep == SessionInv /\ [Next]_vars => SessionInv'
<1> SUFFICES ASSUME SessionInv, [Next]_vars PROVE SessionInv'
  OBVIOUS
<1>1. CASE UNCHANGED vars
  <2>1. UNCHANGED <<peerVars, connVars, copyVars, handlerVars>>
    BY <1>1 DEF vars
  <2>2. TypeOK'
    BY <2>1 DEF SessionInv, TypeOK, peerVars, connVars, copyVars, handlerVars
  <2>3. StageInv'
    BY <2>1 DEF SessionInv, StageInv, Unstarted, Joinable, connVars, copyVars, handlerVars
  <2>4. \A d \in Dirs : CopyInv(d)'
    BY <2>1 DEF SessionInv, CopyInv, Copying, peerVars, connVars, copyVars
  <2>5. QED BY <2>2, <2>3, <2>4 DEF SessionInv
<1>2. QED BY <1>1, PeersStep, HandlerStep, CopyStep, DeadlineStep DEF Next

LEMMA SessionInvariant == Spec => []SessionInv
BY SessionInvInit, SessionInvStep, PTL DEF Spec

(* tunnel/tcp.go: type correctness.                                         *)
THEOREM SessionTypeCorrect == Spec => []TypeOK
<1>1. SessionInv => TypeOK
  BY DEF SessionInv
<1>2. QED BY <1>1, SessionInvariant, PTL

(* handleTCPConn closes the connections and leaves the registry only after  *)
(* both goroutines, and in the end does all of it.                          *)
THEOREM CopiesHaveConns == Spec => []CopiesOnOpenConns
<1>1. SessionInv => CopiesOnOpenConns
  BY DEF SessionInv, TypeOK, StageInv, CopyInv, Copying, Unstarted, Joinable, CopiesOnOpenConns
<1>2. QED BY <1>1, SessionInvariant, PTL

-----------------------------------------------------------------------------
(* Refinement: each step is one of Duplex or shows nothing of itself.       *)
LEMMA StreamInit == Init => Stream!Init
<1> SUFFICES ASSUME Init PROVE Stream!Init
  OBVIOUS
<1>1. ~Refused
  BY DEF Init, Refused
<1>2. QED BY <1>1, EndsOfDirs DEF Init, Stream!Init, Stream!Dirs, Dirs, Timely, Ended

LEMMA DirsOfEnds == \A e \in Ends : \E d \in Dirs : Src(d) = e
BY DEF Src, Dirs, Ends

LEMMA Unseen ==
  ASSUME UNCHANGED <<sent, fin, reset, given, result>>, (Refused' <=> Refused),
         \A d \in Dirs : (Timely(Src(d))' <=> Timely(Src(d)))
  PROVE  UNCHANGED Stream!vars
BY DEF Stream!vars, Ended

LEMMA MapsUpdate ==
  ASSUME NEW S, NEW f \in [Ends -> S], NEW e \in Ends, NEW d \in Dirs, Src(d) = e, NEW v
  PROVE  [u \in Dirs |-> [f EXCEPT ![e] = v][Src(u)]] = [[u \in Dirs |-> f[Src(u)]] EXCEPT ![d] = v]
BY EndsOfDirs

LEMMA PeersStream == SessionInv /\ Peers => Stream!Next \/ UNCHANGED Stream!vars
<1> SUFFICES ASSUME SessionInv, NEW e \in Ends,
                    PeerSends(e) \/ PeerFins(e) \/ PeerResets(e) \/ PeerStalls(e)
             PROVE  Stream!Next \/ UNCHANGED Stream!vars
  BY DEF Peers
<1>1. PICK d \in Dirs : Src(d) = e
  BY DirsOfEnds
<1>2. (Refused' <=> Refused) /\ \A u \in Dirs : (Timely(Src(u))' <=> Timely(Src(u)))
  BY DEF PeerSends, PeerFins, PeerResets, PeerStalls, Refused, Timely,
         connVars, copyVars, handlerVars
<1>3. d \in Stream!Dirs /\ \A u \in Dirs : u # d => Src(u) # e
  BY <1>1, EndsOfDirs DEF Stream!Dirs, Dirs
<1> USE <1>1, <1>2, <1>3, EndsOfDirs DEF SessionInv, TypeOK
<1>4. CASE PeerSends(e)
  <2>1. Stream!Send(d)
    <3>1. [u \in Dirs |-> sent'[Src(u)]] = [[u \in Dirs |-> sent[Src(u)]] EXCEPT ![d] = sent[e] + 1]
      BY <1>4, MapsUpdate, ZenonT(40) DEF PeerSends
    <3>2. UNCHANGED <<fin, reset, given, result>>
      BY <1>4 DEF PeerSends, copyVars
    <3>3. UNCHANGED <<[u \in Dirs |-> ~Timely(Src(u))],
                      [u \in Dirs |-> Ended(u)]>>
      BY <3>2 DEF Ended
    <3>4. QED BY <1>4, <3>1, <3>2, <3>3 DEF PeerSends, Stream!Send
  <2>2. QED BY <2>1 DEF Stream!Next
<1>5. CASE PeerFins(e)
  <2>1. Stream!Finish(d)
    <3>1. [u \in Dirs |-> fin'[Src(u)]] = [[u \in Dirs |-> fin[Src(u)]] EXCEPT ![d] = TRUE]
      BY <1>5, MapsUpdate DEF PeerFins
    <3>2. UNCHANGED <<sent, reset, given, result>>
      BY <1>5 DEF PeerFins, copyVars
    <3>3. UNCHANGED <<[u \in Dirs |-> ~Timely(Src(u))],
                      [u \in Dirs |-> Ended(u)]>>
      BY <3>2 DEF Ended
    <3>4. QED BY <3>1, <3>2, <3>3 DEF Stream!Finish
  <2>2. QED BY <2>1 DEF Stream!Next
<1>6. CASE PeerResets(e)
  <2>1. Stream!Break(d)
    <3>1. [u \in Dirs |-> reset'[Src(u)]] = [[u \in Dirs |-> reset[Src(u)]] EXCEPT ![d] = TRUE]
      BY <1>6, MapsUpdate, ZenonT(40) DEF PeerResets
    <3>2. UNCHANGED <<sent, fin, given, result>>
      BY <1>6 DEF PeerResets, copyVars
    <3>3. UNCHANGED <<[u \in Dirs |-> ~Timely(Src(u))],
                      [u \in Dirs |-> Ended(u)]>>
      BY <3>2 DEF Ended
    <3>4. QED BY <3>1, <3>2, <3>3 DEF Stream!Break
  <2>2. QED BY <2>1 DEF Stream!Next
<1>7. CASE PeerStalls(e)
  BY <1>7, Unseen DEF PeerStalls, copyVars
<1>8. QED BY <1>4, <1>5, <1>6, <1>7

LEMMA HandlerStream == SessionInv /\ Handler => Stream!Next \/ UNCHANGED Stream!vars
<1> SUFFICES ASSUME SessionInv, Handler PROVE Stream!Next \/ UNCHANGED Stream!vars
  OBVIOUS
<1>1. /\ UNCHANGED <<sent, fin, reset, given, result>>
      /\ \A d \in Dirs : (Timely(Src(d))' <=> Timely(Src(d)))
  BY DEF Handler, Process, DialFails, Dial, PipeEnds, Leave, CloseRemote, CloseOrigin,
         peerVars, connVars, copyVars, Timely
<1>2. CASE DialFails
  <2>1. ~Refused /\ Refused'
    BY <1>2 DEF DialFails, Refused, SessionInv, StageInv, Unstarted, copyVars
  <2>2. \A d \in Dirs : result[d] = "none" /\ given[d] = 0
    BY <1>2 DEF DialFails, SessionInv, StageInv, Unstarted, CopyInv, Copying
  <2>3. Stream!Refuse
    BY <1>1, <2>1, <2>2 DEF Stream!Refuse, Stream!Dirs, Dirs, Ended
  <2>4. QED BY <2>3 DEF Stream!Next
<1>3. CASE ~DialFails
  <2>1. (Refused' <=> Refused)
    BY <1>3 DEF Handler, Process, Dial, PipeEnds, Leave, CloseRemote, CloseOrigin, copyVars,
                Refused, SessionInv, StageInv, Joinable, Dirs
  <2>2. QED BY <1>1, <2>1, Unseen
<1>4. QED BY <1>2, <1>3

LEMMA CopyStream ==
  ASSUME NEW d \in Dirs PROVE SessionInv /\ Copy(d) => Stream!Next \/ UNCHANGED Stream!vars
<1> SUFFICES ASSUME SessionInv, Copy(d) PROVE Stream!Next \/ UNCHANGED Stream!vars
  OBVIOUS
<1>1. stage = "pipe" /\ stage' = "pipe" /\ ~Refused /\ ~Refused'
  BY DEF SessionInv, StageInv, Unstarted, Joinable, TypeOK, Refused, handlerVars,
         Copy, Read, ReadEOF, ReadFails, Write, WriteFails, CloseRead, CloseWrite, Arm
<1>2. /\ Src(d) \in Ends /\ Dst(d) \in Ends
      /\ Stream!Other(d) \in Dirs /\ Src(Stream!Other(d)) = Dst(d)
      /\ d \in Stream!Dirs
      /\ \A e \in Ends : conn[e] = "open"
  BY <1>1, EndsOfDirs DEF Stream!Other, Other, Stream!Dirs, Dirs, SessionInv, StageInv
<1>3. /\ sent[Src(d)] \in Nat /\ given[d] \in Nat /\ hand[d] \in Nat
      /\ given[d] + hand[d] <= sent[Src(d)]
      /\ pc[d] = "write" <=> hand[d] # 0
      /\ pc[d] \in {"read", "write"} =>
           result[d] = "none" /\ ~readShut[Src(d)] /\ ~writeShut[Dst(d)]
  BY <1>2, SessionAssumption DEF SessionInv, TypeOK, CopyInv, Copying
<1>4. CASE Read(d) \/ CloseRead(d) \/ CloseWrite(d)
  <2>1. UNCHANGED <<sent, fin, reset, given, result, deadline>>
    BY <1>4 DEF Read, CloseRead, CloseWrite, peerVars, connVars
  <2>2. QED BY <1>1, <2>1, Unseen DEF Timely
<1>5. CASE Arm(d)
  <2>1. deadline[Dst(d)] = "none"
    BY <1>5, <1>2 DEF Arm, SessionInv, CopyInv
  <2>2. \A u \in Dirs : (Timely(Src(u))' <=> Timely(Src(u)))
    BY <1>5, <2>1 DEF Arm, Timely, SessionInv, TypeOK
  <2>3. UNCHANGED <<sent, fin, reset, given, result>>
    BY <1>5 DEF Arm, peerVars
  <2>4. QED BY <1>1, <2>2, <2>3, Unseen
<1>6. CASE ReadEOF(d)
  <2>1. fin[Src(d)] /\ given[d] = sent[Src(d)]
    BY <1>3, <1>6 DEF ReadEOF, Unread
  <2>2. Stream!Complete(d)
    BY <1>1, <1>2, <1>3, <1>6, <2>1
       DEF Ended, ReadEOF, Stream!Complete, peerVars, connVars, Timely, Stream!Dirs, Dirs, SessionInv, TypeOK
  <2>3. QED BY <1>2, <2>2 DEF Stream!Next
<1>7. CASE ReadFails(d)
  <2>1. reset[Src(d)] \/ ~Timely(Src(d))
    BY <1>2, <1>7 DEF ReadFails, Usable
  <2>2. given[d] \in given[d]..sent[Src(d)] /\ given' = [given EXCEPT ![d] = given[d]]
    BY <1>3, <1>7 DEF ReadFails, SessionInv, TypeOK
  <2>3. Stream!Cut(d)
    BY <1>1, <1>2, <1>3, <1>7, <2>1, <2>2
       DEF Ended, ReadFails, Stream!Cut, peerVars, connVars, Timely, Stream!Dirs, Dirs, SessionInv, TypeOK
  <2>4. QED BY <1>2, <2>3 DEF Stream!Next
<1>8. CASE Write(d)
  <2>1. given[d] + hand[d] \in (given[d] + 1)..sent[Src(d)]
    BY <1>3, <1>8 DEF Write
  <2>2. /\ UNCHANGED <<sent, fin, reset, deadline, result>>
        /\ given' = [given EXCEPT ![d] = given[d] + hand[d]]
        /\ result[d] = "none"
    BY <1>3, <1>8 DEF Write, peerVars, connVars
  <2>3. Stream!Deliver(d)
    BY <1>1, <1>2, <2>1, <2>2 DEF Stream!Deliver, Timely, Ended
  <2>4. QED BY <1>2, <2>3 DEF Stream!Next
<1>9. CASE WriteFails(d)
  <2>1. reset[Dst(d)]
    BY <1>2, <1>3, <1>9 DEF WriteFails, Usable
  <2>2. PICK n \in 0..hand[d] : given' = [given EXCEPT ![d] = @ + n]
    BY <1>9 DEF WriteFails
  <2>3. given[d] + n \in given[d]..sent[Src(d)]
    BY <1>3, <2>2
  <2>4. Stream!Cut(d)
    BY <1>1, <1>2, <1>3, <1>9, <2>1, <2>2, <2>3, ZenonT(40)
       DEF Ended, WriteFails, Stream!Cut, peerVars, connVars, Timely, Stream!Dirs, Dirs, SessionInv, TypeOK
  <2>5. QED BY <1>2, <2>4 DEF Stream!Next
<1>10. QED BY <1>4, <1>5, <1>6, <1>7, <1>8, <1>9 DEF Copy

LEMMA DeadlineStream ==
  ASSUME NEW e \in Ends PROVE SessionInv /\ DeadlinePasses(e) => Stream!Next
<1> SUFFICES ASSUME SessionInv, DeadlinePasses(e) PROVE Stream!Next
  OBVIOUS
<1>1. PICK d \in Dirs : Src(d) = e
  BY DirsOfEnds
<1>2. /\ Other(d) \in Dirs /\ Dst(Other(d)) = e /\ Stream!Other(d) = Other(d)
      /\ d \in Stream!Dirs
      /\ \A u \in Dirs : u # d => Src(u) # e
  BY <1>1, EndsOfDirs DEF Stream!Other, Other, Stream!Dirs, Dirs
<1>3. pc[Other(d)] = "done" /\ result[Other(d)] # "none"
  BY <1>2 DEF SessionInv, CopyInv, Copying, DeadlinePasses
<1>4. result[Other(d)] \in {"eof", "error"}
  BY <1>2, <1>3 DEF SessionInv, TypeOK
<1>5. (Refused' <=> Refused)
  BY DEF DeadlinePasses, Refused, copyVars, handlerVars
<1>6. Stream!TimeIsUp(d)
  <2>1. [u \in Dirs |-> ~Timely(Src(u))]' = [[u \in Dirs |-> ~Timely(Src(u))] EXCEPT ![d] = TRUE]
    <3>1. \A u \in Dirs : deadline'[Src(u)] = IF u = d THEN "passed" ELSE deadline[Src(u)]
      BY <1>1, <1>2, EndsOfDirs DEF DeadlinePasses, SessionInv, TypeOK
    <3>2. \A u \in Dirs : (deadline'[Src(u)] # "passed") <=> (u # d /\ deadline[Src(u)] # "passed")
      BY <3>1
    <3>3. \A u \in Dirs : (~Timely(Src(u)))' = [[w \in Dirs |-> ~Timely(Src(w))] EXCEPT ![d] = TRUE][u]
      BY <3>2 DEF Timely
    <3>4. QED BY <3>3
  <2>2. UNCHANGED <<sent, fin, reset, given, result>>
    BY DEF DeadlinePasses, peerVars, copyVars
  <2>3. UNCHANGED [u \in Dirs |-> Ended(u)]
    BY <1>5, <2>2 DEF Ended
  <2>4. Ended(Other(d)) # "open"
    BY <1>4 DEF Ended
  <2>5. QED BY <1>2, <2>1, <2>2, <2>3, <2>4 DEF Stream!TimeIsUp
<1>7. QED BY <1>2, <1>6 DEF Stream!Next

(* tunnel/tcp.go:57-73: what a session relays are the streams of Duplex, so  *)
(* nothing is lost or told to be complete too early, and a half-closed       *)
(* connection goes on until its deadline, for any number of bytes.           *)
THEOREM SessionImplementsDuplex == Spec => ImplementsDuplex
<1>1. SessionInv /\ [Next]_vars => [Stream!Next]_(Stream!vars)
  <2>1. CASE UNCHANGED vars
    BY <2>1, Unseen DEF vars, peerVars, connVars, copyVars, handlerVars, Refused, Timely
  <2>2. QED BY <2>1, PeersStream, HandlerStream, CopyStream, DeadlineStream DEF Next
<1>2. QED BY <1>1, StreamInit, SessionInvariant, PTL DEF Spec, ImplementsDuplex, Stream!Spec
=============================================================================
