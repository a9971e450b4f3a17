--------------------------- MODULE Tunnel_proofs ---------------------------
(***************************************************************************)
(* Proofs about what the tunnel keeps per session and for all of them:     *)
(* UdpSession, for every timeout and queue length, and Statistics, for any *)
(* number of sessions and bytes.  The two have no variable in common; each *)
(* theorem is about the specification it names.                            *)
(***************************************************************************)
EXTENDS UdpSession, Statistics, FiniteSetTheorems, TLAPS

-----------------------------------------------------------------------------
(* UdpSession: whatever the peers send and however time and the two        *)
(* goroutines mix, a session copies on open connections only, and times    *)
(* out only when it is quiet.                                              *)

(* What the stage of the handler says of everything else.                   *)
Unstarted == \A d \in Dirs : pc[d] = "unused"
Joinable  == \A d \in Dirs : pc[d] = "done"
BothOpen  == conn["origin"] = "open" /\ conn["remote"] = "open"

StageInv ==
  /\ stage \in {"queued", "dial"} =>
       Unstarted /\ ~joined /\ conn["origin"] = "open" /\ conn["remote"] = "none"
  /\ stage = "pipe" => joined /\ BothOpen /\ \A d \in Dirs : pc[d] # "unused"
  /\ stage = "leave" => joined /\ BothOpen /\ Joinable
  /\ stage = "closeRemote" => ~joined /\ BothOpen /\ Joinable
  /\ stage \in {"closeOrigin", "closed"} => ~joined /\ (Unstarted \/ Joinable)
  /\ stage = "closeOrigin" => conn["origin"] = "open" /\ conn["remote"] # "open"
  /\ stage = "closed" => conn["origin"] # "open" /\ conn["remote"] # "open"

(* A read waits under a deadline that was set no longer ago than either    *)
(* direction passed a packet; the other one's may be about to be moved.    *)
ClockInv(d) ==
  pc[d] = "read" =>
    /\ armed[Src(d)] # Never
    /\ armed[Src(d)] <= passed[d]
    /\ pc[Other(d)] # "refresh" => armed[Src(d)] <= passed[Other(d)]

SessionInv ==
  /\ TypeOK
  /\ StageInv
  /\ \A d \in Dirs : ClockInv(d)

-----------------------------------------------------------------------------
LEMMA EndsOfDirs ==
  /\ \A d \in Dirs : /\ Src(d) \in Ends /\ Dst(d) \in Ends /\ Src(d) # Dst(d)
                     /\ Other(d) \in Dirs /\ Other(d) # d
                     /\ Src(Other(d)) = Dst(d) /\ Dst(Other(d)) = Src(d) /\ Other(Other(d)) = d
  /\ \A d, u \in Dirs : d # u => u = Other(d)
  /\ \A e \in Ends : e = "origin" \/ e = "remote"
BY DEF Src, Dst, Other, Dirs, Ends

LEMMA Clocks ==
  /\ 0 \in 0..Timeout /\ 0 \in 0..Never /\ Never \in 0..Never
  /\ \A n \in 0..Timeout : Later(n) \in 0..Timeout /\ Later(n) \in 0..Never /\ Later(n) # Never
  /\ \A n \in 0..Never : n # Never => n \in 0..Timeout
  /\ \A m, n \in 0..Timeout : m <= n => Later(m) <= Later(n)
BY UdpAssumption DEF Never, Later

LEMMA SessionInvInit == Init => SessionInv
<1> SUFFICES ASSUME Init PROVE SessionInv
  OBVIOUS
<1> USE DEF Init
<1>1. TypeOK
  <2>1. /\ <<"own">> \in Seq({"own", "foreign", "bad"}) /\ Len(<<"own">>) = 1
        /\ <<>> \in Seq({"own", "foreign", "bad"}) /\ Len(<<>>) = 0
    OBVIOUS
  <2>2. \A e \in Ends : arrived[e] = <<"own">> \/ arrived[e] = <<>>
    OBVIOUS
  <2>3. ASSUME NEW e \in Ends
        PROVE  arrived[e] \in Seq({"own", "foreign", "bad"}) /\ Len(arrived[e]) <= MaxQueue
    <3>1. 0 <= MaxQueue /\ 1 <= MaxQueue
      BY UdpAssumption
    <3>2. CASE arrived[e] = <<"own">> BY <2>1, <3>1, <3>2
    <3>3. CASE arrived[e] = <<>> BY <2>1, <3>1, <3>3
    <3>4. QED BY <2>2, <3>2, <3>3
  <2>4. QED BY <2>3, Clocks DEF TypeOK
<1>2. StageInv
  BY DEF StageInv, Unstarted, Ends
<1>3. \A d \in Dirs : ClockInv(d)
  BY DEF ClockInv
<1>4. QED BY <1>1, <1>2, <1>3 DEF SessionInv

LEMMA PeersStep == SessionInv /\ Peers => SessionInv'
<1> SUFFICES ASSUME SessionInv, NEW e \in Ends, Arrives(e) \/ FallsSilent(e) \/ Breaks(e)
             PROVE  SessionInv'
  BY DEF Peers
<1> USE DEF SessionInv, Arrives, FallsSilent, Breaks, copyVars, handlerVars
<1>1. TypeOK'
  <2>1. CASE Arrives(e)
    <3>1. PICK p \in Packets(e) : arrived' = [arrived EXCEPT ![e] = Append(@, p)]
      BY <2>1
    <3>2. p \in {"own", "foreign", "bad"} /\ arrived[e] \in Seq({"own", "foreign", "bad"})
      BY DEF Packets, TypeOK
    <3>3. /\ Append(arrived[e], p) \in Seq({"own", "foreign", "bad"})
          /\ Len(Append(arrived[e], p)) <= MaxQueue
      BY <2>1, <3>2, UdpAssumption
    <3>4. QED BY <2>1, <3>1, <3>3 DEF TypeOK
  <2>2. CASE FallsSilent(e) BY <2>2 DEF TypeOK
  <2>3. CASE Breaks(e) BY <2>3 DEF TypeOK
  <2>4. QED BY <2>1, <2>2, <2>3
<1>2. StageInv'
  BY DEF StageInv, Unstarted, Joinable, BothOpen
<1>3. ASSUME NEW d \in Dirs PROVE ClockInv(d)'
  BY DEF ClockInv
<1>4. QED BY <1>1, <1>2, <1>3

LEMMA TickStep == SessionInv /\ Tick => SessionInv'
<1> SUFFICES ASSUME SessionInv, Tick PROVE SessionInv'
  OBVIOUS
<1> USE DEF SessionInv, Tick, peerVars, copyVars, handlerVars
<1>1. TypeOK'
  BY Clocks DEF TypeOK
<1>2. StageInv'
  BY DEF StageInv, Unstarted, Joinable, BothOpen
<1>3. ASSUME NEW d \in Dirs PROVE ClockInv(d)'
  <2>1. /\ armed[Src(d)] \in 0..Never /\ passed[d] \in 0..Timeout /\ passed[Other(d)] \in 0..Timeout
        /\ armed'[Src(d)] = (IF armed[Src(d)] = Never THEN Never ELSE Later(armed[Src(d)]))
        /\ passed'[d] = Later(passed[d]) /\ passed'[Other(d)] = Later(passed[Other(d)])
    BY EndsOfDirs DEF TypeOK
  <2>2. QED BY <2>1, Clocks DEF ClockInv
<1>4. QED BY <1>1, <1>2, <1>3

LEMMA HandlerStep == SessionInv /\ Handler => SessionInv'
<1> SUFFICES ASSUME SessionInv, Handler PROVE SessionInv'
  OBVIOUS
<1> USE DEF SessionInv
<1>1. TypeOK'
  <2> USE DEF TypeOK, peerVars, copyVars
  <2>1. CASE Process \/ DialFails \/ PipeEnds
    BY <2>1 DEF Process, DialFails, PipeEnds
  <2>2. CASE Dial BY <2>2, Clocks DEF Dial
  <2>3. CASE Leave BY <2>3 DEF Leave
  <2>4. CASE CloseRemote \/ CloseOrigin BY <2>4 DEF CloseRemote, CloseOrigin
  <2>5. QED BY <2>1, <2>2, <2>3, <2>4 DEF Handler
<1>2. StageInv'
  <2> USE DEF StageInv, Unstarted, Joinable, BothOpen, TypeOK, copyVars
  <2>1. CASE Process BY <2>1 DEF Process
  <2>2. CASE DialFails BY <2>2 DEF DialFails
  <2>3. CASE Dial BY <2>3 DEF Dial, Ends, Dirs
  <2>4. CASE PipeEnds BY <2>4 DEF PipeEnds
  <2>5. CASE Leave BY <2>5 DEF Leave
  <2>6. CASE CloseRemote BY <2>6 DEF CloseRemote, Ends
  <2>7. CASE CloseOrigin BY <2>7 DEF CloseOrigin, Ends
  <2>8. QED BY <2>1, <2>2, <2>3, <2>4, <2>5, <2>6, <2>7 DEF Handler
<1>3. ASSUME NEW d \in Dirs PROVE ClockInv(d)'
  <2>1. CASE Dial
    BY <2>1 DEF Dial, ClockInv
  <2>2. CASE ~Dial
    BY <2>2 DEF ClockInv, copyVars, Handler, Process, DialFails, PipeEnds, Leave, CloseRemote, CloseOrigin
  <2>3. QED BY <2>1, <2>2
<1>4. QED BY <1>1, <1>2, <1>3

LEMMA CopyStep == ASSUME NEW d \in Dirs PROVE SessionInv /\ Copy(d) => SessionInv'
<1> SUFFICES ASSUME SessionInv, Copy(d) PROVE SessionInv'
  OBVIOUS
<1> USE DEF SessionInv
<1>1. /\ Src(d) \in Ends /\ Dst(d) \in Ends /\ Src(d) # Dst(d)
      /\ Other(d) \in Dirs /\ Other(d) # d /\ Src(Other(d)) = Dst(d) /\ Other(Other(d)) = d
  BY EndsOfDirs
<1>2. TypeOK'
  <2> USE <1>1, Clocks DEF TypeOK, peerVars, handlerVars, EndsWith
  <2>1. CASE Arm(d) BY <2>1 DEF Arm
  <2>2. CASE ReadPacket(d) \/ DropForeign(d)
    <3>1. /\ arrived[Src(d)] \in Seq({"own", "foreign", "bad"}) /\ arrived[Src(d)] # <<>>
          /\ arrived' = [arrived EXCEPT ![Src(d)] = Tail(@)]
      BY <2>2 DEF ReadPacket, DropForeign, Queue
    <3>2. /\ Tail(arrived[Src(d)]) \in Seq({"own", "foreign", "bad"})
          /\ Len(Tail(arrived[Src(d)])) <= Len(arrived[Src(d)])
      BY <3>1
    <3>3. \A e \in Ends : Len(arrived'[e]) <= MaxQueue
      BY <3>1, <3>2, UdpAssumption
    <3>4. QED BY <2>2, <3>1, <3>2, <3>3 DEF ReadPacket, DropForeign, copyVars
  <2>3. CASE ReadFails(d) \/ ReadTimesOut(d) BY <2>3 DEF ReadFails, ReadTimesOut
  <2>4. CASE Write(d) BY <2>4 DEF Write
  <2>5. CASE WriteFails(d) BY <2>5 DEF WriteFails
  <2>6. CASE Refresh(d) BY <2>6 DEF Refresh
  <2>7. QED BY <2>1, <2>2, <2>3, <2>4, <2>5, <2>6 DEF Copy
<1>3. /\ stage' = stage /\ joined' = joined /\ conn' = conn
      /\ pc[d] \notin {"unused", "done"} /\ pc'[d] # "unused"
      /\ pc'[Other(d)] = pc[Other(d)]
  BY <1>1 DEF TypeOK, Copy, Arm, ReadPacket, DropForeign, ReadFails, ReadTimesOut, Write, WriteFails,
              Refresh, EndsWith, handlerVars, copyVars
<1>4. StageInv'
  <2>1. stage = "pipe"
    BY <1>3 DEF StageInv, Unstarted, Joinable, TypeOK
  <2>2. \A u \in Dirs : pc'[u] # "unused"
    BY <1>3, <2>1, EndsOfDirs DEF StageInv
  <2>3. QED BY <1>3, <2>1, <2>2 DEF StageInv, BothOpen
<1>5. ClockInv(d)'
  <2> USE <1>1, <1>3, UdpAssumption DEF ClockInv, TypeOK, EndsWith, peerVars, handlerVars, copyVars, Never
  <2>1. CASE Arm(d) BY <2>1 DEF Arm
  <2>2. CASE ReadPacket(d) BY <2>2 DEF ReadPacket
  <2>3. CASE DropForeign(d) BY <2>3 DEF DropForeign
  <2>4. CASE ReadFails(d) \/ ReadTimesOut(d) BY <2>4 DEF ReadFails, ReadTimesOut
  <2>5. CASE Write(d) BY <2>5 DEF Write
  <2>6. CASE WriteFails(d) BY <2>6 DEF WriteFails
  <2>7. CASE Refresh(d) BY <2>7 DEF Refresh
  <2>8. QED BY <2>1, <2>2, <2>3, <2>4, <2>5, <2>6, <2>7 DEF Copy
<1>6. ClockInv(Other(d))'
  <2> USE <1>1, <1>3, UdpAssumption DEF ClockInv, TypeOK, EndsWith, peerVars, handlerVars, copyVars, Never
  <2>1. CASE Arm(d) BY <2>1 DEF Arm
  <2>2. CASE ReadPacket(d) BY <2>2 DEF ReadPacket
  <2>3. CASE DropForeign(d) BY <2>3 DEF DropForeign
  <2>4. CASE ReadFails(d) \/ ReadTimesOut(d) BY <2>4 DEF ReadFails, ReadTimesOut
  <2>5. CASE Write(d) BY <2>5 DEF Write
  <2>6. CASE WriteFails(d) BY <2>6 DEF WriteFails
  <2>7. CASE Refresh(d) BY <2>7 DEF Refresh
  <2>8. QED BY <2>1, <2>2, <2>3, <2>4, <2>5, <2>6, <2>7 DEF Copy
<1>7. QED BY <1>2, <1>4, <1>5, <1>6, EndsOfDirs

LEMMA SessionInvStep == SessionInv /\ [Next]_vars => SessionInv'
<1> SUFFICES ASSUME SessionInv, [Next]_vars PROVE SessionInv'
  OBVIOUS
<1>1. CASE UNCHANGED vars
  <2>1. UNCHANGED <<arrived, silent, broken, conn, armed, pc, result, stage, joined, passed>>
    BY <1>1 DEF vars, peerVars, copyVars, handlerVars
  <2>2. TypeOK'
    BY <2>1 DEF SessionInv, TypeOK
  <2>3. StageInv'
    BY <2>1 DEF SessionInv, StageInv, Unstarted, Joinable, BothOpen
  <2>4. \A d \in Dirs : ClockInv(d)'
    BY <2>1 DEF SessionInv, ClockInv
  <2>5. QED BY <2>2, <2>3, <2>4 DEF SessionInv
<1>2. QED BY <1>1, PeersStep, TickStep, HandlerStep, CopyStep DEF Next

LEMMA SessionInvAlways == Spec => []SessionInv
<1>1. QED BY SessionInvInit, SessionInvStep, PTL DEF Spec

(* Every variable of a UDP session keeps its type.                         *)
THEOREM UdpTypeCorrect == Spec => []TypeOK
<1>1. SessionInv => TypeOK
  BY DEF SessionInv
<1>2. QED BY <1>1, SessionInvAlways, PTL

(* A session copies on open, listed connections only, and leaves nothing   *)
(* behind (udp.go:18, 36-37, 58), for every timeout.                       *)
THEOREM UdpCopiesOnOpenConns == Spec => []CopiesOnOpenConns
<1>1. SessionInv => CopiesOnOpenConns
  <2> SUFFICES ASSUME SessionInv PROVE CopiesOnOpenConns
    OBVIOUS
  <2> USE DEF SessionInv, StageInv, Unstarted, Joinable, BothOpen, TypeOK
  <2>1. ASSUME NEW d \in Dirs, pc[d] \notin {"unused", "done"}
        PROVE  joined /\ \A e \in Ends : conn[e] = "open"
    BY <2>1, EndsOfDirs
  <2>2. joined => conn["remote"] = "open"
    OBVIOUS
  <2>3. stage = "closed" => ~joined /\ \A e \in Ends : conn[e] # "open"
    BY EndsOfDirs
  <2>4. QED BY <2>1, <2>2, <2>3 DEF CopiesOnOpenConns
<1>2. QED BY <1>1, SessionInvAlways, PTL

(* A read times out only when both directions are quiet, but for the       *)
(* packet whose deadline the other goroutine is about to move              *)
(* (udp.go:73, 86).                                                        *)
LEMMA QuietStep ==
  SessionInv /\ [Next]_vars =>
    \A d \in Dirs : result'[d] = "timeout" /\ result[d] # "timeout" =>
        /\ passed[d] = Timeout
        /\ passed[Other(d)] = Timeout \/ pc[Other(d)] = "refresh"
<1> SUFFICES ASSUME SessionInv, [Next]_vars, NEW d \in Dirs,
                    result'[d] = "timeout", result[d] # "timeout"
             PROVE  /\ passed[d] = Timeout
                    /\ passed[Other(d)] = Timeout \/ pc[Other(d)] = "refresh"
  OBVIOUS
<1> USE DEF SessionInv, TypeOK
<1>1. ASSUME NEW u \in Dirs, Copy(u) PROVE ReadTimesOut(d)
  BY <1>1 DEF Copy, Arm, ReadPacket, DropForeign, ReadFails, ReadTimesOut, Write, WriteFails, Refresh,
              EndsWith, copyVars
<1>2. ReadTimesOut(d)
  BY <1>1 DEF Next, Peers, Arrives, FallsSilent, Breaks, Tick, Handler, Process, DialFails, Dial,
              PipeEnds, Leave, CloseRemote, CloseOrigin, copyVars, vars
<1>3. pc[d] = "read" /\ armed[Src(d)] = Timeout
  BY <1>2 DEF ReadTimesOut, Due
<1>4. Other(d) \in Dirs /\ passed[d] \in 0..Timeout /\ passed[Other(d)] \in 0..Timeout
  BY EndsOfDirs
<1>5. QED BY <1>3, <1>4, UdpAssumption DEF ClockInv

THEOREM UdpTimeoutMeansQuiet == Spec => TimeoutMeansQuiet
<1>1. QED BY SessionInvAlways, QuietStep, PTL DEF Spec, TimeoutMeansQuiet

-----------------------------------------------------------------------------
(* Statistics: the rates never show a byte twice, an open connection is in *)
(* the list unless somebody is closing it, and the totals are those of the *)
(* trackers.                                                               *)

(* A request is in one tracker's Close at a time.                          *)
OneClosing == \A s, t \in closing : s = t

StatisticsInv == ManagerTypeOK /\ NoByteShownTwice /\ OpenIsListed /\ OneClosing

-----------------------------------------------------------------------------
LEMMA StatisticsInvInit == ManagerInit => StatisticsInv
<1> SUFFICES ASSUME ManagerInit PROVE StatisticsInv
  OBVIOUS
<1> USE DEF ManagerInit
<1>1. ManagerTypeOK
  BY DEF ManagerTypeOK
<1>2. NoByteShownTwice
  BY DEF NoByteShownTwice, Waiting
<1>3. OpenIsListed /\ OneClosing
  BY DEF OpenIsListed, OneClosing
<1>4. QED BY <1>1, <1>2, <1>3 DEF StatisticsInv

LEMMA TrackerStep ==
  ASSUME NEW s \in Sessions PROVE StatisticsInv /\ Tracker(s) => StatisticsInv'
<1> SUFFICES ASSUME StatisticsInv, Tracker(s) PROVE StatisticsInv'
  OBVIOUS
<1> USE DEF StatisticsInv, Tracker, TrackerJoins, TrackerLeaves, TrackerCloses, counters
<1>1. ManagerTypeOK'
  BY DEF ManagerTypeOK
<1>2. NoByteShownTwice'
  BY DEF NoByteShownTwice, Waiting
<1>3. OpenIsListed'
  BY DEF OpenIsListed, ManagerTypeOK
<1>4. OneClosing'
  BY DEF OneClosing
<1>5. QED BY <1>1, <1>2, <1>3, <1>4

LEMMA CountingStep ==
  ASSUME NEW s \in Sessions, NEW d \in Flows
  PROVE  StatisticsInv /\ (Copied(s, d) \/ Counting(s, d)) => StatisticsInv'
<1> SUFFICES ASSUME StatisticsInv, Copied(s, d) \/ Counting(s, d) PROVE StatisticsInv'
  OBVIOUS
<1> USE DEF StatisticsInv, Counting, Copied, AddTemp, AddTotal, AddOwn
<1>1. ManagerTypeOK'
  <2> USE DEF ManagerTypeOK
  <2>1. CASE Copied(s, d) BY <2>1
  <2>2. CASE AddTemp(s, d) BY <2>2
  <2>3. CASE AddTotal(s, d) BY <2>3
  <2>4. CASE AddOwn(s, d) BY <2>4
  <2>5. QED BY <2>1, <2>2, <2>3, <2>4
<1>2. NoByteShownTwice'
  <2>1. CASE AddTemp(s, d)
    <3> SUFFICES ASSUME NEW e \in Flows PROVE shown'[e] + Waiting(e)' <= counted'[e]
      BY DEF NoByteShownTwice
    <3>1. shown'[e] = shown[e] /\ ticker' = ticker /\ shown[e] \in Nat /\ temp[e] \in Nat /\ counted[e] \in Nat
      BY <2>1 DEF ManagerTypeOK
    <3>2. shown[e] + Waiting(e) <= counted[e]
      BY DEF NoByteShownTwice
    <3>3. CASE e = d
      <4>1. temp'[e] = temp[e] + 1 /\ counted'[e] = counted[e] + 1
        BY <2>1, <3>3 DEF ManagerTypeOK
      <4>2. QED BY <3>1, <3>2, <4>1 DEF Waiting
    <3>4. CASE e # d
      <4>1. temp'[e] = temp[e] /\ counted'[e] = counted[e]
        BY <2>1, <3>4 DEF ManagerTypeOK
      <4>2. QED BY <3>1, <3>2, <4>1 DEF Waiting
    <3>5. QED BY <3>3, <3>4
  <2>2. CASE ~AddTemp(s, d)
    BY <2>2 DEF NoByteShownTwice, Waiting
  <2>3. QED BY <2>1, <2>2
<1>3. OpenIsListed' /\ OneClosing'
  BY DEF OpenIsListed, OneClosing
<1>4. QED BY <1>1, <1>2, <1>3

LEMMA TickerStep == StatisticsInv /\ Ticker => StatisticsInv'
<1> SUFFICES ASSUME StatisticsInv, Ticker PROVE StatisticsInv'
  OBVIOUS
<1> USE DEF StatisticsInv, Ticker, PublishUp, ZeroUp, PublishDown, ZeroDown, Publish, Zero
<1>1. "up" \in Flows /\ "down" \in Flows /\ \A e \in Flows : e = "up" \/ e = "down"
  BY DEF Flows
<1>2. ManagerTypeOK'
  <2> USE <1>1 DEF ManagerTypeOK
  <2>1. CASE PublishUp BY <2>1
  <2>2. CASE ZeroUp BY <2>2
  <2>3. CASE PublishDown BY <2>3
  <2>4. CASE ZeroDown BY <2>4
  <2>5. QED BY <2>1, <2>2, <2>3, <2>4
<1>3. NoByteShownTwice'
  <2> SUFFICES ASSUME NEW e \in Flows PROVE shown'[e] + Waiting(e)' <= counted'[e]
    BY DEF NoByteShownTwice
  <2> USE <1>1 DEF ManagerTypeOK, Waiting
  <2>1. /\ shown[e] \in Nat /\ temp[e] \in Nat /\ counted[e] \in Nat /\ counted' = counted
        /\ shown[e] + Waiting(e) <= counted[e]
    BY DEF NoByteShownTwice
  <2>2. CASE PublishUp BY <2>1, <2>2
  <2>3. CASE ZeroUp BY <2>1, <2>3
  <2>4. CASE PublishDown BY <2>1, <2>4
  <2>5. CASE ZeroDown BY <2>1, <2>5
  <2>6. QED BY <2>2, <2>3, <2>4, <2>5
<1>4. OpenIsListed' /\ OneClosing'
  BY DEF OpenIsListed, OneClosing
<1>5. QED BY <1>2, <1>3, <1>4

LEMMA RequestStep == StatisticsInv /\ Request => StatisticsInv'
<1> SUFFICES ASSUME StatisticsInv, Request PROVE StatisticsInv'
  OBVIOUS
<1> USE DEF StatisticsInv, Request, Ask, RestLeave, RestClose, counters
<1>1. ManagerTypeOK'
  <2>1. CASE Ask BY <2>1 DEF ManagerTypeOK
  <2>2. CASE \E s \in Sessions : RestLeave(s) \/ RestClose(s)
    BY <2>2 DEF ManagerTypeOK
  <2>3. QED BY <2>1, <2>2
<1>2. NoByteShownTwice'
  BY DEF NoByteShownTwice, Waiting
<1>3. OpenIsListed' /\ OneClosing'
  <2>1. CASE Ask BY <2>1 DEF OpenIsListed, OneClosing
  <2>2. ASSUME NEW s \in Sessions, RestLeave(s)
        PROVE  OpenIsListed' /\ OneClosing'
    BY <2>2 DEF OpenIsListed, OneClosing
  <2>3. ASSUME NEW s \in Sessions, RestClose(s)
        PROVE  OpenIsListed' /\ OneClosing'
    <3>1. socket'[s] # "open" /\ \A t \in Sessions : t # s => socket'[t] = socket[t] /\ t \notin closing
      BY <2>3 DEF ManagerTypeOK, OneClosing
    <3>2. QED BY <2>3, <3>1 DEF OpenIsListed, OneClosing
  <2>4. QED BY <2>1, <2>2, <2>3
<1>4. QED BY <1>1, <1>2, <1>3

LEMMA StatisticsInvStep == StatisticsInv /\ [ManagerNext]_managerVars => StatisticsInv'
<1> SUFFICES ASSUME StatisticsInv, [ManagerNext]_managerVars PROVE StatisticsInv'
  OBVIOUS
<1>1. CASE UNCHANGED managerVars
  <2>1. UNCHANGED <<temp, blip, total, own, count, shown, counted, connections, life, socket, ticker, asked, closing>>
    BY <1>1 DEF managerVars, counters
  <2>2. QED BY <2>1 DEF StatisticsInv, ManagerTypeOK, NoByteShownTwice, Waiting, OpenIsListed, OneClosing
<1>2. QED BY <1>1, TrackerStep, CountingStep, TickerStep, RequestStep DEF ManagerNext

LEMMA StatisticsInvariant == ManagerSpec => []StatisticsInv
BY StatisticsInvInit, StatisticsInvStep, PTL DEF ManagerSpec

(* Every counter and list keeps its type.                                  *)
THEOREM StatisticsTypeCorrect == ManagerSpec => []ManagerTypeOK
<1>1. StatisticsInv => ManagerTypeOK
  BY DEF StatisticsInv
<1>2. QED BY <1>1, StatisticsInvariant, PTL

(* manager.handle never shows a byte in two rates, whatever the trackers   *)
(* count between its steps (manager.go:79-88).                             *)
THEOREM RatesShowBytesOnce == ManagerSpec => []NoByteShownTwice
<1>1. StatisticsInv => NoByteShownTwice
  BY DEF StatisticsInv
<1>2. QED BY <1>1, StatisticsInvariant, PTL

(* An open connection is listed until its handler or a request closes it   *)
(* (tracker.go:73-76, 138-141; connections.go:78-96).                      *)
THEOREM OpenConnectionsListed == ManagerSpec => []OpenIsListed
<1>1. StatisticsInv => OpenIsListed
  BY DEF StatisticsInv
<1>2. QED BY <1>1, StatisticsInvariant, PTL

-----------------------------------------------------------------------------
(* The totals.  Of all steps only the Add to a total adds to Bytes(d), and *)
(* it adds the byte that its own tracker counts next.                      *)
TotalsInv == TotalsAgree /\ \A d \in Flows : IsFiniteSet(Bytes(d))

LEMMA ByteOf ==
  ASSUME NEW d, NEW s, NEW n
  PROVE  <<s, n>> \in Bytes(d) <=> s \in Sessions /\ n \in 1 .. own[s][d] + Between(s, d)
BY DEF Bytes

LEMMA TotalsInvInit == ManagerInit => TotalsInv
<1> SUFFICES ASSUME ManagerInit, NEW d \in Flows
             PROVE  total[d] = Cardinality(Bytes(d)) /\ IsFiniteSet(Bytes(d))
  BY DEF TotalsInv, TotalsAgree
<1>1. total[d] = 0 /\ \A s \in Sessions : own[s][d] + Between(s, d) = 0
  BY DEF ManagerInit, Between
<1>2. Bytes(d) = {}
  BY <1>1 DEF Bytes
<1>3. QED BY <1>1, <1>2, FS_EmptySet

(* A step that moves no tracker's count, or moves a byte from between the  *)
(* two Adds into the tracker's own, keeps the set.                         *)
LEMMA SameBytes ==
  ASSUME TotalsInv, total' = total,
         \A s \in Sessions, d \in Flows : own'[s][d] + Between(s, d)' = own[s][d] + Between(s, d)
  PROVE  TotalsInv'
<1>1. ASSUME NEW d \in Flows PROVE Bytes(d)' = Bytes(d)
  BY DEF Bytes
<1>2. QED BY <1>1 DEF TotalsInv, TotalsAgree

LEMMA AddTotalKeepsTotals ==
  ASSUME NEW s \in Sessions, NEW d \in Flows, ManagerTypeOK, TotalsInv, AddTotal(s, d)
  PROVE  TotalsInv'
<1> SUFFICES ASSUME NEW e \in Flows
             PROVE  total'[e] = Cardinality(Bytes(e)') /\ IsFiniteSet(Bytes(e)')
  BY DEF TotalsInv, TotalsAgree
<1>1. /\ total[e] = Cardinality(Bytes(e)) /\ IsFiniteSet(Bytes(e))
      /\ own' = own
      /\ \A t \in Sessions : own[t][e] \in Nat
      /\ count \in [Sessions -> [Flows -> {"copy", "temp", "total", "own"}]]
      /\ count' = [count EXCEPT ![s][d] = "own"] /\ count[s][d] = "total"
      /\ total \in [Flows -> Nat] /\ total' = [total EXCEPT ![d] = @ + 1]
  BY DEF TotalsInv, TotalsAgree, ManagerTypeOK, AddTotal
<1>2. \A t \in Sessions : t # s \/ e # d => Between(t, e)' = Between(t, e)
  BY <1>1 DEF Between
<1>3. CASE e # d
  <2>1. Bytes(e)' = Bytes(e)
    BY <1>1, <1>2, <1>3 DEF Bytes
  <2>2. QED BY <1>1, <1>3, <2>1
<1>4. CASE e = d
  <2> DEFINE n == own[s][d] + 1
  <2>1. Between(s, d) = 0 /\ Between(s, d)' = 1 /\ own[s][d] \in Nat
    BY <1>1, <1>4 DEF Between
  <2>2. \A m : m \in 1 .. own[s][d] + 1 <=> m \in 1 .. own[s][d] + 0 \/ m = n
    BY <2>1
  <2>3. Bytes(d)' = Bytes(d) \cup {<<s, n>>}
    <3>1. ASSUME NEW b \in Bytes(d)' PROVE b \in Bytes(d) \cup {<<s, n>>}
      <4>1. PICK t \in Sessions : b \in {t} \X (1 .. own[t][d] + Between(t, d)')
        BY <1>1 DEF Bytes
      <4>2. PICK m \in 1 .. own[t][d] + Between(t, d)' : b = <<t, m>>
        BY <4>1
      <4>3. CASE t = s BY <2>1, <2>2, <4>2, <4>3, ByteOf
      <4>4. CASE t # s BY <1>2, <1>4, <4>2, <4>4, ByteOf
      <4>5. QED BY <4>3, <4>4
    <3>2. ASSUME NEW b \in Bytes(d) PROVE b \in Bytes(d)'
      <4>1. PICK t \in Sessions : b \in {t} \X (1 .. own[t][d] + Between(t, d))
        BY DEF Bytes
      <4>2. b \in {t} \X (1 .. own'[t][d] + Between(t, d)')
        BY <1>1, <1>2, <1>4, <2>1, <2>2, <4>1
      <4>3. QED BY <4>2 DEF Bytes
    <3>3. <<s, n>> \in {s} \X (1 .. own'[s][d] + Between(s, d)')
      BY <1>1, <2>1, <2>2
    <3>4. <<s, n>> \in Bytes(d)'
      BY <3>3 DEF Bytes
    <3>5. QED BY <3>1, <3>2, <3>4
  <2>4. <<s, n>> \notin Bytes(d)
    BY <2>1, ByteOf
  <2>5. IsFiniteSet(Bytes(d)') /\ Cardinality(Bytes(d)') = Cardinality(Bytes(d)) + 1
    <3>1. IsFiniteSet(Bytes(d))
      BY <1>1, <1>4
    <3>2. QED BY <2>3, <2>4, <3>1, FS_AddElement, Zenon
  <2>6. QED BY <1>1, <1>4, <2>5
<1>5. QED BY <1>3, <1>4

LEMMA TotalsInvStep == ManagerTypeOK /\ TotalsInv /\ [ManagerNext]_managerVars => TotalsInv'
<1> SUFFICES ASSUME ManagerTypeOK, TotalsInv, [ManagerNext]_managerVars PROVE TotalsInv'
  OBVIOUS
<1>1. ASSUME NEW s \in Sessions, NEW d \in Flows, AddTotal(s, d) PROVE TotalsInv'
  BY <1>1, AddTotalKeepsTotals
<1>2. ASSUME NEW s \in Sessions, NEW d \in Flows, AddOwn(s, d) \/ Copied(s, d) \/ AddTemp(s, d)
      PROVE  TotalsInv'
  <2>1. total' = total
    BY <1>2 DEF AddOwn, Copied, AddTemp
  <2>2. ASSUME NEW t \in Sessions, NEW e \in Flows
        PROVE  own'[t][e] + Between(t, e)' = own[t][e] + Between(t, e)
    <3>1. own[t][e] \in Nat
      BY DEF ManagerTypeOK
    <3>2. CASE AddOwn(s, d)
      BY <3>1, <3>2 DEF AddOwn, Between, ManagerTypeOK
    <3>3. CASE Copied(s, d)
      BY <3>1, <3>3 DEF Copied, Between, ManagerTypeOK
    <3>4. CASE AddTemp(s, d)
      BY <3>1, <3>4 DEF AddTemp, Between, ManagerTypeOK
    <3>5. QED BY <1>2, <3>2, <3>3, <3>4
  <2>3. QED BY <2>1, <2>2, SameBytes
<1>3. ASSUME UNCHANGED <<total, own, count>> PROVE TotalsInv'
  BY <1>3, SameBytes DEF Between
<1>4. CASE UNCHANGED managerVars
  BY <1>3, <1>4 DEF managerVars, counters
<1>5. ASSUME NEW s \in Sessions, Tracker(s) PROVE TotalsInv'
  BY <1>3, <1>5 DEF Tracker, TrackerJoins, TrackerLeaves, TrackerCloses, counters
<1>6. CASE Ticker
  BY <1>3, <1>6 DEF Ticker, PublishUp, ZeroUp, PublishDown, ZeroDown, Publish, Zero
<1>7. CASE Request
  BY <1>3, <1>7 DEF Request, Ask, RestLeave, RestClose, counters
<1>8. QED BY <1>1, <1>2, <1>4, <1>5, <1>6, <1>7 DEF ManagerNext, Counting

(* Between the Adds of the trackers and the requests that list them, the   *)
(* totals are what the connections' own totals add up to                   *)
(* (tracker.go:60-70, manager.go:64-68).                                   *)
THEOREM TotalsAreTheTrackers == ManagerSpec => []TotalsAgree
<1>1. TotalsInv => TotalsAgree
  BY DEF TotalsInv
<1>2. StatisticsInv => ManagerTypeOK
  BY DEF StatisticsInv
<1>3. QED BY <1>1, <1>2, TotalsInvInit, TotalsInvStep, StatisticsInvariant, PTL DEF ManagerSpec
=============================================================================
