----------------------------- MODULE Statistics -----------------------------
(***************************************************************************)
(* tunnel/statistic: the counters and the list of connections that every   *)
(* session shares, and the REST API's use of them (restapi/connections.go).*)
(* The trackers' reads and writes count in several atomic steps; a ticker  *)
(* turns what was counted in a second into a rate; a request lists the     *)
(* connections or closes some of them.                                     *)
(*                                                                         *)
(* A session here is a tracker: TcpSession and UdpSession have the rest of *)
(* it.  Directions are counted alike; one byte stands for one packet or    *)
(* buffer.  ResetStatistic is never called.                                *)
(***************************************************************************)
EXTENDS Naturals, FiniteSets

CONSTANTS
  Sessions,
  MaxBytes \* bound: bytes counted in each direction

ASSUME StatisticsAssumption == MaxBytes \in Nat /\ IsFiniteSet(Sessions)

Flows == {"up", "down"}

VARIABLES
  temp, blip, total, \* uploadTemp, downloadTemp and so on
  own,         \* UploadTotal and DownloadTotal of each tracker
  connections,
  count,       \* what the session's copying goroutine counts next
  life,        \* of the tracker: the handler's deferred Close runs once
  socket,      \* the connection that the tracker wraps
  ticker,      \* what handle does next
  asked,       \* connections of the snapshot that a DELETE request works through
  closing,     \* the one whose tracker.Close it is in
  shown,       \* bytes of all rates published
  counted      \* bytes added to temp

counters == <<temp, blip, total, own, count, shown, counted>>
managerVars == <<counters, connections, life, socket, ticker, asked, closing>>

ManagerTypeOK ==
  /\ temp \in [Flows -> Nat] /\ blip \in [Flows -> Nat] /\ total \in [Flows -> Nat]
  /\ own \in [Sessions -> [Flows -> Nat]]
  /\ connections \in SUBSET Sessions
  /\ count \in [Sessions -> [Flows -> {"copy", "temp", "total", "own"}]]
  /\ life \in [Sessions -> {"new", "open", "left", "closed"}]
  /\ socket \in [Sessions -> {"none", "open", "closed"}]
  /\ ticker \in {"wait", "zeroUp", "down", "zeroDown"}
  /\ asked \in SUBSET Sessions
  /\ closing \in SUBSET Sessions
  /\ shown \in [Flows -> Nat]
  /\ counted \in [Flows -> Nat]

ManagerInit ==
  /\ temp = [d \in Flows |-> 0] /\ blip = [d \in Flows |-> 0]
  /\ total = [d \in Flows |-> 0]
  /\ own = [s \in Sessions |-> [d \in Flows |-> 0]]
  /\ connections = {}
  /\ count = [s \in Sessions |-> [d \in Flows |-> "copy"]]
  /\ life = [s \in Sessions |-> "new"]
  /\ socket = [s \in Sessions |-> "none"]
  /\ ticker = "wait"
  /\ asked = {} /\ closing = {}
  /\ shown = [d \in Flows |-> 0] /\ counted = [d \in Flows |-> 0]

-----------------------------------------------------------------------------
(* Trackers.                                                               *)

(* NewTCPTracker, NewUDPTracker: around a connection just dialled.         *)
TrackerJoins(s) ==
  /\ life[s] = "new"
  /\ life' = [life EXCEPT ![s] = "open"]
  /\ socket' = [socket EXCEPT ![s] = "open"]
  /\ connections' = connections \cup {s}
  /\ UNCHANGED <<counters, ticker, asked, closing>>

(* A Read or Write of the wrapped connection returned n > 0.               *)
Copied(s, d) ==
  /\ life[s] = "open" /\ socket[s] = "open"
  /\ count[s][d] = "copy"
  /\ counted[d] + Cardinality({t \in Sessions : count[t][d] = "temp"}) < MaxBytes
  /\ count' = [count EXCEPT ![s][d] = "temp"]
  /\ UNCHANGED <<temp, blip, total, own, shown, counted, connections, life, socket, ticker, asked, closing>>

AddTemp(s, d) ==
  /\ count[s][d] = "temp"
  /\ temp' = [temp EXCEPT ![d] = @ + 1]
  /\ counted' = [counted EXCEPT ![d] = @ + 1]
  /\ count' = [count EXCEPT ![s][d] = "total"]
  /\ UNCHANGED <<blip, total, own, shown, connections, life, socket, ticker, asked, closing>>

(* Mutation of AddTotal: a load and a store where there was an Add.        *)
StoreTotal(s, d) ==
  /\ count[s][d] = "total"
  /\ total' = [total EXCEPT ![d] = own[s][d] + 1]
  /\ count' = [count EXCEPT ![s][d] = "own"]
  /\ UNCHANGED <<temp, blip, own, shown, counted, connections, life, socket, ticker, asked, closing>>

AddTotal(s, d) ==
  /\ count[s][d] = "total"
  /\ total' = [total EXCEPT ![d] = @ + 1]
  /\ count' = [count EXCEPT ![s][d] = "own"]
  /\ UNCHANGED <<temp, blip, own, shown, counted, connections, life, socket, ticker, asked, closing>>

AddOwn(s, d) ==
  /\ count[s][d] = "own"
  /\ own' = [own EXCEPT ![s][d] = @ + 1]
  /\ count' = [count EXCEPT ![s][d] = "copy"]
  /\ UNCHANGED <<temp, blip, total, shown, counted, connections, life, socket, ticker, asked, closing>>

(* The handler's deferred Close, once its copies have ended: Leave and     *)
(* then the wrapped connection's Close.                                    *)
TrackerLeaves(s) ==
  /\ life[s] = "open"
  /\ \A d \in Flows : count[s][d] = "copy"
  /\ life' = [life EXCEPT ![s] = "left"]
  /\ connections' = connections \ {s}
  /\ UNCHANGED <<counters, socket, ticker, asked, closing>>

TrackerCloses(s) ==
  /\ life[s] = "left"
  /\ life' = [life EXCEPT ![s] = "closed"]
  /\ socket' = [socket EXCEPT ![s] = "closed"]
  /\ UNCHANGED <<counters, connections, ticker, asked, closing>>

-----------------------------------------------------------------------------
(* manager.handle: only this goroutine stores rates, so a rate's Load and  *)
(* Store are one step; the Store of 0 is another.                          *)

Publish(d) ==
  /\ blip' = [blip EXCEPT ![d] = temp[d]]
  /\ shown' = [shown EXCEPT ![d] = @ + temp[d]]
  /\ UNCHANGED <<temp, total, own, count, counted, connections, life, socket, asked, closing>>

Zero(d) ==
  /\ temp' = [temp EXCEPT ![d] = 0]
  /\ UNCHANGED <<blip, total, own, count, shown, counted, connections, life, socket, asked, closing>>

PublishUp ==
  /\ ticker = "wait"
  /\ temp # [d \in Flows |-> 0] \/ blip # [d \in Flows |-> 0] \* others change nothing
  /\ ticker' = "zeroUp"
  /\ Publish("up")

(* Mutation of ZeroUp: the counter is not reset.                           *)
KeepUp ==
  /\ ticker = "zeroUp"
  /\ ticker' = "down"
  /\ UNCHANGED <<counters, connections, life, socket, asked, closing>>

ZeroUp ==
  /\ ticker = "zeroUp"
  /\ ticker' = "down"
  /\ Zero("up")

PublishDown ==
  /\ ticker = "down"
  /\ ticker' = "zeroDown"
  /\ Publish("down")

ZeroDown ==
  /\ ticker = "zeroDown"
  /\ ticker' = "wait"
  /\ Zero("down")

-----------------------------------------------------------------------------
(* DELETE /connections and DELETE /connections/{id}: the snapshot's        *)
(* trackers, all or one of them, are closed one after another.  Range sees *)
(* what is stored and deleted meanwhile or not; a snapshot taken at one    *)
(* instant has every outcome, as the requests act on trackers one by one.  *)

Ask ==
  /\ asked = {} /\ closing = {}
  /\ \E some \in SUBSET connections :
       /\ some = connections \/ Cardinality(some) = 1
       /\ some # {}
       /\ asked' = some
  /\ UNCHANGED <<counters, connections, life, socket, ticker, closing>>

RestLeave(s) ==
  /\ s \in asked /\ closing = {}
  /\ connections' = connections \ {s}
  /\ asked' = asked \ {s}
  /\ closing' = {s}
  /\ UNCHANGED <<counters, life, socket, ticker>>

(* Mutation of RestClose: only the tracker is taken from the list.         *)
RestForget(s) ==
  /\ s \in closing
  /\ closing' = {}
  /\ UNCHANGED <<counters, connections, life, socket, ticker, asked>>

RestClose(s) ==
  /\ s \in closing
  /\ socket' = [socket EXCEPT ![s] = "closed"]
  /\ closing' = {}
  /\ UNCHANGED <<counters, connections, life, ticker, asked>>

Tracker(s) == TrackerJoins(s) \/ TrackerLeaves(s) \/ TrackerCloses(s)
Counting(s, d) == AddTemp(s, d) \/ AddTotal(s, d) \/ AddOwn(s, d)
Ticker == PublishUp \/ ZeroUp \/ PublishDown \/ ZeroDown
Request == Ask \/ \E s \in Sessions : RestLeave(s) \/ RestClose(s)

ManagerNext ==
  \/ \E s \in Sessions : Tracker(s) \/ \E d \in Flows : Copied(s, d) \/ Counting(s, d)
  \/ Ticker
  \/ Request

ManagerSpec == ManagerInit /\ [][ManagerNext]_managerVars

-----------------------------------------------------------------------------
(* No byte is in two rates (manager.go:83-86): whatever the ticker reads   *)
(* between a tracker's steps, the rates published so far and what waits    *)
(* for the next one are together no more than what was counted.  (They may *)
(* be less: what is added between the Load and the Store of 0 is lost.)    *)
Waiting(d) == IF ticker = (IF d = "up" THEN "zeroUp" ELSE "zeroDown") THEN 0 ELSE temp[d]
NoByteShownTwice == \A d \in Flows : shown[d] + Waiting(d) <= counted[d]

(* The totals of the list are those of its connections (manager.go:64-68,  *)
(* tracker.go:60-70): a total is the number of bytes that the trackers say *)
(* they have counted and of those whose goroutine is between its two Adds, *)
(* of any session, also one that a request has closed.                     *)
Between(s, d) == IF count[s][d] = "own" THEN 1 ELSE 0
Bytes(d) == UNION {{s} \X (1 .. own[s][d] + Between(s, d)) : s \in Sessions}
TotalsAgree == \A d \in Flows : total[d] = Cardinality(Bytes(d))

(* A connection that is open can be seen: an open socket whose tracker is  *)
(* not in the list is being closed, by its handler or by a request.        *)
OpenIsListed ==
  \A s \in Sessions :
    socket[s] = "open" /\ s \notin connections => life[s] = "left" \/ s \in closing
=============================================================================
