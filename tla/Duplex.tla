------------------------------- MODULE Duplex -------------------------------
(***************************************************************************)
(* What relaying one connection promises to its two peers: two streams     *)
(* that lose nothing and end with all they were sent, unless an end broke  *)
(* or the other stream has ended and the time it then had has passed.      *)
(***************************************************************************)
EXTENDS Naturals

Dirs      == {"up", "down"}
Other(d)  == IF d = "up" THEN "down" ELSE "up"

VARIABLES
  sent,     \* bytes each direction was given by its source
  finished, \* its source will send no more
  broken,   \* the connection of its source was reset
  given,    \* bytes passed on to its destination
  ended,    \* "open", "complete" or "cut"
  late      \* the other direction has ended and the time to follow has passed

vars == <<sent, finished, broken, given, ended, late>>

Init ==
  /\ sent = [d \in Dirs |-> 0]
  /\ finished = [d \in Dirs |-> FALSE]
  /\ broken = [d \in Dirs |-> FALSE]
  /\ given = [d \in Dirs |-> 0]
  /\ ended = [d \in Dirs |-> "open"]
  /\ late = [d \in Dirs |-> FALSE]

Send(d) ==
  /\ ~finished[d]
  /\ sent' = [sent EXCEPT ![d] = @ + 1]
  /\ UNCHANGED <<finished, broken, given, ended, late>>

Finish(d) ==
  /\ finished' = [finished EXCEPT ![d] = TRUE]
  /\ UNCHANGED <<sent, broken, given, ended, late>>

Break(d) ==
  /\ broken' = [broken EXCEPT ![d] = TRUE]
  /\ UNCHANGED <<sent, finished, given, ended, late>>

Deliver(d) ==
  /\ ended[d] = "open"
  /\ \E n \in (given[d] + 1)..sent[d] : given' = [given EXCEPT ![d] = n]
  /\ UNCHANGED <<sent, finished, broken, ended, late>>

Complete(d) ==
  /\ ended[d] = "open"
  /\ finished[d]
  /\ given[d] = sent[d]
  /\ ended' = [ended EXCEPT ![d] = "complete"]
  /\ UNCHANGED <<sent, finished, broken, given, late>>

Cut(d) ==
  /\ ended[d] = "open"
  /\ broken[d] \/ broken[Other(d)] \/ late[d]
  /\ ended' = [ended EXCEPT ![d] = "cut"]
  /\ \E n \in given[d]..sent[d] : given' = [given EXCEPT ![d] = n]
  /\ UNCHANGED <<sent, finished, broken, late>>

(* The connection is refused before anything was passed on.                *)
Refuse ==
  /\ \A d \in Dirs : ended[d] = "open" /\ given[d] = 0
  /\ ended' = [d \in Dirs |-> "cut"]
  /\ UNCHANGED <<sent, finished, broken, given, late>>

TimeIsUp(d) ==
  /\ ended[Other(d)] # "open"
  /\ late' = [late EXCEPT ![d] = TRUE]
  /\ UNCHANGED <<sent, finished, broken, given, ended>>

Next ==
  \/ \E d \in Dirs :
       Send(d) \/ Finish(d) \/ Break(d) \/ Deliver(d) \/ Complete(d) \/ Cut(d) \/ TimeIsUp(d)
  \/ Refuse

Spec == Init /\ [][Next]_vars
=============================================================================
