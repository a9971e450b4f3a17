---------------------------- MODULE MCConfigFields ----------------------------
EXTENDS ConfigFields

AtMostTwo(S) == SeqOf(S, 2)

OldProxies == AtMostTwo([id : {0, 2}, url : {"", "u1"}] \union [id : {1}, url : {"u2"}])

(* Ids of applications are different where there are any.                  *)
OldApps ==
  {apps \in AtMostTwo([id : {0, 1}, pid : {0, 2}, proxy : {"", "u3"}, named : {TRUE}]
                        \union [id : {0}, pid : {0}, proxy : {""}, named : {FALSE}]) :
     \A i, j \in DOMAIN apps : i # j /\ apps[i].id # 0 => apps[i].id # apps[j].id}

SmallFiles ==
  [url : {""}, device : {"own"}, proxies : OldProxies, apps : OldApps]
    \union [url : {"u1"}, device : {"none"}, proxies : {<<>>, <<[id |-> 2, url |-> ""]>>}, apps : OldApps]
=============================================================================
