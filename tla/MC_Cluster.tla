------------------------------ MODULE MC_Cluster ------------------------------
(***************************************************************************)
(* Who can be talked to and who is alive: the connections of a node, and   *)
(* the heartbeats of two.  A behaviour has one of them, as the connections *)
(* take heartbeat's events from their own environment.                     *)
(***************************************************************************)
EXTENDS O2Net, Heartbeat

\* One peer, node 2.  Node 1 accepts its connections, node 3 connects to it.
\* The windows of the code are open when nobody sends, closed when somebody
\* does.
PeerTwo == {2}
ToPeer == [s \in Sender |-> 2]
Setup(n, races, senders, containers) ==
  [me |-> n, races |-> races, senders |-> senders, containers |-> containers]
NoSetup == Setup(1, FALSE, {}, {1})
NetSetups == {NoSetup, Setup(1, TRUE, {}, Sc), Setup(3, TRUE, {}, {1}),
              Setup(1, FALSE, Sender, {1}), Setup(3, FALSE, Sender, {1})}

\* Either no path ever hangs and each node may start twice, or each starts once
\* and the path of node 2 hangs and fails; node 1, the lower one, is the master
\* of the negotiations.
TwoNodes == {1, 2}
NoneOrSecond == {{}, {2}}

\* What a behaviour is about
VARIABLE about
allVars == <<about, tcpVars, setup, hbVars>>

Init ==
  /\ about \in {"net", "heartbeat"}
  /\ NetInit /\ HbInit
  /\ about = "net" <=> setup # NoSetup
  /\ about = "net" => faulty = {}
Next ==
  \/ about = "net" /\ NetNext /\ UNCHANGED <<about, hbVars>>
  \/ about = "heartbeat" /\ HbNext /\ UNCHANGED <<about, tcpVars, setup>>
Spec == Init /\ [][Next]_allVars
===============================================================================
