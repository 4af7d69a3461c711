-------------------------------- MODULE O2Quo --------------------------------
(***************************************************************************)
(* quorum.c: whether this node may go on when it has lost the connection   *)
(* to others that still heartbeat.  The struct o2quo_state is a record of  *)
(* the three bitmaps, qs_pending, whether the decision's work is scheduled *)
(* and whether an mlog_bug_on_msg() of the code has fired.  The counters   *)
(* beside the bitmaps are their sizes.                                     *)
(*                                                                         *)
(* Each operator is one function of quorum.c, a critical section of        *)
(* qs_lock, as a function of the state.                                    *)
(***************************************************************************)
EXTENDS Integers, FiniteSets

QuorumState(Node) ==
  [hb : SUBSET Node, conn : SUBSET Node, hold : SUBSET Node,
   pending : BOOLEAN, work : BOOLEAN, bug : BOOLEAN]

\* o2quo_init(), and this node's own conn_up and hb_up once it heartbeats
QuorumInit(me) ==
  [hb |-> {me}, conn |-> {me}, hold |-> {},
   pending |-> FALSE, work |-> FALSE, bug |-> FALSE]

SetHold(q, node) == [q EXCEPT !.hold = @ \union {node}]

\* The last hold to go fires off a decision that is pending
ClearHold(q, node) ==
  LET last == q.hold = {node} /\ q.pending
  IN  [q EXCEPT !.hold = @ \ {node},
                !.pending = @ /\ ~last,
                !.work = @ \/ last]

HbUp(q, node) ==
  LET r == [q EXCEPT !.hb = @ \union {node}, !.bug = @ \/ node \in q.hb]
  IN  IF node \in q.conn THEN ClearHold(r, node) ELSE SetHold(r, node)

HbDown(q, node) ==
  ClearHold([q EXCEPT !.hb = @ \ {node}, !.bug = @ \/ node \notin q.hb], node)

\* Mutant of HbStillUp: the hold is left to someone else
HbStillUpHeld(q, node) == [q EXCEPT !.pending = TRUE]

HbStillUp(q, node) == ClearHold([q EXCEPT !.pending = TRUE], node)

ConnUp(q, node) ==
  LET r == [q EXCEPT !.conn = @ \union {node}, !.bug = @ \/ node \in q.conn]
  IN  IF node \in q.hb THEN ClearHold(r, node) ELSE SetHold(r, node)

ConnErr(q, node) ==
  LET r == [q EXCEPT !.conn = @ \ {node}]
  IN  IF node \in q.conn \intersect q.hb THEN SetHold(r, node) ELSE r

(***************************************************************************)
(* o2quo_make_decision(): the node fences itself when it is connected to   *)
(* fewer than half of the heartbeating nodes (itself included), or to half *)
(* of an even number without the lowest of them.                           *)
(***************************************************************************)
HalfOf(hb) == IF Cardinality(hb) % 2 = 1 THEN (Cardinality(hb) + 1) \div 2
                                         ELSE Cardinality(hb) \div 2

Minority(hb, conn) ==
  \/ Cardinality(conn) < HalfOf(hb)
  \/ /\ Cardinality(hb) % 2 = 0
     /\ Cardinality(conn) = HalfOf(hb)
     /\ ~\E lowest \in conn \intersect hb : \A n \in hb : lowest <= n

MustFence(me, hb, conn) ==
  me \in hb /\ Cardinality(hb) # 1 /\ Minority(hb, conn)

===============================================================================
