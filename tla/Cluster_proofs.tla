---------------------------- MODULE Cluster_proofs -----------------------------
(***************************************************************************)
(* Proofs about O2Net and Heartbeat, the two sources of what a node knows  *)
(* of the others.                                                          *)
(*                                                                         *)
(* The first part is about the connections of a node: the timers that are  *)
(* pending, the hold on the quorum decision, the reconnects that are       *)
(* queued and the senders that wait, for any number of peers, containers   *)
(* and senders; and what the decision of quorum.c promises to the cluster. *)
(*                                                                         *)
(* The second is about the heartbeats: who is alive is alive as the        *)
(* incarnation whose up event was sent; a node has fenced itself by the    *)
(* time another calls it dead; a node whose path works is never called     *)
(* dead: for any number of nodes, any thresholds, and whoever hangs,       *)
(* crashes, fences itself or restarts.                                     *)
(***************************************************************************)
EXTENDS O2Net, Heartbeat, FiniteSetTheorems, WellFoundedInduction, TLAPS

-----------------------------------------------------------------------------
(* The decision (o2quo_make_decision).                                     *)

\* Two groups without a common member are together no more than the whole.
LEMMA DisjointGroups ==
  ASSUME NEW beating, IsFiniteSet(beating),
         NEW C \in SUBSET beating, NEW D \in SUBSET beating, C \intersect D = {}
  PROVE  /\ Cardinality(beating) \in Nat
         /\ Cardinality(C) \in Nat /\ Cardinality(D) \in Nat
         /\ Cardinality(C) + Cardinality(D) <= Cardinality(beating)
<1>1. /\ IsFiniteSet(C) /\ IsFiniteSet(D)
      /\ Cardinality(C) \in Nat /\ Cardinality(D) \in Nat
      /\ Cardinality(beating) \in Nat
  BY FS_Subset, FS_CardinalityType
<1>2. Cardinality(C \union D)
        = Cardinality(C) + Cardinality(D) - Cardinality(C \intersect D)
  BY <1>1, FS_Union
<1>3. Cardinality(C \intersect D) = 0
  BY FS_EmptySet
<1>4. C \union D \subseteq beating
  OBVIOUS
<1>5. Cardinality(C \union D) <= Cardinality(beating)
  BY <1>4, FS_Subset
<1> QED
  BY <1>1, <1>2, <1>3, <1>5

\* A node that goes on is connected to half of the heartbeating nodes at least,
\* and to more than half unless the lowest of them is among its half.
LEMMA SurvivorsGroup ==
  ASSUME NEW beating, NEW C \in SUBSET beating, NEW m \in C,
         Cardinality(beating) \in Nat, Cardinality(C) \in Nat,
         Cardinality(beating) # 1, ~MustFence(m, beating, C)
  PROVE  /\ 2 * Cardinality(C) >= Cardinality(beating)
         /\ 2 * Cardinality(C) = Cardinality(beating) =>
              \E lowest \in C : \A k \in beating : lowest <= k
<1>1. ~Minority(beating, C)
  BY DEF MustFence
<1>2. Cardinality(C) >= HalfOf(beating)
  <2>1. HalfOf(beating) \in Int
    BY DEF HalfOf
  <2> QED
    BY <1>1, <2>1 DEF Minority
<1>3. 2 * HalfOf(beating) >= Cardinality(beating)
  BY DEF HalfOf
<1>4. HalfOf(beating) \in Nat
  BY DEF HalfOf
<1>5. 2 * Cardinality(C) >= Cardinality(beating)
  BY <1>2, <1>3, <1>4
<1>6. ASSUME 2 * Cardinality(C) = Cardinality(beating)
      PROVE  \E lowest \in C : \A k \in beating : lowest <= k
  <2>1. Cardinality(beating) % 2 = 0 /\ Cardinality(C) = HalfOf(beating)
    BY <1>6 DEF HalfOf
  <2>2. \E lowest \in C \intersect beating : \A k \in beating : lowest <= k
    BY <1>1, <2>1 DEF Minority
  <2> QED
    BY <2>2
<1> QED
  BY <1>5, <1>6

\* No split brain: two nodes m and n of a partitioned cluster, connected to C
\* and to D, do not both decide to go on (quorum.c, "Before we get started",
\* and o2quo_make_decision), for any number of nodes.
THEOREM NoSplitBrain ==
  ASSUME NEW beating \in SUBSET Nat, IsFiniteSet(beating),
         NEW C \in SUBSET beating, NEW D \in SUBSET beating, C \intersect D = {},
         NEW m \in C, NEW n \in D
  PROVE  MustFence(m, beating, C) \/ MustFence(n, beating, D)
<1> SUFFICES ASSUME ~MustFence(m, beating, C), ~MustFence(n, beating, D)
             PROVE  FALSE
  OBVIOUS
<1>1. /\ Cardinality(beating) \in Nat
      /\ Cardinality(C) \in Nat /\ Cardinality(D) \in Nat
      /\ Cardinality(C) + Cardinality(D) <= Cardinality(beating)
  BY DisjointGroups
<1>2. Cardinality(beating) # 1
  <2>1. IsFiniteSet(C) /\ IsFiniteSet(D)
    BY FS_Subset
  <2>2. Cardinality(C) # 0 /\ Cardinality(D) # 0
    BY <2>1, FS_EmptySet
  <2> QED
    BY <1>1, <2>2
<1>3. /\ 2 * Cardinality(C) >= Cardinality(beating)
      /\ 2 * Cardinality(C) = Cardinality(beating) =>
           \E lowest \in C : \A k \in beating : lowest <= k
  BY <1>1, <1>2, SurvivorsGroup
<1>4. /\ 2 * Cardinality(D) >= Cardinality(beating)
      /\ 2 * Cardinality(D) = Cardinality(beating) =>
           \E lowest \in D : \A k \in beating : lowest <= k
  BY <1>1, <1>2, SurvivorsGroup
<1>5. 2 * Cardinality(C) = Cardinality(beating) /\ 2 * Cardinality(D) = Cardinality(beating)
  BY <1>1, <1>3, <1>4
<1>6. PICK c \in C : \A k \in beating : c <= k
  BY <1>3, <1>5
<1>7. PICK d \in D : \A k \in beating : d <= k
  BY <1>4, <1>5
<1>8. c = d
  <2>1. c \in Nat /\ d \in Nat
    OBVIOUS
  <2> QED
    BY <2>1, <1>6, <1>7
<1> QED
  BY <1>8

-----------------------------------------------------------------------------
(* The operators of quorum.c: the state keeps its shape, only the bits of  *)
(* the node in question change, and who may get or lose its hold.          *)

LEMMA HoldOps ==
  ASSUME NEW N, NEW q \in QuorumState(N), NEW x \in N
  PROVE  /\ SetHold(q, x) \in QuorumState(N)
         /\ SetHold(q, x).hb = q.hb /\ SetHold(q, x).hold = q.hold \union {x}
         /\ SetHold(q, x).conn = q.conn
         /\ ClearHold(q, x) \in QuorumState(N)
         /\ ClearHold(q, x).hb = q.hb /\ ClearHold(q, x).hold = q.hold \ {x}
         /\ ClearHold(q, x).conn = q.conn
BY DEF SetHold, ClearHold, QuorumState

LEMMA HeartbeatOps ==
  ASSUME NEW N, NEW q \in QuorumState(N), NEW x \in N
  PROVE  /\ HbUp(q, x) \in QuorumState(N)
         /\ HbUp(q, x).hb = q.hb \union {x}
         /\ HbUp(q, x).hold \subseteq q.hold \union {x}
         /\ HbDown(q, x) \in QuorumState(N)
         /\ HbDown(q, x).hb = q.hb \ {x} /\ HbDown(q, x).hold = q.hold \ {x}
         /\ HbStillUp(q, x) \in QuorumState(N)
         /\ HbStillUp(q, x).hb = q.hb /\ HbStillUp(q, x).hold = q.hold \ {x}
<1> DEFINE u == [q EXCEPT !.hb = @ \union {x}, !.bug = @ \/ x \in q.hb]
           d == [q EXCEPT !.hb = @ \ {x}, !.bug = @ \/ x \notin q.hb]
           s == [q EXCEPT !.pending = TRUE]
<1>1. u \in QuorumState(N) /\ u.hb = q.hb \union {x} /\ u.hold = q.hold
  BY DEF QuorumState
<1>2. d \in QuorumState(N) /\ d.hb = q.hb \ {x} /\ d.hold = q.hold
  BY DEF QuorumState
<1>3. s \in QuorumState(N) /\ s.hb = q.hb /\ s.hold = q.hold
  BY DEF QuorumState
<1>4. HbUp(q, x) = IF x \in q.conn THEN ClearHold(u, x) ELSE SetHold(u, x)
  BY DEF HbUp
<1>5. HbDown(q, x) = ClearHold(d, x) /\ HbStillUp(q, x) = ClearHold(s, x)
  BY DEF HbDown, HbStillUp
<1> HIDE DEF u, d, s
<1>6. /\ SetHold(u, x) \in QuorumState(N) /\ ClearHold(u, x) \in QuorumState(N)
      /\ SetHold(u, x).hb = u.hb /\ SetHold(u, x).hold = u.hold \union {x}
      /\ ClearHold(u, x).hb = u.hb /\ ClearHold(u, x).hold = u.hold \ {x}
  BY <1>1, HoldOps
<1>7. /\ ClearHold(d, x) \in QuorumState(N)
      /\ ClearHold(d, x).hb = d.hb /\ ClearHold(d, x).hold = d.hold \ {x}
  BY <1>2, HoldOps
<1>8. /\ ClearHold(s, x) \in QuorumState(N)
      /\ ClearHold(s, x).hb = s.hb /\ ClearHold(s, x).hold = s.hold \ {x}
  BY <1>3, HoldOps
<1> QED
  BY <1>1, <1>2, <1>3, <1>4, <1>5, <1>6, <1>7, <1>8

LEMMA ConnectionOps ==
  ASSUME NEW N, NEW q \in QuorumState(N), NEW x \in N
  PROVE  /\ ConnUp(q, x) \in QuorumState(N)
         /\ ConnUp(q, x).hb = q.hb
         /\ ConnUp(q, x).hold \subseteq q.hold \union {x}
         /\ x \in q.hb => x \notin ConnUp(q, x).hold
         /\ ConnErr(q, x) \in QuorumState(N)
         /\ ConnErr(q, x).hb = q.hb
         /\ ConnErr(q, x).hold \subseteq q.hold \union {x}
<1> DEFINE u == [q EXCEPT !.conn = @ \union {x}, !.bug = @ \/ x \in q.conn]
           e == [q EXCEPT !.conn = @ \ {x}]
<1>1. u \in QuorumState(N) /\ u.hb = q.hb /\ u.hold = q.hold
  BY DEF QuorumState
<1>2. e \in QuorumState(N) /\ e.hb = q.hb /\ e.hold = q.hold
  BY DEF QuorumState
<1>3. ConnUp(q, x) = IF x \in q.hb THEN ClearHold(u, x) ELSE SetHold(u, x)
  BY DEF ConnUp
<1>4. ConnErr(q, x) = IF x \in q.conn \intersect q.hb THEN SetHold(e, x) ELSE e
  BY DEF ConnErr
<1> HIDE DEF u, e
<1>5. /\ SetHold(u, x) \in QuorumState(N) /\ ClearHold(u, x) \in QuorumState(N)
      /\ SetHold(u, x).hb = u.hb /\ SetHold(u, x).hold = u.hold \union {x}
      /\ ClearHold(u, x).hb = u.hb /\ ClearHold(u, x).hold = u.hold \ {x}
  BY <1>1, HoldOps
<1>6. /\ SetHold(e, x) \in QuorumState(N)
      /\ SetHold(e, x).hb = e.hb /\ SetHold(e, x).hold = e.hold \union {x}
  BY <1>2, HoldOps
<1> QED
  BY <1>1, <1>2, <1>3, <1>4, <1>5, <1>6

-----------------------------------------------------------------------------
(* The queues of works.                                                    *)

LEMMA QueueKeeps ==
  ASSUME NEW q \in Seq(ScWork), QueuedOnce(q), NEW w \in ScWork
  PROVE  Queue(q, w) \in Seq(ScWork) /\ QueuedOnce(Queue(q, w))
BY DEF Queue, QueuedOnce

LEMMA AppendKeeps ==
  ASSUME NEW q \in Seq(ScWork), QueuedOnce(q), NEW w \in ScWork,
         ~\E k \in DOMAIN q : q[k] = w
  PROVE  Append(q, w) \in Seq(ScWork) /\ QueuedOnce(Append(q, w))
BY DEF QueuedOnce

LEMMA TailKeeps ==
  ASSUME NEW q \in Seq(ScWork), QueuedOnce(q), q # <<>>
  PROVE  Tail(q) \in Seq(ScWork) /\ QueuedOnce(Tail(q))
BY DEF QueuedOnce

LEMMA WorksOf ==
  ASSUME NEW i \in Sc
  PROVE  Rx(i) \in ScWork /\ Shut(i) \in ScWork
BY DEF Rx, Shut, ScWork

-----------------------------------------------------------------------------
(* The id of a message: the idr has one more than there are senders.       *)

LEMMA MsgIds ==
  /\ MsgId \subseteq Nat /\ IsFiniteSet(MsgId)
  /\ Cardinality(Sender) \in Nat /\ Cardinality(Sender) < Cardinality(MsgId)
  /\ \A id \in MsgId : 0 .. (id - 1) \subseteq MsgId
<1>1. Cardinality(Sender) \in Nat
  BY SenderAssumption, FS_CardinalityType
<1>2. IsFiniteSet(MsgId) /\ Cardinality(MsgId) = Cardinality(Sender) - 0 + 1
  BY <1>1, FS_Interval DEF MsgId
<1> QED
  BY <1>1, <1>2 DEF MsgId

\* The idr finds an id that no waiter has.
LEMMA FreshIdFound ==
  ASSUME NEW p \in Peer, \A s \in Sender : snd[s].id \in MsgId
  PROVE  FreshId(p) \in MsgId
<1> DEFINE Taken(id) == \E s \in Waiters(p) : snd[s].id = id
           free == {id \in MsgId : ~Taken(id)}
<1>1. free # {}
  <2> SUFFICES ASSUME \A id \in MsgId : Taken(id)
               PROVE  FALSE
    OBVIOUS
  <2> DEFINE f == [id \in MsgId |-> CHOOSE s \in Waiters(p) : snd[s].id = id]
  <2>1. \A id \in MsgId : f[id] \in Waiters(p) /\ snd[f[id]].id = id
    OBVIOUS
  <2>2. f \in [MsgId -> Sender]
    <3>1. Waiters(p) \subseteq Sender
      BY DEF Waiters
    <3> QED
      BY <2>1, <3>1
  <2> HIDE DEF f
  <2>3. \E x, y \in MsgId : x # y /\ f[x] = f[y]
    <3>1. /\ IsFiniteSet(MsgId) /\ IsFiniteSet(Sender)
          /\ Cardinality(Sender) < Cardinality(MsgId)
      BY MsgIds, SenderAssumption
    <3> QED
      BY <2>2, <3>1, FS_PigeonHole
  <2> QED
    BY <2>1, <2>3
<1>2. free \subseteq Nat
  BY MsgIds
<1>3. IsWellFoundedOn(OpToRel(<, Nat), Nat)
  BY NatLessThanWellFounded
<1> HIDE DEF free
<1>4. PICK x \in free : \A y \in free : <<y, x>> \notin OpToRel(<, Nat)
  BY <1>1, <1>2, <1>3, WFMin
<1>5. \A y \in free : ~(y < x)
  BY <1>2, <1>4 DEF OpToRel
<1> USE DEF free
<1>6. \A lower \in 0 .. (x - 1) : Taken(lower)
  <2>1. x \in MsgId /\ x \in Nat
    BY <1>2
  <2>2. \A lower \in 0 .. (x - 1) : lower \in MsgId /\ lower < x
    BY <2>1, MsgIds
  <2> QED
    BY <1>5, <2>2
<1>7. x \in MsgId /\ ~Taken(x)
  OBVIOUS
<1> QED
  BY <1>6, <1>7 DEF FreshId
-----------------------------------------------------------------------------
(* The invariant of a peer and of a sender                                 *)

Leaving == {"down", "disconnect", "cancel", "flush"}

\* The current container of p, and one whose idle timer is being handled, have not
\* been shut down.
Sockets(p) ==
  /\ nn[p].valid => nn[p].sc # Free
  /\ nn[p].sc # Free => scs[p][nn[p].sc].cb
  /\ ticking[p] # Free => scs[p][ticking[p]].cb
  /\ \A i \in Sc : scs[p][i].timer => scs[p][i].cb

\* Who is found idle holds the decision up only until still_up runs; heartbeat
\* takes a peer that leaves out of o2quo_state and the live map first.
Noticed(p) ==
  /\ p \in quo.hold \intersect quo.hb /\ nn[p].timeout =>
       nn[p].stillUp \/ ticking[p] # Free \/ hb.node = p
  /\ hb.node = p /\ hb.pc \in Leaving =>
       p \notin live /\ (hb.pc # "down" => p \notin quo.hb)

\* Where a connection is missing, connect_expired is queued; after an error that is
\* to stay it need not be.
Expected(p) ==
  /\ ~nn[p].err => nn[p].valid \/ nn[p].expired
  /\ hb.node = p /\ hb.pc = "cancel" => nn[p].err
  /\ p \in live /\ hb.node # p => nn[p].valid \/ nn[p].expired

PeerInv(p) == Sockets(p) /\ Noticed(p) /\ (~setup.races => Expected(p))

\* A sender that was let through uses the valid connection.
Sending(s) == snd[s].pc \in {"ready", "registered"}
OnValid(s) ==
  Sending(s) \/ WaitsForStatus(s) =>
    nn[TargetOf[s]].valid /\ nn[TargetOf[s]].sc = snd[s].sc

\* Without races a work on o2net_wq is alone.
WorksAlone ==
  wq # Idle => hb.pc # "cancel" /\ \A s \in Sender : ~Sending(s)

NetInv ==
  /\ NetTypeOK
  /\ \A p \in Peer : PeerInv(p)
  /\ ~setup.races => WorksAlone /\ \A s \in Sender : OnValid(s)


-----------------------------------------------------------------------------
(* o2net_set_nn_state().                                                   *)

SendState == [pc : {"idle", "ready", "registered", "sent"},
              sc : Sc \union {Free}, id : MsgId,
              got : Sender \union {"nothing", "died"}]

\* What it makes of the state of a peer.
LEMMA AfterSetIs ==
  ASSUME NEW n \in NodeState, NEW sc \in Sc \union {Free},
         NEW valid \in BOOLEAN, NEW err \in BOOLEAN
  PROVE  LET a == AfterSet(n, sc, valid, err)
         IN  /\ a \in NodeState
             /\ a.sc = sc /\ a.valid = valid /\ a.timeout = n.timeout
             /\ a.err <=> err \/ (n.valid /\ ~valid)
             /\ ~valid => a.expired
             /\ n.stillUp => a.stillUp
             /\ n.valid /\ ~n.err /\ a.err => a.stillUp
<1> DEFINE a == AfterSet(n, sc, valid, err)
<1>1. /\ a.sc = sc /\ a.valid = valid /\ a.timeout = n.timeout
      /\ a.err = (err \/ (n.valid /\ ~valid))
      /\ a.connect = (n.connect \/ ~valid)
      /\ a.expired = IF valid THEN n.valid /\ n.expired ELSE TRUE
      /\ a.stillUp = (n.stillUp \/ (n.valid /\ ~n.err /\ (err \/ (n.valid /\ ~valid))))
  BY DEF AfterSet, NodeState
<1> HIDE DEF a
<1>3. a \in NodeState
  <2> DEFINE e == err \/ (n.valid /\ ~valid)
             x == IF valid THEN n.valid /\ n.expired ELSE TRUE
             u == n.stillUp \/ (n.valid /\ ~n.err /\ e)
             c == n.connect \/ ~valid
             n2 == [n EXCEPT !.sc = sc, !.valid = valid]
             n4 == [n2 EXCEPT !.err = e, !.connect = c]
  <2>1. e \in BOOLEAN /\ x \in BOOLEAN /\ u \in BOOLEAN /\ c \in BOOLEAN
    BY DEF NodeState
  <2>2. a = [n4 EXCEPT !.expired = x, !.stillUp = u]
    BY DEF a, AfterSet
  <2>3. n2 \in NodeState
    BY DEF NodeState
  <2> HIDE DEF e, x, u, c, n2
  <2>4. n4 \in NodeState
    BY <2>1, <2>3 DEF NodeState
  <2> HIDE DEF n4
  <2> QED
    BY <2>1, <2>2, <2>4 DEF NodeState
<1> QED
  BY <1>1, <1>3 DEF a

\* What it changes.
SetDoes(n, p, sc, valid, err) ==
  /\ nn' \in [Peer -> NodeState]
  /\ nn'[p].sc = sc /\ nn'[p].valid = valid /\ nn'[p].timeout = n.timeout
  /\ nn'[p].err <=> err \/ (n.valid /\ ~valid)
  /\ ~valid => nn'[p].expired
  /\ n.stillUp => nn'[p].stillUp
  /\ \A z \in Peer \ {p} : nn'[z] = nn[z]
  /\ queue' \in [Peer -> Seq(ScWork)]
  /\ \A z \in Peer : QueuedOnce(queue'[z])
  /\ quo' \in QuorumState(Peer \union {me})
  /\ quo'.hb = quo.hb
  /\ quo'.hold \subseteq quo.hold \union {p}
  /\ p \in quo'.hold \intersect quo.hb => p \in quo.hold \/ nn'[p].stillUp
  /\ snd' \in [Sender -> SendState]

LEMMA SetNnStateDoes ==
  ASSUME NetTypeOK
  PROVE  \A p \in Peer, n \in NodeState, q \in Seq(ScWork), sc \in Sc \union {Free},
            valid \in BOOLEAN, err \in BOOLEAN :
           QueuedOnce(q) /\ SetNnState(n, q, p, sc, valid, err) =>
             SetDoes(n, p, sc, valid, err)
<1> SUFFICES
      ASSUME NEW p \in Peer, NEW n \in NodeState, NEW q \in Seq(ScWork),
             NEW sc \in Sc \union {Free}, NEW valid \in BOOLEAN, NEW err \in BOOLEAN,
             QueuedOnce(q), SetNnState(n, q, p, sc, valid, err)
      PROVE  SetDoes(n, p, sc, valid, err)
  OBVIOUS
<1> DEFINE a == AfterSet(n, sc, valid, err)
<1>1. /\ nn \in [Peer -> NodeState] /\ queue \in [Peer -> Seq(ScWork)]
      /\ \A z \in Peer : QueuedOnce(queue[z])
      /\ quo \in QuorumState(Peer \union {me}) /\ snd \in [Sender -> SendState]
  BY DEF NetTypeOK, SendState
<1>2. /\ a \in NodeState
      /\ a.sc = sc /\ a.valid = valid /\ a.timeout = n.timeout
      /\ a.err <=> err \/ (n.valid /\ ~valid)
      /\ ~valid => a.expired
      /\ n.stillUp => a.stillUp
      /\ n.valid /\ ~n.err /\ a.err => a.stillUp
  BY AfterSetIs
<1>3. /\ nn' = [nn EXCEPT ![p] = a]
      /\ queue' = [queue EXCEPT ![p] = IF n.sc \notin {Free, sc}
                                         THEN Queue(q, Shut(n.sc)) ELSE q]
      /\ quo' = IF sc # Free /\ n.sc \notin {Free, sc}
                  THEN [quo EXCEPT !.bug = TRUE]
                ELSE IF n.valid /\ ~n.err /\ a.err THEN ConnErr(quo, p)
                ELSE IF ~n.valid /\ valid THEN ConnUp(quo, p)
                ELSE quo
      /\ snd' = IF n.valid /\ ~valid THEN AllDied(p) ELSE snd
  BY DEF SetNnState
<1> HIDE DEF a
<1>4. /\ nn' \in [Peer -> NodeState] /\ nn'[p] = a
      /\ \A z \in Peer \ {p} : nn'[z] = nn[z]
  BY <1>1, <1>2, <1>3
<1>5. /\ queue' \in [Peer -> Seq(ScWork)]
      /\ \A z \in Peer : QueuedOnce(queue'[z])
  <2>1. CASE n.sc \notin {Free, sc}
    <3>1. n.sc \in Sc
      BY <2>1 DEF NodeState
    <3>2. Queue(q, Shut(n.sc)) \in Seq(ScWork) /\ QueuedOnce(Queue(q, Shut(n.sc)))
      BY <3>1, WorksOf, QueueKeeps
    <3>3. queue' = [queue EXCEPT ![p] = Queue(q, Shut(n.sc))]
      BY <1>3, <2>1
    <3> QED
      BY <1>1, <3>2, <3>3
  <2>2. CASE n.sc \in {Free, sc}
    <3>1. queue' = [queue EXCEPT ![p] = q]
      BY <1>3, <2>2
    <3> QED
      BY <1>1, <3>1
  <2> QED
    BY <2>1, <2>2
<1>6. /\ quo' \in QuorumState(Peer \union {me})
      /\ quo'.hb = quo.hb
      /\ quo'.hold \subseteq quo.hold \union {p}
      /\ p \in quo'.hold \intersect quo.hb => p \in quo.hold \/ nn'[p].stillUp
  <2>1. /\ ConnErr(quo, p) \in QuorumState(Peer \union {me})
        /\ ConnErr(quo, p).hb = quo.hb
        /\ ConnErr(quo, p).hold \subseteq quo.hold \union {p}
        /\ ConnUp(quo, p) \in QuorumState(Peer \union {me})
        /\ ConnUp(quo, p).hb = quo.hb
        /\ ConnUp(quo, p).hold \subseteq quo.hold \union {p}
        /\ p \in quo.hb => p \notin ConnUp(quo, p).hold
    BY <1>1, ConnectionOps
  <2>2. LET b == [quo EXCEPT !.bug = TRUE]
        IN  b \in QuorumState(Peer \union {me}) /\ b.hb = quo.hb /\ b.hold = quo.hold
    BY <1>1 DEF QuorumState
  <2>3. \/ quo' = [quo EXCEPT !.bug = TRUE]
        \/ quo' = ConnErr(quo, p) /\ a.stillUp
        \/ quo' = ConnUp(quo, p)
        \/ quo' = quo
    BY <1>2, <1>3
  <2> QED
    BY <1>1, <1>4, <2>1, <2>2, <2>3
<1>7. snd' \in [Sender -> SendState]
  <2>1. \A s \in Sender : [snd[s] EXCEPT !.got = "died"] \in SendState
    BY <1>1 DEF SendState
  <2>2. AllDied(p) \in [Sender -> SendState]
    BY <1>1, <2>1 DEF AllDied
  <2> QED
    BY <1>1, <1>3, <2>2
<1> QED
  BY <1>2, <1>4, <1>5, <1>6, <1>7 DEF SetDoes

\* Whoever waits without races does so on the connection that is replaced, and is
\* told when the new one is not valid.
Undivided == \A s \in Sender : OnValid(s) /\ ~Sending(s)

LEMMA SetTellsWaiters ==
  ASSUME NetTypeOK, Undivided
  PROVE  \A p \in Peer, n \in NodeState, q \in Seq(ScWork), sc \in Sc \union {Free},
            valid \in BOOLEAN, err \in BOOLEAN :
           /\ QueuedOnce(q) /\ SetNnState(n, q, p, sc, valid, err)
           /\ n.valid = nn[p].valid /\ n.sc = nn[p].sc /\ (valid => sc = n.sc)
           => Undivided'
<1> SUFFICES
      ASSUME NEW p \in Peer, NEW n \in NodeState, NEW q \in Seq(ScWork),
             NEW sc \in Sc \union {Free}, NEW valid \in BOOLEAN, NEW err \in BOOLEAN,
             QueuedOnce(q), SetNnState(n, q, p, sc, valid, err),
             n.valid = nn[p].valid /\ n.sc = nn[p].sc /\ (valid => sc = n.sc)
      PROVE  Undivided'
  OBVIOUS
<1> SUFFICES ASSUME NEW s \in Sender
             PROVE  (OnValid(s) /\ ~Sending(s))'
  BY DEF Undivided
<1>1. SetDoes(n, p, sc, valid, err)
  BY SetNnStateDoes
<1>1a. snd \in [Sender -> SendState] /\ TargetOf[s] \in Peer
  BY TargetAssumption DEF NetTypeOK, SendState
<1>1b. snd' = IF n.valid /\ ~valid THEN AllDied(p) ELSE snd
  BY DEF SetNnState
<1>2. /\ nn'[p].sc = sc /\ nn'[p].valid = valid
      /\ \A z \in Peer \ {p} : nn'[z] = nn[z]
  BY <1>1 DEF SetDoes
<1>3. OnValid(s) /\ ~Sending(s)
  BY DEF Undivided
<1>4. /\ snd'[s].pc = snd[s].pc /\ snd'[s].sc = snd[s].sc
      /\ snd'[s].got = "nothing" =>
           /\ snd[s].got = "nothing"
           /\ ~(n.valid /\ ~valid /\ snd[s].pc = "sent" /\ TargetOf[s] = p)
  BY <1>1a, <1>1b DEF AllDied, Waiters, Registered, SendState
<1>5. ~Sending(s)'
  BY <1>3, <1>4 DEF Sending
<1>6. OnValid(s)'
  <2> SUFFICES ASSUME WaitsForStatus(s)'
               PROVE  nn'[TargetOf[s]].valid /\ nn'[TargetOf[s]].sc = snd'[s].sc
    BY <1>5 DEF OnValid
  <2>1. /\ WaitsForStatus(s)
        /\ ~(n.valid /\ ~valid /\ TargetOf[s] = p)
    BY <1>4 DEF WaitsForStatus
  <2>2. nn[TargetOf[s]].valid /\ nn[TargetOf[s]].sc = snd[s].sc
    BY <1>3, <2>1 DEF OnValid
  <2>3. CASE TargetOf[s] = p
    BY <1>2, <1>4, <2>1, <2>2, <2>3
  <2>4. CASE TargetOf[s] # p
    BY <1>2, <1>1a, <1>4, <2>2, <2>4
  <2> QED
    BY <2>3, <2>4
<1> QED
  BY <1>5, <1>6

LEMMA NoPeerIsNone == NoPeer \notin Peer /\ Free \notin Sc
BY PeerAssumption, ScAssumption DEF NoPeer, Free

\* o2net_ensure_shutdown either does so or leaves all but the queue alone.
EnsureDoes(p, i) ==
  /\ nn' \in [Peer -> NodeState]
  /\ \/ nn'[p] = nn[p] /\ nn[p].sc # i
     \/ /\ nn[p].sc = i /\ nn'[p].sc = Free /\ ~nn'[p].valid
        /\ nn'[p].expired /\ nn'[p].timeout = nn[p].timeout
        /\ nn[p].stillUp => nn'[p].stillUp
  /\ \A z \in Peer \ {p} : nn'[z] = nn[z]
  /\ queue' \in [Peer -> Seq(ScWork)]
  /\ \A z \in Peer : QueuedOnce(queue'[z])
  /\ quo' \in QuorumState(Peer \union {me})
  /\ quo'.hb = quo.hb
  /\ quo'.hold \subseteq quo.hold \union {p}
  /\ p \in quo'.hold \intersect quo.hb => p \in quo.hold \/ nn'[p].stillUp
  /\ snd' \in [Sender -> SendState]

LEMMA EnsureShutdownDoes ==
  ASSUME NetTypeOK, NEW p \in Peer, NEW i \in Sc,
         NEW q \in Seq(ScWork), QueuedOnce(q), NEW err \in BOOLEAN,
         EnsureShutdown(q, p, i, err)
  PROVE  EnsureDoes(p, i) /\ (Undivided => Undivided')
<1>1. /\ nn \in [Peer -> NodeState] /\ queue \in [Peer -> Seq(ScWork)]
      /\ \A z \in Peer : QueuedOnce(queue[z])
      /\ quo \in QuorumState(Peer \union {me}) /\ snd \in [Sender -> SendState]
  BY DEF NetTypeOK, SendState
<1>2. CASE nn[p].sc = i
  <2>1. SetNnState(nn[p], q, p, Free, FALSE, err) /\ nn[p] \in NodeState
    BY <1>1, <1>2 DEF EnsureShutdown
  <2>2. SetDoes(nn[p], p, Free, FALSE, err)
    BY <2>1, SetNnStateDoes
  <2>3. Undivided => Undivided'
    BY <2>1, SetTellsWaiters, NoPeerIsNone
  <2> QED
    BY <1>2, <2>2, <2>3 DEF SetDoes, EnsureDoes
<1>3. CASE nn[p].sc # i
  <2>1. queue' = [queue EXCEPT ![p] = q] /\ UNCHANGED <<nn, quo, snd>>
    BY <1>3 DEF EnsureShutdown
  <2>2. Undivided => Undivided'
    BY <2>1 DEF Undivided, OnValid, Sending, WaitsForStatus
  <2> QED
    BY <1>1, <1>3, <2>1, <2>2 DEF EnsureDoes
<1> QED
  BY <1>2, <1>3

-----------------------------------------------------------------------------
(* Types.                                                                  *)

\* A work of o2net_wq, what heartbeat is at, and a container are well formed.
HbState == [pc : {"idle", "up", "upNet", "down", "disconnect", "cancel",
                   "flush"}, node : Peer \union {NoPeer}]
WqState == [work : {"idle", "connect", "accept", "postpone"},
             peer : Peer \union {NoPeer}, sc : Sc \union {Free},
             msg : Reply \union {Keepalive}]

LEMMA Types ==
  NetTypeOK <=>
    /\ setup \in Setups
    /\ quo \in QuorumState(Peer \union {me})
    /\ fenced \in BOOLEAN
    /\ live \in SUBSET Peer
    /\ hb \in HbState
    /\ nn \in [Peer -> NodeState]
    /\ scs \in [Peer -> [Sc -> Container]]
    /\ queue \in [Peer -> Seq(ScWork)]
    /\ \A p \in Peer : QueuedOnce(queue[p])
    /\ wq \in WqState
    /\ ticking \in [Peer -> Sc \union {Free}]
    /\ snd \in [Sender -> SendState]
    /\ wire \in [Peer -> [Sc -> SUBSET Reply]]
BY DEF NetTypeOK, HbState, WqState, SendState

LEMMA WorkTypes ==
  /\ Idle \in WqState /\ Idle.work = "idle"
  /\ \A p \in Peer : /\ [Idle EXCEPT !.work = "connect", !.peer = p] \in WqState
                     /\ [Idle EXCEPT !.work = "accept", !.peer = p] \in WqState
  /\ \A p \in Peer, i \in Sc, m \in Reply \union {Keepalive} :
       [work |-> "postpone", peer |-> p, sc |-> i, msg |-> m] \in WqState
BY DEF Idle, WqState

LEMMA ContainerTypes ==
  /\ Unused \in Container /\ New \in Container
  /\ New.cb /\ ~New.timer /\ ~Unused.timer
BY DEF Unused, New, Container

\* Delivering a message.
LEMMA DeliverTypes ==
  ASSUME NetTypeOK, NEW p \in Peer, NEW i \in Sc, NEW m \in Reply \union {Keepalive},
         Deliver(p, i, m)
  PROVE  /\ snd' \in [Sender -> SendState]
         /\ wire' \in [Peer -> [Sc -> SUBSET Reply]]
         /\ \A s \in Sender : /\ snd'[s].pc = snd[s].pc /\ snd'[s].sc = snd[s].sc
                              /\ snd'[s].got = "nothing" => snd[s].got = "nothing"
<1>1. snd \in [Sender -> SendState] /\ wire \in [Peer -> [Sc -> SUBSET Reply]]
  BY Types
<1>2. CASE m = Keepalive
  BY <1>1, <1>2 DEF Deliver
<1>3. CASE m # Keepalive
  <2>1. m \in Reply /\ m.of \in Sender
    BY <1>3 DEF Reply
  <2>2. snd' = Answered(p, m) /\ wire' = [wire EXCEPT ![p][i] = @ \ {m}]
    BY <1>3 DEF Deliver
  <2>3. wire' \in [Peer -> [Sc -> SUBSET Reply]]
    BY <1>1, <2>2
  <2>4. /\ snd' \in [Sender -> SendState]
        /\ \A s \in Sender : /\ snd'[s].pc = snd[s].pc /\ snd'[s].sc = snd[s].sc
                             /\ snd'[s].got = "nothing" => snd[s].got = "nothing"
    BY <1>1, <2>1, <2>2 DEF Answered, Waiters, Registered, SendState
  <2> QED
    BY <2>3, <2>4
<1> QED
  BY <1>2, <1>3

LEMMA LastReadTypes ==
  ASSUME NetTypeOK, NEW p \in Peer, NEW i \in Sc, LastRead(p, i)
  PROVE  /\ scs' \in [Peer -> [Sc -> Container]]
         /\ wire' \in [Peer -> [Sc -> SUBSET Reply]]
         /\ \A z \in Peer \ {p} : scs'[z] = scs[z]
         /\ \A j \in Sc : /\ scs'[p][j].cb = scs[p][j].cb
                          /\ scs'[p][j].timer = scs[p][j].timer
<1>1. scs \in [Peer -> [Sc -> Container]] /\ wire \in [Peer -> [Sc -> SUBSET Reply]]
  BY Types
<1>2. scs[p][i] \in Container
  BY <1>1
<1> PICK h \in BOOLEAN : h = (scs[p][i].hand /\ scs[p][i].cb)
  OBVIOUS
<1>3. scs' = [scs EXCEPT ![p][i].hand = h]
  BY DEF LastRead
<1>4. wire' = [wire EXCEPT ![p][i] = IF scs[p][i].cb THEN @ ELSE {}]
  BY DEF LastRead
<1>5. wire' \in [Peer -> [Sc -> SUBSET Reply]]
  BY <1>1, <1>4
<1>6. /\ scs' \in [Peer -> [Sc -> Container]]
      /\ \A z \in Peer \ {p} : scs'[z] = scs[z]
      /\ \A j \in Sc : /\ scs'[p][j].cb = scs[p][j].cb
                       /\ scs'[p][j].timer = scs[p][j].timer
  BY <1>1, <1>2, <1>3 DEF Container
<1> QED
  BY <1>5, <1>6

-----------------------------------------------------------------------------
(* A step of one peer leaves the others as they are.                       *)

PeerOnly(p) ==
  \A z \in Peer \ {p} :
    /\ nn'[z] = nn[z] /\ scs'[z] = scs[z] /\ ticking'[z] = ticking[z]
    /\ z \in live' <=> z \in live
    /\ z \in quo'.hb => z \in quo.hb
    /\ z \in quo'.hold \intersect quo'.hb => z \in quo.hold \intersect quo.hb
    /\ hb.node = z \/ hb'.node = z => hb' = hb

LEMMA OthersKeep ==
  ASSUME \A z \in Peer : PeerInv(z), UNCHANGED setup,
         NEW p \in Peer, PeerOnly(p), PeerInv(p)'
  PROVE  \A z \in Peer : PeerInv(z)'
<1> SUFFICES ASSUME NEW z \in Peer \ {p}
             PROVE  PeerInv(z)'
  OBVIOUS
<1>1. /\ nn'[z] = nn[z] /\ scs'[z] = scs[z] /\ ticking'[z] = ticking[z]
      /\ z \in live' <=> z \in live
      /\ z \in quo'.hb => z \in quo.hb
      /\ z \in quo'.hold \intersect quo'.hb => z \in quo.hold \intersect quo.hb
      /\ hb.node = z \/ hb'.node = z => hb' = hb
  BY DEF PeerOnly
<1>2. Sockets(z) /\ Noticed(z) /\ (~setup.races => Expected(z))
  BY DEF PeerInv
<1>3. Sockets(z)'
  BY <1>1, <1>2 DEF Sockets
<1>4. Noticed(z)'
  BY <1>1, <1>2 DEF Noticed
<1>5. ~setup.races => Expected(z)'
  BY <1>1, <1>2 DEF Expected
<1> QED
  BY <1>3, <1>4, <1>5 DEF PeerInv

\* Nobody is told anything and no connection changes.
LEMMA SendersKeep ==
  ASSUME \A s \in Sender : OnValid(s),
         \A z \in Peer : nn'[z].valid = nn[z].valid /\ nn'[z].sc = nn[z].sc,
         \A s \in Sender : /\ snd'[s].pc = snd[s].pc /\ snd'[s].sc = snd[s].sc
                           /\ snd'[s].got = "nothing" => snd[s].got = "nothing"
  PROVE  \A s \in Sender : OnValid(s)' /\ (Sending(s)' <=> Sending(s))
<1> SUFFICES ASSUME NEW s \in Sender
             PROVE  OnValid(s)' /\ (Sending(s)' <=> Sending(s))
  OBVIOUS
<1>1. /\ TargetOf[s] \in Peer
      /\ snd'[s].pc = snd[s].pc /\ snd'[s].sc = snd[s].sc
      /\ snd'[s].got = "nothing" => snd[s].got = "nothing"
      /\ nn'[TargetOf[s]].valid = nn[TargetOf[s]].valid
      /\ nn'[TargetOf[s]].sc = nn[TargetOf[s]].sc
  BY TargetAssumption
<1>2. OnValid(s)
  OBVIOUS
<1> QED
  BY <1>1, <1>2 DEF OnValid, Sending, WaitsForStatus

\* When nothing may be disturbed, nothing of the sort is under way.
LEMMA Quiet ==
  ASSUME NetInv, Undisturbed, ~setup.races
  PROVE  /\ wq = Idle /\ hb.pc # "cancel" /\ Undivided
         /\ \A p \in Peer : ticking[p] = Free
BY DEF NetInv, Undisturbed, Undivided, Sending

LEMMA Parts ==
  NetInv => /\ NetTypeOK
            /\ \A p \in Peer : Sockets(p) /\ Noticed(p) /\ PeerInv(p)
            /\ ~setup.races => /\ WorksAlone
                               /\ \A s \in Sender : OnValid(s)
                               /\ \A p \in Peer : Expected(p)
BY DEF NetInv, PeerInv

-----------------------------------------------------------------------------
(* Connecting and accepting.                                               *)

\* o2net_start_connect: nothing but connect_work is taken off.
LEMMA StartConnectKeeps ==
  ASSUME NetInv, UNCHANGED setup, NEW p \in Peer, StartConnect(p)
  PROVE  NetInv'
<1>1. /\ Undisturbed /\ wq = Idle
      /\ nn' = [nn EXCEPT ![p].connect = FALSE]
      /\ wq' \in {[Idle EXCEPT !.work = "connect", !.peer = p], wq}
      /\ UNCHANGED <<quo, fenced, live, hb, scs, queue, ticking, snd, wire>>
  BY DEF StartConnect
<1>2. NetTypeOK /\ nn \in [Peer -> NodeState]
  BY Parts, Types
<1>3. /\ nn' \in [Peer -> NodeState]
      /\ \A z \in Peer : /\ nn'[z].sc = nn[z].sc /\ nn'[z].valid = nn[z].valid
                         /\ nn'[z].err = nn[z].err /\ nn'[z].timeout = nn[z].timeout
                         /\ nn'[z].expired = nn[z].expired
                         /\ nn'[z].stillUp = nn[z].stillUp
  BY <1>1, <1>2 DEF NodeState
<1>4. NetTypeOK'
  <2>1. wq' \in WqState
    BY <1>1, WorkTypes
  <2> QED
    BY <1>1, <1>2, <1>3, <2>1, Types DEF NetTypeOK, HbState, WqState, SendState, me
<1>5. ASSUME NEW z \in Peer PROVE PeerInv(z)'
  <2>1. PeerInv(z)
    BY Parts
  <2> QED
    BY <1>1, <1>3, <2>1 DEF PeerInv, Sockets, Noticed, Expected
<1>6. ~setup.races => WorksAlone' /\ \A s \in Sender : OnValid(s)'
  <2> SUFFICES ASSUME ~setup.races PROVE WorksAlone' /\ \A s \in Sender : OnValid(s)'
    OBVIOUS
  <2>1. Undivided /\ hb.pc # "cancel"
    BY <1>1, Quiet
  <2>2. \A s \in Sender : OnValid(s)' /\ (Sending(s)' <=> Sending(s))
    BY <1>1, <1>3, <2>1, SendersKeep DEF Undivided
  <2> QED
    BY <1>1, <2>1, <2>2 DEF WorksAlone, Undivided
<1> QED
  BY <1>4, <1>5, <1>6 DEF NetInv

\* sc_alloc() failed: the work is over.
LEMMA NoContainerKeeps ==
  ASSUME NetInv, UNCHANGED setup, NEW p \in Peer, NoContainer(p)
  PROVE  NetInv'
<1>1. wq' = Idle /\ UNCHANGED <<quo, fenced, live, hb, nn, scs, queue, ticking, snd, wire>>
  BY DEF NoContainer
<1>2. NetTypeOK'
  BY <1>1, Parts, Types, WorkTypes DEF NetTypeOK, HbState, WqState, SendState, me
<1>3. ASSUME NEW z \in Peer PROVE PeerInv(z)'
  BY <1>1, Parts DEF PeerInv, Sockets, Noticed, Expected
<1>4. ~setup.races => WorksAlone' /\ \A s \in Sender : OnValid(s)'
  BY <1>1, Parts DEF WorksAlone, OnValid, Sending, WaitsForStatus
<1> QED
  BY <1>2, <1>3, <1>4 DEF NetInv

\* A new container has its callbacks and no timer.
LEMMA NewContainer ==
  ASSUME NetTypeOK, NEW p \in Peer, NEW i \in Sc,
         scs' = [scs EXCEPT ![p][i] = New], wire' = [wire EXCEPT ![p][i] = {}]
  PROVE  /\ scs' \in [Peer -> [Sc -> Container]]
         /\ wire' \in [Peer -> [Sc -> SUBSET Reply]]
         /\ \A z \in Peer \ {p} : scs'[z] = scs[z]
         /\ scs'[p][i] = New
         /\ \A j \in Sc \ {i} : scs'[p][j] = scs[p][j]
<1>1. scs \in [Peer -> [Sc -> Container]] /\ wire \in [Peer -> [Sc -> SUBSET Reply]]
  BY Types
<1>2. New \in Container
  BY ContainerTypes
<1> QED
  BY <1>1, <1>2

\* A connection that is being made is not valid yet, and expected to become so.
LEMMA PlacedKeepsPeer ==
  ASSUME NetInv, UNCHANGED setup, NEW p \in Peer, NEW i \in Sc, NEW n \in NodeState,
         SetDoes(n, p, i, FALSE, FALSE),
         n.timeout => nn[p].timeout, n.stillUp = nn[p].stillUp,
         wq # Idle,
         scs'[p][i] = New, \A j \in Sc \ {i} : scs'[p][j] = scs[p][j],
         \A z \in Peer \ {p} : scs'[z] = scs[z],
         UNCHANGED <<live, hb, ticking>>
  PROVE  PeerInv(p)' /\ PeerOnly(p)
<1>1. /\ nn'[p].sc = i /\ nn'[p].valid = FALSE /\ nn'[p].timeout = n.timeout
      /\ nn'[p].expired
      /\ nn[p].stillUp => nn'[p].stillUp
      /\ \A z \in Peer \ {p} : nn'[z] = nn[z]
      /\ quo'.hb = quo.hb
      /\ quo'.hold \subseteq quo.hold \union {p}
      /\ p \in quo'.hold \intersect quo.hb => p \in quo.hold \/ nn'[p].stillUp
  BY DEF SetDoes
<1>2. New.cb /\ ~New.timer /\ i # Free
  BY ContainerTypes, NoPeerIsNone
<1>3. Sockets(p) /\ Noticed(p)
  BY Parts
<1>4. ticking[p] \in Sc \union {Free}
  BY Parts, Types
<1>5. Sockets(p)'
  <2>1. \A j \in Sc : /\ scs[p][j].cb => scs'[p][j].cb
                      /\ scs'[p][j].timer => scs[p][j].timer
    BY <1>2
  <2> QED
    BY <1>1, <1>2, <1>3, <1>4, <2>1 DEF Sockets
<1>6. Noticed(p)'
  BY <1>1, <1>3 DEF Noticed
<1>7. ~setup.races => Expected(p)'
  <2>1. ~setup.races => hb.pc # "cancel"
    BY Parts DEF WorksAlone
  <2> QED
    BY <1>1, <2>1 DEF Expected
<1>8. PeerOnly(p)
  BY <1>1 DEF PeerOnly
<1> QED
  BY <1>5, <1>6, <1>7, <1>8 DEF PeerInv

\* o2net_start_connect, the new container in place.
LEMMA ConnectSetKeeps ==
  ASSUME NetInv, UNCHANGED setup, NEW p \in Peer, NEW i \in Sc, ConnectSet(p, i)
  PROVE  NetInv'
<1>1. /\ wq.work = "connect" /\ wq' = Idle
      /\ SetNnState(nn[p], queue[p], p, i, FALSE, FALSE)
      /\ scs' = [scs EXCEPT ![p][i] = New]
      /\ wire' = [wire EXCEPT ![p][i] = {}]
      /\ UNCHANGED <<fenced, live, hb, ticking>>
  BY DEF ConnectSet
<1>2. /\ NetTypeOK /\ nn[p] \in NodeState /\ queue[p] \in Seq(ScWork)
      /\ QueuedOnce(queue[p]) /\ wq # Idle
  BY <1>1, Parts, Types, WorkTypes
<1>3. SetDoes(nn[p], p, i, FALSE, FALSE)
  BY <1>1, <1>2, SetNnStateDoes
<1>4. /\ scs' \in [Peer -> [Sc -> Container]]
      /\ wire' \in [Peer -> [Sc -> SUBSET Reply]]
      /\ \A z \in Peer \ {p} : scs'[z] = scs[z]
      /\ scs'[p][i] = New
      /\ \A j \in Sc \ {i} : scs'[p][j] = scs[p][j]
  BY <1>1, <1>2, NewContainer
<1>5. NetTypeOK'
  BY <1>1, <1>2, <1>3, <1>4, Types, WorkTypes
    DEF NetTypeOK, HbState, WqState, SendState, me, SetDoes
<1>6. PeerInv(p)' /\ PeerOnly(p)
  BY <1>1, <1>2, <1>3, <1>4, PlacedKeepsPeer
<1>7. ~setup.races => WorksAlone' /\ \A s \in Sender : OnValid(s)'
  <2> SUFFICES ASSUME ~setup.races PROVE WorksAlone' /\ \A s \in Sender : OnValid(s)'
    OBVIOUS
  <2>1. Undivided
    BY <1>2, Parts DEF WorksAlone, Undivided
  <2>2. Undivided'
    BY <1>1, <1>2, <2>1, SetTellsWaiters
  <2> QED
    BY <1>1, <2>2 DEF WorksAlone, Undivided
<1> QED
  BY <1>5, <1>6, <1>7, OthersKeep, Parts DEF NetInv

\* o2net_accept_one: the check.
LEMMA AcceptOneKeeps ==
  ASSUME NetInv, UNCHANGED setup, NEW p \in Peer, AcceptOne(p)
  PROVE  NetInv'
<1>1. /\ Undisturbed
      /\ wq' = [Idle EXCEPT !.work = "accept", !.peer = p]
      /\ UNCHANGED <<quo, fenced, live, hb, nn, scs, queue, ticking, snd, wire>>
  BY DEF AcceptOne
<1>2. NetTypeOK'
  BY <1>1, Parts, Types, WorkTypes DEF NetTypeOK, HbState, WqState, SendState, me
<1>3. ASSUME NEW z \in Peer PROVE PeerInv(z)'
  BY <1>1, Parts DEF PeerInv, Sockets, Noticed, Expected
<1>4. ~setup.races => WorksAlone' /\ \A s \in Sender : OnValid(s)'
  <2>1. ~setup.races => Undivided /\ hb.pc # "cancel"
    BY <1>1, Quiet
  <2> QED
    BY <1>1, <2>1 DEF WorksAlone, OnValid, Sending, WaitsForStatus, Undivided
<1> QED
  BY <1>2, <1>3, <1>4 DEF NetInv

\* o2net_accept_one, the new container in place: the timeout of the old one is over.
LEMMA AcceptSetKeeps ==
  ASSUME NetInv, UNCHANGED setup, NEW p \in Peer, NEW i \in Sc, AcceptSet(p, i)
  PROVE  NetInv'
<1> DEFINE n == [nn[p] EXCEPT !.timeout = FALSE]
           q == Queue(queue[p], Rx(i))
<1>1. /\ wq.work = "accept" /\ wq' = Idle
      /\ SetNnState(n, q, p, i, FALSE, FALSE)
      /\ scs' = [scs EXCEPT ![p][i] = New]
      /\ wire' = [wire EXCEPT ![p][i] = {}]
      /\ UNCHANGED <<fenced, live, hb, ticking>>
  BY DEF AcceptSet
<1>2. /\ NetTypeOK /\ nn[p] \in NodeState /\ queue[p] \in Seq(ScWork)
      /\ QueuedOnce(queue[p]) /\ wq # Idle
  BY <1>1, Parts, Types, WorkTypes
<1>2a. /\ n \in NodeState /\ n.timeout = FALSE /\ n.stillUp = nn[p].stillUp
       /\ n.valid = nn[p].valid /\ n.sc = nn[p].sc
  BY <1>2 DEF NodeState
<1>2b. q \in Seq(ScWork) /\ QueuedOnce(q)
  BY <1>2, QueueKeeps, WorksOf
<1> HIDE DEF n, q
<1>3. SetDoes(n, p, i, FALSE, FALSE)
  BY <1>1, <1>2, <1>2a, <1>2b, SetNnStateDoes
<1>4. /\ scs' \in [Peer -> [Sc -> Container]]
      /\ wire' \in [Peer -> [Sc -> SUBSET Reply]]
      /\ \A z \in Peer \ {p} : scs'[z] = scs[z]
      /\ scs'[p][i] = New
      /\ \A j \in Sc \ {i} : scs'[p][j] = scs[p][j]
  BY <1>1, <1>2, NewContainer
<1>5. NetTypeOK'
  BY <1>1, <1>2, <1>3, <1>4, Types, WorkTypes
    DEF NetTypeOK, HbState, WqState, SendState, me, SetDoes
<1>6. PeerInv(p)' /\ PeerOnly(p)
  BY <1>1, <1>2, <1>2a, <1>3, <1>4, PlacedKeepsPeer
<1>7. ~setup.races => WorksAlone' /\ \A s \in Sender : OnValid(s)'
  <2> SUFFICES ASSUME ~setup.races PROVE WorksAlone' /\ \A s \in Sender : OnValid(s)'
    OBVIOUS
  <2>1. Undivided
    BY <1>2, Parts DEF WorksAlone, Undivided
  <2>2. Undivided'
    BY <1>1, <1>2, <1>2a, <1>2b, <2>1, SetTellsWaiters
  <2> QED
    BY <1>1, <2>2 DEF WorksAlone, Undivided
<1> QED
  BY <1>5, <1>6, <1>7, OthersKeep, Parts DEF NetInv

-----------------------------------------------------------------------------
(* The sockets.                                                            *)

\* A callback of the socket queues a work.
LEMMA CallbackKeeps ==
  ASSUME NetInv, UNCHANGED setup, NEW p \in Peer, NEW w \in ScWork, ~Queued(p, w),
         queue' = [queue EXCEPT ![p] = Append(@, w)],
         UNCHANGED <<quo, fenced, live, hb, nn, scs, wq, ticking, snd, wire>>
  PROVE  NetInv'
<1>1. NetTypeOK /\ queue \in [Peer -> Seq(ScWork)] /\ QueuedOnce(queue[p])
  BY Parts, Types
<1>2. Append(queue[p], w) \in Seq(ScWork) /\ QueuedOnce(Append(queue[p], w))
  BY <1>1, AppendKeeps DEF Queued
<1>3. queue' \in [Peer -> Seq(ScWork)] /\ \A z \in Peer : QueuedOnce(queue'[z])
  BY <1>1, <1>2, Types
<1>4. NetTypeOK'
  BY <1>1, <1>3, Types DEF NetTypeOK, HbState, WqState, SendState, me
<1>5. ASSUME NEW z \in Peer PROVE PeerInv(z)'
  BY Parts DEF PeerInv, Sockets, Noticed, Expected
<1>6. ~setup.races => WorksAlone' /\ \A s \in Sender : OnValid(s)'
  BY Parts DEF WorksAlone, OnValid, Sending, WaitsForStatus
<1> QED
  BY <1>4, <1>5, <1>6 DEF NetInv

\* What a shutdown of container i keeps, if it does not take the callbacks from
\* under a timer that is being handled.
LEMMA EnsureKeepsPeer ==
  ASSUME NetInv, UNCHANGED setup, NEW p \in Peer, NEW i \in Sc, Undisturbed,
         EnsureDoes(p, i),
         \A j \in Sc : /\ scs'[p][j].timer => scs'[p][j].cb
                       /\ scs[p][j].cb => scs'[p][j].cb \/ (j = i /\ ticking[p] # i),
         \A z \in Peer \ {p} : scs'[z] = scs[z],
         UNCHANGED <<live, hb, ticking>>
  PROVE  PeerInv(p)' /\ PeerOnly(p)
<1>1. /\ \/ nn'[p] = nn[p] /\ nn[p].sc # i
         \/ /\ nn[p].sc = i /\ nn'[p].sc = Free /\ ~nn'[p].valid
            /\ nn'[p].expired /\ nn'[p].timeout = nn[p].timeout
            /\ nn[p].stillUp => nn'[p].stillUp
      /\ \A z \in Peer \ {p} : nn'[z] = nn[z]
      /\ quo'.hb = quo.hb
      /\ quo'.hold \subseteq quo.hold \union {p}
      /\ p \in quo'.hold \intersect quo.hb => p \in quo.hold \/ nn'[p].stillUp
  BY DEF EnsureDoes
<1>2. /\ nn[p] \in NodeState /\ ticking[p] \in Sc \union {Free}
      /\ Sockets(p) /\ Noticed(p)
  BY Parts, Types
<1>3. Sockets(p)'
  <2>1. nn[p].sc \in Sc \union {Free}
    BY <1>2 DEF NodeState
  <2>2. /\ nn[p].valid => nn[p].sc # Free
        /\ nn[p].sc # Free => scs[p][nn[p].sc].cb
        /\ ticking[p] # Free => scs[p][ticking[p]].cb
    BY <1>2 DEF Sockets
  <2>3. ticking'[p] # Free => scs'[p][ticking'[p]].cb
    BY <1>2, <2>2
  <2>4. /\ nn'[p].valid => nn'[p].sc # Free
        /\ nn'[p].sc # Free => scs'[p][nn'[p].sc].cb
    BY <1>1, <2>1, <2>2
  <2> QED
    BY <2>3, <2>4 DEF Sockets
<1>4. Noticed(p)'
  BY <1>1, <1>2 DEF Noticed
<1>5. ~setup.races => Expected(p)'
  <2> SUFFICES ASSUME ~setup.races PROVE Expected(p)'
    OBVIOUS
  <2>1. Expected(p) /\ hb.pc # "cancel"
    BY Quiet, Parts
  <2> QED
    BY <1>1, <2>1 DEF Expected
<1>6. PeerOnly(p)
  BY <1>1 DEF PeerOnly
<1> QED
  BY <1>3, <1>4, <1>5, <1>6 DEF PeerInv

\* A step of a work or of an error that shuts down container i.
LEMMA EnsureKeeps ==
  ASSUME NetInv, UNCHANGED setup, NEW p \in Peer, NEW i \in Sc, Undisturbed,
         NEW q \in Seq(ScWork), QueuedOnce(q), NEW err \in BOOLEAN,
         EnsureShutdown(q, p, i, err),
         scs' \in [Peer -> [Sc -> Container]],
         wire' \in [Peer -> [Sc -> SUBSET Reply]],
         \A j \in Sc : /\ scs'[p][j].timer => scs'[p][j].cb
                       /\ scs[p][j].cb => scs'[p][j].cb \/ (j = i /\ ticking[p] # i),
         \A z \in Peer \ {p} : scs'[z] = scs[z],
         UNCHANGED <<fenced, live, hb, wq, ticking>>
  PROVE  NetInv'
<1>1. NetTypeOK
  BY Parts
<1>2. EnsureDoes(p, i) /\ (Undivided => Undivided')
  BY <1>1, EnsureShutdownDoes
<1>3. NetTypeOK'
  BY <1>1, <1>2, Types DEF NetTypeOK, HbState, WqState, SendState, me, EnsureDoes
<1>4. PeerInv(p)' /\ PeerOnly(p)
  BY <1>2, EnsureKeepsPeer
<1>5. ~setup.races => WorksAlone' /\ \A s \in Sender : OnValid(s)'
  <2>1. ~setup.races => Undivided /\ wq = Idle
    BY Quiet
  <2> QED
    BY <1>2, <2>1 DEF WorksAlone, Undivided
<1> QED
  BY <1>3, <1>4, <1>5, OthersKeep, Parts DEF NetInv

\* The work at the head of the queue is done.
LEMMA HeadDone ==
  ASSUME NetInv, NEW p \in Peer, NEW w, Runs(p, w)
  PROVE  /\ Undisturbed /\ wq = Idle
         /\ queue[p] \in Seq(ScWork) /\ QueuedOnce(queue[p])
         /\ Tail(queue[p]) \in Seq(ScWork) /\ QueuedOnce(Tail(queue[p]))
<1>1. Undisturbed /\ wq = Idle /\ queue[p] # <<>>
  BY DEF Runs, AtHead
<1>2. queue[p] \in Seq(ScWork) /\ QueuedOnce(queue[p])
  BY Parts, Types
<1> QED
  BY <1>1, <1>2, TailKeeps

\* A timer belongs to a socket that has its callbacks.
LEMMA TimersHere ==
  NetInv => /\ scs \in [Peer -> [Sc -> Container]]
            /\ wire \in [Peer -> [Sc -> SUBSET Reply]]
            /\ \A p \in Peer, i \in Sc : scs[p][i].timer => scs[p][i].cb
            /\ \A p \in Peer, i \in Sc : ticking[p] = i => scs[p][i].cb
BY Parts, Types, NoPeerIsNone DEF Sockets

\* o2net_check_handshake refuses.
LEMMA HandshakeRefusedKeeps ==
  ASSUME NetInv, UNCHANGED setup, NEW p \in Peer, NEW i \in Sc, HandshakeRefused(p, i)
  PROVE  NetInv'
<1>1. /\ Runs(p, Rx(i)) /\ EnsureShutdown(Tail(queue[p]), p, i, TRUE)
      /\ UNCHANGED <<fenced, live, hb, scs, wq, ticking, wire>>
  BY DEF HandshakeRefused
<1> PICK err \in BOOLEAN : EnsureShutdown(Tail(queue[p]), p, i, err)
  BY <1>1
<1> QED
  BY <1>1, HeadDone, TimersHere, EnsureKeeps

\* o2net_rx_until_empty sees an error.
LEMMA RxErrorKeeps ==
  ASSUME NetInv, UNCHANGED setup, NEW p \in Peer, NEW i \in Sc, RxError(p, i)
  PROVE  NetInv'
<1>1. /\ Runs(p, Rx(i)) /\ EnsureShutdown(Tail(queue[p]), p, i, FALSE)
      /\ LastRead(p, i)
      /\ UNCHANGED <<fenced, live, hb, wq, ticking>>
  BY DEF RxError
<1> PICK err \in BOOLEAN : EnsureShutdown(Tail(queue[p]), p, i, err)
  BY <1>1
<1>2. /\ scs' \in [Peer -> [Sc -> Container]]
      /\ wire' \in [Peer -> [Sc -> SUBSET Reply]]
      /\ \A z \in Peer \ {p} : scs'[z] = scs[z]
      /\ \A j \in Sc : /\ scs'[p][j].cb = scs[p][j].cb
                       /\ scs'[p][j].timer = scs[p][j].timer
  BY <1>1, LastReadTypes, Parts
<1>3. \A j \in Sc : /\ scs'[p][j].timer => scs'[p][j].cb
                    /\ scs[p][j].cb => scs'[p][j].cb \/ (j = i /\ ticking[p] # i)
  BY <1>2, TimersHere
<1>4. Undisturbed /\ Tail(queue[p]) \in Seq(ScWork) /\ QueuedOnce(Tail(queue[p]))
  BY <1>1, HeadDone
<1> QED
  BY <1>1, <1>2, <1>3, <1>4, EnsureKeeps

\* A send or the connect itself fails.
LEMMA TxErrorKeeps ==
  ASSUME NetInv, UNCHANGED setup, NEW p \in Peer, NEW i \in Sc, TxError(p, i)
  PROVE  NetInv'
<1>1. /\ Undisturbed /\ EnsureShutdown(queue[p], p, i, FALSE)
      /\ UNCHANGED <<fenced, live, hb, scs, wq, ticking, wire>>
  BY DEF TxError
<1> PICK err \in BOOLEAN : EnsureShutdown(queue[p], p, i, err)
  BY <1>1
<1>2. queue[p] \in Seq(ScWork) /\ QueuedOnce(queue[p])
  BY Parts, Types
<1> QED
  BY <1>1, <1>2, TimersHere, EnsureKeeps

\* o2net_shutdown_sc: the callbacks go, and with them the timer.
LEMMA ShutdownScKeeps ==
  ASSUME NetInv, UNCHANGED setup, NEW p \in Peer, NEW i \in Sc, ShutdownSc(p, i)
  PROVE  NetInv'
<1> PICK h \in BOOLEAN : h = (scs[p][i].hand /\ Queued(p, Rx(i)))
  OBVIOUS
<1> PICK t \in BOOLEAN : t = (scs[p][i].timer /\ ~scs[p][i].cb)
  OBVIOUS
<1>1. /\ Runs(p, Shut(i)) /\ EnsureShutdown(Tail(queue[p]), p, i, FALSE)
      /\ scs[p][i].cb => ticking[p] # i
      /\ UNCHANGED <<fenced, live, hb, wq, ticking>>
  BY DEF ShutdownSc
<1>2. scs' = [scs EXCEPT ![p][i] = [cb |-> FALSE, timer |-> t, hand |-> h]]
  BY DEF ShutdownSc
<1>3. wire' = [wire EXCEPT ![p][i] = IF Queued(p, Rx(i)) THEN @ ELSE {}]
  BY DEF ShutdownSc
<1>4. ~t
  BY TimersHere
<1>5. [cb |-> FALSE, timer |-> t, hand |-> h] \in Container
  BY DEF Container
<1>6. /\ scs' \in [Peer -> [Sc -> Container]]
      /\ \A z \in Peer \ {p} : scs'[z] = scs[z]
      /\ \A j \in Sc \ {i} : scs'[p][j] = scs[p][j]
      /\ scs'[p][i].timer = t
  BY <1>2, <1>5, TimersHere
<1>7. wire' \in [Peer -> [Sc -> SUBSET Reply]]
  BY <1>3, TimersHere
<1>8. ticking[p] # i
  BY <1>1, TimersHere
<1>9. \A j \in Sc : /\ scs'[p][j].timer => scs'[p][j].cb
                    /\ scs[p][j].cb => scs'[p][j].cb \/ (j = i /\ ticking[p] # i)
  BY <1>4, <1>6, <1>8, TimersHere
<1> PICK err \in BOOLEAN : EnsureShutdown(Tail(queue[p]), p, i, err)
  BY <1>1
<1> QED
  BY <1>1, <1>6, <1>7, <1>9, HeadDone, EnsureKeeps

LEMMA HandAgreed ==
  ASSUME NEW c \in Container
  PROVE  /\ LET h == [c EXCEPT !.hand = TRUE]
            IN  h \in Container /\ h.cb = c.cb /\ h.timer = c.timer
         /\ LET h == [c EXCEPT !.hand = TRUE, !.timer = TRUE]
            IN  h \in Container /\ h.cb = c.cb
BY DEF Container

LEMMA TimerSet ==
  ASSUME NEW c \in Container
  PROVE  /\ LET t == [c EXCEPT !.timer = FALSE]
            IN  t \in Container /\ t.cb = c.cb /\ t.timer = FALSE
         /\ LET t == [c EXCEPT !.timer = TRUE]
            IN  t \in Container /\ t.cb = c.cb
BY DEF Container

\* o2net_check_handshake agrees: the connection is valid, its timer runs.
LEMMA HandshakeKeeps ==
  ASSUME NetInv, UNCHANGED setup, NEW p \in Peer, NEW i \in Sc, Handshake(p, i)
  PROVE  NetInv'
<1> DEFINE n == [nn[p] EXCEPT !.timeout = FALSE]
<1>1. /\ Runs(p, Rx(i))
      /\ UNCHANGED <<fenced, live, hb, wq, ticking, wire>>
  BY DEF Handshake
<1>2. /\ NetTypeOK /\ nn[p] \in NodeState /\ nn \in [Peer -> NodeState]
      /\ queue[p] \in Seq(ScWork) /\ QueuedOnce(queue[p])
      /\ Undisturbed /\ wq = Idle
  BY <1>1, Parts, Types, HeadDone
<1>3. ~setup.races => Undivided /\ wq = Idle /\ hb.pc # "cancel"
  BY <1>2, Quiet
<1>4. CASE nn[p].sc # i
  <2>1. scs' = [scs EXCEPT ![p][i].hand = TRUE] /\ UNCHANGED <<nn, queue, quo, snd>>
    BY <1>4 DEF Handshake, StillCurrent
  <2>2. /\ scs' \in [Peer -> [Sc -> Container]]
        /\ \A z \in Peer, j \in Sc : /\ scs'[z][j].cb = scs[z][j].cb
                                     /\ scs'[z][j].timer = scs[z][j].timer
    <3> PICK c \in Container : /\ c = [scs[p][i] EXCEPT !.hand = TRUE]
                               /\ c.cb = scs[p][i].cb /\ c.timer = scs[p][i].timer
      <4>1. scs[p][i] \in Container
        BY TimersHere
      <4> QED
        BY <4>1, HandAgreed
    <3>1. scs' = [scs EXCEPT ![p][i] = c]
      BY <2>1
    <3>2. c.cb = scs[p][i].cb /\ c.timer = scs[p][i].timer
      OBVIOUS
    <3> QED
      BY <3>1, <3>2, TimersHere
  <2>3. NetTypeOK'
    BY <1>1, <1>2, <2>1, <2>2, Types DEF NetTypeOK, HbState, WqState, SendState, me
  <2>4. ASSUME NEW z \in Peer PROVE PeerInv(z)'
    <3>1. /\ Sockets(z) /\ Noticed(z) /\ (~setup.races => Expected(z))
          /\ nn[z].sc \in Sc \union {Free} /\ ticking[z] \in Sc \union {Free}
      BY <1>2, Parts, Types DEF NodeState
    <3>2. Sockets(z)'
      BY <1>1, <2>1, <2>2, <3>1 DEF Sockets
    <3>3. Noticed(z)' /\ (~setup.races => Expected(z)')
      BY <1>1, <2>1, <3>1 DEF Noticed, Expected
    <3> QED
      BY <3>2, <3>3 DEF PeerInv
  <2>5. ~setup.races => WorksAlone' /\ \A s \in Sender : OnValid(s)'
    BY <1>1, <1>2, <1>3, <2>1 DEF WorksAlone, OnValid, Sending, WaitsForStatus, Undivided
  <2> QED
    BY <2>3, <2>4, <2>5 DEF NetInv
<1>5. CASE nn[p].sc = i
  <2>1. /\ SetNnState(n, queue[p], p, i, TRUE, FALSE)
        /\ scs' = [scs EXCEPT ![p][i].hand = TRUE, ![p][i].timer = TRUE]
    BY <1>5 DEF Handshake, StillCurrent
  <2>2. /\ n \in NodeState /\ n.timeout = FALSE /\ n.stillUp = nn[p].stillUp
        /\ n.valid = nn[p].valid /\ n.sc = nn[p].sc
    BY <1>2 DEF NodeState
  <2> HIDE DEF n
  <2>3. SetDoes(n, p, i, TRUE, FALSE)
    BY <1>2, <2>1, <2>2, SetNnStateDoes
  <2>4. /\ scs' \in [Peer -> [Sc -> Container]]
        /\ \A z \in Peer \ {p} : scs'[z] = scs[z]
        /\ \A j \in Sc : /\ scs'[p][j].cb = scs[p][j].cb
                         /\ j # i => scs'[p][j].timer = scs[p][j].timer
    <3> PICK c \in Container : /\ c = [scs[p][i] EXCEPT !.hand = TRUE, !.timer = TRUE]
                               /\ c.cb = scs[p][i].cb
      <4>1. scs[p][i] \in Container
        BY TimersHere
      <4> QED
        BY <4>1, HandAgreed
    <3>1. scs' = [scs EXCEPT ![p][i] = c]
      BY <2>1
    <3>2. c.cb = scs[p][i].cb
      OBVIOUS
    <3> QED
      BY <3>1, <3>2, TimersHere
  <2>5. NetTypeOK'
    BY <1>1, <1>2, <2>3, <2>4, Types
      DEF NetTypeOK, HbState, WqState, SendState, me, SetDoes
  <2>6. /\ nn'[p].sc = i /\ nn'[p].valid /\ ~nn'[p].timeout
        /\ \A z \in Peer \ {p} : nn'[z] = nn[z]
        /\ quo'.hb = quo.hb
        /\ quo'.hold \subseteq quo.hold \union {p}
    BY <2>2, <2>3 DEF SetDoes
  <2>7. Sockets(p) /\ Noticed(p) /\ ticking[p] \in Sc \union {Free} /\ i # Free
    BY <1>2, Parts, Types, NoPeerIsNone
  <2>8. Sockets(p)'
    BY <1>1, <1>5, <2>4, <2>6, <2>7 DEF Sockets
  <2>9. Noticed(p)'
    BY <1>1, <2>6, <2>7 DEF Noticed
  <2>10. ~setup.races => Expected(p)'
    BY <1>1, <1>3, <2>6 DEF Expected
  <2>11. PeerOnly(p)
    BY <1>1, <2>4, <2>6 DEF PeerOnly
  <2>12. ~setup.races => WorksAlone' /\ \A s \in Sender : OnValid(s)'
    <3> SUFFICES ASSUME ~setup.races
                 PROVE  WorksAlone' /\ \A s \in Sender : OnValid(s)'
      OBVIOUS
    <3>1. Undivided'
      BY <1>2, <1>3, <1>5, <2>1, <2>2, SetTellsWaiters
    <3> QED
      BY <1>1, <1>3, <3>1 DEF WorksAlone, Undivided
  <2>13. PeerInv(p)'
    BY <2>8, <2>9, <2>10 DEF PeerInv
  <2> QED
    BY <2>5, <2>11, <2>12, <2>13, OthersKeep, Parts DEF NetInv
<1> QED
  BY <1>4, <1>5

\* A message arrives: it waits for the idle timeout to be postponed, or is delivered.
LEMMA RxMessageKeeps ==
  ASSUME NetInv, UNCHANGED setup, NEW p \in Peer, NEW i \in Sc,
         NEW m \in wire[p][i] \union {Keepalive}, RxMessage(p, i, m)
  PROVE  NetInv'
<1>1. /\ Runs(p, Rx(i))
      /\ \/ /\ wq' = [work |-> "postpone", peer |-> p, sc |-> i, msg |-> m]
            /\ UNCHANGED <<snd, wire>>
         \/ Deliver(p, i, m) /\ UNCHANGED wq
      /\ UNCHANGED <<quo, fenced, live, hb, nn, scs, queue, ticking>>
  BY DEF RxMessage
<1>2. NetTypeOK /\ Undisturbed /\ wq = Idle
  BY <1>1, Parts, HeadDone
<1>3. m \in Reply \union {Keepalive}
  BY TimersHere
<1>4. /\ snd' \in [Sender -> SendState]
      /\ wire' \in [Peer -> [Sc -> SUBSET Reply]]
      /\ \A s \in Sender : /\ snd'[s].pc = snd[s].pc /\ snd'[s].sc = snd[s].sc
                           /\ snd'[s].got = "nothing" => snd[s].got = "nothing"
  BY <1>1, <1>2, <1>3, DeliverTypes, Types
<1>5. wq' \in WqState
  <2>1. [work |-> "postpone", peer |-> p, sc |-> i, msg |-> m] \in WqState
    BY <1>3, WorkTypes
  <2>2. wq \in WqState
    BY <1>2, Types
  <2> QED
    BY <1>1, <2>1, <2>2
<1>6. NetTypeOK'
  BY <1>1, <1>2, <1>4, <1>5, Types DEF NetTypeOK, HbState, WqState, SendState, me
<1>7. ASSUME NEW z \in Peer PROVE PeerInv(z)'
  BY <1>1, Parts DEF PeerInv, Sockets, Noticed, Expected
<1>8. ~setup.races => WorksAlone' /\ \A s \in Sender : OnValid(s)'
  <2> SUFFICES ASSUME ~setup.races PROVE WorksAlone' /\ \A s \in Sender : OnValid(s)'
    OBVIOUS
  <2>1. Undivided /\ hb.pc # "cancel"
    BY <1>2, Quiet
  <2>2. \A s \in Sender : OnValid(s)' /\ (Sending(s)' <=> Sending(s))
    BY <1>1, <1>4, <2>1, SendersKeep DEF Undivided
  <2> QED
    BY <1>1, <2>1, <2>2 DEF WorksAlone, Undivided
<1> QED
  BY <1>6, <1>7, <1>8 DEF NetInv

\* The socket is empty.
LEMMA RxEmptyKeeps ==
  ASSUME NetInv, UNCHANGED setup, NEW p \in Peer, NEW i \in Sc, RxEmpty(p, i)
  PROVE  NetInv'
<1>1. /\ Runs(p, Rx(i)) /\ LastRead(p, i)
      /\ queue' = [queue EXCEPT ![p] = Tail(@)]
      /\ UNCHANGED <<quo, fenced, live, hb, nn, wq, ticking, snd>>
  BY DEF RxEmpty
<1>2. NetTypeOK /\ nn \in [Peer -> NodeState] /\ queue \in [Peer -> Seq(ScWork)]
  BY Parts, Types
<1>3. Tail(queue[p]) \in Seq(ScWork) /\ QueuedOnce(Tail(queue[p]))
  BY <1>1, HeadDone
<1>4. queue' \in [Peer -> Seq(ScWork)] /\ \A z \in Peer : QueuedOnce(queue'[z])
  BY <1>1, <1>2, <1>3, Types
<1>5. /\ scs' \in [Peer -> [Sc -> Container]]
      /\ wire' \in [Peer -> [Sc -> SUBSET Reply]]
      /\ \A z \in Peer \ {p} : scs'[z] = scs[z]
      /\ \A j \in Sc : /\ scs'[p][j].cb = scs[p][j].cb
                       /\ scs'[p][j].timer = scs[p][j].timer
  BY <1>1, <1>2, LastReadTypes
<1>6. NetTypeOK'
  BY <1>1, <1>2, <1>4, <1>5, Types DEF NetTypeOK, HbState, WqState, SendState, me
<1>7. PeerInv(p)'
  <2>1. /\ Sockets(p) /\ Noticed(p) /\ (~setup.races => Expected(p))
        /\ nn[p].sc \in Sc \union {Free} /\ ticking[p] \in Sc \union {Free}
    BY <1>2, Parts, Types DEF NodeState
  <2>2. Sockets(p)'
    BY <1>1, <1>5, <2>1 DEF Sockets
  <2>3. Noticed(p)' /\ (~setup.races => Expected(p)')
    BY <1>1, <2>1 DEF Noticed, Expected
  <2> QED
    BY <2>2, <2>3 DEF PeerInv
<1>8. PeerOnly(p)
  BY <1>1, <1>5 DEF PeerOnly
<1>9. ~setup.races => WorksAlone' /\ \A s \in Sender : OnValid(s)'
  BY <1>1, Parts DEF WorksAlone, OnValid, Sending, WaitsForStatus
<1> QED
  BY <1>6, <1>7, <1>8, <1>9, OthersKeep, Parts DEF NetInv

\* o2net_sc_postpone_idle found the timeout: it is taken back, and the message delivered.
LEMMA PostponeIdleKeeps ==
  ASSUME NetInv, UNCHANGED setup, NEW p \in Peer, NEW i \in Sc, PostponeIdle(p, i)
  PROVE  NetInv'
<1>1. /\ wq # Idle /\ wq' = Idle
      /\ quo' = ConnUp(quo, p)
      /\ nn' = [nn EXCEPT ![p].stillUp = FALSE, ![p].timeout = FALSE]
      /\ Deliver(p, i, wq.msg)
      /\ UNCHANGED <<fenced, live, hb, scs, queue, ticking>>
  BY WorkTypes DEF PostponeIdle
<1>2. /\ NetTypeOK /\ nn \in [Peer -> NodeState] /\ wq.msg \in Reply \union {Keepalive}
      /\ quo \in QuorumState(Peer \union {me})
  BY Parts, Types DEF WqState
<1>3. /\ snd' \in [Sender -> SendState]
      /\ wire' \in [Peer -> [Sc -> SUBSET Reply]]
      /\ \A s \in Sender : /\ snd'[s].pc = snd[s].pc /\ snd'[s].sc = snd[s].sc
                           /\ snd'[s].got = "nothing" => snd[s].got = "nothing"
  BY <1>1, <1>2, DeliverTypes
<1>4. /\ nn' \in [Peer -> NodeState]
      /\ \A z \in Peer \ {p} : nn'[z] = nn[z]
      /\ nn'[p].sc = nn[p].sc /\ nn'[p].valid = nn[p].valid /\ nn'[p].err = nn[p].err
      /\ nn'[p].expired = nn[p].expired /\ nn'[p].timeout = FALSE
  <2> DEFINE n == [nn[p] EXCEPT !.stillUp = FALSE, !.timeout = FALSE]
  <2>1. nn' = [nn EXCEPT ![p] = n]
    BY <1>1, <1>2
  <2>2. nn[p] \in NodeState
    BY <1>2
  <2>3. /\ n \in NodeState /\ n.sc = nn[p].sc /\ n.valid = nn[p].valid
        /\ n.err = nn[p].err /\ n.expired = nn[p].expired /\ n.timeout = FALSE
    BY <2>2 DEF NodeState
  <2> HIDE DEF n
  <2> QED
    BY <1>2, <2>1, <2>3
<1>5. /\ quo' \in QuorumState(Peer \union {me}) /\ quo'.hb = quo.hb
      /\ quo'.hold \subseteq quo.hold \union {p}
  BY <1>1, <1>2, ConnectionOps
<1>6. NetTypeOK'
  BY <1>1, <1>2, <1>3, <1>4, <1>5, Types, WorkTypes
    DEF NetTypeOK, HbState, WqState, SendState, me
<1>7. PeerInv(p)'
  <2>1. /\ Sockets(p) /\ Noticed(p) /\ (~setup.races => Expected(p))
    BY Parts
  <2> QED
    BY <1>1, <1>4, <1>5, <2>1 DEF PeerInv, Sockets, Noticed, Expected
<1>8. PeerOnly(p)
  BY <1>1, <1>4, <1>5 DEF PeerOnly
<1>9. ~setup.races => WorksAlone' /\ \A s \in Sender : OnValid(s)'
  <2> SUFFICES ASSUME ~setup.races PROVE WorksAlone' /\ \A s \in Sender : OnValid(s)'
    OBVIOUS
  <2>1. \A z \in Peer : nn'[z].valid = nn[z].valid /\ nn'[z].sc = nn[z].sc
    BY <1>4
  <2>2. \A s \in Sender : OnValid(s)' /\ (Sending(s)' <=> Sending(s))
    BY <1>3, <2>1, SendersKeep, Parts
  <2> QED
    BY <1>1, <2>2 DEF WorksAlone
<1> QED
  BY <1>6, <1>7, <1>8, <1>9, OthersKeep, Parts DEF NetInv

-----------------------------------------------------------------------------
(* The delayed works and the idle timer.                                   *)

\* o2net_connect_expired.
LEMMA ConnectExpiredKeeps ==
  ASSUME NetInv, UNCHANGED setup, NEW p \in Peer, ConnectExpired(p)
  PROVE  NetInv'
<1> DEFINE n == [nn[p] EXCEPT !.expired = FALSE]
<1>1. /\ Undisturbed
      /\ UNCHANGED <<fenced, live, hb, scs, wq, ticking, wire>>
      /\ IF nn[p].valid
           THEN nn' = [nn EXCEPT ![p] = n] /\ UNCHANGED <<quo, queue, snd>>
           ELSE SetNnState(n, queue[p], p, Free, FALSE, FALSE)
  BY DEF ConnectExpired
<1>2. /\ NetTypeOK /\ nn[p] \in NodeState /\ nn \in [Peer -> NodeState]
      /\ queue[p] \in Seq(ScWork) /\ QueuedOnce(queue[p])
      /\ ticking[p] \in Sc \union {Free}
  BY Parts, Types
<1>3. /\ n \in NodeState /\ n.timeout = nn[p].timeout /\ n.stillUp = nn[p].stillUp
      /\ n.valid = nn[p].valid /\ n.sc = nn[p].sc /\ n.err = nn[p].err
  BY <1>2 DEF NodeState
<1> HIDE DEF n
<1>4. ~setup.races => Undivided /\ wq = Idle /\ hb.pc # "cancel"
  BY <1>1, Quiet
<1>5. Sockets(p) /\ Noticed(p) /\ (~setup.races => Expected(p))
  BY Parts
<1>6. CASE nn[p].valid
  <2>1. nn' = [nn EXCEPT ![p] = n] /\ UNCHANGED <<quo, queue, snd>>
    BY <1>1, <1>6
  <2>2. /\ nn' \in [Peer -> NodeState] /\ nn'[p] = n
        /\ \A z \in Peer \ {p} : nn'[z] = nn[z]
    BY <1>2, <1>3, <2>1
  <2>3. NetTypeOK'
    BY <1>1, <1>2, <2>1, <2>2, Types DEF NetTypeOK, HbState, WqState, SendState, me
  <2>4. PeerInv(p)'
    BY <1>1, <1>3, <1>5, <1>6, <2>1, <2>2 DEF PeerInv, Sockets, Noticed, Expected
  <2>5. PeerOnly(p)
    BY <1>1, <2>1, <2>2 DEF PeerOnly
  <2>6. ~setup.races => WorksAlone' /\ \A s \in Sender : OnValid(s)'
    <3> SUFFICES ASSUME ~setup.races
                 PROVE  WorksAlone' /\ \A s \in Sender : OnValid(s)'
      OBVIOUS
    <3>1. \A z \in Peer : nn'[z].valid = nn[z].valid /\ nn'[z].sc = nn[z].sc
      BY <1>3, <2>2
    <3>2. \A s \in Sender : OnValid(s)' /\ (Sending(s)' <=> Sending(s))
      BY <2>1, <3>1, SendersKeep, Parts
    <3> QED
      BY <1>1, <1>4, <3>2 DEF WorksAlone
  <2> QED
    BY <2>3, <2>4, <2>5, <2>6, OthersKeep, Parts DEF NetInv
<1>7. CASE ~nn[p].valid
  <2>1. SetNnState(n, queue[p], p, Free, FALSE, FALSE)
    BY <1>1, <1>7
  <2>2. SetDoes(n, p, Free, FALSE, FALSE)
    BY <1>2, <1>3, <2>1, SetNnStateDoes
  <2>3. NetTypeOK'
    BY <1>1, <1>2, <2>2, Types DEF NetTypeOK, HbState, WqState, SendState, me, SetDoes
  <2>4. /\ nn'[p].sc = Free /\ ~nn'[p].valid /\ nn'[p].timeout = nn[p].timeout
        /\ nn'[p].expired /\ (nn[p].stillUp => nn'[p].stillUp)
        /\ \A z \in Peer \ {p} : nn'[z] = nn[z]
        /\ quo'.hb = quo.hb
        /\ quo'.hold \subseteq quo.hold \union {p}
        /\ p \in quo'.hold \intersect quo.hb => p \in quo.hold \/ nn'[p].stillUp
    BY <1>3, <2>2 DEF SetDoes
  <2>5. PeerInv(p)'
    BY <1>1, <1>4, <1>5, <2>4 DEF PeerInv, Sockets, Noticed, Expected
  <2>6. PeerOnly(p)
    BY <1>1, <2>4 DEF PeerOnly
  <2>7. ~setup.races => WorksAlone' /\ \A s \in Sender : OnValid(s)'
    <3>1. ~setup.races => Undivided'
      BY <1>2, <1>3, <1>4, <2>1, SetTellsWaiters, NoPeerIsNone
    <3> QED
      BY <1>1, <1>4, <3>1 DEF WorksAlone, Undivided
  <2> QED
    BY <2>3, <2>5, <2>6, <2>7, OthersKeep, Parts DEF NetInv
<1> QED
  BY <1>6, <1>7

\* A step that changes no more of p than its delayed works, its timer and its quorum
\* bits, given that it is still noticed.
LEMMA LightStep ==
  ASSUME NetInv, UNCHANGED setup, NEW p \in Peer,
         nn' \in [Peer -> NodeState],
         \A z \in Peer \ {p} : nn'[z] = nn[z],
         nn'[p].sc = nn[p].sc, nn'[p].valid = nn[p].valid, nn'[p].err = nn[p].err,
         nn'[p].expired = nn[p].expired,
         scs' \in [Peer -> [Sc -> Container]], ticking' \in [Peer -> Sc \union {Free}],
         \A z \in Peer \ {p} : scs'[z] = scs[z] /\ ticking'[z] = ticking[z],
         \A i \in Sc : /\ scs'[p][i].cb = scs[p][i].cb
                       /\ scs'[p][i].timer => scs[p][i].cb,
         ticking'[p] # Free => scs[p][ticking'[p]].cb,
         quo' \in QuorumState(Peer \union {me}), quo'.hb = quo.hb,
         quo'.hold \subseteq quo.hold \union {p},
         p \in quo'.hold /\ nn'[p].timeout =>
           nn'[p].stillUp \/ ticking'[p] # Free,
         UNCHANGED <<fenced, live, hb, queue, wq, snd, wire>>
  PROVE  NetInv'
<1>1. NetTypeOK /\ Sockets(p) /\ Noticed(p) /\ (~setup.races => Expected(p))
  BY Parts
<1>2. NetTypeOK'
  BY <1>1, Types DEF NetTypeOK, HbState, WqState, SendState, me
<1>3. Sockets(p)'
  <2>1. nn[p].sc \in Sc \union {Free} /\ ticking'[p] \in Sc \union {Free}
    BY <1>1, Types DEF NodeState
  <2>2. /\ nn[p].valid => nn[p].sc # Free
        /\ nn[p].sc # Free => scs[p][nn[p].sc].cb
    BY <1>1 DEF Sockets
  <2> QED
    BY <2>1, <2>2 DEF Sockets
<1>4. Noticed(p)'
  BY <1>1 DEF Noticed
<1>5. ~setup.races => Expected(p)'
  BY <1>1 DEF Expected
<1>6. PeerInv(p)'
  BY <1>3, <1>4, <1>5 DEF PeerInv
<1>7. PeerOnly(p)
  BY DEF PeerOnly
<1>8. ~setup.races => WorksAlone' /\ \A s \in Sender : OnValid(s)'
  <2> SUFFICES ASSUME ~setup.races PROVE WorksAlone' /\ \A s \in Sender : OnValid(s)'
    OBVIOUS
  <2>1. \A z \in Peer : nn'[z].valid = nn[z].valid /\ nn'[z].sc = nn[z].sc
    OBVIOUS
  <2>2. \A s \in Sender : OnValid(s)' /\ (Sending(s)' <=> Sending(s))
    BY <2>1, SendersKeep, Parts
  <2> QED
    BY <2>2, Parts DEF WorksAlone
<1> QED
  BY <1>2, <1>6, <1>7, <1>8, OthersKeep, Parts DEF NetInv

\* o2net_still_up: the decision need not wait for p any longer.
LEMMA StillUpKeeps ==
  ASSUME NetInv, UNCHANGED setup, NEW p \in Peer, StillUp(p)
  PROVE  NetInv'
<1>1. /\ nn' = [nn EXCEPT ![p].stillUp = FALSE]
      /\ quo' = HbStillUp(quo, p)
      /\ UNCHANGED <<fenced, live, hb, scs, queue, wq, ticking, snd, wire>>
  BY DEF StillUp
<1>2. /\ nn \in [Peer -> NodeState] /\ quo \in QuorumState(Peer \union {me})
      /\ ticking \in [Peer -> Sc \union {Free}] /\ Sockets(p)
  BY Parts, Types
<1>3. /\ nn' \in [Peer -> NodeState]
      /\ \A z \in Peer \ {p} : nn'[z] = nn[z]
      /\ nn'[p].sc = nn[p].sc /\ nn'[p].valid = nn[p].valid /\ nn'[p].err = nn[p].err
      /\ nn'[p].expired = nn[p].expired
  BY <1>1, <1>2 DEF NodeState
<1>4. /\ quo' \in QuorumState(Peer \union {me}) /\ quo'.hb = quo.hb
      /\ quo'.hold = quo.hold \ {p}
  BY <1>1, <1>2, HeartbeatOps
<1>5. ticking'[p] # Free => scs[p][ticking'[p]].cb
  BY <1>1, <1>2 DEF Sockets
<1> QED
  BY <1>1, <1>2, <1>3, <1>4, <1>5, TimersHere, LightStep

\* o2net_idle_timer: the timeout is noted while the connection is up.
LEMMA IdleTimerKeeps ==
  ASSUME NetInv, UNCHANGED setup, NEW p \in Peer, NEW i \in Sc, IdleTimer(p, i)
  PROVE  NetInv'
<1>1. /\ scs[p][i].timer
      /\ nn' = [nn EXCEPT ![p].timeout = TRUE]
      /\ scs' = [scs EXCEPT ![p][i].timer = FALSE]
      /\ ticking' = [ticking EXCEPT ![p] = i]
      /\ UNCHANGED <<quo, fenced, live, hb, queue, wq, snd, wire>>
  BY DEF IdleTimer
<1>2. /\ nn \in [Peer -> NodeState] /\ quo \in QuorumState(Peer \union {me})
      /\ ticking \in [Peer -> Sc \union {Free}]
  BY Parts, Types
<1>3. /\ nn' \in [Peer -> NodeState]
      /\ \A z \in Peer \ {p} : nn'[z] = nn[z]
      /\ nn'[p].sc = nn[p].sc /\ nn'[p].valid = nn[p].valid /\ nn'[p].err = nn[p].err
      /\ nn'[p].expired = nn[p].expired
  BY <1>1, <1>2 DEF NodeState
<1>4. /\ scs' \in [Peer -> [Sc -> Container]]
      /\ \A z \in Peer \ {p} : scs'[z] = scs[z]
      /\ \A j \in Sc : /\ scs'[p][j].cb = scs[p][j].cb
                       /\ scs'[p][j].timer => scs[p][j].cb
  <2>1. /\ [scs[p][i] EXCEPT !.timer = FALSE] \in Container
        /\ [scs[p][i] EXCEPT !.timer = FALSE].cb = scs[p][i].cb
        /\ [scs[p][i] EXCEPT !.timer = FALSE].timer = FALSE
    <3>1. scs[p][i] \in Container
      BY TimersHere
    <3> QED
      BY <3>1, TimerSet
  <2>2. scs' = [scs EXCEPT ![p][i] = [scs[p][i] EXCEPT !.timer = FALSE]]
    BY <1>1
  <2>3. \A j \in Sc : scs[p][j].timer => scs[p][j].cb
    BY TimersHere
  <2> QED
    BY <2>1, <2>2, <2>3, TimersHere
<1>5. /\ ticking' \in [Peer -> Sc \union {Free}] /\ ticking'[p] = i /\ i # Free
      /\ \A z \in Peer \ {p} : ticking'[z] = ticking[z]
  BY <1>1, <1>2, NoPeerIsNone
<1>6. scs[p][i].cb
  BY <1>1, TimersHere
<1> QED
  BY <1>1, <1>2, <1>3, <1>4, <1>5, <1>6, LightStep

\* ... and o2quo_conn_err called, still_up queued, the timer armed again.
LEMMA IdleConnErrKeeps ==
  ASSUME NetInv, UNCHANGED setup, NEW p \in Peer, IdleConnErr(p)
  PROVE  NetInv'
<1>1. /\ ticking[p] # Free
      /\ quo' = ConnErr(quo, p)
      /\ nn' = [nn EXCEPT ![p].stillUp = TRUE]
      /\ scs' = [scs EXCEPT ![p][ticking[p]].timer = TRUE]
      /\ ticking' = [ticking EXCEPT ![p] = Free]
      /\ UNCHANGED <<fenced, live, hb, queue, wq, snd, wire>>
  BY DEF IdleConnErr
<1>2. /\ nn \in [Peer -> NodeState] /\ quo \in QuorumState(Peer \union {me})
      /\ ticking \in [Peer -> Sc \union {Free}]
  BY Parts, Types
<1>3. /\ nn' \in [Peer -> NodeState]
      /\ \A z \in Peer \ {p} : nn'[z] = nn[z]
      /\ nn'[p].sc = nn[p].sc /\ nn'[p].valid = nn[p].valid /\ nn'[p].err = nn[p].err
      /\ nn'[p].expired = nn[p].expired /\ nn'[p].stillUp
  BY <1>1, <1>2 DEF NodeState
<1>4. PICK i \in Sc : i = ticking[p]
  BY <1>1, <1>2
<1>5. /\ scs' \in [Peer -> [Sc -> Container]]
      /\ \A z \in Peer \ {p} : scs'[z] = scs[z]
      /\ \A j \in Sc : /\ scs'[p][j].cb = scs[p][j].cb
                       /\ scs'[p][j].timer => scs[p][j].cb
  <2>1. scs[p][i].cb
    BY <1>4, TimersHere
  <2>2. /\ [scs[p][i] EXCEPT !.timer = TRUE] \in Container
        /\ [scs[p][i] EXCEPT !.timer = TRUE].cb = scs[p][i].cb
    <3>1. scs[p][i] \in Container
      BY TimersHere
    <3> QED
      BY <3>1, TimerSet
  <2>3. scs' = [scs EXCEPT ![p][i] = [scs[p][i] EXCEPT !.timer = TRUE]]
    BY <1>1, <1>4
  <2>4. \A j \in Sc : scs[p][j].timer => scs[p][j].cb
    BY TimersHere
  <2> QED
    BY <2>1, <2>2, <2>3, <2>4, TimersHere
<1>6. /\ ticking' \in [Peer -> Sc \union {Free}] /\ ticking'[p] = Free
      /\ \A z \in Peer \ {p} : ticking'[z] = ticking[z]
  BY <1>1, <1>2
<1>7. /\ quo' \in QuorumState(Peer \union {me}) /\ quo'.hb = quo.hb
      /\ quo'.hold \subseteq quo.hold \union {p}
  BY <1>1, <1>2, ConnectionOps
<1> QED
  BY <1>1, <1>3, <1>5, <1>6, <1>7, LightStep

-----------------------------------------------------------------------------
(* Heartbeat.                                                              *)

\* A step of heartbeat that leaves the connections alone: of p it may change the live
\* bit, the quorum bits and what is called next.
LEMMA HeartbeatStep ==
  ASSUME NetInv, UNCHANGED setup, NEW p \in Peer, Undisturbed,
         live' \in SUBSET Peer, hb' \in HbState,
         \A z \in Peer \ {p} : /\ z \in live' <=> z \in live
                               /\ hb.node # z /\ hb'.node # z,
         quo' \in QuorumState(Peer \union {me}),
         quo'.hb \subseteq quo.hb \union {p}, quo'.hold \subseteq quo.hold \union {p},
         hb'.pc # "cancel",
         Noticed(p)',
         p \in live' /\ hb'.node # p => p \in live /\ hb.node # p,
         UNCHANGED <<fenced, netVars, snd, wire>>
  PROVE  NetInv'
<1>1. NetTypeOK /\ Sockets(p) /\ (~setup.races => Expected(p))
  BY Parts
<1>2. NetTypeOK'
  BY <1>1, Types DEF NetTypeOK, HbState, WqState, SendState, me, netVars
<1>3. PeerInv(p)'
  BY <1>1 DEF PeerInv, Sockets, Expected, netVars
<1>4. PeerOnly(p)
  BY DEF PeerOnly, netVars
<1>5. ~setup.races => WorksAlone' /\ \A s \in Sender : OnValid(s)'
  <2>1. ~setup.races => Undivided /\ wq = Idle
    BY Quiet
  <2> QED
    BY <2>1 DEF WorksAlone, OnValid, Sending, WaitsForStatus, Undivided, netVars
<1> QED
  BY <1>2, <1>3, <1>4, <1>5, OthersKeep, Parts DEF NetInv

\* What heartbeat is at.
LEMMA HbStates ==
  /\ \A p \in Peer, pc \in {"idle", "up", "upNet", "down", "disconnect", "cancel", "flush"} :
       [pc |-> pc, node |-> p] \in HbState
  /\ [pc |-> "idle", node |-> NoPeer] \in HbState
BY DEF HbState

\* A node begins to heartbeat: the callbacks are next.
LEMMA JoinsKeeps ==
  ASSUME NetInv, UNCHANGED setup, NEW p \in Peer, Joins(p)
  PROVE  NetInv'
<1>1. /\ Undisturbed /\ hb = [pc |-> "idle", node |-> NoPeer]
      /\ live' = live \union {p} /\ hb' = [pc |-> "up", node |-> p]
      /\ UNCHANGED <<quo, fenced, netVars, snd, wire>>
  BY DEF Joins, HbAt, HbGoes
<1>2. /\ hb'.pc = "up" /\ hb'.node = p /\ hb.node = NoPeer /\ hb' \in HbState
  BY <1>1, HbStates
<1>3. Noticed(p)'
  BY <1>1, <1>2 DEF Noticed, Leaving
<1>4. live \in SUBSET Peer /\ quo \in QuorumState(Peer \union {me})
  BY Parts, Types
<1> QED
  BY <1>1, <1>2, <1>3, <1>4, NoPeerIsNone, HeartbeatStep

\* o2quo_hb_up.
LEMMA NodeUpKeeps ==
  ASSUME NetInv, UNCHANGED setup, NEW p \in Peer, NodeUp(p)
  PROVE  NetInv'
<1>1. /\ Undisturbed /\ hb = [pc |-> "up", node |-> p]
      /\ quo' = HbUp(quo, p) /\ hb' = [pc |-> "upNet", node |-> p]
      /\ UNCHANGED <<fenced, live, netVars, snd, wire>>
  BY DEF NodeUp, HbAt, HbGoes
<1>2. /\ hb'.pc = "upNet" /\ hb'.node = p /\ hb.node = p /\ hb' \in HbState
  BY <1>1, HbStates
<1>3. live \in SUBSET Peer /\ quo \in QuorumState(Peer \union {me})
  BY Parts, Types
<1>4. /\ quo' \in QuorumState(Peer \union {me}) /\ quo'.hb = quo.hb \union {p}
      /\ quo'.hold \subseteq quo.hold \union {p}
  BY <1>1, <1>3, HeartbeatOps
<1>5. Noticed(p)'
  BY <1>2 DEF Noticed, Leaving
<1> QED
  BY <1>1, <1>2, <1>3, <1>4, <1>5, HeartbeatStep

\* o2net_hb_node_up_cb: a connection that had failed is tried again.
LEMMA NodeUpNetKeeps ==
  ASSUME NetInv, UNCHANGED setup, NEW p \in Peer, NodeUpNet(p)
  PROVE  NetInv'
<1> DEFINE n == [nn[p] EXCEPT !.timeout = FALSE]
<1>1. /\ Undisturbed /\ hb = [pc |-> "upNet", node |-> p]
      /\ hb' = [pc |-> "idle", node |-> NoPeer]
      /\ UNCHANGED <<fenced, live, scs, wq, ticking, wire>>
      /\ IF nn[p].err
           THEN SetNnState(n, queue[p], p, Free, FALSE, FALSE)
           ELSE nn' = [nn EXCEPT ![p] = n] /\ UNCHANGED <<quo, queue, snd>>
  BY DEF NodeUpNet, HbAt, HbIdle
<1>2. /\ NetTypeOK /\ nn[p] \in NodeState /\ nn \in [Peer -> NodeState]
      /\ queue[p] \in Seq(ScWork) /\ QueuedOnce(queue[p])
      /\ ticking[p] \in Sc \union {Free}
  BY Parts, Types
<1>3. /\ n \in NodeState /\ n.timeout = FALSE /\ n.stillUp = nn[p].stillUp
      /\ n.valid = nn[p].valid /\ n.sc = nn[p].sc /\ n.err = nn[p].err
      /\ n.expired = nn[p].expired
  BY <1>2 DEF NodeState
<1> HIDE DEF n
<1>4. ~setup.races => Undivided /\ wq = Idle
  BY <1>1, Quiet
<1>5. Sockets(p) /\ Noticed(p) /\ (~setup.races => Expected(p))
  BY Parts
<1>6. /\ hb'.pc = "idle" /\ hb'.node = NoPeer /\ hb.node = p /\ hb' \in HbState
  BY <1>1, HbStates
<1>7. CASE ~nn[p].err
  <2>1. nn' = [nn EXCEPT ![p] = n] /\ UNCHANGED <<quo, queue, snd>>
    BY <1>1, <1>7
  <2>2. /\ nn' \in [Peer -> NodeState] /\ nn'[p] = n
        /\ \A z \in Peer \ {p} : nn'[z] = nn[z]
    BY <1>2, <1>3, <2>1
  <2>3. NetTypeOK'
    BY <1>1, <1>2, <1>6, <2>1, <2>2, Types DEF NetTypeOK, HbState, WqState, SendState, me
  <2>4. PeerInv(p)'
    BY <1>1, <1>3, <1>5, <1>6, <1>7, <2>1, <2>2, NoPeerIsNone
      DEF PeerInv, Sockets, Noticed, Expected
  <2>5. PeerOnly(p)
    BY <1>1, <1>6, <2>1, <2>2, NoPeerIsNone DEF PeerOnly
  <2>6. ~setup.races => WorksAlone' /\ \A s \in Sender : OnValid(s)'
    <3> SUFFICES ASSUME ~setup.races
                 PROVE  WorksAlone' /\ \A s \in Sender : OnValid(s)'
      OBVIOUS
    <3>1. \A z \in Peer : nn'[z].valid = nn[z].valid /\ nn'[z].sc = nn[z].sc
      BY <1>3, <2>2
    <3>2. \A s \in Sender : OnValid(s)' /\ (Sending(s)' <=> Sending(s))
      BY <2>1, <3>1, SendersKeep, Parts
    <3> QED
      BY <1>1, <1>4, <3>2 DEF WorksAlone
  <2> QED
    BY <2>3, <2>4, <2>5, <2>6, OthersKeep, Parts DEF NetInv
<1>8. CASE nn[p].err
  <2>1. SetNnState(n, queue[p], p, Free, FALSE, FALSE)
    BY <1>1, <1>8
  <2>2. SetDoes(n, p, Free, FALSE, FALSE)
    BY <1>2, <1>3, <2>1, SetNnStateDoes
  <2>3. NetTypeOK'
    BY <1>1, <1>2, <1>6, <2>2, Types DEF NetTypeOK, HbState, WqState, SendState, me, SetDoes
  <2>4. /\ nn'[p].sc = Free /\ ~nn'[p].valid /\ nn'[p].timeout = FALSE
        /\ nn'[p].expired
        /\ \A z \in Peer \ {p} : nn'[z] = nn[z]
        /\ quo'.hb = quo.hb
        /\ quo'.hold \subseteq quo.hold \union {p}
    BY <1>3, <2>2 DEF SetDoes
  <2>5. PeerInv(p)'
    BY <1>1, <1>5, <1>6, <2>4, NoPeerIsNone DEF PeerInv, Sockets, Noticed, Expected
  <2>6. PeerOnly(p)
    BY <1>1, <1>6, <2>4, NoPeerIsNone DEF PeerOnly
  <2>7. ~setup.races => WorksAlone' /\ \A s \in Sender : OnValid(s)'
    <3>1. ~setup.races => Undivided'
      BY <1>2, <1>3, <1>4, <2>1, SetTellsWaiters, NoPeerIsNone
    <3> QED
      BY <1>1, <1>4, <3>1 DEF WorksAlone, Undivided
  <2> QED
    BY <2>3, <2>5, <2>6, <2>7, OthersKeep, Parts DEF NetInv
<1> QED
  BY <1>7, <1>8

\* A node heartbeats no longer.
LEMMA LeavesKeeps ==
  ASSUME NetInv, UNCHANGED setup, NEW p \in Peer, Leaves(p)
  PROVE  NetInv'
<1>1. /\ Undisturbed /\ hb = [pc |-> "idle", node |-> NoPeer]
      /\ live' = live \ {p} /\ hb' = [pc |-> "down", node |-> p]
      /\ UNCHANGED <<quo, fenced, netVars, snd, wire>>
  BY DEF Leaves, HbAt, HbGoes
<1>2. /\ hb'.pc = "down" /\ hb'.node = p /\ hb.node = NoPeer /\ hb' \in HbState
  BY <1>1, HbStates
<1>3. Noticed(p)'
  BY <1>1, <1>2 DEF Noticed
<1>4. live \in SUBSET Peer /\ quo \in QuorumState(Peer \union {me})
  BY Parts, Types
<1> QED
  BY <1>1, <1>2, <1>3, <1>4, NoPeerIsNone, HeartbeatStep

\* o2quo_hb_down.
LEMMA NodeDownKeeps ==
  ASSUME NetInv, UNCHANGED setup, NEW p \in Peer, NodeDown(p)
  PROVE  NetInv'
<1>1. /\ Undisturbed /\ hb = [pc |-> "down", node |-> p]
      /\ quo' = HbDown(quo, p) /\ hb' = [pc |-> "disconnect", node |-> p]
      /\ UNCHANGED <<fenced, live, netVars, snd, wire>>
  BY DEF NodeDown, HbAt, HbGoes
<1>2. /\ hb'.pc = "disconnect" /\ hb'.node = p /\ hb.node = p /\ hb.pc = "down"
      /\ hb' \in HbState
  BY <1>1, HbStates
<1>3. live \in SUBSET Peer /\ quo \in QuorumState(Peer \union {me}) /\ Noticed(p)
  BY Parts, Types
<1>4. /\ quo' \in QuorumState(Peer \union {me}) /\ quo'.hb = quo.hb \ {p}
      /\ quo'.hold = quo.hold \ {p}
  BY <1>1, <1>3, HeartbeatOps
<1>5. Noticed(p)'
  BY <1>1, <1>2, <1>3, <1>4 DEF Noticed, Leaving
<1> QED
  BY <1>1, <1>2, <1>3, <1>4, <1>5, HeartbeatStep

\* o2net_disconnect_node: no connection, and an error that is to stay.
LEMMA DisconnectKeeps ==
  ASSUME NetInv, UNCHANGED setup, NEW p \in Peer, Disconnect(p)
  PROVE  NetInv'
<1> DEFINE n == [nn[p] EXCEPT !.timeout = FALSE]
<1>1. /\ Undisturbed /\ hb = [pc |-> "disconnect", node |-> p]
      /\ SetNnState(n, queue[p], p, Free, FALSE, TRUE)
      /\ hb' = [pc |-> "cancel", node |-> p]
      /\ UNCHANGED <<fenced, live, scs, wq, ticking, wire>>
  BY DEF Disconnect, HbAt, HbGoes
<1>2. /\ NetTypeOK /\ nn[p] \in NodeState
      /\ queue[p] \in Seq(ScWork) /\ QueuedOnce(queue[p])
      /\ ticking[p] \in Sc \union {Free}
  BY Parts, Types
<1>3. /\ n \in NodeState /\ n.timeout = FALSE /\ n.stillUp = nn[p].stillUp
      /\ n.valid = nn[p].valid /\ n.sc = nn[p].sc
  BY <1>2 DEF NodeState
<1> HIDE DEF n
<1>4. ~setup.races => Undivided /\ wq = Idle
  BY <1>1, Quiet
<1>5. Sockets(p) /\ Noticed(p)
  BY Parts
<1>6. /\ hb'.pc = "cancel" /\ hb'.node = p /\ hb.node = p /\ hb.pc = "disconnect"
      /\ hb' \in HbState
  BY <1>1, HbStates
<1>7. SetDoes(n, p, Free, FALSE, TRUE)
  BY <1>1, <1>2, <1>3, SetNnStateDoes
<1>8. NetTypeOK'
  BY <1>1, <1>2, <1>6, <1>7, Types DEF NetTypeOK, HbState, WqState, SendState, me, SetDoes
<1>9. /\ nn'[p].sc = Free /\ ~nn'[p].valid /\ nn'[p].timeout = FALSE
      /\ nn'[p].expired /\ nn'[p].err
      /\ \A z \in Peer \ {p} : nn'[z] = nn[z]
      /\ quo'.hb = quo.hb
      /\ quo'.hold \subseteq quo.hold \union {p}
  BY <1>3, <1>7 DEF SetDoes
<1>10. PeerInv(p)'
  BY <1>1, <1>5, <1>6, <1>9 DEF PeerInv, Sockets, Noticed, Expected, Leaving
<1>11. PeerOnly(p)
  BY <1>1, <1>6, <1>9 DEF PeerOnly
<1>12. ~setup.races => WorksAlone' /\ \A s \in Sender : OnValid(s)'
  <2>1. ~setup.races => Undivided'
    BY <1>1, <1>2, <1>3, <1>4, SetTellsWaiters, NoPeerIsNone
  <2> QED
    BY <1>1, <1>4, <2>1 DEF WorksAlone, Undivided
<1> QED
  BY <1>8, <1>10, <1>11, <1>12, OthersKeep, Parts DEF NetInv

\* ... its delayed works are cancelled,
LEMMA DisconnectCancelKeeps ==
  ASSUME NetInv, UNCHANGED setup, NEW p \in Peer, DisconnectCancel(p)
  PROVE  NetInv'
<1>1. /\ hb = [pc |-> "cancel", node |-> p] /\ hb' = [pc |-> "flush", node |-> p]
      /\ nn' = [nn EXCEPT ![p].connect = FALSE, ![p].expired = FALSE,
                          ![p].stillUp = FALSE]
      /\ UNCHANGED <<quo, fenced, live, scs, queue, wq, ticking, snd, wire>>
  BY DEF DisconnectCancel, HbAt, HbGoes
<1>2. NetTypeOK /\ nn \in [Peer -> NodeState]
  BY Parts, Types
<1>3. /\ nn' \in [Peer -> NodeState]
      /\ \A z \in Peer \ {p} : nn'[z] = nn[z]
      /\ nn'[p].sc = nn[p].sc /\ nn'[p].valid = nn[p].valid /\ nn'[p].err = nn[p].err
      /\ nn'[p].timeout = nn[p].timeout
  <2> DEFINE n == [nn[p] EXCEPT !.connect = FALSE, !.expired = FALSE, !.stillUp = FALSE]
  <2>1. nn' = [nn EXCEPT ![p] = n]
    BY <1>1, <1>2
  <2>2. nn[p] \in NodeState
    BY <1>2
  <2>3. /\ n \in NodeState /\ n.sc = nn[p].sc /\ n.valid = nn[p].valid
        /\ n.err = nn[p].err /\ n.timeout = nn[p].timeout
    BY <2>2 DEF NodeState
  <2> HIDE DEF n
  <2> QED
    BY <1>2, <2>1, <2>3
<1>4. /\ hb'.pc = "flush" /\ hb'.node = p /\ hb.node = p /\ hb.pc = "cancel"
      /\ hb' \in HbState
  BY <1>1, HbStates
<1>5. Sockets(p) /\ Noticed(p) /\ (~setup.races => Expected(p))
  BY Parts
<1>6. NetTypeOK'
  BY <1>1, <1>2, <1>3, <1>4, Types DEF NetTypeOK, HbState, WqState, SendState, me
<1>7. PeerInv(p)'
  BY <1>1, <1>3, <1>4, <1>5 DEF PeerInv, Sockets, Noticed, Expected, Leaving
<1>8. PeerOnly(p)
  BY <1>1, <1>3, <1>4 DEF PeerOnly
<1>9. ~setup.races => WorksAlone' /\ \A s \in Sender : OnValid(s)'
  <2> SUFFICES ASSUME ~setup.races PROVE WorksAlone' /\ \A s \in Sender : OnValid(s)'
    OBVIOUS
  <2>1. \A z \in Peer : nn'[z].valid = nn[z].valid /\ nn'[z].sc = nn[z].sc
    BY <1>3
  <2>2. \A s \in Sender : OnValid(s)' /\ (Sending(s)' <=> Sending(s))
    BY <1>1, <2>1, SendersKeep, Parts
  <2> QED
    BY <1>1, <1>4, <2>2, Parts DEF WorksAlone
<1> QED
  BY <1>6, <1>7, <1>8, <1>9, OthersKeep, Parts DEF NetInv

\* ... and the works that were queued have run.
LEMMA DisconnectFlushKeeps ==
  ASSUME NetInv, UNCHANGED setup, NEW p \in Peer, DisconnectFlush(p)
  PROVE  NetInv'
<1>1. /\ Undisturbed /\ hb = [pc |-> "flush", node |-> p]
      /\ hb' = [pc |-> "idle", node |-> NoPeer]
      /\ UNCHANGED <<quo, fenced, live, netVars, snd, wire>>
  BY DEF DisconnectFlush, HbAt, HbIdle
<1>2. /\ hb'.pc = "idle" /\ hb'.node = NoPeer /\ hb.node = p /\ hb.pc = "flush"
      /\ hb' \in HbState
  BY <1>1, HbStates
<1>3. live \in SUBSET Peer /\ quo \in QuorumState(Peer \union {me}) /\ Noticed(p)
  BY Parts, Types
<1>4. p \notin live /\ p \notin quo.hb
  BY <1>2, <1>3 DEF Noticed, Leaving
<1>5. Noticed(p)'
  BY <1>1, <1>2, <1>4, NoPeerIsNone DEF Noticed
<1> QED
  BY <1>1, <1>2, <1>3, <1>4, <1>5, NoPeerIsNone, HeartbeatStep

-----------------------------------------------------------------------------
(* The quorum decision and the senders.                                    *)

\* o2quo_make_decision.
LEMMA DecideKeeps ==
  ASSUME NetInv, UNCHANGED setup, Decide
  PROVE  NetInv'
<1>1. /\ quo' = [quo EXCEPT !.work = FALSE]
      /\ fenced' = MustFence(me, quo.hb, quo.conn)
      /\ UNCHANGED <<live, hb, netVars, snd, wire>>
  BY DEF Decide
<1>2. quo \in QuorumState(Peer \union {me})
  BY Parts, Types
<1>3. /\ quo' \in QuorumState(Peer \union {me})
      /\ quo'.hb = quo.hb /\ quo'.hold = quo.hold
  BY <1>1, <1>2 DEF QuorumState
<1>4. fenced' \in BOOLEAN
  BY <1>1 DEF MustFence
<1>5. NetTypeOK'
  BY <1>1, <1>3, <1>4, Parts, Types DEF NetTypeOK, HbState, WqState, SendState, me, netVars
<1>6. ASSUME NEW z \in Peer PROVE PeerInv(z)'
  BY <1>1, <1>3, Parts DEF PeerInv, Sockets, Noticed, Expected, netVars
<1>7. ~setup.races => WorksAlone' /\ \A s \in Sender : OnValid(s)'
  BY <1>1, Parts DEF WorksAlone, OnValid, Sending, WaitsForStatus, netVars
<1> QED
  BY <1>5, <1>6, <1>7 DEF NetInv

\* A step of one sender.
LEMMA SenderStep ==
  ASSUME NetInv, UNCHANGED setup, NEW s \in Sender,
         snd' \in [Sender -> SendState],
         \A r \in Sender \ {s} : snd'[r] = snd[r],
         wire' \in [Peer -> [Sc -> SUBSET Reply]],
         ~setup.races => OnValid(s)' /\ (Sending(s)' => Sending(s) \/ wq = Idle),
         UNCHANGED <<quo, fenced, live, hb, netVars>>
  PROVE  NetInv'
<1>1. NetTypeOK'
  BY Parts, Types DEF NetTypeOK, HbState, WqState, SendState, me, netVars
<1>2. ASSUME NEW z \in Peer PROVE PeerInv(z)'
  BY Parts DEF PeerInv, Sockets, Noticed, Expected, netVars
<1>3. ~setup.races => WorksAlone' /\ \A r \in Sender : OnValid(r)'
  <2> SUFFICES ASSUME ~setup.races PROVE WorksAlone' /\ \A r \in Sender : OnValid(r)'
    OBVIOUS
  <2>1. \A r \in Sender \ {s} : OnValid(r)' /\ (Sending(r)' <=> Sending(r))
    BY Parts DEF OnValid, Sending, WaitsForStatus, netVars
  <2> QED
    BY <2>1, Parts DEF WorksAlone, netVars
<1> QED
  BY <1>1, <1>2, <1>3 DEF NetInv

\* o2net_tx_can_proceed: the connection is valid.
LEMMA SendReadyKeeps ==
  ASSUME NetInv, UNCHANGED setup, NEW s \in Sender, SendReady(s)
  PROVE  NetInv'
<1>1. /\ Undisturbed /\ snd[s].pc = "idle"
      /\ nn[TargetOf[s]].valid
      /\ snd' = [snd EXCEPT ![s].pc = "ready", ![s].sc = nn[TargetOf[s]].sc]
      /\ UNCHANGED <<quo, fenced, live, hb, netVars, wire>>
  BY DEF SendReady
<1>2. /\ snd \in [Sender -> SendState] /\ TargetOf[s] \in Peer
      /\ wire \in [Peer -> [Sc -> SUBSET Reply]]
  BY Parts, Types, TargetAssumption
<1>2a. nn[TargetOf[s]].sc \in Sc \union {Free}
  BY <1>2, Parts, Types DEF NodeState
<1>3. /\ snd' \in [Sender -> SendState]
      /\ \A r \in Sender \ {s} : snd'[r] = snd[r]
      /\ snd'[s].pc = "ready" /\ snd'[s].sc = nn[TargetOf[s]].sc
  <2>1. PICK c \in Sc \union {Free} : c = nn[TargetOf[s]].sc
    BY <1>2a
  <2>2. snd' = [snd EXCEPT ![s] = [snd[s] EXCEPT !.pc = "ready", !.sc = c]]
    BY <1>1, <1>2, <2>1
  <2>3. /\ [snd[s] EXCEPT !.pc = "ready", !.sc = c] \in SendState
        /\ [snd[s] EXCEPT !.pc = "ready", !.sc = c].pc = "ready"
        /\ [snd[s] EXCEPT !.pc = "ready", !.sc = c].sc = c
    BY <1>2 DEF SendState
  <2> QED
    BY <1>2, <2>1, <2>2, <2>3
<1>4. OnValid(s)'
  BY <1>1, <1>3 DEF OnValid, Sending, WaitsForStatus, netVars
<1>5. ~setup.races => wq = Idle
  BY <1>1, Quiet
<1> QED
  BY <1>1, <1>2, <1>3, <1>4, <1>5, SenderStep

\* o2net_prep_nsw.
LEMMA SendRegisterKeeps ==
  ASSUME NetInv, UNCHANGED setup, NEW s \in Sender, SendRegister(s)
  PROVE  NetInv'
<1>1. /\ snd[s].pc = "ready"
      /\ snd' = [snd EXCEPT ![s].pc = "registered", ![s].id = FreshId(TargetOf[s])]
      /\ UNCHANGED <<quo, fenced, live, hb, netVars, wire>>
  BY DEF SendRegister
<1>2. /\ snd \in [Sender -> SendState] /\ TargetOf[s] \in Peer
      /\ wire \in [Peer -> [Sc -> SUBSET Reply]]
  BY Parts, Types, TargetAssumption
<1>3. FreshId(TargetOf[s]) \in MsgId
  <2>1. \A r \in Sender : snd[r].id \in MsgId
    BY <1>2 DEF SendState
  <2> QED
    BY <1>2, <2>1, FreshIdFound
<1>4. /\ snd' \in [Sender -> SendState]
      /\ \A r \in Sender \ {s} : snd'[r] = snd[r]
      /\ snd'[s].pc = "registered" /\ snd'[s].sc = snd[s].sc
  BY <1>1, <1>2, <1>3 DEF SendState
<1>5. Sending(s)
  BY <1>1 DEF Sending
<1>6. ~setup.races => OnValid(s)'
  <2>1. ~setup.races => nn[TargetOf[s]].valid /\ nn[TargetOf[s]].sc = snd[s].sc
    BY <1>5, Parts DEF OnValid
  <2> QED
    BY <1>1, <1>4, <2>1 DEF OnValid, netVars
<1> QED
  BY <1>1, <1>2, <1>4, <1>5, <1>6, SenderStep

\* o2net_send_tcp_msg.
LEMMA SendTcpKeeps ==
  ASSUME NetInv, UNCHANGED setup, NEW s \in Sender, SendTcp(s)
  PROVE  NetInv'
<1> DEFINE m == [id |-> snd[s].id, of |-> s]
<1>1. /\ snd[s].pc = "registered"
      /\ wire' = [wire EXCEPT ![TargetOf[s]][snd[s].sc] = @ \union {m}]
      /\ snd' = [snd EXCEPT ![s].pc = "sent"]
      /\ UNCHANGED <<quo, fenced, live, hb, netVars>>
  BY DEF SendTcp
<1>2. /\ snd \in [Sender -> SendState] /\ TargetOf[s] \in Peer
      /\ wire \in [Peer -> [Sc -> SUBSET Reply]]
  BY Parts, Types, TargetAssumption
<1>3. m \in Reply
  BY <1>2 DEF Reply, SendState
<1> HIDE DEF m
<1>4. wire' \in [Peer -> [Sc -> SUBSET Reply]]
  BY <1>1, <1>2, <1>3
<1>5. /\ snd' \in [Sender -> SendState]
      /\ \A r \in Sender \ {s} : snd'[r] = snd[r]
      /\ snd'[s].pc = "sent" /\ snd'[s].sc = snd[s].sc
  BY <1>1, <1>2 DEF SendState
<1>6. Sending(s) /\ ~Sending(s)'
  BY <1>1, <1>5 DEF Sending
<1>7. ~setup.races => OnValid(s)'
  <2>1. ~setup.races => nn[TargetOf[s]].valid /\ nn[TargetOf[s]].sc = snd[s].sc
    BY <1>6, Parts DEF OnValid
  <2> QED
    BY <1>1, <1>5, <2>1 DEF OnValid, netVars
<1> QED
  BY <1>1, <1>4, <1>5, <1>6, <1>7, SenderStep

\* A sender that is done, or whose message the socket did not take.
LEMMA SendOverKeeps ==
  ASSUME NetInv, UNCHANGED setup, NEW s \in Sender, SendFails(s) \/ SendReturns(s)
  PROVE  NetInv'
<1>1. /\ snd' = [snd EXCEPT ![s] = NotSending]
      /\ UNCHANGED <<quo, fenced, live, hb, netVars, wire>>
  BY DEF SendFails, SendReturns
<1>2. /\ snd \in [Sender -> SendState] /\ wire \in [Peer -> [Sc -> SUBSET Reply]]
  BY Parts, Types
<1>3. 0 \in MsgId
  BY MsgIds DEF MsgId
<1>4. NotSending \in SendState /\ NotSending.pc = "idle"
  BY <1>3 DEF NotSending, SendState
<1>5. /\ snd' \in [Sender -> SendState]
      /\ \A r \in Sender \ {s} : snd'[r] = snd[r]
      /\ snd'[s].pc = "idle"
  BY <1>1, <1>2, <1>4
<1>6. ~Sending(s)' /\ OnValid(s)'
  BY <1>5 DEF Sending, OnValid, WaitsForStatus
<1> QED
  BY <1>1, <1>2, <1>5, <1>6, SenderStep

-----------------------------------------------------------------------------
(* The invariant holds.                                                    *)

LEMMA NetInvStarts ==
  NetInit => NetInv
<1> SUFFICES ASSUME NetInit PROVE NetInv
  OBVIOUS
<1>1. NetTypeOK
  <2>1. quo \in QuorumState(Peer \union {me})
    BY DEF NetInit, QuorumInit, QuorumState
  <2>2. \A p \in Peer : queue[p] = <<>>
    BY DEF NetInit
  <2>3. queue \in [Peer -> Seq(ScWork)] /\ \A p \in Peer : QueuedOnce(queue[p])
    BY <2>2 DEF NetInit, QueuedOnce
  <2>4. nn \in [Peer -> NodeState] /\ scs \in [Peer -> [Sc -> Container]]
    BY ContainerTypes DEF NetInit, NodeState
  <2>5. wq \in WqState /\ hb \in HbState
    BY WorkTypes, HbStates DEF NetInit
  <2>6. snd \in [Sender -> SendState]
    <3>1. NotSending \in SendState
      BY MsgIds DEF NotSending, SendState, MsgId
    <3> QED
      BY <3>1 DEF NetInit
  <2>7. /\ setup \in Setups /\ fenced \in BOOLEAN /\ live \in SUBSET Peer
        /\ ticking \in [Peer -> Sc \union {Free}]
        /\ wire \in [Peer -> [Sc -> SUBSET Reply]]
    BY DEF NetInit
  <2> QED
    BY <2>1, <2>3, <2>4, <2>5, <2>6, <2>7, Types
<1>2. ASSUME NEW p \in Peer PROVE PeerInv(p)
  <2>1. /\ nn[p].sc = Free /\ nn[p].valid = FALSE /\ nn[p].err = TRUE
        /\ nn[p].timeout = FALSE /\ ticking[p] = Free /\ live = {}
        /\ hb.node = NoPeer /\ \A i \in Sc : scs[p][i] = Unused
    BY DEF NetInit
  <2> QED
    BY <2>1, ContainerTypes, NoPeerIsNone DEF PeerInv, Sockets, Noticed, Expected
<1>3. WorksAlone /\ \A s \in Sender : OnValid(s)
  BY DEF NetInit, WorksAlone, OnValid, Sending, WaitsForStatus, NotSending
<1> QED
  BY <1>1, <1>2, <1>3 DEF NetInv

LEMMA NetInvStays ==
  NetInv /\ [NetNext]_<<tcpVars, setup>> => NetInv'
<1> SUFFICES ASSUME NetInv, [NetNext]_<<tcpVars, setup>>
             PROVE  NetInv'
  OBVIOUS
<1>0. CASE UNCHANGED <<tcpVars, setup>>
  <2>1. UNCHANGED <<setup, quo, fenced, live, hb, nn, scs, queue, wq, ticking, snd, wire>>
    BY <1>0 DEF tcpVars, netVars
  <2>2. NetTypeOK'
    BY <2>1, Parts, Types DEF NetTypeOK, HbState, WqState, SendState, me
  <2>3. ASSUME NEW z \in Peer PROVE PeerInv(z)'
    BY <2>1, Parts DEF PeerInv, Sockets, Noticed, Expected
  <2>4. ~setup.races => WorksAlone' /\ \A s \in Sender : OnValid(s)'
    BY <2>1, Parts DEF WorksAlone, OnValid, Sending, WaitsForStatus
  <2> QED
    BY <2>1, <2>2, <2>3, <2>4 DEF NetInv
<1>1. ASSUME NEW p \in Peer, UNCHANGED setup,
             \/ StartConnect(p) \/ NoContainer(p) \/ AcceptOne(p)
             \/ ConnectExpired(p) \/ StillUp(p) \/ IdleConnErr(p)
      PROVE  NetInv'
  BY <1>1, StartConnectKeeps, NoContainerKeeps, AcceptOneKeeps, ConnectExpiredKeeps,
     StillUpKeeps, IdleConnErrKeeps
<1>2. ASSUME NEW p \in Peer, UNCHANGED setup,
             \/ Joins(p) \/ NodeUp(p) \/ NodeUpNet(p)
             \/ Leaves(p) \/ NodeDown(p) \/ Disconnect(p) \/ DisconnectCancel(p)
             \/ DisconnectFlush(p)
      PROVE  NetInv'
  BY <1>2, JoinsKeeps, NodeUpKeeps, NodeUpNetKeeps, LeavesKeeps, NodeDownKeeps,
     DisconnectKeeps, DisconnectCancelKeeps, DisconnectFlushKeeps
<1>3. ASSUME NEW p \in Peer, NEW i \in Sc, UNCHANGED setup,
             DataReady(p, i) \/ StateChange(p, i)
      PROVE  NetInv'
  <2>1. Rx(i) \in ScWork /\ Shut(i) \in ScWork
    BY WorksOf
  <2> QED
    BY <1>3, <2>1, CallbackKeeps DEF DataReady, StateChange
<1>4. ASSUME NEW p \in Peer, NEW i \in Sc, UNCHANGED setup,
             \/ ConnectSet(p, i) \/ AcceptSet(p, i)
             \/ Handshake(p, i) \/ HandshakeRefused(p, i)
             \/ RxEmpty(p, i) \/ RxError(p, i) \/ TxError(p, i) \/ ShutdownSc(p, i)
             \/ PostponeIdle(p, i) \/ IdleTimer(p, i)
      PROVE  NetInv'
  BY <1>4, ConnectSetKeeps, AcceptSetKeeps, HandshakeKeeps, HandshakeRefusedKeeps,
     RxEmptyKeeps, RxErrorKeeps, TxErrorKeeps, ShutdownScKeeps, PostponeIdleKeeps,
     IdleTimerKeeps
<1>5. ASSUME NEW p \in Peer, NEW i \in Sc, UNCHANGED setup,
             NEW m \in wire[p][i] \union {Keepalive}, RxMessage(p, i, m)
      PROVE  NetInv'
  BY <1>5, RxMessageKeeps
<1>6. ASSUME NEW s \in Sender, UNCHANGED setup,
             SendReady(s) \/ SendRegister(s) \/ SendTcp(s) \/ SendFails(s) \/ SendReturns(s)
      PROVE  NetInv'
  BY <1>6, SendReadyKeeps, SendRegisterKeeps, SendTcpKeeps, SendOverKeeps
<1>7. CASE UNCHANGED setup /\ Decide
  BY <1>7, DecideKeeps
<1>8. CASE UNCHANGED setup /\ Stopped
  BY <1>0, <1>8 DEF Stopped
<1> QED
  BY <1>0, <1>1, <1>2, <1>3, <1>4, <1>5, <1>6, <1>7, <1>8 DEF NetNext, Step

LEMMA NetInvHolds == NetSpec => []NetInv
  BY NetInvStarts, NetInvStays, PTL DEF NetSpec

-----------------------------------------------------------------------------
(* The properties.                                                         *)

\* Types; and sc_kref_release() never frees a container whose idle timer is pending,
\* as the shutdown that takes the callbacks deletes the timer: any number of peers
\* and containers, with the races of the code.
THEOREM TimersOwned == NetSpec => []TimerOwned
<1>1. NetInv => TimerOwned
  BY Parts DEF TimerOwned, Sockets
<1> QED
  BY <1>1, NetInvHolds, PTL

\* A connection that o2net_idle_timer() found idle cannot hold up the quorum decision
\* for ever: still_up is queued or about to be, with the races of the code.
THEOREM IdleIsNoticed == NetSpec => []IdleNoticed
<1>1. NetInv => IdleNoticed
  BY Parts DEF IdleNoticed, Noticed
<1> QED
  BY <1>1, NetInvHolds, PTL

\* A peer that heartbeats and has no connection is not forgotten by o2net_set_nn_state()
\* and its delayed works.
THEOREM PeersRemembered == NetSpec => []PeerRemembered
<1>1. NetInv => PeerRemembered
  BY Parts, Types DEF PeerRemembered, Sockets, Expected
<1> QED
  BY <1>1, NetInvHolds, PTL

\* Whoever waits for a status in o2net_send_message_vec() waits on the valid connection
\* of its peer, whose end will wake it.
THEOREM WaitersHeard == NetSpec => []WaiterHeard
<1>1. NetInv => WaiterHeard
  BY Parts DEF WaiterHeard, OnValid
<1> QED
  BY <1>1, NetInvHolds, PTL
-----------------------------------------------------------------------------
(* The heartbeats.                                                         *)

\* SameIncarnation of one slot
Same(s) == s.live => s.gen = s.born

Block == {Blank, Left} \union Gen

\* What every node knows, that its slots are typed and the same incarnation
SlotsSame == \A n, m \in Node : slot[n][m] \in Slot /\ Same(slot[n][m])
\* HbTypeOK without the slots
RestOK ==
  /\ faulty \in Faulty
  /\ path \in SUBSET Node
  /\ disk \in [Node -> Block]
  /\ node \in [Node -> Region]
  /\ mail \in SUBSET Mail
SlotsShape == slot \in [Node -> [Node -> Slot]]

\* SameIncarnation is the invariant itself.
LEMMA HbParts == SameIncarnation <=> RestOK /\ SlotsShape /\ SlotsSame
BY DEF SameIncarnation, HbTypeOK, RestOK, SlotsShape, SlotsSame, Same, Block

\* The thresholds are numbers.
LEMMA Thresholds ==
  /\ DeadThreshold \in Nat \ {0} /\ LiveThreshold \in Nat \ {0}
  /\ WriteTimeout \in Nat \ {0} /\ Incarnations \in Nat \ {0}
BY ThresholdAssumption, IncarnationsAssumption

\* A count is capped at its bound.
LEMMA CappedTyped ==
  ASSUME NEW bound \in Nat, NEW i \in 0 .. bound
  PROVE  Capped(i + 1, bound) \in 0 .. bound
BY DEF Capped

\* The samples of a slot are typed; its liveness and incarnation stay, and the block
\* read is kept.
LEMMA SampledTyped ==
  ASSUME NEW s \in Slot, NEW gen \in Block
  PROVE  /\ Sampled(s, gen) \in Slot
         /\ Sampled(s, gen).live = s.live /\ Sampled(s, gen).born = s.born
         /\ Sampled(s, gen).gen = gen
<1>1. Capped(s.changed + 1, LiveThreshold) \in 0 .. LiveThreshold
  BY Thresholds, CappedTyped DEF Slot
<1>2. Capped(s.equal + 1, DeadThreshold) \in 0 .. DeadThreshold
  BY Thresholds, CappedTyped DEF Slot
<1> DEFINE c == IF s.read THEN s.changed ELSE Capped(s.changed + 1, LiveThreshold)
           e == IF GenChanged(s, gen) THEN 0
                ELSE IF s.read THEN Capped(s.equal + 1, DeadThreshold) ELSE s.equal
<1>3. c \in 0 .. LiveThreshold /\ e \in 0 .. DeadThreshold
  BY <1>1, <1>2, Thresholds DEF Slot
<1>4. Sampled(s, gen) = [s EXCEPT !.changed = c, !.equal = e, !.read = TRUE, !.gen = gen]
  BY DEF Sampled
<1> HIDE DEF c, e
<1> QED
  BY <1>3, <1>4 DEF Slot, Block

\* o2hb_check_slot: a node comes up as the block read; it stays up on that block
\* alone, for another block takes it down.
LEMMA CheckSlotSame ==
  ASSUME NEW s \in Slot, Same(s), NEW gen \in Block
  PROVE  CheckSlot(s, gen) \in Slot /\ Same(CheckSlot(s, gen))
<1> DEFINE t == Sampled(s, gen)
<1>1. t \in Slot /\ t.live = s.live /\ t.born = s.born /\ t.gen = gen
  BY SampledTyped
<1> HIDE DEF t
<1>2. CASE gen = Blank
  BY <1>2 DEF CheckSlot
<1>3. CASE gen # Blank /\ ComesUp(s, gen)
  <2>1. CheckSlot(s, gen) = [t EXCEPT !.live = TRUE, !.equal = 0, !.born = gen]
    BY <1>3 DEF CheckSlot, t
  <2>2. 0 \in 0 .. DeadThreshold
    BY Thresholds
  <2> QED
    BY <1>1, <2>1, <2>2 DEF Slot, Same, Block
<1>4. CASE gen # Blank /\ ~ComesUp(s, gen) /\ GoesDown(s, gen)
  <2> DEFINE c == IF GenChanged(s, gen) THEN t.changed ELSE 0
  <2>1. CheckSlot(s, gen) = [t EXCEPT !.live = FALSE, !.born = Blank, !.changed = c, !.equal = 0]
    BY <1>4 DEF CheckSlot, t
  <2>2. c \in 0 .. LiveThreshold /\ 0 \in 0 .. DeadThreshold
    BY <1>1, Thresholds DEF Slot
  <2> HIDE DEF c
  <2> QED
    BY <1>1, <2>1, <2>2 DEF Slot, Same
<1>5. CASE gen # Blank /\ ~ComesUp(s, gen) /\ ~GoesDown(s, gen)
  <2>1. CheckSlot(s, gen) \in {Active(t), t, [t EXCEPT !.equal = 0]}
    BY <1>5 DEF CheckSlot, t
  <2>2. CheckSlot(s, gen) \in Slot
    <3>1. 0 \in 0 .. DeadThreshold /\ 0 \in 0 .. LiveThreshold
      BY Thresholds
    <3> QED
      BY <1>1, <2>1, <3>1 DEF Slot, Active
  <2>3. /\ CheckSlot(s, gen).live = s.live /\ CheckSlot(s, gen).born = s.born
        /\ CheckSlot(s, gen).gen = gen
    BY <1>1, <2>1 DEF Slot, Active
  <2>4. s.live => s.gen = gen
    BY <1>5 DEF GoesDown, GenChanged
  <2> QED
    BY <2>2, <2>3, <2>4 DEF Same
<1> QED
  BY <1>2, <1>3, <1>4, <1>5

\* A slot is unknown until it is read.
LEMMA UnknownSame ==
  ASSUME NEW gen \in Block
  PROVE  Unknown(gen) \in Slot /\ Same(Unknown(gen))
BY Thresholds DEF Unknown, Slot, Same, Block

\* A block that is written is a new sample of the same slot.
LEMMA WrittenSame ==
  ASSUME NEW s \in Slot, Same(s), NEW b \in BOOLEAN
  PROVE  [s EXCEPT !.read = b] \in Slot /\ Same([s EXCEPT !.read = b])
BY DEF Slot, Same

\* A region that is off is typed, whatever its generation.
LEMMA OffTyped ==
  ASSUME NEW g \in {Left} \union Gen
  PROVE  [Off EXCEPT !.gen = g] \in Region
<1>1. Unarmed \in Unarmed .. WriteTimeout /\ 0 \in 0 .. LiveThreshold + 1
  BY Thresholds DEF Unarmed
<1> QED
  BY <1>1 DEF Off, Region

\* o2hb_arm_timeout keeps the region typed.
LEMMA ArmedTyped ==
  ASSUME NEW r \in Region, NEW spared \in BOOLEAN
  PROVE  Armed(r, spared) \in Region
<1>1. 0 \in Unarmed .. WriteTimeout
  BY Thresholds DEF Unarmed
<1>2. CASE r.steady # 0
  BY <1>2 DEF Armed
<1>3. CASE r.steady = 0
  <2>1. PICK a \in Region : a = [r EXCEPT !.age = 0]
    BY <1>1 DEF Region
  <2>2. PICK w \in Region : w = [a EXCEPT !.work = "timer"]
    BY DEF Region
  <2>3. PICK g \in Region : g = [w EXCEPT !.nego = {}]
    BY DEF Region
  <2>4. [g EXCEPT !.spared = spared] \in Region
    BY DEF Region
  <2>5. Armed(r, spared) = [g EXCEPT !.spared = spared]
    BY <1>3, <2>1, <2>2, <2>3 DEF Armed, Region
  <2> QED
    BY <2>4, <2>5
<1> QED
  BY <1>2, <1>3

\* Steps of node n on its region: typed when the new region is.
LEMMA RegionStep ==
  ASSUME RestOK, NEW n \in Node, NEW r \in Region, node' = [node EXCEPT ![n] = r]
  PROVE  node' \in [Node -> Region]
BY DEF RestOK

\* The slots that a write touches are typed, and the same incarnation.
LEMMA WrittenSlots ==
  ASSUME SlotsShape, SlotsSame, NEW n \in Node, NEW gen, Written(n, gen)
  PROVE  SlotsShape' /\ SlotsSame'
<1>1. slot' = [m \in Node |-> IF m = n \/ ~node[m].on THEN slot[m]
                              ELSE [slot[m] EXCEPT ![n].read = FALSE]]
  BY DEF Written
<1>2. ASSUME NEW m \in Node, m # n
      PROVE  /\ [slot[m] EXCEPT ![n].read = FALSE] \in [Node -> Slot]
             /\ \A k \in Node : Same([slot[m] EXCEPT ![n].read = FALSE][k])
  <2>1. slot[m] \in [Node -> Slot] /\ \A k \in Node : Same(slot[m][k])
    BY DEF SlotsShape, SlotsSame
  <2>2. [slot[m][n] EXCEPT !.read = FALSE] \in Slot /\ Same([slot[m][n] EXCEPT !.read = FALSE])
    BY <2>1, WrittenSame
  <2> QED
    BY <2>1, <2>2
<1> QED
  BY <1>1, <1>2 DEF SlotsShape, SlotsSame

----------------------------------------------------------------------------
(* The steps.                                                              *)

\* A node that goes down forgets what it knew.
LEMMA DownKeeps ==
  ASSUME SameIncarnation, NEW n \in Node, Down(n), UNCHANGED <<faulty, path, disk, mail>>
  PROVE  SameIncarnation'
<1>1. RestOK /\ SlotsShape /\ SlotsSame
  BY HbParts
<1>2. node[n].gen \in {Left} \union Gen
  BY <1>1 DEF RestOK, Region
<1>3. node' \in [Node -> Region]
  BY <1>1, <1>2, OffTyped, RegionStep DEF Down
<1>4. Unknown(Blank) \in Slot /\ Same(Unknown(Blank))
  BY UnknownSame DEF Block
<1>5. SlotsShape' /\ SlotsSame'
  BY <1>1, <1>4 DEF Down, SlotsShape, SlotsSame
<1> QED
  BY <1>1, <1>3, <1>5, HbParts DEF RestOK, SameIncarnation, HbTypeOK, SlotsShape, SlotsSame, Same, Block

\* o2hb_region_dev_store: the node reads the slots as they are, and knows nobody.
LEMMA StartKeeps ==
  ASSUME SameIncarnation, NEW n \in Node, Start(n)
  PROVE  RestOK' /\ SlotsShape' /\ SlotsSame'
<1>1. RestOK /\ SlotsShape /\ SlotsSame
  BY HbParts
<1>2. node[n].gen + 1 \in Gen
  <2>1. StartBound \in 1 .. Incarnations
    BY Thresholds DEF StartBound
  <2>2. node[n].gen \in Nat
    BY <1>1, Thresholds DEF RestOK, Region, Left, Gen
  <2> QED
    BY <2>1, <2>2, Thresholds DEF Start, Gen
<1> DEFINE r == [Off EXCEPT !.on = TRUE, !.gen = node[n].gen + 1, !.due = TRUE,
                            !.own = disk[n] # Blank, !.steady = LiveThreshold + 1]
<1>3. r \in Region
  <2>1. /\ Unarmed \in Unarmed .. WriteTimeout
        /\ 0 \in 0 .. LiveThreshold + 1 /\ LiveThreshold + 1 \in 0 .. LiveThreshold + 1
    BY Thresholds DEF Unarmed
  <2> DEFINE own == disk[n] # Blank
  <2>2. CASE own
    BY <1>2, <2>1, <2>2 DEF Off, Region
  <2>3. CASE ~own
    BY <1>2, <2>1, <2>3 DEF Off, Region
  <2> QED
    BY <2>2, <2>3
<1>4. node' = [node EXCEPT ![n] = r] /\ UNCHANGED <<faulty, path, disk, mail>>
  BY DEF Start
<1> HIDE DEF r
<1>5. RestOK'
  BY <1>1, <1>3, <1>4 DEF RestOK
<1>6. \A m \in Node : Unknown(disk[m]) \in Slot /\ Same(Unknown(disk[m]))
  BY <1>1, UnknownSame DEF RestOK
<1>7. slot' = [slot EXCEPT ![n] = [m \in Node |-> Unknown(disk[m])]]
  BY DEF Start
<1> QED
  BY <1>1, <1>5, <1>6, <1>7 DEF SlotsShape, SlotsSame

\* o2hb_check_slot of every slot
LEMMA BeatStartKeeps ==
  ASSUME SameIncarnation, NEW n \in Node, BeatStart(n)
  PROVE  RestOK' /\ SlotsShape' /\ SlotsSame'
<1>1. RestOK /\ SlotsShape /\ SlotsSame
  BY HbParts
<1>2. ASSUME NEW m \in Node
      PROVE  /\ CheckSlot(Tracked(n, m), Reads(n, m)) \in Slot
             /\ Same(CheckSlot(Tracked(n, m), Reads(n, m)))
  <2>1. Reads(n, m) \in Block
    BY <1>1 DEF Reads, RestOK, Region, Block
  <2>2. slot[n][m] \in Slot /\ Same(slot[n][m])
    BY <1>1 DEF SlotsSame
  <2>3. Tracked(n, m) \in Slot /\ Same(Tracked(n, m))
    BY <2>2, WrittenSame DEF Tracked
  <2> QED
    BY <2>1, <2>3, CheckSlotSame
<1>3. slot' = [slot EXCEPT ![n] = [m \in Node |-> CheckSlot(Tracked(n, m), Reads(n, m))]]
  BY DEF BeatStart
<1>4. SlotsShape' /\ SlotsSame'
  BY <1>1, <1>2, <1>3 DEF SlotsShape, SlotsSame
<1>5. RestOK'
  <2> DEFINE change == \E m \in Node : slot'[n][m].live # slot[n][m].live
             r == [node[n] EXCEPT !.due = FALSE, !.pc = "writing", !.ownOk = node[n].own,
                                  !.change = change]
  <2>1. node' = [node EXCEPT ![n] = r] /\ UNCHANGED <<faulty, path, disk, mail>>
    BY DEF BeatStart
  <2>2. change = TRUE \/ change = FALSE
    OBVIOUS
  <2> HIDE DEF change
  <2>3. r \in Region
    <3>1. node[n] \in Region
      BY <1>1 DEF RestOK
    <3>2. node[n].own = TRUE \/ node[n].own = FALSE
      BY <3>1 DEF Region
    <3>3. CASE change = TRUE
      BY <3>1, <3>2, <3>3 DEF Region
    <3>4. CASE change = FALSE
      BY <3>1, <3>2, <3>4 DEF Region
    <3> QED
      BY <2>2, <3>3, <3>4
  <2> HIDE DEF r
  <2> QED
    BY <1>1, <2>1, <2>3 DEF RestOK
<1> QED
  BY <1>4, <1>5

\* The write completes: the timeout is armed, and the region is steadier.
LEMMA BeatEndKeeps ==
  ASSUME SameIncarnation, NEW n \in Node, BeatEnd(n)
  PROVE  RestOK' /\ SlotsShape' /\ SlotsSame'
<1>1. RestOK /\ SlotsShape /\ SlotsSame
  BY HbParts
<1>2. SlotsShape' /\ SlotsSame'
  BY <1>1, WrittenSlots DEF BeatEnd
<1> DEFINE r == IF node[n].ownOk THEN Armed(node[n], FALSE) ELSE node[n]
           q == [r EXCEPT !.pc = "idle", !.own = TRUE, !.status = TRUE, !.ownOk = FALSE,
                          !.change = FALSE, !.steady = Steadier(@, r.ownOk, r.change)]
<1>3. r \in Region
  BY <1>1, ArmedTyped DEF RestOK
<1>4. node' = [node EXCEPT ![n] = q] /\ disk' = [disk EXCEPT ![n] = node[n].gen]
      /\ UNCHANGED <<faulty, path, mail>>
  BY DEF BeatEnd, Written
<1> HIDE DEF r
<1>5. Steadier(r.steady, r.ownOk, r.change) \in 0 .. LiveThreshold + 1
  BY <1>3, Thresholds DEF Region, Steadier
<1>6. q \in Region
  BY <1>3, <1>5 DEF Region
<1> HIDE DEF q
<1>7. node[n].gen \in Block
  BY <1>1 DEF RestOK, Region, Block
<1> QED
  BY <1>1, <1>2, <1>4, <1>6, <1>7 DEF RestOK

\* The write fails, on disk or not.
LEMMA WriteErrorKeeps ==
  ASSUME SameIncarnation, NEW n \in Node, WriteError(n)
  PROVE  RestOK' /\ SlotsShape' /\ SlotsSame'
<1>1. RestOK /\ SlotsShape /\ SlotsSame
  BY HbParts
<1>2. WroteBadly(node[n], TRUE) \in Region /\ WroteBadly(node[n], FALSE) \in Region
  <2>1. node[n] \in Region
    BY <1>1 DEF RestOK
  <2>2. WroteBadly(node[n], TRUE) \in Region
    BY <2>1 DEF Region, WroteBadly
  <2>3. WroteBadly(node[n], FALSE) \in Region
    BY <2>1 DEF Region, WroteBadly
  <2> QED
    BY <2>2, <2>3
<1>3. node[n].gen \in Block
  BY <1>1 DEF RestOK, Region, Block
<1>4. CASE Written(n, node[n].gen) /\ node' = [node EXCEPT ![n] = WroteBadly(@, TRUE)]
  <2>1. SlotsShape' /\ SlotsSame'
    BY <1>1, <1>4, WrittenSlots
  <2> QED
    BY <1>1, <1>2, <1>3, <1>4, <2>1 DEF RestOK, WriteError, Written
<1>5. CASE UNCHANGED <<disk, slot>> /\ node' = [node EXCEPT ![n] = WroteBadly(@, FALSE)]
  BY <1>1, <1>2, <1>5 DEF RestOK, WriteError, SlotsShape, SlotsSame, Same
<1> QED
  BY <1>4, <1>5 DEF WriteError

\* A node leaves with a block of generation 0.
LEMMA StopKeeps ==
  ASSUME SameIncarnation, NEW n \in Node, Stop(n)
  PROVE  RestOK' /\ SlotsShape' /\ SlotsSame'
<1>1. RestOK /\ SlotsShape /\ SlotsSame
  BY HbParts
<1>2. [Off EXCEPT !.gen = node[n].gen] \in Region
  BY <1>1, OffTyped DEF RestOK, Region
<1>3. RestOK'
  BY <1>1, <1>2 DEF RestOK, Stop, Block
<1>4. slot' = [m \in Node |-> IF m = n THEN [k \in Node |-> Unknown(Blank)]
                              ELSE IF ~node[m].on THEN slot[m]
                              ELSE [slot[m] EXCEPT ![n].read = FALSE]]
  BY DEF Stop
<1>5. Unknown(Blank) \in Slot /\ Same(Unknown(Blank))
  BY UnknownSame DEF Block
<1>6. ASSUME NEW m \in Node
      PROVE  /\ [slot[m] EXCEPT ![n].read = FALSE] \in [Node -> Slot]
             /\ \A k \in Node : Same([slot[m] EXCEPT ![n].read = FALSE][k])
  <2>1. slot[m] \in [Node -> Slot] /\ \A k \in Node : Same(slot[m][k])
    BY <1>1 DEF SlotsShape, SlotsSame
  <2>2. [slot[m][n] EXCEPT !.read = FALSE] \in Slot /\ Same([slot[m][n] EXCEPT !.read = FALSE])
    BY <2>1, WrittenSame
  <2> QED
    BY <2>1, <2>2
<1> QED
  BY <1>1, <1>3, <1>4, <1>5, <1>6 DEF SlotsShape, SlotsSame

\* The steps that leave the slots alone: the negotiation, the paths, a read that
\* fails, and time.
LEMMA SlotlessKeeps ==
  ASSUME SameIncarnation, UNCHANGED slot, RestOK'
  PROVE  SameIncarnation'
BY DEF SameIncarnation, HbTypeOK, RestOK, Block

\* What one node does with its region, its path and its mail
LEMMA NodeKeeps ==
  ASSUME SameIncarnation, NEW n \in Node,
         \/ ReadError(n) \/ NegoGivesUp(n) \/ NegoAsks(n) \/ NegoWaits(n) \/ NegoApproves(n)
         \/ Hangs(n) \/ Heals(n)
  PROVE  RestOK' /\ UNCHANGED slot
<1>1. RestOK /\ node[n] \in Region
  BY HbParts DEF RestOK
<1>2. CASE ReadError(n)
  <2>1. [node[n] EXCEPT !.due = FALSE, !.status = FALSE] \in Region
    BY <1>1 DEF Region
  <2> QED
    BY <1>1, <1>2, <2>1 DEF ReadError, RestOK
<1>3. [node[n] EXCEPT !.work = "none"] \in Region
  BY <1>1 DEF Region
<1>4. CASE NegoGivesUp(n)
  BY <1>1, <1>3, <1>4 DEF NegoGivesUp, RestOK
<1>5. CASE NegoAsks(n)
  <2>1. PICK master \in Live(n) \ {n} :
          mail' = mail \union {[type |-> "timeout", from |-> n, to |-> master]}
    BY <1>5 DEF NegoAsks
  <2>2. mail' \in SUBSET Mail
    BY <1>1, <2>1 DEF RestOK, Mail, Live
  <2> QED
    BY <1>1, <1>3, <1>5, <2>2 DEF NegoAsks, RestOK
<1>6. CASE NegoWaits(n)
  <2>1. [node[n] EXCEPT !.nego = @ \union {n}, !.work = "again"] \in Region
    BY <1>1 DEF Region
  <2> QED
    BY <1>1, <1>6, <2>1 DEF NegoWaits, RestOK
<1>7. CASE NegoApproves(n)
  <2>1. Armed(node[n], TRUE) \in Region
    BY <1>1, ArmedTyped
  <2>2. mail' \in SUBSET Mail
    BY <1>1, <1>7 DEF NegoApproves, RestOK, Mail, Live
  <2> QED
    BY <1>1, <1>7, <2>1, <2>2 DEF NegoApproves, RestOK
<1>8. CASE Hangs(n) \/ Heals(n)
  BY <1>1, <1>8 DEF Hangs, Heals, RestOK
<1> QED
  BY <1>2, <1>4, <1>5, <1>6, <1>7, <1>8

\* o2hb_nego_timeout_handler and o2hb_nego_approve_handler
LEMMA ReceiveKeeps ==
  ASSUME SameIncarnation, NEW m \in mail, Receive(m)
  PROVE  RestOK' /\ UNCHANGED slot
<1>1. RestOK /\ m.to \in Node /\ m.from \in Node /\ node[m.to] \in Region
  BY HbParts DEF RestOK, Mail
<1>2. [node[m.to] EXCEPT !.nego = @ \union {m.from}] \in Region
  BY <1>1 DEF Region
<1>3. Armed(node[m.to], TRUE) \in Region
  BY <1>1, ArmedTyped
<1> QED
  BY <1>1, <1>2, <1>3 DEF Receive, RestOK

\* A period ends before any write timeout is overdue.
LEMMA TickKeeps ==
  ASSUME SameIncarnation, Tick
  PROVE  RestOK' /\ UNCHANGED slot
<1>1. RestOK
  BY HbParts
<1>2. ASSUME NEW n \in Node PROVE node'[n] \in Region
  <2>1. node[n] \in Region
    BY <1>1 DEF RestOK
  <2>2. CASE node[n].on
    <3> DEFINE a == IF node[n].age = Unarmed THEN node[n].age ELSE node[n].age + 1
    <3>1. a \in Unarmed .. WriteTimeout
      <4>1. node[n].age \in Unarmed .. WriteTimeout
        BY <2>1 DEF Region
      <4>2. node[n].age < WriteTimeout
        BY <2>2 DEF Tick
      <4> QED
        BY <4>1, <4>2, Thresholds DEF Unarmed
    <3>2. node'[n] = [node[n] EXCEPT !.due = TRUE, !.age = a]
      BY <2>2 DEF Tick
    <3> HIDE DEF a
    <3> QED
      BY <2>1, <3>1, <3>2 DEF Region
  <2>3. CASE ~node[n].on
    BY <2>1, <2>3 DEF Tick
  <2> QED
    BY <2>2, <2>3
<1>3. DOMAIN node' = Node /\ node' = [n \in Node |-> node'[n]]
  BY DEF Tick
<1>4. node' \in [Node -> Region]
  BY <1>2, <1>3
<1> QED
  BY <1>1, <1>4 DEF Tick, RestOK

----------------------------------------------------------------------------
\* Before the first start nobody is alive.
LEMMA HbStarts == HbInit => SameIncarnation
<1> SUFFICES ASSUME HbInit PROVE SameIncarnation
  OBVIOUS
<1>1. Unknown(Blank) \in Slot /\ Same(Unknown(Blank))
  BY UnknownSame DEF Block
<1>2. SlotsShape /\ SlotsSame
  BY <1>1 DEF HbInit, SlotsShape, SlotsSame
<1>3. Off \in Region
  BY Thresholds DEF Off, Region, Unarmed
<1>4. RestOK
  BY <1>3 DEF HbInit, RestOK, Block
<1> QED
  BY <1>2, <1>4, HbParts

\* The parts, in the next state
LEMMA PartsNext == RestOK' /\ SlotsShape' /\ SlotsSame' => SameIncarnation'
BY DEF SameIncarnation, HbTypeOK, RestOK, SlotsShape, SlotsSame, Same, Block

\* Every step preserves the invariant.
LEMMA HbStepKeeps == SameIncarnation /\ [HbNext]_hbVars => SameIncarnation'
<1> SUFFICES ASSUME SameIncarnation, [HbNext]_hbVars PROVE SameIncarnation'
  OBVIOUS
<1>1. ASSUME NEW n \in Node, Start(n) \/ BeatStart(n) \/ BeatEnd(n) \/ WriteError(n) \/ Stop(n)
      PROVE  SameIncarnation'
  BY <1>1, StartKeeps, BeatStartKeeps, BeatEndKeeps, WriteErrorKeeps, StopKeeps, PartsNext
<1>2. ASSUME NEW n \in Node, Crash(n) \/ Fence(n)
      PROVE  SameIncarnation'
  BY <1>2, DownKeeps DEF Crash, Fence
<1>3. ASSUME NEW n \in Node,
             \/ ReadError(n) \/ NegoGivesUp(n) \/ NegoAsks(n) \/ NegoWaits(n) \/ NegoApproves(n)
             \/ Hangs(n) \/ Heals(n)
      PROVE  SameIncarnation'
  BY <1>3, NodeKeeps, SlotlessKeeps
<1>4. ASSUME NEW m \in mail, Receive(m) PROVE SameIncarnation'
  BY <1>4, ReceiveKeeps, SlotlessKeeps
<1>5. CASE Tick
  BY <1>5, TickKeeps, SlotlessKeeps
<1>6. CASE UNCHANGED hbVars
  BY <1>6 DEF hbVars, SameIncarnation, HbTypeOK
<1> QED
  BY <1>1, <1>2, <1>3, <1>4, <1>5, <1>6 DEF HbNext

\* Types, and o2hb_check_slot: a node that restarted within the threshold goes down
\* before it comes up again, so that the callbacks never miss a death.
THEOREM UpAsBorn == HbSpec => []SameIncarnation
BY HbStarts, HbStepKeeps, PTL DEF HbSpec
----------------------------------------------------------------------------
(* Time: what another node has counted, and what the write timeout has.    *)

\* o takes n for alive, as the incarnation that runs.
Seen(o, n) == /\ o # n /\ node[o].on /\ node[n].on
              /\ slot[o][n].live /\ slot[o][n].gen = node[n].gen

\* n has done its beat of this period.
Done(n) == ~node[n].due /\ node[n].pc = "idle"

\* Whoever has read the last beat of n has counted no more equal samples since than
\* the write timeout of n has counted periods, and one less before its own beat of
\* this period.
InTime(o, n) ==
  Seen(o, n) /\ slot[o][n].read /\ node[n].age # Unarmed /\ ~node[n].spared =>
    slot[o][n].equal + (IF node[o].due THEN 1 ELSE 0) <= node[n].age

\* A node whose path works has at most one equal sample counted, by those who have
\* had their beat of this period when it has not.
OneMissed(o, n) ==
  Seen(o, n) /\ slot[o][n].read /\ n \notin faulty =>
    /\ Done(n) => ~node[o].due
    /\ slot[o][n].equal > 0 => ~node[o].due /\ ~Done(n)

Pair(o, n) == /\ slot[o][n].live => slot[o][n].equal < DeadThreshold
              /\ InTime(o, n) /\ OneMissed(o, n)

\* No generation is seen before it starts.
GensOld == \A n \in Node : /\ disk[n] <= node[n].gen
                           /\ \A o \in Node : slot[o][n].gen <= node[n].gen
\* Only the paths of faulty nodes hang; a node counts no equal samples of itself.
PathsWork == Node \ faulty \subseteq path
OwnFresh == \A n \in Node : slot[n][n].equal = 0

TimeInv == /\ SameIncarnation /\ GensOld /\ PathsWork /\ OwnFresh
           /\ \A o, n \in Node : Pair(o, n)

\* What SameIncarnation says of the types of a slot and a region
LEMMA Typed ==
  ASSUME SameIncarnation, NEW o \in Node, NEW n \in Node
  PROVE  /\ node[n] \in Region /\ slot[o][n] \in Slot
         /\ node[n].age \in Unarmed .. WriteTimeout /\ node[n].gen \in Nat
         /\ slot[o][n].equal \in 0 .. DeadThreshold
         /\ slot[o][n].gen \in Block /\ disk[n] \in Block
<1>1. node[n] \in Region /\ slot[o][n] \in Slot /\ disk[n] \in Block
  BY DEF SameIncarnation, HbTypeOK, Block
<1>2. node[n].age \in Unarmed .. WriteTimeout /\ node[n].gen \in {Left} \union Gen
  BY <1>1 DEF Region
<1>3. slot[o][n].equal \in 0 .. DeadThreshold /\ slot[o][n].gen \in Block
  BY <1>1 DEF Slot, Block
<1>4. node[n].gen \in Nat
  BY <1>2, Thresholds DEF Gen, Left
<1> QED
  BY <1>1, <1>2, <1>3, <1>4

\* o2hb_check_slot, by what it makes of the count of equal samples
LEMMA CheckSlotCounts ==
  ASSUME NEW s \in Slot, NEW gen \in Block, s.live => s.equal < DeadThreshold,
         NEW u, u = CheckSlot(s, gen)
  PROVE  /\ u.live => u.equal < DeadThreshold
         /\ u = s \/ (u.read /\ u.gen = gen)
         /\ u.live /\ s.live => u.gen = s.gen /\ u.equal <= s.equal + 1
         /\ u.live /\ (~s.live \/ ~s.read) => u.equal = 0 \/ u = s
         /\ u.live /\ ~s.live => u.equal = 0
         /\ s.live /\ ~u.live => \/ u.gen # s.gen
                                 \/ s.read /\ s.equal + 1 >= DeadThreshold
         /\ s.equal = 0 /\ ~s.read => u.equal = 0
<1> DEFINE t == Sampled(s, gen)
<1>0. /\ s.equal \in 0 .. DeadThreshold /\ s.changed \in 0 .. LiveThreshold
      /\ s.live \in BOOLEAN /\ s.read \in BOOLEAN
  BY DEF Slot
<1>1. /\ t \in Slot /\ t.live = s.live /\ t.gen = gen /\ t.read
      /\ t.changed = IF s.read THEN s.changed ELSE Capped(s.changed + 1, LiveThreshold)
      /\ t.equal = IF GenChanged(s, gen) THEN 0
                   ELSE IF s.read THEN Capped(s.equal + 1, DeadThreshold) ELSE s.equal
  <2>1. t \in Slot /\ t.live = s.live /\ t.gen = gen
    BY SampledTyped
  <2>2. /\ t.read
        /\ t.changed = IF s.read THEN s.changed ELSE Capped(s.changed + 1, LiveThreshold)
        /\ t.equal = IF GenChanged(s, gen) THEN 0
                     ELSE IF s.read THEN Capped(s.equal + 1, DeadThreshold) ELSE s.equal
    BY DEF Sampled, Slot
  <2> QED
    BY <2>1, <2>2
<1>2. /\ t.equal <= s.equal + 1 /\ t.equal >= 0
      /\ t.equal >= DeadThreshold => s.equal + 1 >= DeadThreshold
      /\ ~s.read => t.changed > 0
      /\ s.equal = 0 /\ ~s.read => t.equal = 0
  BY <1>0, <1>1, Thresholds DEF Capped
<1>3. CASE gen = Blank
  BY <1>0, <1>3, Thresholds DEF CheckSlot
<1>4. CASE gen # Blank /\ ComesUp(s, gen)
  <2>1. u = [t EXCEPT !.live = TRUE, !.equal = 0, !.born = gen] /\ ~s.live
    BY <1>4 DEF CheckSlot, ComesUp, t
  <2>2. u.live /\ u.equal = 0 /\ u.read /\ u.gen = gen
    BY <1>1, <2>1 DEF Slot
  <2> QED
    BY <2>1, <2>2, Thresholds
<1>5. CASE gen # Blank /\ ~ComesUp(s, gen) /\ GoesDown(s, gen)
  <2> DEFINE c == IF GenChanged(s, gen) THEN t.changed ELSE 0
  <2>1. u = [t EXCEPT !.live = FALSE, !.born = Blank, !.changed = c, !.equal = 0]
    BY <1>5 DEF CheckSlot, t
  <2> HIDE DEF c
  <2>2. ~u.live /\ u.equal = 0 /\ u.read /\ u.gen = gen
    BY <1>1, <2>1 DEF Slot
  <2>3. s.gen = gen => t.equal >= DeadThreshold /\ t.equal = IF s.read THEN Capped(s.equal + 1, DeadThreshold) ELSE s.equal
    BY <1>1, <1>5 DEF GoesDown, Missed, GenChanged, t
  <2>4. s.live => s.equal < DeadThreshold
    OBVIOUS
  <2>5. s.live /\ s.gen = gen => s.read /\ s.equal + 1 >= DeadThreshold
    BY <1>0, <1>2, <2>3, <2>4, Thresholds
  <2> QED
    BY <2>2, <2>5
<1>6. CASE gen # Blank /\ ~ComesUp(s, gen) /\ ~GoesDown(s, gen)
  <2>1. s.live => s.gen = gen /\ t.equal < DeadThreshold
    BY <1>0, <1>1, <1>6, Thresholds DEF GoesDown, Missed, GenChanged, Slot, t
  <2>2. u = IF s.live /\ t.changed > 0 THEN Active(t) ELSE IF s.live THEN t ELSE [t EXCEPT !.equal = 0]
    BY <1>6 DEF CheckSlot, t
  <2>3. u.read /\ u.gen = gen /\ u.live = s.live
    BY <1>1, <2>2 DEF Slot, Active
  <2>4. u.equal = IF s.live /\ ~(t.changed > 0) THEN t.equal ELSE 0
    BY <1>1, <2>2 DEF Slot, Active
  <2> HIDE DEF t
  <2> QED
    BY <1>0, <1>2, <2>1, <2>3, <2>4, Thresholds
<1> QED
  BY <1>3, <1>4, <1>5, <1>6

\* A pair stays as it is when what o keeps of n does not come alive or count, when
\* o has not more to do and when n, if it arms its timeout or ends its beat, has
\* written.
LEMMA PairStays ==
  ASSUME TimeInv, SameIncarnation', NEW o \in Node, NEW n \in Node, UNCHANGED faulty,
         slot'[o][n].live =>
           /\ slot[o][n].live /\ slot'[o][n].equal = slot[o][n].equal
           /\ slot'[o][n].gen = slot[o][n].gen /\ (slot'[o][n].read => slot[o][n].read),
         Seen(o, n)' /\ slot'[o][n].read =>
           /\ node[o].on /\ node[n].on /\ node'[n].gen = node[n].gen
           /\ node'[o].due => node[o].due
           /\ \/ node'[n].age = Unarmed \/ node'[n].spared
              \/ node'[n].age = node[n].age /\ node'[n].spared = node[n].spared
           /\ n \notin faulty /\ Done(n)' => Done(n)
  PROVE  Pair(o, n)'
<1>1. Pair(o, n)
  BY DEF TimeInv
<1>2. slot'[o][n].live => slot'[o][n].equal < DeadThreshold
  BY <1>1 DEF Pair
<1>3. Seen(o, n)' /\ slot'[o][n].read => Seen(o, n) /\ slot[o][n].read
  BY DEF Seen
<1>4. slot[o][n].equal \in Int /\ node[n].age \in Int
  BY Typed, Thresholds DEF TimeInv, Unarmed
<1>5. InTime(o, n)'
  <2> SUFFICES ASSUME Seen(o, n)', slot'[o][n].read, node'[n].age # Unarmed, ~node'[n].spared
               PROVE  slot'[o][n].equal + (IF node'[o].due THEN 1 ELSE 0) <= node'[n].age
    BY DEF InTime, Unarmed
  <2>1. /\ node'[n].age = node[n].age /\ slot'[o][n].equal = slot[o][n].equal
        /\ node'[o].due => node[o].due
    BY DEF Seen
  <2>2. slot[o][n].equal + (IF node[o].due THEN 1 ELSE 0) <= node[n].age
    BY <1>1, <1>3 DEF Pair, InTime
  <2> QED
    BY <1>4, <2>1, <2>2
<1>6. OneMissed(o, n)'
  BY <1>1, <1>3 DEF Pair, OneMissed, Seen
<1> QED
  BY <1>2, <1>5, <1>6 DEF Pair

\* A beat that starts changes the node's due, pc, own_slot_ok and membership_change.
LEMMA BeatFields ==
  ASSUME SameIncarnation, NEW n \in Node, BeatStart(n)
  PROVE  /\ \A m \in Node \ {n} : node'[m] = node[m]
         /\ ~node'[n].due /\ node'[n].pc = "writing"
         /\ node'[n].on = node[n].on /\ node'[n].gen = node[n].gen
         /\ node'[n].age = node[n].age /\ node'[n].spared = node[n].spared
<1>1. node \in [Node -> Region]
  BY DEF SameIncarnation, HbTypeOK
<1>2. PICK c : node' = [node EXCEPT ![n] = [node[n] EXCEPT !.due = FALSE, !.pc = "writing",
                                              !.ownOk = node[n].own, !.change = c]]
  BY DEF BeatStart
<1> QED
  BY <1>1, <1>2 DEF Region

\* The parts beside SameIncarnation
Rest == GensOld /\ PathsWork /\ OwnFresh /\ \A o, n \in Node : Pair(o, n)

\* A slot of which nothing is known
LEMMA UnknownFields ==
  ASSUME NEW gen
  PROVE  ~Unknown(gen).live /\ Unknown(gen).equal = 0 /\ Unknown(gen).gen = gen
BY DEF Unknown

\* A node that goes down keeps its generation and forgets the rest.
LEMMA DownInTime ==
  ASSUME TimeInv, SameIncarnation', NEW n \in Node, Down(n), UNCHANGED <<faulty, path, disk>>
  PROVE  Rest'
<1>1. /\ ~node'[n].on /\ node'[n].gen = node[n].gen
      /\ \A m \in Node \ {n} : node'[m] = node[m] /\ slot'[m] = slot[m]
      /\ \A k \in Node : slot'[n][k] = Unknown(Blank)
  BY DEF Down, Off, TimeInv, SameIncarnation, HbTypeOK
<1>2. \A m \in Node : Blank <= node[m].gen
  BY Typed DEF TimeInv, Blank
<1>3. GensOld'
  BY <1>1, <1>2, UnknownFields DEF GensOld, TimeInv
<1>4. PathsWork' /\ OwnFresh'
  BY <1>1, UnknownFields DEF PathsWork, OwnFresh, TimeInv
<1>5. ASSUME NEW o \in Node, NEW k \in Node PROVE Pair(o, k)'
  <2>1. CASE o = n
    BY <1>1, <2>1, UnknownFields, PairStays DEF Seen
  <2>2. CASE o # n /\ k = n
    BY <1>1, <2>2, PairStays DEF Seen
  <2>3. CASE o # n /\ k # n
    BY <1>1, <2>3, PairStays DEF Seen, Done
  <2> QED
    BY <2>1, <2>2, <2>3
<1> QED
  BY <1>3, <1>4, <1>5 DEF Rest

\* A node that starts knows nobody, and nobody has seen its generation yet.
LEMMA StartInTime ==
  ASSUME TimeInv, SameIncarnation', NEW n \in Node, Start(n)
  PROVE  Rest'
<1>1. /\ node'[n].gen = node[n].gen + 1
      /\ \A m \in Node \ {n} : node'[m] = node[m] /\ slot'[m] = slot[m]
      /\ \A k \in Node : slot'[n][k] = Unknown(disk[k])
      /\ UNCHANGED <<faulty, path, disk>>
  BY DEF Start, Off, TimeInv, SameIncarnation, HbTypeOK
<1>2. \A o, m \in Node : /\ node[m].gen \in Nat /\ disk[m] \in Int /\ slot[o][m].gen \in Int
                         /\ disk[m] <= node[m].gen /\ slot[o][m].gen <= node[m].gen
  BY Typed, Thresholds DEF TimeInv, GensOld, Block, Blank, Left, Gen
<1>3. GensOld'
  <2>1. ASSUME NEW m \in Node PROVE node[m].gen <= node'[m].gen /\ node'[m].gen \in Nat
    BY <1>1, <1>2
  <2>2. ASSUME NEW m \in Node PROVE disk'[m] <= node'[m].gen
    BY <1>1, <1>2, <2>1
  <2>3. ASSUME NEW o \in Node, NEW m \in Node PROVE slot'[o][m].gen <= node'[m].gen
    <3>1. slot'[o][m].gen \in {slot[o][m].gen, disk[m]}
      BY <1>1, UnknownFields
    <3> QED
      BY <1>2, <2>1, <3>1
  <2> QED
    BY <2>2, <2>3 DEF GensOld
<1>4. PathsWork' /\ OwnFresh'
  BY <1>1, UnknownFields DEF PathsWork, OwnFresh, TimeInv
<1>5. ASSUME NEW o \in Node, NEW k \in Node PROVE Pair(o, k)'
  <2>1. CASE o = n
    BY <1>1, <2>1, UnknownFields, PairStays DEF Seen
  <2>2. CASE o # n /\ k = n
    <3>1. slot'[o][k].gen # node'[k].gen
      BY <1>1, <1>2, <2>2
    <3> QED
      BY <1>1, <2>2, <3>1, PairStays DEF Seen
  <2>3. CASE o # n /\ k # n
    BY <1>1, <2>3, PairStays DEF Seen, Done
  <2> QED
    BY <2>1, <2>2, <2>3
<1> QED
  BY <1>3, <1>4, <1>5 DEF Rest

\* o2hb_check_slot: o counts at most one more equal sample, having had this period's
\* beat; none if it had not read the last beat.
LEMMA CheckedPair ==
  ASSUME TimeInv, SameIncarnation', NEW o \in Node, BeatStart(o), NEW n \in Node, n # o
  PROVE  Pair(o, n)'
<1> DEFINE s == slot[o][n]
           u == slot'[o][n]
<1>1. u = CheckSlot(s, disk[n])
  BY DEF BeatStart, Tracked, Reads, TimeInv, SameIncarnation, HbTypeOK
<1>2. /\ node'[n] = node[n] /\ node[o].on /\ node[o].due /\ ~node'[o].due /\ UNCHANGED faulty
  BY BeatFields DEF BeatStart, TimeInv
<1>3. s \in Slot /\ disk[n] \in Block /\ s.equal \in Nat /\ node[n].age \in Unarmed .. WriteTimeout
  BY Typed, Thresholds DEF TimeInv
<1>4. Pair(o, n)
  BY DEF TimeInv
<1>5. /\ u.live => u.equal < DeadThreshold
      /\ u.live /\ s.live => u.gen = s.gen /\ u.equal <= s.equal + 1
      /\ u.live /\ ~s.read => u.equal = 0 \/ u = s
      /\ u.live /\ ~s.live => u.equal = 0
  <2>1. s.live => s.equal < DeadThreshold
    BY <1>4 DEF Pair
  <2> HIDE DEF s, u
  <2> QED
    BY <1>1, <1>3, <2>1, CheckSlotCounts
<1>6. u.equal \in Nat
  BY Typed, Thresholds DEF Unarmed, SameIncarnation, HbTypeOK, Slot
<1>7. ASSUME Seen(o, n)', u.read
      PROVE  u.equal = 0 \/ (Seen(o, n) /\ s.read /\ u.equal <= s.equal + 1)
  BY <1>2, <1>5, <1>7 DEF Seen
<1>8. InTime(o, n)'
  <2> SUFFICES ASSUME Seen(o, n)', u.read, node[n].age # Unarmed, ~node[n].spared
               PROVE  u.equal <= node[n].age
    BY <1>2, <1>6 DEF InTime, Unarmed
  <2>1. CASE u.equal = 0
    BY <1>3, <2>1 DEF Unarmed
  <2>2. CASE Seen(o, n) /\ s.read /\ u.equal <= s.equal + 1
    <3>1. s.equal + 1 <= node[n].age
      BY <1>2, <1>4, <2>2 DEF Pair, InTime
    <3> QED
      BY <1>3, <1>6, <2>2, <3>1, Thresholds DEF Unarmed
  <2> QED
    BY <1>7, <2>1, <2>2
<1>9. OneMissed(o, n)'
  <2>1. ASSUME Seen(o, n)', u.read, n \notin faulty, u.equal > 0 PROVE ~Done(n)
    BY <1>2, <1>4, <1>7, <2>1 DEF Pair, OneMissed
  <2> QED
    BY <1>2, <2>1 DEF OneMissed, Done
<1> QED
  BY <1>5, <1>8, <1>9 DEF Pair

\* A beat starts: the pairs of the others are as before.
LEMMA BeatStartInTime ==
  ASSUME TimeInv, SameIncarnation', NEW n \in Node, BeatStart(n)
  PROVE  Rest'
<1>1. /\ \A m \in Node \ {n} : node'[m] = node[m] /\ slot'[m] = slot[m]
      /\ \A k \in Node : slot'[n][k] = CheckSlot(Tracked(n, k), Reads(n, k))
      /\ UNCHANGED <<faulty, path, disk>>
  BY DEF BeatStart, TimeInv, SameIncarnation, HbTypeOK
<1>2. /\ node[n].due /\ node'[n].pc = "writing" /\ node'[n].gen = node[n].gen
      /\ node'[n].on = node[n].on
      /\ node'[n].age = node[n].age /\ node'[n].spared = node[n].spared
  BY BeatFields DEF BeatStart, TimeInv
<1>3. ASSUME NEW k \in Node
      PROVE  /\ slot'[n][k].gen \in {slot[n][k].gen, Reads(n, k)}
             /\ k = n => slot'[n][k].equal = 0
  <2>1. slot[n][k] \in Slot /\ Reads(n, k) \in Block
    BY Typed, <1>1 DEF TimeInv, Reads, Region, Block
  <2>2. slot[n][k].live => slot[n][k].equal < DeadThreshold
    BY DEF TimeInv, Pair
  <2>3. /\ Tracked(n, k) \in Slot /\ Tracked(n, k).gen = slot[n][k].gen
        /\ Tracked(n, k).equal = slot[n][k].equal /\ Tracked(n, k).live = slot[n][k].live
        /\ k = n => ~Tracked(n, k).read
    BY <2>1 DEF Tracked, Slot
  <2>4. k = n => slot[n][k].equal = 0
    BY DEF TimeInv, OwnFresh
  <2> DEFINE u == slot'[n][k]
             s == Tracked(n, k)
  <2>5. u = CheckSlot(s, Reads(n, k))
    BY <1>1
  <2>6. s.live => s.equal < DeadThreshold
    BY <2>2, <2>3
  <2> HIDE DEF u, s
  <2>7. (u = s \/ u.gen = Reads(n, k)) /\ (s.equal = 0 /\ ~s.read => u.equal = 0)
    BY <2>1, <2>3, <2>5, <2>6, CheckSlotCounts DEF s
  <2> QED
    BY <2>3, <2>4, <2>7 DEF u, s
<1>4. GensOld'
  <2>1. \A k \in Node : node'[k].gen = node[k].gen /\ Reads(n, k) <= node[k].gen
    BY <1>1, <1>2, Typed DEF Reads, TimeInv, GensOld
  <2> QED
    BY <1>1, <1>3, <2>1 DEF TimeInv, GensOld
<1>5. PathsWork' /\ OwnFresh'
  BY <1>1, <1>3 DEF TimeInv, PathsWork, OwnFresh
<1>6. ASSUME NEW o \in Node, NEW k \in Node PROVE Pair(o, k)'
  <2>1. CASE o = n /\ k = n
    <3>1. slot'[n][n].equal = 0
      BY <1>3
    <3> QED
      BY <2>1, <3>1, Thresholds DEF Pair, InTime, OneMissed, Seen
  <2>2. CASE o = n /\ k # n
    BY <2>2, CheckedPair
  <2>3. CASE o # n
    BY <1>1, <1>2, <2>3, PairStays DEF Seen, Done
  <2> QED
    BY <2>1, <2>2, <2>3
<1> QED
  BY <1>4, <1>5, <1>6 DEF Rest

\* The block that is written is a new sample for everybody who runs: the timeout may
\* be armed, or not.
LEMMA WrittenInTime ==
  ASSUME TimeInv, SameIncarnation', NEW n \in Node, node[n].on, Written(n, node[n].gen),
         UNCHANGED <<faulty, path>>,
         \A m \in Node \ {n} : node'[m] = node[m],
         node'[n].gen = node[n].gen, node'[n].due = node[n].due
  PROVE  Rest'
<1>1. ASSUME NEW o \in Node, NEW k \in Node
      PROVE  /\ slot'[o][k].live = slot[o][k].live /\ slot'[o][k].equal = slot[o][k].equal
             /\ slot'[o][k].gen = slot[o][k].gen /\ (slot'[o][k].read => slot[o][k].read)
             /\ o # n /\ k = n /\ node[o].on => ~slot'[o][k].read
             /\ o = n \/ k # n => slot'[o][k] = slot[o][k]
  BY Typed DEF Written, TimeInv, SameIncarnation, HbTypeOK, Slot
<1>2. /\ disk'[n] = node[n].gen /\ \A m \in Node \ {n} : disk'[m] = disk[m]
      /\ \A m \in Node : node'[m].gen = node[m].gen /\ node[m].gen \in Nat
  BY Typed DEF Written, TimeInv, SameIncarnation, HbTypeOK
<1>3. GensOld'
  BY <1>1, <1>2 DEF GensOld, TimeInv
<1>4. PathsWork' /\ OwnFresh'
  BY <1>1 DEF PathsWork, OwnFresh, TimeInv
<1>5. ASSUME NEW o \in Node, NEW k \in Node PROVE Pair(o, k)'
  <2>1. CASE k = n
    BY <1>1, <2>1, PairStays DEF Seen
  <2>2. CASE k # n
    BY <1>1, <2>2, PairStays DEF Seen, Done
  <2> QED
    BY <2>1, <2>2
<1> QED
  BY <1>3, <1>4, <1>5 DEF Rest

\* A beat ends well or badly.
LEMMA BeatEndInTime ==
  ASSUME TimeInv, SameIncarnation', NEW n \in Node, BeatEnd(n)
  PROVE  Rest'
<1>1. node[n] \in Region
  BY Typed DEF TimeInv
<1> DEFINE r == IF node[n].ownOk THEN Armed(node[n], FALSE) ELSE node[n]
<1>2. r \in Region /\ r.gen = node[n].gen /\ r.due = node[n].due
  BY <1>1, ArmedTyped DEF Armed, Region
<1>3. node' = [node EXCEPT ![n] =
                 [r EXCEPT !.pc = "idle", !.own = TRUE, !.status = TRUE, !.ownOk = FALSE,
                           !.change = FALSE, !.steady = Steadier(@, r.ownOk, r.change)]]
  BY DEF BeatEnd
<1> HIDE DEF r
<1>4. node'[n].gen = node[n].gen /\ node'[n].due = node[n].due
  BY <1>2, <1>3 DEF Region, TimeInv, SameIncarnation, HbTypeOK
<1>5. \A m \in Node \ {n} : node'[m] = node[m]
  BY <1>3 DEF TimeInv, SameIncarnation, HbTypeOK
<1> QED
  BY <1>4, <1>5, WrittenInTime DEF BeatEnd

\* A node leaves with a block of generation 0.
LEMMA StopInTime ==
  ASSUME TimeInv, SameIncarnation', NEW n \in Node, Stop(n)
  PROVE  Rest'
<1>1. /\ ~node'[n].on /\ node'[n].gen = node[n].gen
      /\ \A m \in Node \ {n} : node'[m] = node[m]
      /\ \A k \in Node : slot'[n][k] = Unknown(Blank)
      /\ disk'[n] = Left /\ \A m \in Node \ {n} : disk'[m] = disk[m]
      /\ UNCHANGED <<faulty, path>>
  BY DEF Stop, Off, TimeInv, SameIncarnation, HbTypeOK
<1>2. ASSUME NEW o \in Node \ {n}, NEW k \in Node
      PROVE  /\ slot'[o][k].live = slot[o][k].live /\ slot'[o][k].equal = slot[o][k].equal
             /\ slot'[o][k].gen = slot[o][k].gen
             /\ k # n => slot'[o][k] = slot[o][k]
             /\ slot'[o][k].read => slot[o][k].read
  BY Typed DEF Stop, TimeInv, SameIncarnation, HbTypeOK, Slot
<1>3. \A m \in Node : Blank <= node[m].gen /\ Left <= node[m].gen
  BY Typed DEF TimeInv, Blank, Left
<1>4. GensOld'
  BY <1>1, <1>2, <1>3, UnknownFields DEF GensOld, TimeInv
<1>5. PathsWork' /\ OwnFresh'
  BY <1>1, <1>2, UnknownFields DEF PathsWork, OwnFresh, TimeInv
<1>6. ASSUME NEW o \in Node, NEW k \in Node PROVE Pair(o, k)'
  <2>1. CASE o = n
    BY <1>1, <2>1, UnknownFields, PairStays DEF Seen
  <2>2. CASE o # n /\ k = n
    BY <1>1, <1>2, <2>2, PairStays DEF Seen
  <2>3. CASE o # n /\ k # n
    BY <1>1, <1>2, <2>3, PairStays DEF Seen, Done
  <2> QED
    BY <2>1, <2>2, <2>3
<1> QED
  BY <1>4, <1>5, <1>6 DEF Rest

\* A write that fails may have made it to disk; it arms nothing.
LEMMA WriteErrorInTime ==
  ASSUME TimeInv, SameIncarnation', NEW n \in Node, WriteError(n)
  PROVE  Rest'
<1>1. node[n] \in Region
  BY Typed DEF TimeInv
<1>2. ASSUME NEW b \in {TRUE, FALSE}
      PROVE  LET r == WroteBadly(node[n], b)
             IN  /\ r.on = node[n].on /\ r.gen = node[n].gen /\ r.due = node[n].due
                 /\ r.age = node[n].age /\ r.spared = node[n].spared
  BY <1>1 DEF WroteBadly, Region
<1>3. /\ \A m \in Node \ {n} : node'[m] = node[m]
      /\ node'[n].on = node[n].on /\ node'[n].gen = node[n].gen /\ node'[n].due = node[n].due
      /\ node'[n].age = node[n].age /\ node'[n].spared = node[n].spared
      /\ n \in faulty /\ UNCHANGED <<faulty, path>>
  <2>1. PICK b \in {TRUE, FALSE} : node' = [node EXCEPT ![n] = WroteBadly(node[n], b)]
    BY DEF WriteError
  <2> QED
    BY <1>2, <2>1 DEF WriteError, TimeInv, SameIncarnation, HbTypeOK
<1>4. CASE Written(n, node[n].gen)
  BY <1>3, <1>4, WrittenInTime DEF WriteError
<1>5. CASE UNCHANGED <<disk, slot>>
  <2>1. GensOld' /\ PathsWork' /\ OwnFresh'
    BY <1>3, <1>5 DEF TimeInv, GensOld, PathsWork, OwnFresh
  <2>2. ASSUME NEW o \in Node, NEW k \in Node PROVE Pair(o, k)'
    BY <1>3, <1>5, PairStays DEF Seen, Done
  <2> QED
    BY <2>1, <2>2 DEF Rest
<1> QED
  BY <1>4, <1>5 DEF WriteError

\* The region of one node changes, and neither it nor the slots anything that counts:
\* a read fails, the node negotiates.
Idles(n) ==
  /\ UNCHANGED <<faulty, path, disk, slot>>
  /\ \A m \in Node \ {n} : node'[m] = node[m]
  /\ node'[n].on = node[n].on /\ node'[n].gen = node[n].gen
  /\ node'[n].due => node[n].due
  /\ node'[n].spared \/ (node'[n].age = node[n].age /\ node'[n].spared = node[n].spared)
  /\ n \notin faulty => (Done(n)' => Done(n))

\* Such a step leaves every pair as it is.
LEMMA IdlesInTime ==
  ASSUME TimeInv, SameIncarnation', NEW n \in Node, Idles(n)
  PROVE  Rest'
<1>1. GensOld' /\ PathsWork' /\ OwnFresh'
  BY DEF Idles, TimeInv, GensOld, PathsWork, OwnFresh
<1>2. ASSUME NEW o \in Node, NEW k \in Node PROVE Pair(o, k)'
  BY PairStays DEF Idles, Seen, Done
<1> QED
  BY <1>1, <1>2 DEF Rest

\* A timeout that a negotiation arms is marked.
LEMMA SparedFields ==
  ASSUME NEW r \in Region
  PROVE  LET q == Armed(r, TRUE)
         IN  /\ q.on = r.on /\ q.gen = r.gen /\ q.due = r.due /\ q.pc = r.pc
             /\ q.spared \/ (q.age = r.age /\ q.spared = r.spared)
BY DEF Armed, Region

\* Failing reads and the negotiation
LEMMA NodeInTime ==
  ASSUME TimeInv, SameIncarnation', NEW n \in Node,
         ReadError(n) \/ NegoGivesUp(n) \/ NegoAsks(n) \/ NegoWaits(n) \/ NegoApproves(n)
  PROVE  Rest'
<1>1. node[n] \in Region /\ node \in [Node -> Region]
  BY Typed DEF TimeInv, SameIncarnation, HbTypeOK
<1>2. CASE ReadError(n)
  <2>1. Idles(n)
    BY <1>1, <1>2 DEF ReadError, Idles, Region
  <2> QED
    BY <2>1, IdlesInTime
<1>3. CASE NegoGivesUp(n) \/ NegoAsks(n) \/ NegoWaits(n)
  <2>1. Idles(n)
    BY <1>1, <1>3 DEF NegoGivesUp, NegoAsks, NegoWaits, Idles, Region, Done
  <2> QED
    BY <2>1, IdlesInTime
<1>4. CASE NegoApproves(n)
  <2>1. Idles(n)
    BY <1>1, <1>4, SparedFields DEF NegoApproves, Idles, Done
  <2> QED
    BY <2>1, IdlesInTime
<1> QED
  BY <1>2, <1>3, <1>4

\* The handlers of the negotiation
LEMMA ReceiveInTime ==
  ASSUME TimeInv, SameIncarnation', NEW m \in mail, Receive(m)
  PROVE  Rest'
<1>1. m.to \in Node /\ node[m.to] \in Region /\ node \in [Node -> Region]
  BY DEF TimeInv, SameIncarnation, HbTypeOK, Mail
<1>2. Idles(m.to)
  <2>1. CASE ~node[m.to].on
    BY <1>1, <2>1 DEF Receive, Idles, Done
  <2>2. CASE node[m.to].on /\ m.type = "timeout"
    BY <1>1, <2>2 DEF Receive, Idles, Done, Region
  <2>3. CASE node[m.to].on /\ m.type # "timeout"
    BY <1>1, <2>3, SparedFields DEF Receive, Idles, Done
  <2> QED
    BY <2>1, <2>2, <2>3
<1> QED
  BY <1>1, <1>2, IdlesInTime

\* Paths hang and heal; only those of faulty nodes hang.
LEMMA PathInTime ==
  ASSUME TimeInv, SameIncarnation', NEW n \in Node, Hangs(n) \/ Heals(n)
  PROVE  Rest'
<1>1. GensOld' /\ PathsWork' /\ OwnFresh'
  BY DEF Hangs, Heals, TimeInv, GensOld, PathsWork, OwnFresh
<1>2. ASSUME NEW o \in Node, NEW k \in Node PROVE Pair(o, k)'
  BY PairStays DEF Hangs, Heals, Seen, Done
<1> QED
  BY <1>1, <1>2 DEF Rest

\* A period ends when those whose path works have had their beat: the others have a
\* beat to do, and the timeouts count one more.
LEMMA TickInTime ==
  ASSUME TimeInv, SameIncarnation', Tick
  PROVE  Rest'
<1>1. UNCHANGED <<faulty, path, disk, slot>>
  BY DEF Tick
<1>2. ASSUME NEW m \in Node
      PROVE  /\ node'[m].on = node[m].on /\ node'[m].gen = node[m].gen
             /\ node'[m].spared = node[m].spared
             /\ node[m].on => /\ node'[m].due
                              /\ node'[m].age = IF node[m].age = Unarmed THEN node[m].age
                                                ELSE node[m].age + 1
             /\ node[m].on /\ m \notin faulty => Done(m)
  <2>1. node[m] \in Region /\ PathsWork
    BY Typed DEF TimeInv
  <2> QED
    BY <2>1 DEF Tick, Region, Done, PathsWork
<1>3. GensOld' /\ PathsWork' /\ OwnFresh'
  BY <1>1, <1>2 DEF TimeInv, GensOld, PathsWork, OwnFresh
<1>4. ASSUME NEW o \in Node, NEW n \in Node PROVE Pair(o, n)'
  <2>1. Pair(o, n)
    BY DEF TimeInv
  <2>2. slot[o][n].equal \in Int /\ node[n].age \in Unarmed .. WriteTimeout
    BY Typed, Thresholds DEF TimeInv
  <2>3. Seen(o, n)' => Seen(o, n)
    BY <1>1, <1>2 DEF Seen
  <2>4. InTime(o, n)'
    <3> SUFFICES ASSUME Seen(o, n)', slot[o][n].read, node'[n].age # Unarmed, ~node[n].spared
                 PROVE  slot[o][n].equal + (IF node'[o].due THEN 1 ELSE 0) <= node'[n].age
      BY <1>1, <1>2 DEF InTime, Unarmed
    <3>1. node'[o].due /\ node[n].age # Unarmed /\ node'[n].age = node[n].age + 1
      BY <1>2, <2>3 DEF Seen
    <3>2. slot[o][n].equal + (IF node[o].due THEN 1 ELSE 0) <= node[n].age
      BY <2>1, <2>3, <3>1 DEF Pair, InTime
    <3>3. slot[o][n].equal <= node[n].age
      BY <2>2, <3>2, Thresholds DEF Unarmed
    <3> QED
      BY <2>2, <3>1, <3>3, Thresholds DEF Unarmed
  <2>5. OneMissed(o, n)'
    <3> SUFFICES ASSUME Seen(o, n)', slot[o][n].read, n \notin faulty
                 PROVE  ~Done(n)' /\ ~(slot[o][n].equal > 0)
      BY <1>1 DEF OneMissed
    <3>1. Seen(o, n) /\ Done(n) /\ node'[n].due
      BY <1>2, <2>3 DEF Seen
    <3> QED
      BY <2>1, <3>1 DEF Pair, OneMissed, Done
  <2> QED
    BY <1>1, <2>1, <2>4, <2>5 DEF Pair
<1> QED
  BY <1>3, <1>4 DEF Rest

----------------------------------------------------------------------------
\* At the start nobody has counted anything.
LEMMA TimeStarts == HbInit => TimeInv
<1> SUFFICES ASSUME HbInit PROVE TimeInv
  OBVIOUS
<1>1. SameIncarnation
  BY HbStarts
<1>2. \A n \in Node : /\ node[n] = Off /\ disk[n] = Blank
                      /\ \A o \in Node : slot[o][n] = Unknown(Blank)
  BY DEF HbInit
<1>3. GensOld
  BY <1>2, UnknownFields DEF GensOld, Off, Blank, Left
<1>4. PathsWork /\ OwnFresh
  BY <1>2, UnknownFields DEF HbInit, PathsWork, OwnFresh
<1>5. \A o, n \in Node : Pair(o, n)
  BY <1>2, UnknownFields DEF Pair, InTime, OneMissed, Seen
<1> QED
  BY <1>1, <1>3, <1>4, <1>5 DEF TimeInv

\* Every step preserves the invariant.
LEMMA TimeStepKeeps == TimeInv /\ [HbNext]_hbVars => TimeInv'
<1> SUFFICES ASSUME TimeInv, [HbNext]_hbVars PROVE TimeInv'
  OBVIOUS
<1>1. SameIncarnation'
  BY HbStepKeeps DEF TimeInv
<1>2. Rest'
  <2>1. ASSUME NEW n \in Node, Start(n) \/ BeatStart(n) \/ BeatEnd(n) \/ WriteError(n) \/ Stop(n)
        PROVE  Rest'
    BY <1>1, <2>1, StartInTime, BeatStartInTime, BeatEndInTime, WriteErrorInTime, StopInTime
  <2>2. ASSUME NEW n \in Node, Crash(n) \/ Fence(n) PROVE Rest'
    BY <1>1, <2>2, DownInTime DEF Crash, Fence
  <2>3. ASSUME NEW n \in Node,
               \/ ReadError(n) \/ NegoGivesUp(n) \/ NegoAsks(n) \/ NegoWaits(n) \/ NegoApproves(n)
               \/ Hangs(n) \/ Heals(n)
        PROVE  Rest'
    BY <1>1, <2>3, NodeInTime, PathInTime
  <2>4. ASSUME NEW m \in mail, Receive(m) PROVE Rest'
    BY <1>1, <2>4, ReceiveInTime
  <2>5. CASE Tick
    BY <1>1, <2>5, TickInTime
  <2>6. CASE UNCHANGED hbVars
    BY <2>6 DEF hbVars, TimeInv, Rest, GensOld, PathsWork, OwnFresh, Pair, InTime, OneMissed, Seen, Done
  <2> QED
    BY <2>1, <2>2, <2>3, <2>4, <2>5, <2>6 DEF HbNext
<1> QED
  BY <1>1, <1>2 DEF TimeInv, Rest

\* Only a beat of o takes n from its live nodes while both run: it has counted one
\* equal sample too many of n.
LEMMA DeathCounted ==
  ASSUME TimeInv, [HbNext]_hbVars, NEW o \in Node, NEW n \in Node, CallsDead(o, n)
  PROVE  /\ Seen(o, n) /\ slot[o][n].read /\ node[o].due
         /\ slot[o][n].equal + 1 >= DeadThreshold
<1>1. node[o].on /\ node'[o].on /\ slot[o][n].live /\ ~slot'[o][n].live
  BY DEF CallsDead
<1>2. BeatStart(o)
  <2>1. slot'[o][n] # slot[o][n] /\ slot \in [Node -> [Node -> Slot]] /\ node \in [Node -> Region]
    BY <1>1 DEF TimeInv, SameIncarnation, HbTypeOK
  <2>2. ASSUME NEW k, NEW gen, Written(k, gen) PROVE slot'[o][n].live = slot[o][n].live
    <3>1. slot'[o] \in {slot[o], [slot[o] EXCEPT ![k].read = FALSE]}
      BY <2>2 DEF Written
    <3>2. slot'[o][n] \in {slot[o][n], [slot[o][n] EXCEPT !.read = FALSE]}
      BY <2>1, <3>1
    <3>3. slot[o][n] \in Slot
      BY <2>1
    <3> QED
      BY <3>2, <3>3 DEF Slot
  <2>3. ASSUME NEW k \in Node PROVE ~BeatEnd(k) /\ ~WriteError(k)
    BY <1>1, <2>1, <2>2 DEF BeatEnd, WriteError
  <2>4. ASSUME NEW k \in Node PROVE ~Start(k)
    BY <1>1, <2>1 DEF Start
  <2>5. ASSUME NEW k \in Node PROVE ~Stop(k)
    <3> SUFFICES ASSUME Stop(k) PROVE FALSE
      OBVIOUS
    <3>1. ~node'[k].on
      BY <2>1 DEF Stop, Off
    <3>2. slot'[o] \in {slot[o], [slot[o] EXCEPT ![k].read = FALSE]}
      BY <1>1, <3>1 DEF Stop
    <3>3. slot'[o][n] \in {slot[o][n], [slot[o][n] EXCEPT !.read = FALSE]}
      BY <2>1, <3>2
    <3>4. slot[o][n] \in Slot
      BY <2>1
    <3> QED
      BY <1>1, <3>3, <3>4 DEF Slot
  <2>6. ASSUME NEW k \in Node PROVE ~Crash(k) /\ ~Fence(k)
    <3>1. ASSUME Down(k) PROVE FALSE
      <4>1. ~node'[k].on
        BY <2>1, <3>1 DEF Down, Off
      <4>2. slot'[o] = slot[o]
        BY <1>1, <2>1, <3>1, <4>1 DEF Down
      <4> QED
        BY <1>1, <4>2
    <3> QED
      BY <3>1 DEF Crash, Fence
  <2>7. ASSUME NEW k \in Node, BeatStart(k) PROVE k = o
    BY <2>1, <2>7 DEF BeatStart
  <2>8. ASSUME NEW k \in Node
        PROVE  /\ ~ReadError(k) /\ ~NegoGivesUp(k) /\ ~NegoAsks(k) /\ ~NegoWaits(k) /\ ~NegoApproves(k)
               /\ ~Hangs(k) /\ ~Heals(k)
    BY <2>1 DEF ReadError, NegoGivesUp, NegoAsks, NegoWaits, NegoApproves, Hangs, Heals
  <2>9. ~Tick /\ ~UNCHANGED hbVars /\ \A m \in mail : ~Receive(m)
    BY <2>1 DEF Tick, hbVars, Receive
  <2> QED
    BY <2>3, <2>4, <2>5, <2>6, <2>7, <2>8, <2>9 DEF HbNext
<1> DEFINE s == Tracked(o, n)
           u == slot'[o][n]
<1>3. u = CheckSlot(s, Reads(o, n)) /\ node[o].due
  BY <1>2 DEF BeatStart, TimeInv, SameIncarnation, HbTypeOK
<1>4. slot[o][n] \in Slot /\ Reads(o, n) \in Block
  BY Typed DEF TimeInv, Reads, Region, Block
<1>5. /\ s \in Slot /\ s.gen = slot[o][n].gen /\ s.live = slot[o][n].live
      /\ s.equal = slot[o][n].equal /\ (s.read => o # n /\ slot[o][n].read)
  BY <1>4 DEF Tracked, Slot
<1>6. s.live => s.equal < DeadThreshold
  BY <1>5 DEF TimeInv, Pair
<1>7. u.gen = s.gen
  BY <1>5 DEF CallsDead
<1>8. s.live /\ ~u.live
  BY <1>1, <1>5
<1> HIDE DEF s, u
<1>9. s.read /\ s.equal + 1 >= DeadThreshold
  BY <1>3, <1>4, <1>5, <1>6, <1>7, <1>8, CheckSlotCounts
<1> QED
  BY <1>3, <1>5, <1>9 DEF CallsDead, Seen

\* A node whose write timeout was armed by its last good beat has fenced itself by the
\* time another calls it dead for DeadThreshold equal samples (o2hb_check_slot,
\* o2hb_arm_timeout), whatever the nodes' order in each period.
THEOREM FencedBeforeDead == HbSpec => FencedInTime
<1>1. ASSUME TimeInv, [HbNext]_hbVars, NEW o \in Node, NEW n \in Node, CallsDead(o, n)
      PROVE  node[n].age = Unarmed \/ node[n].spared
  <2>1. Seen(o, n) /\ slot[o][n].read /\ node[o].due /\ slot[o][n].equal + 1 >= DeadThreshold
    BY <1>1, DeathCounted
  <2>2. SUFFICES ASSUME node[n].age # Unarmed, ~node[n].spared PROVE FALSE
    OBVIOUS
  <2>3. slot[o][n].equal + 1 <= node[n].age
    BY <1>1, <2>1, <2>2 DEF TimeInv, Pair, InTime
  <2>4. slot[o][n].equal \in Int /\ node[n].age \in Unarmed .. WriteTimeout
    BY <1>1, Typed, Thresholds DEF TimeInv
  <2> QED
    BY <2>1, <2>3, <2>4, ThresholdAssumption DEF Unarmed
<1>2. TimeInv /\ [HbNext]_hbVars =>
        [\A o, n \in Node : CallsDead(o, n) => node[n].age = Unarmed \/ node[n].spared]_hbVars
  BY <1>1
<1> QED
  BY <1>2, TimeStarts, TimeStepKeeps, PTL DEF HbSpec, FencedInTime

\* A node whose path works is never called dead (o2hb_check_slot): of two samples in
\* a row one has a new beat.
THEOREM BeatingStaysLive == HbSpec => BeatingIsLive
<1>1. ASSUME TimeInv, [HbNext]_hbVars, NEW o \in Node, NEW n \in Node, CallsDead(o, n)
      PROVE  n \in faulty
  <2>1. Seen(o, n) /\ slot[o][n].read /\ node[o].due /\ slot[o][n].equal + 1 >= DeadThreshold
    BY <1>1, DeathCounted
  <2>2. n \notin faulty => ~(slot[o][n].equal > 0)
    BY <1>1, <2>1 DEF TimeInv, Pair, OneMissed
  <2>3. slot[o][n].equal \in Int
    BY <1>1, Typed, Thresholds DEF TimeInv
  <2> QED
    BY <2>1, <2>2, <2>3, ThresholdAssumption
<1>2. TimeInv /\ [HbNext]_hbVars =>
        [\A o, n \in Node : CallsDead(o, n) => n \in faulty]_hbVars
  BY <1>1
<1> QED
  BY <1>2, TimeStarts, TimeStepKeeps, PTL DEF HbSpec, BeatingIsLive
=================================================================================
