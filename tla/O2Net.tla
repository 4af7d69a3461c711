-------------------------------- MODULE O2Net --------------------------------
(***************************************************************************)
(* tcp.c as one node runs it: the connection to each peer, its idle timer, *)
(* the callbacks of heartbeat, the messages sent and their replies, and    *)
(* the quorum state of quorum.c that all of these feed.                    *)
(*                                                                         *)
(* Threads: the ordered workqueue o2net_wq, which runs one work at a time  *)
(* (connect, accept, receive, shutdown and the delayed works); the timers; *)
(* the heartbeat thread; the senders; and the work of the quorum decision. *)
(* A step is a critical section of nn_lock or qs_lock, or the code between *)
(* two of them.  The peers and the network are free to do anything.  The   *)
(* works of a peer's sockets run in the order they were queued; delayed    *)
(* works and accepts are queued at a time of their own, hence run at any.  *)
(*                                                                         *)
(* Bounds: Sc socket containers per peer, one message of a sender at a time.          *)
(***************************************************************************)
EXTENDS O2Quo, Sequences

CONSTANTS
  Setups,      \* the nodes that are modelled, one per behaviour
  Peer,        \* the other nodes
  Sc,          \* the socket containers a peer may have at a time
  Sender,      \* the processes that send a message
  TargetOf     \* TargetOf[s]: to whom

\* The number of the node, o2nm_this_node(); whether other threads run in the
\* windows of a few instructions that the code leaves open (see Undisturbed);
\* which processes send; how many containers
ASSUME SetupsAssumption ==
  Setups \subseteq [me : Nat \ Peer, races : BOOLEAN,
                    senders : SUBSET Sender, containers : SUBSET Sc]
ASSUME PeerAssumption == Peer \subseteq Nat
ASSUME TargetAssumption == TargetOf \in [Sender -> Peer]
ASSUME ScAssumption == Sc \subseteq Nat \ {0}
ASSUME SenderAssumption == IsFiniteSet(Sender)

Free == 0                     \* no socket container
MsgId == 0 .. Cardinality(Sender)
Keepalive == [id |-> -1]      \* a message that answers nothing
Reply == [id : MsgId, of : Sender]

VARIABLES
  setup,       \* which of Setups this is
  quo,         \* o2quo_state
  fenced,      \* o2quo_fence_self() has been called
  live,        \* o2hb_live_node_bitmap, for the peers
  hb,          \* the heartbeat thread: where in which callback
  nn,          \* o2net_nodes
  scs,         \* the socket containers
  queue,       \* sc_rx_work and sc_shutdown_work of a peer, on o2net_wq
  wq,          \* the work on o2net_wq that is between two steps
  ticking,     \* the idle timer that is being handled
  snd,         \* the senders
  wire         \* the replies under way on a container's socket

netVars == <<nn, scs, queue, wq, ticking>>
tcpVars == <<quo, fenced, live, hb, netVars, snd, wire>>

me == setup.me

NoPeer == -1
Container == [cb : BOOLEAN,      \* the socket's callbacks are registered
              timer : BOOLEAN,   \* sc_idle_timeout is pending
              hand : BOOLEAN]    \* sc_handshake_ok
Unused == [cb |-> FALSE, timer |-> FALSE, hand |-> FALSE]
New == [Unused EXCEPT !.cb = TRUE]
ScWork == [work : {"rx", "shut"}, sc : Sc]
Rx(i) == [work |-> "rx", sc |-> i]
Shut(i) == [work |-> "shut", sc |-> i]

\* queue_work(): a work that is queued already is not queued again
Queue(q, w) == IF \E k \in DOMAIN q : q[k] = w THEN q ELSE Append(q, w)
QueuedOnce(q) == \A j, k \in DOMAIN q : q[j] = q[k] => j = k
Queued(p, w) == \E k \in DOMAIN queue[p] : queue[p][k] = w
AtHead(p, w) == queue[p] # <<>> /\ Head(queue[p]) = w

NodeState == [sc : Sc \union {Free}, valid : BOOLEAN,   \* nn_sc, nn_sc_valid
              err : BOOLEAN,      \* nn_persistent_error, always -ENOTCONN
              timeout : BOOLEAN,  \* nn_timeout
              connect : BOOLEAN, expired : BOOLEAN, stillUp : BOOLEAN]
                                  \* the delayed works that are queued

NetTypeOK ==
  /\ setup \in Setups
  /\ quo \in QuorumState(Peer \union {me})
  /\ fenced \in BOOLEAN
  /\ live \in SUBSET Peer
  /\ hb \in [pc : {"idle", "up", "upNet", "down", "disconnect", "cancel",
                   "flush"}, node : Peer \union {NoPeer}]
  /\ nn \in [Peer -> NodeState]
  /\ scs \in [Peer -> [Sc -> Container]]
  /\ queue \in [Peer -> Seq(ScWork)]
  /\ \A p \in Peer : QueuedOnce(queue[p])
  /\ wq \in [work : {"idle", "connect", "accept", "postpone"},
             peer : Peer \union {NoPeer}, sc : Sc \union {Free},
             msg : Reply \union {Keepalive}]
  /\ ticking \in [Peer -> Sc \union {Free}]
  /\ snd \in [Sender -> [pc : {"idle", "ready", "registered", "sent"},
                         sc : Sc \union {Free}, id : MsgId,
                         got : Sender \union {"nothing", "died"}]]
  /\ wire \in [Peer -> [Sc -> SUBSET Reply]]

NotSending == [pc |-> "idle", sc |-> Free, id |-> 0, got |-> "nothing"]
Idle == [work |-> "idle", peer |-> NoPeer, sc |-> Free, msg |-> Keepalive]

NetInit ==
  /\ setup \in Setups
  /\ quo = QuorumInit(me)
  /\ fenced = FALSE
  /\ live = {}
  /\ hb = [pc |-> "idle", node |-> NoPeer]
  /\ nn = [p \in Peer |-> [sc |-> Free, valid |-> FALSE, err |-> TRUE,
                           timeout |-> FALSE, connect |-> FALSE,
                           expired |-> FALSE, stillUp |-> FALSE]]
  /\ scs = [p \in Peer |-> [i \in Sc |-> Unused]]
  /\ queue = [p \in Peer |-> <<>>]
  /\ wq = Idle
  /\ ticking = [p \in Peer |-> Free]
  /\ snd = [s \in Sender |-> NotSending]
  /\ wire = [p \in Peer |-> [i \in Sc |-> {}]]

\* The node runs: it has not reset itself nor hit a BUG
Running == ~fenced /\ ~quo.bug

(***************************************************************************)
(* The windows: between the check and the update in o2net_start_connect(), *)
(* o2net_accept_one() and o2net_sc_postpone_idle(), between the two halves *)
(* of o2net_idle_timer(), between unlock and cancel in                     *)
(* o2net_disconnect_node(), and from o2net_tx_can_proceed() to the send.   *)
(***************************************************************************)
Undisturbed ==
  /\ Running
  /\ \/ setup.races
     \/ /\ wq = Idle /\ hb.pc # "cancel"
        /\ \A p \in Peer : ticking[p] = Free
        /\ \A s \in Sender : snd[s].pc \notin {"ready", "registered"}

(***************************************************************************)
(* o2net_status_wait: a sender is on nn_status_list, with its id in        *)
(* nn_status_idr, from o2net_prep_nsw() until it is completed.             *)
(***************************************************************************)
Registered(s) == snd[s].pc \in {"registered", "sent"} /\ snd[s].got = "nothing"
Waiters(p) == {s \in Sender : TargetOf[s] = p /\ Registered(s)}

\* Mutant of AllDied: nobody is told
AllDiedUntold(p) == snd

\* o2net_complete_nodes_nsw()
AllDied(p) ==
  [s \in Sender |-> IF s \in Waiters(p) THEN [snd[s] EXCEPT !.got = "died"]
                                        ELSE snd[s]]

\* o2net_complete_nsw(): whoever has the id now gets the status
Answered(p, r) ==
  [s \in Sender |-> IF s \in Waiters(p) /\ snd[s].id = r.id
                      THEN [snd[s] EXCEPT !.got = r.of] ELSE snd[s]]

(***************************************************************************)
(* o2net_set_nn_state(), under nn_lock, from the state n of the peer and q *)
(* of the works queued for it.                                             *)
(***************************************************************************)
\* Mutant of AfterSet: queued only when a connection is lost
AfterSetOnLoss(n, sc, valid, err) ==
  LET lost == n.valid /\ ~valid
      e == err \/ lost
  IN  [n EXCEPT !.sc = sc, !.valid = valid, !.err = e,
                !.connect = @ \/ lost,
                !.expired = IF valid THEN n.valid /\ @ ELSE @ \/ lost,
                !.stillUp = @ \/ (n.valid /\ ~n.err /\ e)]

AfterSet(n, sc, valid, err) ==
  LET lost == n.valid /\ ~valid
      e == err \/ lost
  IN  [n EXCEPT !.sc = sc, !.valid = valid, !.err = e,
                !.connect = @ \/ ~valid,
                !.expired = IF valid THEN n.valid /\ @ ELSE TRUE,
                !.stillUp = @ \/ (n.valid /\ ~n.err /\ e)]

SetNnState(n, q, p, sc, valid, err) ==
  LET after == AfterSet(n, sc, valid, err)
  IN  /\ nn' = [nn EXCEPT ![p] = after]
      /\ queue' = [queue EXCEPT ![p] = IF n.sc \notin {Free, sc}
                                         THEN Queue(q, Shut(n.sc)) ELSE q]
      /\ quo' = IF sc # Free /\ n.sc \notin {Free, sc}
                  THEN [quo EXCEPT !.bug = TRUE]
                ELSE IF n.valid /\ ~n.err /\ after.err THEN ConnErr(quo, p)
                ELSE IF ~n.valid /\ valid THEN ConnUp(quo, p)
                ELSE quo
      /\ snd' = IF n.valid /\ ~valid THEN AllDied(p) ELSE snd

\* o2net_ensure_shutdown()
EnsureShutdown(q, p, i, err) ==
  IF nn[p].sc = i THEN SetNnState(nn[p], q, p, Free, FALSE, err)
  ELSE queue' = [queue EXCEPT ![p] = q] /\ UNCHANGED <<nn, quo, snd>>

(***************************************************************************)
(* Connecting and accepting, in two steps each: the check under nn_lock,   *)
(* and the new container put in place under nn_lock again.                 *)
(***************************************************************************)
InUse(p, i) ==
  \/ nn[p].sc = i \/ scs[p][i].cb \/ scs[p][i].timer
  \/ Queued(p, Rx(i)) \/ Queued(p, Shut(i))
  \/ ticking[p] = i \/ (wq.peer = p /\ wq.sc = i)
  \/ \E s \in Sender : /\ TargetOf[s] = p /\ snd[s].sc = i
                       /\ snd[s].pc # "idle"

\* What sc_alloc() returns; which of the free ones does not matter
IsFresh(p, i) ==
  /\ i \in setup.containers
  /\ ~InUse(p, i)
  /\ \A j \in setup.containers : j < i => InUse(p, j)

\* Only the higher node connects; not if there is a connection, nor after an
\* error unless the connection timed out
MayConnect(p) ==
  /\ me > p
  /\ nn[p].sc = Free
  /\ nn[p].err => nn[p].timeout

StartConnect(p) ==
  /\ Undisturbed /\ wq = Idle
  /\ nn[p].connect
  /\ nn' = [nn EXCEPT ![p].connect = FALSE]
  /\ wq' = IF MayConnect(p) THEN [Idle EXCEPT !.work = "connect", !.peer = p]
                            ELSE wq
  /\ UNCHANGED <<quo, fenced, live, hb, scs, queue, ticking, snd, wire>>

\* sc_alloc() fails: nothing is queued again
NoContainer(p) ==
  /\ Running /\ wq.work \in {"connect", "accept"} /\ wq.peer = p
  /\ wq' = Idle
  /\ UNCHANGED <<quo, fenced, live, hb, nn, scs, queue, ticking, snd, wire>>

ConnectSet(p, i) ==
  /\ Running /\ wq.work = "connect" /\ wq.peer = p
  /\ IsFresh(p, i)
  /\ wq' = Idle
  /\ SetNnState(nn[p], queue[p], p, i, FALSE, FALSE)
  /\ scs' = [scs EXCEPT ![p][i] = New]
  /\ wire' = [wire EXCEPT ![p][i] = {}]
  /\ UNCHANGED <<fenced, live, hb, ticking>>

\* The peer must be the higher node, and heartbeating
AcceptOne(p) ==
  /\ Undisturbed /\ wq = Idle
  /\ me < p /\ p \in live
  /\ nn[p].sc = Free
  /\ wq' = [Idle EXCEPT !.work = "accept", !.peer = p]
  /\ UNCHANGED <<quo, fenced, live, hb, nn, scs, queue, ticking, snd, wire>>

AcceptSet(p, i) ==
  /\ Running /\ wq.work = "accept" /\ wq.peer = p
  /\ IsFresh(p, i)
  /\ wq' = Idle
  /\ SetNnState([nn[p] EXCEPT !.timeout = FALSE], Queue(queue[p], Rx(i)),
                p, i, FALSE, FALSE)
  /\ scs' = [scs EXCEPT ![p][i] = New]
  /\ wire' = [wire EXCEPT ![p][i] = {}]
  /\ UNCHANGED <<fenced, live, hb, ticking>>

(***************************************************************************)
(* The socket's callbacks, and the works they queue.                       *)
(***************************************************************************)
DataReady(p, i) ==
  /\ Undisturbed
  /\ scs[p][i].cb /\ ~Queued(p, Rx(i))
  /\ queue' = [queue EXCEPT ![p] = Append(@, Rx(i))]
  /\ UNCHANGED <<quo, fenced, live, hb, nn, scs, wq, ticking, snd, wire>>

StateChange(p, i) ==
  /\ Undisturbed
  /\ scs[p][i].cb /\ ~Queued(p, Shut(i))
  /\ queue' = [queue EXCEPT ![p] = Append(@, Shut(i))]
  /\ UNCHANGED <<quo, fenced, live, hb, nn, scs, wq, ticking, snd, wire>>

\* The works of a socket start when nothing else runs on o2net_wq
Runs(p, w) == Undisturbed /\ wq = Idle /\ AtHead(p, w)

\* Mutant of StillCurrent: so it is after a shutdown that nothing followed
StillCurrentOrNone(p, i) == nn[p].sc \in {i, Free}

\* "only if it hasn't been shut down already"
StillCurrent(p, i) == nn[p].sc = i

\* A handshake the node agrees with makes the connection valid, if it has
\* not been shut down already
Handshake(p, i) ==
  /\ Runs(p, Rx(i))
  /\ ~scs[p][i].hand
  /\ IF StillCurrent(p, i)
       THEN /\ SetNnState([nn[p] EXCEPT !.timeout = FALSE], queue[p],
                          p, i, TRUE, FALSE)
            /\ scs' = [scs EXCEPT ![p][i].hand = TRUE, ![p][i].timer = TRUE]
       ELSE /\ scs' = [scs EXCEPT ![p][i].hand = TRUE]
            /\ UNCHANGED <<nn, queue, quo, snd>>
  /\ UNCHANGED <<fenced, live, hb, wq, ticking, wire>>

\* Another protocol version or other timeouts: no use in reconnecting
HandshakeRefused(p, i) ==
  /\ Runs(p, Rx(i))
  /\ ~scs[p][i].hand
  /\ EnsureShutdown(Tail(queue[p]), p, i, TRUE)
  /\ UNCHANGED <<fenced, live, hb, scs, wq, ticking, wire>>

\* Nothing will read the socket again once it is shut down
LastRead(p, i) ==
  /\ scs' = [scs EXCEPT ![p][i].hand = @ /\ scs[p][i].cb]
  /\ wire' = [wire EXCEPT ![p][i] = IF scs[p][i].cb THEN @ ELSE {}]

\* rx_until_empty sees an error or eof
RxError(p, i) ==
  /\ Runs(p, Rx(i))
  /\ EnsureShutdown(Tail(queue[p]), p, i, FALSE)
  /\ LastRead(p, i)
  /\ UNCHANGED <<fenced, live, hb, wq, ticking>>

\* The connect itself fails, or a send of o2net_sendpage()
TxError(p, i) ==
  /\ Undisturbed /\ wq = Idle
  /\ scs[p][i].cb
  /\ EnsureShutdown(queue[p], p, i, FALSE)
  /\ UNCHANGED <<fenced, live, hb, scs, wq, ticking, wire>>

\* o2net_shutdown_sc(): del_timer_sync waits for a running timer
ShutdownSc(p, i) ==
  /\ Runs(p, Shut(i))
  /\ scs[p][i].cb => ticking[p] # i
  /\ scs' = [scs EXCEPT ![p][i] =
                [cb |-> FALSE, timer |-> @.timer /\ ~@.cb,
                 hand |-> @.hand /\ Queued(p, Rx(i))]]
  /\ wire' = [wire EXCEPT ![p][i] = IF Queued(p, Rx(i)) THEN @ ELSE {}]
  /\ EnsureShutdown(Tail(queue[p]), p, i, FALSE)
  /\ UNCHANGED <<fenced, live, hb, wq, ticking>>

(***************************************************************************)
(* A message: o2net_process_message() first postpones the idle timeout,    *)
(* taking back the connection's failure if there was one, then delivers    *)
(* the status if the message carries one.  Of a message for a handler only *)
(* the first part is kept.                                                 *)
(***************************************************************************)
Deliver(p, i, m) ==
  IF m = Keepalive THEN UNCHANGED <<snd, wire>>
  ELSE /\ snd' = Answered(p, m)
       /\ wire' = [wire EXCEPT ![p][i] = @ \ {m}]

RxMessage(p, i, m) ==
  /\ Runs(p, Rx(i))
  /\ scs[p][i].hand
  /\ m \in wire[p][i] \union {Keepalive}
  /\ IF nn[p].timeout
       THEN /\ wq' = [work |-> "postpone", peer |-> p, sc |-> i, msg |-> m]
            /\ UNCHANGED <<snd, wire>>
       ELSE Deliver(p, i, m) /\ UNCHANGED wq
  /\ UNCHANGED <<quo, fenced, live, hb, nn, scs, queue, ticking>>

\* -EAGAIN: the socket has no more data
RxEmpty(p, i) ==
  /\ Runs(p, Rx(i))
  /\ queue' = [queue EXCEPT ![p] = Tail(@)]
  /\ LastRead(p, i)
  /\ UNCHANGED <<quo, fenced, live, hb, nn, wq, ticking, snd>>

PostponeIdle(p, i) ==
  /\ Running /\ wq.work = "postpone" /\ wq.peer = p /\ wq.sc = i
  /\ quo' = ConnUp(quo, p)
  /\ nn' = [nn EXCEPT ![p].stillUp = FALSE, ![p].timeout = FALSE]
  /\ Deliver(p, i, wq.msg)
  /\ wq' = Idle
  /\ UNCHANGED <<fenced, live, hb, scs, queue, ticking>>

(***************************************************************************)
(* The delayed works, and the idle timer in two steps.                     *)
(***************************************************************************)
ConnectExpired(p) ==
  /\ Undisturbed /\ wq = Idle
  /\ nn[p].expired
  /\ LET n == [nn[p] EXCEPT !.expired = FALSE]
     IN  IF nn[p].valid
           THEN nn' = [nn EXCEPT ![p] = n] /\ UNCHANGED <<quo, queue, snd>>
           ELSE SetNnState(n, queue[p], p, Free, FALSE, FALSE)
  /\ UNCHANGED <<fenced, live, hb, scs, wq, ticking, wire>>

StillUp(p) ==
  /\ Undisturbed /\ wq = Idle
  /\ nn[p].stillUp
  /\ nn' = [nn EXCEPT ![p].stillUp = FALSE]
  /\ quo' = HbStillUp(quo, p)
  /\ UNCHANGED <<fenced, live, hb, scs, queue, wq, ticking, snd, wire>>

IdleTimer(p, i) ==
  /\ Undisturbed
  /\ scs[p][i].timer /\ ticking[p] = Free
  /\ nn' = [nn EXCEPT ![p].timeout = TRUE]
  /\ scs' = [scs EXCEPT ![p][i].timer = FALSE]
  /\ ticking' = [ticking EXCEPT ![p] = i]
  /\ UNCHANGED <<quo, fenced, live, hb, queue, wq, snd, wire>>

IdleConnErr(p) ==
  /\ Running
  /\ ticking[p] # Free
  /\ quo' = ConnErr(quo, p)
  /\ nn' = [nn EXCEPT ![p].stillUp = TRUE]
  /\ scs' = [scs EXCEPT ![p][ticking[p]].timer = TRUE]
  /\ ticking' = [ticking EXCEPT ![p] = Free]
  /\ UNCHANGED <<fenced, live, hb, queue, wq, snd, wire>>

(***************************************************************************)
(* Heartbeat: the live bitmap changes, then the callbacks run.             *)
(***************************************************************************)
HbAt(pc, p) == hb = [pc |-> pc, node |-> p]
HbGoes(pc, p) == hb' = [pc |-> pc, node |-> p]
HbIdle == hb' = [pc |-> "idle", node |-> NoPeer]

Joins(p) ==
  /\ Undisturbed /\ HbAt("idle", NoPeer) /\ p \notin live
  /\ live' = live \union {p}
  /\ HbGoes("up", p)
  /\ UNCHANGED <<quo, fenced, netVars, snd, wire>>

NodeUp(p) ==
  /\ Undisturbed /\ HbAt("up", p)
  /\ quo' = HbUp(quo, p)
  /\ HbGoes("upNet", p)
  /\ UNCHANGED <<fenced, live, netVars, snd, wire>>

NodeUpNet(p) ==
  /\ Undisturbed /\ HbAt("upNet", p)
  /\ LET n == [nn[p] EXCEPT !.timeout = FALSE]
     IN  IF nn[p].err
           THEN SetNnState(n, queue[p], p, Free, FALSE, FALSE)
           ELSE nn' = [nn EXCEPT ![p] = n] /\ UNCHANGED <<quo, queue, snd>>
  /\ HbIdle
  /\ UNCHANGED <<fenced, live, scs, wq, ticking, wire>>

Leaves(p) ==
  /\ Undisturbed /\ HbAt("idle", NoPeer) /\ p \in live
  /\ live' = live \ {p}
  /\ HbGoes("down", p)
  /\ UNCHANGED <<quo, fenced, netVars, snd, wire>>

NodeDown(p) ==
  /\ Undisturbed /\ HbAt("down", p)
  /\ quo' = HbDown(quo, p)
  /\ HbGoes("disconnect", p)
  /\ UNCHANGED <<fenced, live, netVars, snd, wire>>

Disconnect(p) ==
  /\ Undisturbed /\ HbAt("disconnect", p)
  /\ SetNnState([nn[p] EXCEPT !.timeout = FALSE], queue[p], p, Free, FALSE, TRUE)
  /\ HbGoes("cancel", p)
  /\ UNCHANGED <<fenced, live, scs, wq, ticking, wire>>

DisconnectCancel(p) ==
  /\ Running /\ HbAt("cancel", p)
  /\ nn' = [nn EXCEPT ![p].connect = FALSE, ![p].expired = FALSE,
                      ![p].stillUp = FALSE]
  /\ HbGoes("flush", p)
  /\ UNCHANGED <<quo, fenced, live, scs, queue, wq, ticking, snd, wire>>

\* flush_workqueue(): what was queued for the peer has run
DisconnectFlush(p) ==
  /\ Undisturbed /\ HbAt("flush", p)
  /\ wq = Idle /\ queue[p] = <<>>
  /\ HbIdle
  /\ UNCHANGED <<quo, fenced, live, netVars, snd, wire>>

Decide ==
  /\ Undisturbed
  /\ quo.work
  /\ quo' = [quo EXCEPT !.work = FALSE]
  /\ fenced' = MustFence(me, quo.hb, quo.conn)
  /\ UNCHANGED <<live, hb, netVars, snd, wire>>

(***************************************************************************)
(* o2net_send_message_vec(): wait for the connection, get an id, put the   *)
(* message on the socket, wait for the status.                             *)
(***************************************************************************)
\* With an error it returns at once; while connecting it waits
SendReady(s) ==
  LET n == nn[TargetOf[s]] IN
  /\ Undisturbed
  /\ s \in setup.senders /\ snd[s].pc = "idle"
  /\ n.valid /\ ~n.err
  /\ snd' = [snd EXCEPT ![s].pc = "ready", ![s].sc = n.sc]
  /\ UNCHANGED <<quo, fenced, live, hb, netVars, wire>>

\* The lowest free id of the idr
FreshId(p) ==
  CHOOSE id \in MsgId : /\ \A s \in Waiters(p) : snd[s].id # id
                        /\ \A lower \in 0 .. (id - 1) :
                             \E s \in Waiters(p) : snd[s].id = lower

SendRegister(s) ==
  /\ Running
  /\ snd[s].pc = "ready"
  /\ snd' = [snd EXCEPT ![s].pc = "registered",
                        ![s].id = FreshId(TargetOf[s])]
  /\ UNCHANGED <<quo, fenced, live, hb, netVars, wire>>

\* A socket that has been shut down takes nothing more
SendTcp(s) ==
  LET p == TargetOf[s]
  IN  /\ Running
      /\ snd[s].pc = "registered"
      /\ scs[p][snd[s].sc].cb
      /\ wire' = [wire EXCEPT ![p][snd[s].sc] =
                    @ \union {[id |-> snd[s].id, of |-> s]}]
      /\ snd' = [snd EXCEPT ![s].pc = "sent"]
      /\ UNCHANGED <<quo, fenced, live, hb, netVars>>

SendFails(s) ==
  /\ Running
  /\ snd[s].pc = "registered"
  /\ snd' = [snd EXCEPT ![s] = NotSending]
  /\ UNCHANGED <<quo, fenced, live, hb, netVars, wire>>

SendReturns(s) ==
  /\ Undisturbed
  /\ snd[s].pc = "sent" /\ snd[s].got # "nothing"
  /\ snd' = [snd EXCEPT ![s] = NotSending]
  /\ UNCHANGED <<quo, fenced, live, hb, netVars, wire>>

\* The node is down, and stays as it is
Stopped == ~Running /\ UNCHANGED tcpVars

Step ==
  \/ \E p \in Peer :
       \/ StartConnect(p) \/ NoContainer(p) \/ AcceptOne(p)
       \/ ConnectExpired(p) \/ StillUp(p) \/ IdleConnErr(p)
       \/ Joins(p) \/ NodeUp(p) \/ NodeUpNet(p)
       \/ Leaves(p) \/ NodeDown(p) \/ Disconnect(p) \/ DisconnectCancel(p)
       \/ DisconnectFlush(p)
       \/ \E i \in Sc :
            \/ ConnectSet(p, i) \/ AcceptSet(p, i)
            \/ DataReady(p, i) \/ StateChange(p, i)
            \/ Handshake(p, i) \/ HandshakeRefused(p, i)
            \/ RxEmpty(p, i) \/ RxError(p, i) \/ TxError(p, i) \/ ShutdownSc(p, i)
            \/ \E m \in wire[p][i] \union {Keepalive} : RxMessage(p, i, m)
            \/ PostponeIdle(p, i) \/ IdleTimer(p, i)
  \/ \E s \in Sender : \/ SendReady(s) \/ SendRegister(s) \/ SendTcp(s)
                       \/ SendFails(s) \/ SendReturns(s)
  \/ Decide
  \/ Stopped

NetNext == Step /\ UNCHANGED setup

NetSpec == NetInit /\ [][NetNext]_<<tcpVars, setup>>
-----------------------------------------------------------------------------
(* Properties *)

\* Types; and a pending idle timer belongs to a socket with its callbacks, so
\* that the shutdown still to come deletes it: sc_kref_release(), which asserts
\* it, never frees a container whose timer is pending.
TimerOwned ==
  NetTypeOK /\ \A p \in Peer, i \in Sc : scs[p][i].timer => scs[p][i].cb

\* A connection found idle cannot hold the quorum decision up for ever: while
\* its hold lasts, still_up is queued, or heartbeat is about to take the hold.
IdleNoticed ==
  \A p \in Peer : p \in quo.hold \intersect quo.hb /\ nn[p].timeout =>
    nn[p].stillUp \/ ticking[p] # Free \/ hb.node = p

\* A peer that heartbeats and has no connection is not forgotten: a connect
\* attempt is queued, or will be when connect_expired clears its error.
\* (With races, connect_expired may undo what o2net_disconnect_node() did.)
PeerRemembered ==
  \A p \in live : (~setup.races /\ hb.node # p /\ nn[p].sc = Free) =>
    nn[p].connect \/ nn[p].expired \/ wq.peer = p

\* "pending transmits will be canceled" (o2net_ensure_shutdown): whoever waits
\* for a status does so on the peer's valid connection, so that its end will
\* wake the waiter.  For a sender that nobody disturbs between the check of
\* the connection and its send.
WaitsForStatus(s) == snd[s].pc = "sent" /\ snd[s].got = "nothing"

WaiterHeard ==
  \A s \in Sender : (WaitsForStatus(s) /\ ~setup.races) =>
    nn[TargetOf[s]].valid /\ nn[TargetOf[s]].sc = snd[s].sc
===============================================================================
