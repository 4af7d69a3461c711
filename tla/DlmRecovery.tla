------------------------------ MODULE DlmRecovery ------------------------------
(***************************************************************************)
(* dlmrecovery.c: what the nodes of a domain do about a dead one.  One of  *)
(* them, elected with the $RECOVERY lock, announces itself (begin_reco),   *)
(* asks the others for their locks on what the dead node mastered, waits   *)
(* for their data, and ends the recovery in two stages (finalize_reco).    *)
(* The node that did it is the new master of the resource.                 *)
(*                                                                         *)
(* One resource; every node holds at most one lock on it.  The $RECOVERY   *)
(* lock is here a lock that a dead node loses.                             *)
(***************************************************************************)
EXTENDS Integers, Sequences, FiniteSets, FiniteSetsExt

CONSTANTS
  RNode,      \* nodes of the domain, numbered
  Plights     \* nodes: who is in the domain; master: of the resource; frail: who
              \* may die; deaths: how many of them; locks: who has a lock

VARIABLES
  plight, alive_,  \* what happens; the nodes that run
  dmap,       \* domain_map
  rmap,       \* recovery_map
  deadNode,   \* reco.dead_node
  newMaster,  \* reco.new_master
  finalize,   \* DLM_RECO_STATE_FINALIZE
  rthread,    \* dlm_recovery_thread(): pc, todo (nodes of a round), data (reco.node_data)
  ask,        \* ask[n][t]: the message thread t of n waits for
  jobs,       \* work_list; the head is being worked on
  lockres,    \* the resource on each node: owner, RECOVERING, the locks known
  holder,     \* who has the $RECOVERY lock
  half,       \* history: a recovery master died between its first messages
  rbug        \* BUG()s reached

rvars == <<plight, alive_, dmap, rmap, deadNode, newMaster, finalize, rthread, ask, jobs,
           lockres, holder, half, rbug>>

NoNode == 255
NoAsk == [kind |-> "none"]
RIdle == [pc |-> "idle", todo |-> {}, data |-> << >>]
RThreads == {"reco", "work"}
Gone == [in |-> FALSE, owner |-> NoNode, reco |-> FALSE, locks |-> {}]

RInit ==
  /\ plight \in Plights
  /\ alive_ = plight.nodes
  /\ dmap = [n \in RNode |-> plight.nodes]
  /\ rmap = [n \in RNode |-> {}]
  /\ deadNode = [n \in RNode |-> NoNode]
  /\ newMaster = [n \in RNode |-> NoNode]
  /\ finalize = [n \in RNode |-> FALSE]
  /\ rthread = [n \in RNode |-> RIdle]
  /\ ask = [n \in RNode |-> [t \in RThreads |-> NoAsk]]
  /\ jobs = [n \in RNode |-> << >>]
  /\ lockres = [n \in RNode |->
       IF n = plight.master THEN [in |-> TRUE, owner |-> n, reco |-> FALSE, locks |-> plight.locks]
       ELSE IF n \in plight.locks
         THEN [in |-> TRUE, owner |-> plight.master, reco |-> FALSE, locks |-> {n}] ELSE Gone]
  /\ holder = NoNode
  /\ half = {}
  /\ rbug = {}

Broken(site, cond) == rbug' = IF cond THEN rbug \union {site} ELSE rbug
Say(n, t, kind, to, with) == ask' = [ask EXCEPT ![n][t] = [kind |-> kind, to |-> to, with |-> with, ans |-> "none"]]
Heard(n, t) == ask' = [ask EXCEPT ![n][t] = NoAsk]
Answered(n, t, kind) == ask[n][t] # NoAsk /\ ask[n][t].kind = kind /\ ask[n][t].ans # "none"
Arrives(n, t, kind, p) == /\ p \in alive_ /\ ask[n][t] # NoAsk
                          /\ ask[n][t].kind = kind /\ ask[n][t].to = p /\ ask[n][t].ans = "none"
Return(n, t, ans) == ask' = [ask EXCEPT ![n][t].ans = ans]
LowestDead(S) == IF S = {} THEN NoNode ELSE Min(S)

----------------------------------------------------------------------------
(* dlm_do_recovery() and dlm_pick_recovery_master().                       *)

\* Mutant: a new master that died is waited for
StillMasterDead(n) == newMaster[n]

\* A new master that died is forgotten.
StillMaster(n) == IF newMaster[n] \in rmap[n] THEN NoNode ELSE newMaster[n]

\* The dead node is picked or kept; who is master in this recovery goes on with it.
DoRecovery(n) ==
  /\ rthread[n].pc = "idle"
  /\ LET m == StillMaster(n)
         d == CASE deadNode[n] = NoNode -> LowestDead(rmap[n])
                [] deadNode[n] \in rmap[n] -> deadNode[n]
                [] OTHER -> NoNode
     IN /\ m # newMaster[n] \/ d # deadNode[n] \/ (d # NoNode /\ m \in {NoNode, n})
        /\ newMaster' = [newMaster EXCEPT ![n] = m]
        /\ deadNode' = [deadNode EXCEPT ![n] = d]
        /\ rthread' = [rthread EXCEPT ![n].pc = CASE d = NoNode -> "idle"
                                                  [] d # NoNode /\ m = n -> "init"
                                                  [] d # NoNode /\ m = NoNode -> "elect"
                                                  [] OTHER -> "idle"]
  /\ UNCHANGED <<plight, alive_, dmap, rmap, finalize, ask, jobs, lockres, holder, half, rbug>>

\* dlmlock() of $RECOVERY with LKM_NOQUEUE: refused until another node that has
\* it announces itself.
Free(n) == holder = NoNode \/ (holder \notin alive_ /\ holder \notin dmap[n])
Elect(n) ==
  /\ rthread[n].pc = "elect" /\ Free(n)
  /\ IF newMaster[n] # NoNode \/ deadNode[n] = NoNode
       THEN /\ rthread' = [rthread EXCEPT ![n] = RIdle]     \* -EEXIST, -EINVAL
            /\ UNCHANGED holder
       ELSE /\ rthread' = [rthread EXCEPT ![n].pc = "begin", ![n].todo = dmap[n] \ {n, deadNode[n]}]
            /\ holder' = n
  /\ UNCHANGED <<plight, alive_, dmap, rmap, deadNode, newMaster, finalize, ask, jobs, lockres, half, rbug>>
NotElected(n) ==
  /\ rthread[n].pc = "elect" /\ ~Free(n) /\ newMaster[n] # NoNode
  /\ rthread' = [rthread EXCEPT ![n] = RIdle]
  /\ UNCHANGED <<plight, alive_, dmap, rmap, deadNode, newMaster, finalize, ask, jobs, lockres, holder, half, rbug>>

Rounds == [begin |-> "begin_reco", request |-> "lock_request", fin1 |-> "finalize1", fin2 |-> "finalize2"]
RoundAsks(n) ==
  /\ rthread[n].pc \in DOMAIN Rounds /\ rthread[n].todo # {} /\ ask[n]["reco"] = NoAsk
  /\ Say(n, "reco", Rounds[rthread[n].pc], Min(rthread[n].todo), deadNode[n])
  /\ UNCHANGED <<plight, alive_, dmap, rmap, deadNode, newMaster, finalize, rthread, jobs, lockres, holder, half, rbug>>

\* dlm_send_begin_reco_message(): again while the other finalizes
Begun(n) ==
  /\ Answered(n, "reco", "begin_reco")
  /\ rthread' = IF ask[n]["reco"].ans = "eagain" THEN rthread
                  ELSE [rthread EXCEPT ![n].todo = @ \ {ask[n]["reco"].to}]
  /\ Heard(n, "reco")
  /\ UNCHANGED <<plight, alive_, dmap, rmap, deadNode, newMaster, finalize, jobs, lockres, holder, half, rbug>>
BegunAll(n) ==
  /\ rthread[n].pc = "begin" /\ rthread[n].todo = {}
  /\ newMaster' = [newMaster EXCEPT ![n] = n]
  /\ holder' = NoNode
  /\ rthread' = [rthread EXCEPT ![n].pc = "init"]
  /\ UNCHANGED <<plight, alive_, dmap, rmap, deadNode, finalize, ask, jobs, lockres, half, rbug>>

----------------------------------------------------------------------------
(* dlm_remaster_locks().                                                   *)

\* dlm_init_recovery_area()
InitArea(n) ==
  /\ rthread[n].pc = "init"
  /\ Broken("dead in domain", deadNode[n] \in dmap[n])
  /\ rthread' = [rthread EXCEPT ![n] = [pc |-> "request", todo |-> dmap[n] \ {n},
                   data |-> [p \in dmap[n] |-> IF p = n THEN "done" ELSE "requesting"]]]
  /\ UNCHANGED <<plight, alive_, dmap, rmap, deadNode, newMaster, finalize, ask, jobs, lockres, holder, half>>

\* dlm_request_all_locks(): again until the node knows of the death
Requested(n) ==
  /\ Answered(n, "reco", "lock_request")
  /\ LET p == ask[n]["reco"].to
         st == CASE ask[n]["reco"].ans = "down" -> "dead"
                 [] rthread[n].data[p] = "requesting" -> "requested"
                 [] OTHER -> rthread[n].data[p]
     IN rthread' = IF ask[n]["reco"].ans = "enomem" THEN rthread
                     ELSE [rthread EXCEPT ![n].todo = @ \ {p}, ![n].data[p] = st]
  /\ Heard(n, "reco")
  /\ UNCHANGED <<plight, alive_, dmap, rmap, deadNode, newMaster, finalize, jobs, lockres, holder, half, rbug>>
RequestedAll(n) ==
  /\ rthread[n].pc = "request" /\ rthread[n].todo = {}
  /\ rthread' = [rthread EXCEPT ![n].pc = "wait"]
  /\ UNCHANGED <<plight, alive_, dmap, rmap, deadNode, newMaster, finalize, ask, jobs, lockres, holder, half, rbug>>

\* Mutant: without waiting for what was requested
AllNodesDoneSoon(data) == \A p \in DOMAIN data : data[p] # "requesting"

\* all_nodes_done
AllNodesDone(data) == \A p \in DOMAIN data : data[p] \in {"done", "dead"}

DataComplete(n) ==
  /\ rthread[n].pc = "wait" /\ AllNodesDone(rthread[n].data)
  /\ finalize' = [finalize EXCEPT ![n] = TRUE]
  /\ rthread' = [rthread EXCEPT ![n].pc = "fin1", ![n].todo = dmap[n] \ {n}]
  /\ UNCHANGED <<plight, alive_, dmap, rmap, deadNode, newMaster, ask, jobs, lockres, holder, half, rbug>>

\* Mutant: what this node began to take over stays as it is
FinishedForeign(r, n, dead, new) ==
  IF r.reco /\ r.owner = dead THEN [r EXCEPT !.owner = new, !.reco = FALSE] ELSE r

\* dlm_finish_local_lockres_recovery()
Finished(r, n, dead, new) ==
  IF r.reco /\ r.owner \in {dead, n} THEN [r EXCEPT !.owner = new, !.reco = FALSE] ELSE r

\* dlm_send_finalize_reco_message(): two stages over the same nodes
FinalizeTold(n, kind) ==
  /\ Answered(n, "reco", kind)
  /\ rthread' = [rthread EXCEPT ![n].todo = @ \ {ask[n]["reco"].to}]
  /\ Heard(n, "reco")
  /\ UNCHANGED <<plight, alive_, dmap, rmap, deadNode, newMaster, finalize, jobs, lockres, holder, half, rbug>>
Stage2(n) ==
  /\ rthread[n].pc = "fin1" /\ rthread[n].todo = {}
  /\ rthread' = [rthread EXCEPT ![n].pc = "fin2", ![n].todo = DOMAIN rthread[n].data \ {n}]
  /\ UNCHANGED <<plight, alive_, dmap, rmap, deadNode, newMaster, finalize, ask, jobs, lockres, holder, half, rbug>>

\* __dlm_reset_recovery()
Reset(n) ==
  /\ rmap' = [rmap EXCEPT ![n] = @ \ {deadNode[n]}]
  /\ deadNode' = [deadNode EXCEPT ![n] = NoNode]
  /\ newMaster' = [newMaster EXCEPT ![n] = NoNode]
  /\ finalize' = [finalize EXCEPT ![n] = FALSE]

RecoveryDone(n) ==
  /\ rthread[n].pc = "fin2" /\ rthread[n].todo = {}
  /\ lockres' = [lockres EXCEPT ![n] = Finished(@, n, deadNode[n], n)]
  /\ Reset(n)
  /\ rthread' = [rthread EXCEPT ![n] = RIdle]
  /\ UNCHANGED <<plight, alive_, dmap, ask, jobs, holder, half, rbug>>

----------------------------------------------------------------------------
(* Deaths, as one node notices them.                                       *)

\* dlm_do_local_recovery_cleanup()
CleanedUp(r, n, d) ==
  CASE r.in /\ r.owner = d -> [r EXCEPT !.reco = TRUE]
    [] r.in /\ r.owner = n -> [r EXCEPT !.locks = @ \ {d}]
    [] OTHER -> r

\* __dlm_hb_node_down(): a recovery master that dies after it began to finalize
\* is taken to have ended its recovery.
NoticeDeath(n, d, master, dead) ==
  LET ended == newMaster[n] = d /\ finalize[n] IN
    /\ rmap' = [rmap EXCEPT ![n] = (IF ended THEN @ \ {deadNode[n]} ELSE @) \union {d}]
    /\ finalize' = [finalize EXCEPT ![n] = @ /\ ~ended]
    /\ deadNode' = [deadNode EXCEPT ![n] = IF ended THEN NoNode ELSE dead]
    /\ newMaster' = [newMaster EXCEPT ![n] = IF ended THEN NoNode ELSE master]
    /\ dmap' = [dmap EXCEPT ![n] = @ \ {d}]
    /\ lockres' = [lockres EXCEPT ![n] = IF d \in rmap[n] THEN @ ELSE CleanedUp(@, n, d)]

DeathSeen(n, d) ==
  /\ n \in alive_ /\ d \in dmap[n] \ alive_
  /\ NoticeDeath(n, d, newMaster[n], deadNode[n])
  /\ UNCHANGED <<plight, alive_, rthread, ask, jobs, holder, half, rbug>>

DiesNow(d) ==
  /\ d \in alive_ \intersect plight.frail /\ plight.deaths > 0
  /\ plight' = [plight EXCEPT !.deaths = @ - 1]
  /\ alive_' = alive_ \ {d}
  /\ ask' = [ask EXCEPT ![d] = [t \in RThreads |-> NoAsk]]
  /\ jobs' = [jobs EXCEPT ![d] = << >>]
  /\ half' = half \union
       (IF rthread[d].pc = "fin1" THEN {"finalizing"} ELSE {}) \union
       (IF \E n \in alive_ \ {d} : /\ rthread[n].pc \in {"request", "wait"} /\ d \in DOMAIN rthread[n].data
                                   /\ \/ rthread[n].data[d] = "requested"
                                      \/ Answered(n, "reco", "lock_request") /\ ask[n]["reco"].to = d
          THEN {"awaited"} ELSE {})
  /\ UNCHANGED <<dmap, rmap, deadNode, newMaster, finalize, rthread, lockres, holder, rbug>>

NoAnswer(n, t) ==
  /\ ask[n][t] # NoAsk /\ ask[n][t].to \notin alive_ /\ ask[n][t].ans = "none"
  /\ Return(n, t, "down")
  /\ UNCHANGED <<plight, alive_, dmap, rmap, deadNode, newMaster, finalize, rthread, jobs, lockres, holder, half, rbug>>

----------------------------------------------------------------------------
(* The handlers of p.                                                      *)

BeginRecoHandler(n, p) ==
  /\ Arrives(n, "reco", "begin_reco", p)
  /\ LET d == ask[n]["reco"].with IN
       IF finalize[p]
         THEN /\ Return(n, "reco", "eagain")
              /\ UNCHANGED <<dmap, rmap, deadNode, newMaster, finalize, lockres>>
         ELSE /\ Return(n, "reco", "ok")
              /\ IF d \in rmap[p]
                   THEN /\ newMaster' = [newMaster EXCEPT ![p] = n]
                        /\ deadNode' = [deadNode EXCEPT ![p] = d]
                        /\ UNCHANGED <<dmap, rmap, finalize, lockres>>
                   ELSE NoticeDeath(p, d, n, d)
  /\ UNCHANGED <<plight, alive_, rthread, jobs, holder, half, rbug>>

LockRequestHandler(n, p) ==
  /\ Arrives(n, "reco", "lock_request", p)
  /\ LET d == ask[n]["reco"].with IN
       IF d # deadNode[p]
         THEN Return(n, "reco", "enomem") /\ UNCHANGED jobs
         ELSE /\ Return(n, "reco", "ok")
              /\ jobs' = [jobs EXCEPT ![p] = Append(@, [kind |-> "send", master |-> n, dead |-> d, locks |-> {}])]
  /\ UNCHANGED <<plight, alive_, dmap, rmap, deadNode, newMaster, finalize, rthread, lockres, holder, half, rbug>>

\* dlm_request_all_locks_worker(): a request of a former master is dropped.
Outdated(n, job) == job.dead # deadNode[n] \/ job.master # newMaster[n]
WorkerSends(n) ==
  /\ jobs[n] # << >> /\ Head(jobs[n]).kind = "send" /\ ask[n]["work"] = NoAsk
  /\ LET job == Head(jobs[n]) IN
       IF Outdated(n, job)
         THEN jobs' = [jobs EXCEPT ![n] = Tail(@)] /\ UNCHANGED ask
         ELSE /\ IF lockres[n].reco /\ lockres[n].owner = job.dead
                   THEN Say(n, "work", "lockres", job.master, lockres[n].locks)
                   ELSE Say(n, "work", "data_done", job.master, job.dead)
              /\ UNCHANGED jobs
  /\ UNCHANGED <<plight, alive_, dmap, rmap, deadNode, newMaster, finalize, rthread, lockres, holder, half, rbug>>

LockresSent(n) ==
  /\ Answered(n, "work", "lockres")
  /\ IF ask[n]["work"].ans = "down"
       THEN Heard(n, "work") /\ jobs' = [jobs EXCEPT ![n] = Tail(@)]
       ELSE Say(n, "work", "data_done", Head(jobs[n]).master, Head(jobs[n]).dead) /\ UNCHANGED jobs
  /\ UNCHANGED <<plight, alive_, dmap, rmap, deadNode, newMaster, finalize, rthread, lockres, holder, half, rbug>>

DoneSent(n) ==
  /\ Answered(n, "work", "data_done")
  /\ Heard(n, "work")
  /\ jobs' = [jobs EXCEPT ![n] = Tail(@)]
  /\ UNCHANGED <<plight, alive_, dmap, rmap, deadNode, newMaster, finalize, rthread, lockres, holder, half, rbug>>

\* dlm_mig_lockres_handler() with DLM_MRES_RECOVERY: the locks themselves are
\* left to a worker.
LockresHandler(n, p) ==
  /\ Arrives(n, "work", "lockres", p)
  /\ lockres' = [lockres EXCEPT ![p] = [(IF @.in THEN @ ELSE Gone)
                   EXCEPT !.in = TRUE, !.reco = TRUE, !.owner = p]]
  /\ jobs' = [jobs EXCEPT ![p] = Append(@, [kind |-> "process", master |-> n, dead |-> NoNode,
                                             locks |-> ask[n]["work"].with])]
  /\ Return(n, "work", "ok")
  /\ UNCHANGED <<plight, alive_, dmap, rmap, deadNode, newMaster, finalize, rthread, holder, half, rbug>>

\* dlm_mig_lockres_worker(), dlm_process_recovery_data()
WorkerProcesses(n) ==
  /\ jobs[n] # << >> /\ Head(jobs[n]).kind = "process"
  /\ lockres' = [lockres EXCEPT ![n].locks = @ \union Head(jobs[n]).locks]
  /\ jobs' = [jobs EXCEPT ![n] = Tail(@)]
  /\ UNCHANGED <<plight, alive_, dmap, rmap, deadNode, newMaster, finalize, rthread, ask, holder, half, rbug>>

DataDoneHandler(n, p) ==
  /\ Arrives(n, "work", "data_done", p)
  /\ Broken("data done", \/ ask[n]["work"].with # deadNode[p]
                         \/ n \in DOMAIN rthread[p].data /\ rthread[p].data[n] = "dead")
  /\ rthread' = IF n \in DOMAIN rthread[p].data THEN [rthread EXCEPT ![p].data[n] = "done"] ELSE rthread
  /\ Return(n, "work", "ok")
  /\ UNCHANGED <<plight, alive_, dmap, rmap, deadNode, newMaster, finalize, jobs, lockres, holder, half>>

FinalizeHandler(n, stage, p) ==
  /\ Arrives(n, "reco", stage, p)
  /\ Broken("finalize", newMaster[p] # n \/ deadNode[p] # ask[n]["reco"].with
                          \/ finalize[p] = (stage = "finalize1"))
  /\ IF stage = "finalize1"
       THEN /\ lockres' = [lockres EXCEPT ![p] = Finished(@, p, ask[n]["reco"].with, n)]
            /\ finalize' = [finalize EXCEPT ![p] = TRUE]
            /\ UNCHANGED <<rmap, deadNode, newMaster>>
       ELSE Reset(p) /\ UNCHANGED lockres
  /\ Return(n, "reco", "ok")
  /\ UNCHANGED <<plight, alive_, dmap, rthread, jobs, holder, half>>

----------------------------------------------------------------------------
RecoStep(n) ==
  \/ DoRecovery(n) \/ Elect(n) \/ NotElected(n) \/ RoundAsks(n) \/ Begun(n) \/ BegunAll(n)
  \/ InitArea(n) \/ Requested(n) \/ RequestedAll(n) \/ DataComplete(n)
  \/ FinalizeTold(n, "finalize1") \/ FinalizeTold(n, "finalize2") \/ Stage2(n) \/ RecoveryDone(n)
RecoWork(n) == WorkerSends(n) \/ LockresSent(n) \/ DoneSent(n) \/ WorkerProcesses(n)
RecoHandlers(n, p) ==
  \/ BeginRecoHandler(n, p) \/ LockRequestHandler(n, p) \/ LockresHandler(n, p)
  \/ DataDoneHandler(n, p) \/ FinalizeHandler(n, "finalize1", p) \/ FinalizeHandler(n, "finalize2", p)

RNext ==
  \/ \E n \in alive_ : \/ RecoStep(n) \/ RecoWork(n)
                       \/ \E t \in RThreads : NoAnswer(n, t)
                       \/ \E p \in RNode : RecoHandlers(n, p) \/ DeathSeen(n, p)
  \/ \E d \in RNode : DiesNow(d)

RSpec == RInit /\ [][RNext]_rvars
RFair == \A n \in RNode :
  /\ WF_rvars(n \in alive_ /\ RecoStep(n))
  /\ WF_rvars(n \in alive_ /\ RecoWork(n))
  /\ \A t \in RThreads : WF_rvars(n \in alive_ /\ NoAnswer(n, t))
  /\ \A p \in RNode : /\ WF_rvars(n \in alive_ /\ RecoHandlers(n, p))
                      /\ WF_rvars(DeathSeen(n, p))
RFairSpec == RSpec /\ RFair

----------------------------------------------------------------------------
\* No BUG() of the recovery is reached: the data of a node arrives for the death
\* that is being recovered and from a node not given up, and each stage of the
\* finalization comes once, in order, from the recovery master this node knows
\* (dlmrecovery.c:969-1032, 2887-2955).
RecoveryBugFree == rbug = {}

\* Nobody has a death to recover from, or is at it.
Recovered == \A n \in alive_ : dmap[n] = alive_ /\ rmap[n] = {} /\ rthread[n].pc = "idle"

\* All survivors that have a lock know the same survivor as the master.
NewMasterKnows ==
  alive_ \intersect plight.locks # {} => \E m \in alive_ : \A n \in alive_ \intersect plight.locks :
    /\ lockres[n].owner = m /\ ~lockres[n].reco
    /\ lockres[m].in /\ lockres[m].owner = m
    /\ \/ n \in lockres[m].locks
       \/ \E i \in DOMAIN jobs[m] : jobs[m][i].kind = "process" /\ n \in jobs[m][i].locks

\* After any order of deaths, elections and lost recovery masters, every lock a
\* survivor had on the resource is known to the one new master, or in the work
\* it has queued; but for a recovery master that died between its first
\* finalize messages (OneMasterLeft).
LocksKept == Recovered /\ "finalizing" \notin half => NewMasterKnows

\* __dlm_hb_node_down() calls a recovery complete when its master died after
\* this node heard finalize1 (dlmrecovery.c:2424-2435): then too the survivors
\* end with one master that knows their locks.
OneMasterLeft == Recovered => NewMasterKnows

\* Every recovery ends, however often the recovery master dies, unless a node
\* dies after it was asked for its locks and before it sent them, which
\* dlm_remaster_locks() awaits for ever, or as in LocksKept.
RecoveryEnds == <>[](Recovered \/ half # {})
===============================================================================
