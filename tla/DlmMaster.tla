------------------------------- MODULE DlmMaster -------------------------------
(***************************************************************************)
(* dlmmaster.c and the purge list of dlmthread.c: the nodes of a domain    *)
(* find out which of them masters a lock resource, the master keeps track  *)
(* of the nodes that know the resource (refmap), and the others tell it    *)
(* when they forget it.  One resource; one asker per node.                 *)
(*                                                                         *)
(* A message is sent, handled and answered in three steps: what the sender *)
(* learned may be old when it uses it.  A lock on the resource and the     *)
(* inflight reference of its asker are one thing here: both keep the       *)
(* resource in use on that node.                                           *)
(*                                                                         *)
(* References on entries of the master list are left out: an entry on the  *)
(* list goes when the code drops its last reference.                       *)
(***************************************************************************)
EXTENDS Integers, Sequences, FiniteSets, SequencesExt, FiniteSetsExt

CONSTANTS
  DNode,          \* nodes of the domain, numbered
  Cases           \* what happens: asks[n] is how often n asks for the resource,
                  \* mortal the nodes that may die, leaves those that leave the
                  \* domain when they have asked

ASSUME DNodeAssumption == DNode \subseteq Nat /\ IsFiniteSet(DNode)
ASSUME CasesAssumption ==
  \A c \in Cases : c.asks \in [DNode -> Nat] /\ c.mortal \subseteq DNode /\ c.leaves \subseteq DNode

VARIABLES
  alive,   \* the nodes that run
  mortal,  \* those that may still die
  leaves,  \* those that leave: exit_domain_map
  dom,     \* dom[n]: domain_map of n
  recov,   \* recov[n]: recovery_map of n
  res,     \* res[n]: the lock resource in n's hash, or NoRes
  mle,     \* mle[n]: n's entry of the master list, or NoMle
  task,    \* dlm_get_lock_resource() on n
  work,    \* work[n]: dlm->work_list of n; the head is being worked on
  worker,  \* dlm_worker on n
  thread,  \* dlm_thread on n
  mover,   \* dlm_migrate_lockres() on n
  rpc,     \* rpc[n][t]: the message thread t of n waits for
  post,    \* nodes between dlm_assert_master_handler() and its post handler
  bug      \* the BUG()s of the code that were reached: each named here

mvars == <<alive, mortal, leaves, dom, recov, res, mle, task, work, worker, thread, mover, rpc, post, bug>>

Unknown == 255       \* DLM_LOCK_RES_OWNER_UNKNOWN, O2NM_MAX_NODES
NoRes == [owner |-> Unknown, in |-> FALSE]
NoMle == [type |-> "none"]
NoRpc == [kind |-> "none"]
NoPurge == [pc |-> "idle", cur |-> FALSE, to |-> Unknown]
Threads == {"task", "worker", "thread", "mover"}

Res(owner, inprog) ==
  [owner |-> owner, in |-> TRUE, inprog |-> inprog, reco |-> FALSE,
   drop |-> FALSE, mig |-> FALSE, setref |-> FALSE, refmap |-> {}]

\* dlm_init_mle()
Mle(n, type, maybe) ==
  [type |-> type, master |-> Unknown, maybe |-> maybe, vote |-> dom[n] \ {n},
   node |-> dom[n] \ {n}, resp |-> {}, hb |-> TRUE, new |-> Unknown]

Lowest(S) == IF S = {} THEN Unknown ELSE Min(S)

\* An entry the asker waits for: on the list, or already taken off it
MasterHeard(n) == IF task[n].listed THEN mle[n].master ELSE task[n].heard
VoteMap(n) == IF task[n].listed THEN mle[n].vote ELSE task[n].vote
Done(n) == [task[n] EXCEPT !.pc = "use", !.blocked = FALSE, !.todo = {}, !.again = FALSE,
                           !.listed = FALSE, !.heard = Unknown, !.vote = {}]
Holds(n) == task[n].pc \notin {"idle", "look"}    \* inflight_locks
Asserting(n) == \E i \in DOMAIN work[n] : work[n][i].kind = "assert"

\* __dlm_lockres_unused()
Unused(n) == ~Holds(n) /\ ~res[n].reco /\ res[n].refmap = {}

Migrating(n) == mle[n] # NoMle /\ mle[n].type = "MIGRATION"

Idle == [pc |-> "idle", todo |-> {}, map |-> {}, again |-> FALSE]

MInit ==
  /\ alive = DNode
  /\ \E c \in Cases :
       /\ mortal = c.mortal /\ leaves = c.leaves
       /\ task = [n \in DNode |-> [pc |-> "idle", asks |-> c.asks[n], blocked |-> FALSE,
                                   todo |-> {}, again |-> FALSE, listed |-> FALSE,
                                   heard |-> Unknown, vote |-> {}]]
  /\ dom = [n \in DNode |-> DNode]
  /\ recov = [n \in DNode |-> {}]
  /\ res = [n \in DNode |-> NoRes]
  /\ mle = [n \in DNode |-> NoMle]
  /\ work = [n \in DNode |-> << >>]
  /\ worker = [n \in DNode |-> Idle]
  /\ thread = [n \in DNode |-> NoPurge]
  /\ mover = [n \in DNode |-> [pc |-> "idle", target |-> Unknown, woken |-> FALSE]]
  /\ rpc = [n \in DNode |-> [t \in Threads |-> NoRpc]]
  /\ post = {}
  /\ bug = {}

Bug(site, cond) == bug' = IF cond THEN bug \union {site} ELSE bug

\* A message, with the flags of an assert or the two masters of a migration
SendWith(n, t, kind, to, with) ==
  rpc' = [rpc EXCEPT ![n][t] = [kind |-> kind, to |-> to, with |-> with, ans |-> {}]]
Send(n, t, kind, to) == SendWith(n, t, kind, to, {})
Received(n, t) == rpc' = [rpc EXCEPT ![n][t] = NoRpc]

----------------------------------------------------------------------------
(* dlm_get_lock_resource().                                                *)

Ask(n) ==
  /\ task[n].pc = "idle" /\ task[n].asks > 0
  /\ task' = [task EXCEPT ![n].pc = "look", ![n].asks = @ - 1]
  /\ UNCHANGED <<alive, mortal, leaves, dom, recov, res, mle, work, worker, thread, mover, rpc, post, bug>>

\* The resource is known here.
LookupFound(n) ==
  /\ task[n].pc = "look" /\ res[n].in
  /\ res[n].owner # Unknown
  /\ Bug("lookup", res[n].drop)
  /\ res[n].drop => res[n].owner = n
  /\ task' = [task EXCEPT ![n].pc = "use"]
  /\ UNCHANGED <<alive, mortal, leaves, dom, recov, res, mle, work, worker, thread, mover, rpc, post>>

\* It is not, and nobody has asked this node about it: ask the others, after
\* recovery if some node is being recovered.
LookupFirst(n) ==
  /\ task[n].pc = "look" /\ ~res[n].in /\ mle[n] = NoMle
  /\ mle' = [mle EXCEPT ![n] = Mle(n, "MASTER", {n})]
  /\ res' = [res EXCEPT ![n] = Res(Unknown, TRUE)]
  /\ task' = [task EXCEPT ![n].pc = IF recov[n] # {} THEN "reco" ELSE "vote",
                          ![n].blocked = FALSE, ![n].listed = TRUE,
                          ![n].heard = Unknown, ![n].todo = dom[n] \ {n}]
  /\ UNCHANGED <<alive, mortal, leaves, dom, recov, work, worker, thread, mover, rpc, post, bug>>

\* Another node asked first: wait for its assert_master.
LookupBlocked(n) ==
  /\ task[n].pc = "look" /\ ~res[n].in /\ mle[n] # NoMle
  /\ mle[n].type # "MIGRATION"      \* else it looks again later
  /\ Bug("second asker", mle[n].type = "MASTER")
  /\ res' = [res EXCEPT ![n] = Res(Unknown, TRUE)]
  /\ task' = [task EXCEPT ![n].pc = "wait", ![n].blocked = TRUE, ![n].listed = TRUE,
                          ![n].heard = Unknown, ![n].todo = {}]
  /\ UNCHANGED <<alive, mortal, leaves, dom, recov, mle, work, worker, thread, mover, rpc, post>>

\* redo_request: with wait_on_recovery
AfterRecovery(n) ==
  /\ task[n].pc = "reco" /\ recov[n] = {}
  /\ task' = [task EXCEPT ![n].pc = IF task[n].blocked THEN "wait" ELSE "vote",
                          ![n].todo = VoteMap(n)]
  /\ UNCHANGED <<alive, mortal, leaves, dom, recov, res, mle, work, worker, thread, mover, rpc, post, bug>>

\* dlm_do_master_request() to the next node of vote_map
AskNode(n) ==
  /\ task[n].pc = "vote" /\ task[n].todo # {}
  /\ Send(n, "task", "master", Min(task[n].todo))
  /\ task' = [task EXCEPT ![n].pc = "voting"]
  /\ UNCHANGED <<alive, mortal, leaves, dom, recov, res, mle, work, worker, thread, mover, post, bug>>

AskedAll(n) ==
  /\ task[n].pc = "vote" /\ task[n].todo = {}
  /\ task' = [task EXCEPT ![n].pc = "wait"]
  /\ UNCHANGED <<alive, mortal, leaves, dom, recov, res, mle, work, worker, thread, mover, rpc, post, bug>>

\* What an answer to a master request does to the entry
AfterResponse(e, to, ans) ==
  CASE "yes" \in ans   -> [e EXCEPT !.resp = @ \union {to}, !.master = to]
    [] "no" \in ans    -> [e EXCEPT !.resp = @ \union {to}]
    [] "maybe" \in ans -> [e EXCEPT !.resp = @ \union {to}, !.maybe = @ \union {to}]
    [] OTHER         -> e

RecordResponse(n, to, ans) ==
  mle' = IF task[n].listed THEN [mle EXCEPT ![n] = AfterResponse(@, to, ans)] ELSE mle

\* The next state of the asker: it stops asking at a master not above the node
\* it asked last
VoteAnswer(n) ==
  /\ task[n].pc = "voting" /\ rpc[n]["task"].ans # {}
  /\ LET to == rpc[n]["task"].to
         ans == rpc[n]["task"].ans
         master == IF "yes" \in ans THEN to ELSE MasterHeard(n)
         left == IF "error" \in ans THEN task[n].todo ELSE task[n].todo \ {to}
     IN /\ RecordResponse(n, to, ans)
        /\ task' = [task EXCEPT ![n].pc = "vote",
                     ![n].heard = IF task[n].listed THEN @ ELSE master,
                     ![n].todo = IF "error" \notin ans /\ master # Unknown /\ master <= to
                                   THEN {} ELSE left]
  /\ Received(n, "task")
  /\ UNCHANGED <<alive, mortal, leaves, dom, recov, res, work, worker, thread, mover, post, bug>>

----------------------------------------------------------------------------
(* dlm_wait_for_lock_mastery().                                            *)

\* The entry goes with the last reference of its asker.
Unlisted(n) == IF task[n].listed THEN [mle EXCEPT ![n] = NoMle] ELSE mle

\* The owner is known without waiting: tell it of this node.
WaitOwnerKnown(n) ==
  /\ task[n].pc = "wait" /\ res[n].owner # Unknown
  /\ IF res[n].owner = n
       THEN /\ task' = [task EXCEPT ![n] = Done(n)]
            /\ res' = [res EXCEPT ![n].inprog = FALSE]
            /\ mle' = Unlisted(n)
            /\ UNCHANGED rpc
       ELSE /\ Send(n, "task", "master", res[n].owner)
            /\ task' = [task EXCEPT ![n].pc = "telling"]
            /\ UNCHANGED <<res, mle>>
  /\ UNCHANGED <<alive, mortal, leaves, dom, recov, work, worker, thread, mover, post, bug>>

TellAnswer(n) ==
  /\ task[n].pc = "telling" /\ rpc[n]["task"].ans # {}
  /\ LET ans == rpc[n]["task"].ans IN
       /\ task' = [task EXCEPT ![n] = CASE "down" \in ans -> [@ EXCEPT !.pc = "wait"]
                                        [] "error" \in ans -> @
                                        [] OTHER -> Done(n)]
       /\ res' = IF ans \subseteq {"down", "error"} THEN res
                   ELSE [res EXCEPT ![n].inprog = FALSE]
       /\ mle' = IF ans \subseteq {"down", "error"} THEN mle ELSE Unlisted(n)
       /\ IF "error" \in ans THEN Send(n, "task", "master", rpc[n]["task"].to)
                           ELSE Received(n, "task")
  /\ UNCHANGED <<alive, mortal, leaves, dom, recov, work, worker, thread, mover, post, bug>>

\* dlm_restart_lock_mastery(): only deaths, no node joins in this model.  maybe
\* is emptied at the first node that went, so only that one can make the asker
\* stop being blocked.
Restarted(n, e, blocked) ==
  LET alone == blocked /\ e.maybe = {Min(e.vote \ e.node)}
      type == IF alone THEN "MASTER" ELSE e.type
  IN [e EXCEPT !.type = type, !.resp = {}, !.vote = e.node,
               !.maybe = IF type = "BLOCK" THEN {} ELSE {n}]

MapChanged(n) == mle[n].vote # mle[n].node

WaitRestart(n) ==
  /\ task[n].pc \in {"wait", "sleep"} /\ res[n].owner = Unknown
  /\ task[n].listed /\ MapChanged(n)
  /\ mle' = [mle EXCEPT ![n] = Restarted(n, @, task[n].blocked)]
  /\ task' = [task EXCEPT ![n].pc = "reco",
                          ![n].blocked = (mle'[n].type = "BLOCK")]
  /\ UNCHANGED <<alive, mortal, leaves, dom, recov, res, work, worker, thread, mover, rpc, post, bug>>

\* Somebody said yes.
WaitMasterKnown(n) ==
  /\ task[n].pc \in {"wait", "sleep"} /\ res[n].owner = Unknown
  /\ task[n].listed => ~MapChanged(n)
  /\ MasterHeard(n) # Unknown
  /\ task' = [task EXCEPT ![n].pc = "heard", ![n].heard = MasterHeard(n)]
  /\ UNCHANGED <<alive, mortal, leaves, dom, recov, res, mle, work, worker, thread, mover, rpc, post, bug>>

\* The owner is set after mle->spinlock was dropped, without another look at it.
SetHeardOwner(n) ==
  /\ task[n].pc = "heard"
  /\ Bug("owner overwritten", res[n].owner \notin {Unknown, task[n].heard})
  /\ res' = [res EXCEPT ![n].owner = task[n].heard, ![n].inprog = FALSE]
  /\ task' = [task EXCEPT ![n] = Done(n)]
  /\ mle' = Unlisted(n)
  /\ UNCHANGED <<alive, mortal, leaves, dom, recov, work, worker, thread, mover, rpc, post>>

\* Mutant: a lower node that wants to be master does not matter
MayMasterVoted(n) == mle[n].vote = mle[n].resp

\* voting_done and no lower node wants to be master
MayMaster(n) == mle[n].vote = mle[n].resp /\ n <= Lowest(mle[n].maybe)

WaitElected(n) ==
  /\ task[n].pc \in {"wait", "sleep"} /\ res[n].owner = Unknown
  /\ task[n].listed /\ ~MapChanged(n) /\ mle[n].master = Unknown
  /\ MayMaster(n) /\ ~task[n].blocked
  /\ mle' = [mle EXCEPT ![n].master = n]
  /\ task' = [task EXCEPT ![n].pc = "assert", ![n].todo = mle[n].vote, ![n].again = FALSE]
  /\ res' = [res EXCEPT ![n].setref = TRUE]
  /\ UNCHANGED <<alive, mortal, leaves, dom, recov, work, worker, thread, mover, rpc, post, bug>>

Sleepy(n) == /\ res[n].owner = Unknown /\ MasterHeard(n) = Unknown
             /\ task[n].listed => ~MapChanged(n)
             /\ task[n].blocked \/ ~MayMaster(n)
WaitSleep(n) ==
  /\ task[n].pc = "wait" /\ Sleepy(n)
  /\ task' = [task EXCEPT ![n].pc = "sleep"]
  /\ UNCHANGED <<alive, mortal, leaves, dom, recov, res, mle, work, worker, thread, mover, rpc, post, bug>>

\* Woken with the owner known
WokenOwned(n) ==
  /\ task[n].pc = "sleep" /\ res[n].owner # Unknown
  /\ task' = [task EXCEPT ![n] = Done(n)]
  /\ res' = [res EXCEPT ![n].inprog = FALSE]
  /\ mle' = Unlisted(n)
  /\ UNCHANGED <<alive, mortal, leaves, dom, recov, work, worker, thread, mover, rpc, post, bug>>

\* The asker drops its lock and its reference.
Release(n) ==
  /\ task[n].pc = "use"
  /\ task' = [task EXCEPT ![n].pc = "idle"]
  /\ UNCHANGED <<alive, mortal, leaves, dom, recov, res, mle, work, worker, thread, mover, rpc, post, bug>>

----------------------------------------------------------------------------
(* dlm_do_assert_master(), by the asker that was elected and by dlm_worker *)
(* for a node that asked the master.                                       *)

\* One message to the lowest node that was not told yet
TaskAsserts(n) ==
  /\ task[n].pc = "assert" /\ task[n].todo # {}
  /\ Send(n, "task", "assert", Min(task[n].todo))
  /\ task' = [task EXCEPT ![n].pc = "asserting"]
  /\ UNCHANGED <<alive, mortal, leaves, dom, recov, res, mle, work, worker, thread, mover, post, bug>>

WorkerAsserts(n) ==
  /\ worker[n].pc = "assert" /\ worker[n].todo # {}
  /\ SendWith(n, "worker", "assert", Min(worker[n].todo),
              IF Head(work[n]).kind = "assert" THEN {"cleanup"} ELSE {"finish"})
  /\ worker' = [worker EXCEPT ![n].pc = "asserting"]
  /\ UNCHANGED <<alive, mortal, leaves, dom, recov, res, mle, task, work, thread, mover, post, bug>>

\* The answer has two bits; a negative one is a BUG().
Reassert == "reassert"
MasteryRef == "ref"
RefTaken(n, t) == IF MasteryRef \in rpc[n][t].ans
                    THEN res[n].refmap \union {rpc[n][t].to} ELSE res[n].refmap

AssertAnswer(n, t) ==
  /\ rpc[n][t].kind = "assert" /\ rpc[n][t].ans # {}
  /\ Bug("assert refused", "einval" \in rpc[n][t].ans)
  /\ res' = IF rpc[n][t].ans \subseteq {"down", "einval"} THEN res
              ELSE [res EXCEPT ![n].refmap = RefTaken(n, t)]
  /\ Received(n, t)

AskedAgain(n, t) == Reassert \in rpc[n][t].ans

TaskAssertAnswer(n) ==
  /\ AssertAnswer(n, "task")
  /\ task' = [task EXCEPT ![n].pc = "assert", ![n].todo = @ \ {rpc[n]["task"].to},
                          ![n].again = @ \/ AskedAgain(n, "task")]
  /\ UNCHANGED <<alive, mortal, leaves, dom, recov, mle, work, worker, thread, mover, post>>

WorkerAssertAnswer(n) ==
  /\ AssertAnswer(n, "worker")
  /\ worker' = [worker EXCEPT ![n].pc = "assert", ![n].todo = @ \ {rpc[n]["worker"].to},
                              ![n].again = @ \/ AskedAgain(n, "worker")]
  /\ UNCHANGED <<alive, mortal, leaves, dom, recov, mle, task, work, thread, mover, post>>

\* All of them told: once more if one of them asks for it, else the asker owns
\* the resource.
TaskAsserted(n) ==
  /\ task[n].pc = "assert" /\ task[n].todo = {}
  /\ IF task[n].again
       THEN /\ task' = [task EXCEPT ![n].todo = VoteMap(n), ![n].again = FALSE]
            /\ UNCHANGED <<res, mle>>
       ELSE /\ res' = [res EXCEPT ![n].setref = FALSE, ![n].owner = n, ![n].inprog = FALSE]
            /\ task' = [task EXCEPT ![n] = Done(n)]
            /\ mle' = Unlisted(n)
  /\ UNCHANGED <<alive, mortal, leaves, dom, recov, work, worker, thread, mover, rpc, post, bug>>

\* dlm_assert_master_worker() asserts to the whole domain.
WorkerStarts(n) ==
  /\ worker[n].pc = "idle" /\ work[n] # << >> /\ Head(work[n]).kind = "assert"
  /\ IF res[n].mig
       THEN /\ work' = [work EXCEPT ![n] = Tail(@)]
            /\ UNCHANGED <<res, worker>>
       ELSE /\ worker' = [worker EXCEPT ![n] = [pc |-> "assert", todo |-> dom[n] \ {n},
                                                  map |-> dom[n] \ {n}, again |-> FALSE]]
            /\ res' = [res EXCEPT ![n].setref = TRUE]
            /\ UNCHANGED work
  /\ UNCHANGED <<alive, mortal, leaves, dom, recov, mle, task, thread, mover, rpc, post, bug>>

WorkerAsserted(n) ==
  /\ worker[n].pc = "assert" /\ worker[n].todo = {} /\ Head(work[n]).kind = "assert"
  /\ IF worker[n].again
       THEN /\ worker' = [worker EXCEPT ![n].todo = worker[n].map, ![n].again = FALSE]
            /\ UNCHANGED <<res, work>>
       ELSE /\ res' = [res EXCEPT ![n].setref = FALSE]
            /\ work' = [work EXCEPT ![n] = Tail(@)]
            /\ worker' = [worker EXCEPT ![n] = Idle]
  /\ UNCHANGED <<alive, mortal, leaves, dom, recov, mle, task, thread, mover, rpc, post, bug>>

----------------------------------------------------------------------------
(* The handlers: n's thread t sent a message to p.                         *)

Answer(n, t, ans) == rpc' = [rpc EXCEPT ![n][t].ans = ans]
Dispatch(p, item) == work' = [work EXCEPT ![p] = Append(@, item)]
AssertItem == [kind |-> "assert"]

\* __dlm_lookup_lockres(): what is being forgotten is not found.
Seen(p) == res[p].in /\ ~res[p].drop

\* dlm_master_request_handler(): what p answers n
MasterResponse(p) ==
  CASE Seen(p) /\ (res[p].reco \/ res[p].mig)             -> "error"
    [] Seen(p) /\ res[p].owner = p                       -> "yes"
    [] Seen(p) /\ res[p].owner # Unknown                 -> "no"
    [] mle[p] = NoMle \/ mle[p].type # "MASTER"            -> "no"
    [] Seen(p) /\ mle[p].master = p                      -> "yes"
    [] Seen(p) /\ mle[p].master # Unknown                -> "no"
    [] OTHER                                               -> "maybe"

\* A request that finds the mastery undecided is remembered in maybe_map.
Undecided(p) == /\ Seen(p) => ~res[p].reco /\ ~res[p].mig /\ res[p].owner = Unknown
                /\ Seen(p) /\ mle[p].type = "MASTER" => mle[p].master = Unknown

MasterRequestHandler(n, t, p) ==
  /\ rpc[n][t].kind = "master" /\ rpc[n][t].to = p /\ rpc[n][t].ans = {}
  /\ p \in alive \ post
  /\ LET ans == MasterResponse(p)
         inprog == Seen(p) /\ ~res[p].reco /\ ~res[p].mig /\ res[p].owner = Unknown
     IN /\ Bug("request", (inprog /\ (~res[p].inprog \/ mle[p] = NoMle
                                  \/ (mle[p].type = "MIGRATION" /\ mle[p].master = p)))
                       \/ (~Seen(p) /\ mle[p] # NoMle /\ mle[p].master = p))
        /\ mle' = IF ~Undecided(p) THEN mle
                    ELSE [mle EXCEPT ![p] = IF @ = NoMle THEN Mle(p, "BLOCK", {n})
                                              ELSE [@ EXCEPT !.maybe = @ \union {n}]]
        /\ IF ans = "yes"
             THEN /\ res' = [res EXCEPT ![p].refmap = @ \union {n}]
                  /\ Dispatch(p, AssertItem)
             ELSE UNCHANGED <<res, work>>
        /\ Answer(n, t, {ans})
  /\ UNCHANGED <<alive, mortal, leaves, dom, recov, task, worker, thread, mover, post>>

\* dlm_assert_master_handler(): p cannot accept n as the master
Refuses(p, n) ==
  /\ Seen(p)
  /\ \/ res[p].reco
     \/ /\ mle[p] # NoMle
        /\ CASE mle[p].type = "MIGRATION" -> mle[p].new # n
             [] res[p].owner = Unknown     -> ~res[p].inprog
             [] OTHER                      -> res[p].owner # n

\* An assert that knows nothing of the migration under way
Ignores(p, flags) == Migrating(p) /\ flags = {}

\* p was asking as well and somebody else has answered it: that node may have
\* entries to clean up.
WantsReassert(p, n) == mle[p].type = "MASTER" /\ mle[p].resp \ {p, n} # {}

\* Mutant: the asserting node is not told that this one has the resource
AssertAnsNoRef(p, n) == {"ok"}

AssertAns(p, n) ==
  {"ok"} \union (IF mle[p] # NoMle /\ WantsReassert(p, n) THEN {Reassert} ELSE {})
         \union (IF mle[p] # NoMle /\ Seen(p) THEN {MasteryRef} ELSE {})

AssertMasterHandler(n, t, p) ==
  /\ rpc[n][t].kind = "assert" /\ rpc[n][t].to = p /\ rpc[n][t].ans = {}
  /\ p \in alive \ post
  /\ post' = IF Seen(p) /\ ~Ignores(p, rpc[n][t].with) THEN post \union {p} ELSE post
  /\ CASE Ignores(p, rpc[n][t].with) ->
            /\ Answer(n, t, {"ok"})
            /\ UNCHANGED <<res, mle, task, mover, bug>>
       [] ~Ignores(p, rpc[n][t].with) /\ Refuses(p, n) ->
            /\ Answer(n, t, {"einval"})
            /\ UNCHANGED <<res, mle, task, mover, bug>>
       [] OTHER ->
            /\ Bug("two masters", Seen(p) /\ mle[p] = NoMle /\ res[p].owner \notin {Unknown, n})
            /\ Answer(n, t, AssertAns(p, n))
            /\ res' = IF ~Seen(p) THEN res
                        ELSE [res EXCEPT ![p].setref = TRUE,
                                         ![p].mig = @ /\ ~Migrating(p),
                                         ![p].owner = IF mle[p] = NoMle THEN @ ELSE n]
            /\ mover' = [mover EXCEPT ![p].woken = @ \/ Migrating(p)]
            /\ mle' = [mle EXCEPT ![p] = NoMle]
            /\ task' = IF mle[p] # NoMle /\ ~Migrating(p) /\ task[p].listed
                         THEN [task EXCEPT ![p].listed = FALSE, ![p].heard = n,
                                           ![p].vote = mle[p].vote] ELSE task
  /\ UNCHANGED <<alive, mortal, leaves, dom, recov, work, worker, thread>>

\* dlm_assert_master_post_handler(), after the answer has gone
AssertPostHandler(p) ==
  /\ p \in alive \intersect post
  /\ post' = post \ {p}
  /\ res' = [res EXCEPT ![p].setref = FALSE]
  /\ UNCHANGED <<alive, mortal, leaves, dom, recov, mle, task, work, worker, thread, mover, rpc, bug>>

----------------------------------------------------------------------------
(* Forgetting the resource: dlm_thread and dlm_worker.                     *)

\* __dlm_unhash_lockres(): what still points at the resource points at nothing
\* in the hash any more.
Stale(items) == [i \in DOMAIN items |->
                   IF items[i].kind = "deref" THEN [items[i] EXCEPT !.cur = FALSE] ELSE items[i]]
Unhash(n) ==
  /\ res' = [res EXCEPT ![n] = NoRes]
  /\ work' = [work EXCEPT ![n] = Stale(@)]
  /\ post' = post \ {n}

\* dlm_run_purge_list()
MayPurge(n) == /\ res[n].in /\ res[n].owner # Unknown
               /\ Unused(n) /\ ~res[n].mig /\ ~Asserting(n) /\ thread[n].pc = "idle"

\* dlm_purge_lockres() of the master
PurgeMaster(n) ==
  /\ MayPurge(n) /\ res[n].owner = n
  /\ Unhash(n)
  /\ Bug("purged while it migrates", mover[n].pc = "mark")
  /\ UNCHANGED <<alive, mortal, leaves, dom, recov, mle, task, worker, thread, mover, rpc>>

\* dlm_purge_lockres() of the others
PurgeStart(n) ==
  /\ MayPurge(n) /\ res[n].owner # n /\ ~res[n].drop
  /\ res' = [res EXCEPT ![n].drop = TRUE]
  /\ thread' = [thread EXCEPT ![n] = [pc |-> "drop", cur |-> TRUE, to |-> res[n].owner]]
  /\ UNCHANGED <<alive, mortal, leaves, dom, recov, mle, task, work, worker, mover, rpc, post, bug>>

DerefTarget(n) == IF thread[n].cur THEN res[n].owner ELSE thread[n].to

\* dlm_drop_lockres_ref(), after SETREF_INPROG
PurgeSend(n) ==
  /\ thread[n].pc = "drop"
  /\ thread[n].cur => ~res[n].setref
  /\ Send(n, "thread", "deref", DerefTarget(n))
  /\ thread' = [thread EXCEPT ![n].pc = "asked"]
  /\ UNCHANGED <<alive, mortal, leaves, dom, recov, res, mle, task, work, worker, mover, post, bug>>

\* Answered "in progress", the resource stays until the master says it is done.
PurgeAnswer(n) ==
  /\ thread[n].pc = "asked" /\ rpc[n]["thread"].ans # {}
  /\ LET gone == rpc[n]["thread"].ans # {"inprog"} /\ thread[n].cur IN
       /\ IF gone THEN Unhash(n) ELSE UNCHANGED <<res, work, post>>
       /\ Bug("purged in use", gone /\ ~Unused(n))
  /\ thread' = [thread EXCEPT ![n] = NoPurge]
  /\ Received(n, "thread")
  /\ UNCHANGED <<alive, mortal, leaves, dom, recov, mle, task, worker, mover>>

\* dlm_deref_lockres_handler(): while references are being set the bit is not
\* touched, a worker will do it.
DerefHandler(n, t, p) ==
  /\ rpc[n][t].kind = "deref" /\ rpc[n][t].to = p /\ rpc[n][t].ans = {}
  /\ p \in alive \ post
  /\ IF res[p].in /\ res[p].setref
       THEN /\ Dispatch(p, [kind |-> "deref", node |-> n, cur |-> TRUE])
            /\ Answer(n, t, {"inprog"})
            /\ UNCHANGED <<res, bug>>
       ELSE /\ res' = IF res[p].in THEN [res EXCEPT ![p].refmap = @ \ {n}] ELSE res
            /\ Bug("deref", res[p].in /\ res[p].drop)
            /\ Answer(n, t, {"done"})
            /\ UNCHANGED work
  /\ UNCHANGED <<alive, mortal, leaves, dom, recov, mle, task, worker, thread, mover, post>>

\* dlm_deref_lockres_worker() and dlm_drop_lockres_ref_done()
WorkerDerefs(n) ==
  /\ worker[n].pc = "idle" /\ work[n] # << >> /\ Head(work[n]).kind = "deref"
  /\ LET item == Head(work[n]) IN
       /\ item.cur => ~res[n].setref
       /\ Bug("deref", item.cur /\ res[n].drop)
       /\ res' = IF item.cur THEN [res EXCEPT ![n].refmap = @ \ {item.node}] ELSE res
       /\ Send(n, "worker", "done", item.node)
  /\ worker' = [worker EXCEPT ![n].pc = "done"]
  /\ UNCHANGED <<alive, mortal, leaves, dom, recov, mle, task, work, thread, mover, post>>

WorkerDerefAnswer(n) ==
  /\ worker[n].pc = "done" /\ rpc[n]["worker"].ans # {}
  /\ Received(n, "worker")
  /\ worker' = [worker EXCEPT ![n].pc = "idle"]
  /\ work' = [work EXCEPT ![n] = Tail(@)]
  /\ UNCHANGED <<alive, mortal, leaves, dom, recov, res, mle, task, thread, mover, post, bug>>

\* dlm_deref_lockres_done_handler()
DerefDoneHandler(n, t, p) ==
  /\ rpc[n][t].kind = "done" /\ rpc[n][t].to = p /\ rpc[n][t].ans = {}
  /\ p \in alive \ post
  /\ IF res[p].in /\ res[p].drop
       THEN /\ Bug("purged in use", ~Unused(p))
            /\ Unhash(p)
            /\ thread' = [thread EXCEPT ![p].cur = FALSE]
       ELSE UNCHANGED <<res, work, thread, post, bug>>
  /\ Answer(n, t, {"ok"})
  /\ UNCHANGED <<alive, mortal, leaves, dom, recov, mle, task, worker, mover>>

----------------------------------------------------------------------------
(* Migration: a node that leaves the domain gives what it masters away.    *)
(* The locks that travel with the resource are left out.                   *)

\* dlm_pick_migration_target(): a node with a lock, or else one that knows it
Targets(n) ==
  LET refs == res[n].refmap \ leaves
      users == {p \in refs : task[p].pc = "use"}
  IN IF users # {} THEN users ELSE IF refs = {} THEN {} ELSE {Min(refs)}

\* dlm_is_lockres_migratable(); the users of a node that leaves are gone.
Migratable(n) == /\ res[n].in /\ res[n].owner = n /\ ~res[n].mig /\ ~res[n].reco
                 /\ res[n].refmap # {}
                 /\ task[n].pc = "idle" /\ task[n].asks = 0

\* dlm_add_migration_mle(): who waits for the old entry learns the old master.
MigrationMle(p, master, new) == [Mle(p, "MIGRATION", {new}) EXCEPT !.master = master, !.new = new]
AddMigrationMle(p, master, new) ==
  /\ mle' = [mle EXCEPT ![p] = MigrationMle(p, master, new)]
  /\ task' = IF mle[p] # NoMle /\ ~Migrating(p) /\ task[p].listed
               THEN [task EXCEPT ![p].listed = FALSE, ![p].heard = master,
                                 ![p].vote = mle[p].vote] ELSE task

MigrateStart(n) ==
  /\ n \in leaves /\ mover[n].pc = "idle" /\ Migratable(n) /\ ~Migrating(n)
  /\ \E target \in Targets(n) :
       /\ AddMigrationMle(n, n, target)
       /\ mover' = [mover EXCEPT ![n] = [pc |-> "mark", target |-> target, woken |-> FALSE]]
  /\ UNCHANGED <<alive, mortal, leaves, dom, recov, res, work, worker, thread, rpc, post, bug>>

\* dlm_mark_lockres_migrating(): no AST is reserved any more.
MarkMigrating(n) ==
  /\ mover[n].pc = "mark"
  /\ ~(worker[n].pc \in {"assert", "asserting"} /\ Head(work[n]).kind = "assert")
  /\ res' = [res EXCEPT ![n].mig = TRUE]
  /\ mover' = [mover EXCEPT ![n].pc = "send"]
  /\ UNCHANGED <<alive, mortal, leaves, dom, recov, mle, task, work, worker, thread, rpc, post, bug>>

\* dlm_send_one_lockres(), after flush_workqueue()
MigrateSend(n) ==
  /\ mover[n].pc = "send" /\ work[n] = << >>
  /\ Send(n, "mover", "lockres", mover[n].target)
  /\ mover' = [mover EXCEPT ![n].pc = "sent"]
  /\ UNCHANGED <<alive, mortal, leaves, dom, recov, res, mle, task, work, worker, thread, post, bug>>

\* Any error but a dead target is a BUG().
MigrateSent(n) ==
  /\ mover[n].pc = "sent" /\ rpc[n]["mover"].ans # {}
  /\ Bug("target refused", "einval" \in rpc[n]["mover"].ans)
  /\ mover' = [mover EXCEPT ![n].pc = IF "einval" \in rpc[n]["mover"].ans THEN "killed" ELSE "wait"]
  /\ Received(n, "mover")
  /\ UNCHANGED <<alive, mortal, leaves, dom, recov, res, mle, task, work, worker, thread, post>>

\* The new master has asserted.
Migrated(n) ==
  /\ mover[n].pc = "wait" /\ (mover[n].woken \/ res[n].owner = mover[n].target)
  /\ res' = [res EXCEPT ![n].owner = mover[n].target, ![n].mig = FALSE, ![n].refmap = {}]
  /\ mover' = [mover EXCEPT ![n] = [pc |-> "idle", target |-> Unknown, woken |-> FALSE]]
  /\ UNCHANGED <<alive, mortal, leaves, dom, recov, mle, task, work, worker, thread, rpc, post, bug>>

\* dlm_mig_lockres_handler(): the target takes the resource, unless it is
\* forgetting it.
MigLockresHandler(n, t, p) ==
  /\ rpc[n][t].kind = "lockres" /\ rpc[n][t].to = p /\ rpc[n][t].ans = {}
  /\ p \in alive \ post
  /\ IF res[p].in /\ res[p].drop
       THEN /\ Answer(n, t, {"einval"})
            /\ UNCHANGED <<res, work>>
       ELSE /\ res' = [res EXCEPT ![p] = [(IF @.in THEN @ ELSE Res(Unknown, FALSE))
                                            EXCEPT !.mig = TRUE, !.owner = p]]
            /\ Dispatch(p, [kind |-> "mig", from |-> n])
            /\ Answer(n, t, {"ok"})
  /\ UNCHANGED <<alive, mortal, leaves, dom, recov, mle, task, worker, thread, mover, post, bug>>

\* dlm_finish_migration(): dlm_do_migrate_request() to all the others
WorkerTakesOver(n) ==
  /\ worker[n].pc = "idle" /\ work[n] # << >> /\ Head(work[n]).kind = "mig"
  /\ LET others == dom[n] \ {n, Head(work[n]).from} IN
       worker' = [worker EXCEPT ![n] = [@ EXCEPT !.pc = "moving", !.todo = others, !.map = others]]
  /\ res' = [res EXCEPT ![n].refmap = @ \union {Head(work[n]).from}]
  /\ UNCHANGED <<alive, mortal, leaves, dom, recov, mle, task, work, thread, mover, rpc, post, bug>>

WorkerTellsMove(n) ==
  /\ worker[n].pc = "moving" /\ worker[n].todo # {}
  /\ SendWith(n, "worker", "migrate", Min(worker[n].todo), {Head(work[n]).from})
  /\ worker' = [worker EXCEPT ![n].pc = "telling"]
  /\ UNCHANGED <<alive, mortal, leaves, dom, recov, res, mle, task, work, thread, mover, post, bug>>

WorkerMoveAnswer(n) ==
  /\ worker[n].pc = "telling" /\ rpc[n]["worker"].ans # {}
  /\ res' = [res EXCEPT ![n].refmap = RefTaken(n, "worker")]
  /\ worker' = [worker EXCEPT ![n].pc = "moving", ![n].todo = @ \ {rpc[n]["worker"].to}]
  /\ Received(n, "worker")
  /\ UNCHANGED <<alive, mortal, leaves, dom, recov, mle, task, work, thread, mover, post, bug>>

\* dlm_migrate_request_handler()
MigrateRequestHandler(n, t, p) ==
  /\ rpc[n][t].kind = "migrate" /\ rpc[n][t].to = p /\ rpc[n][t].ans = {}
  /\ p \in alive \ post
  /\ LET master == Min(rpc[n][t].with) IN AddMigrationMle(p, master, n)
  /\ Bug("two migrations", Migrating(p))
  /\ res' = IF Seen(p) THEN [res EXCEPT ![p].mig = TRUE] ELSE res
  /\ Answer(n, t, {"ok"} \union IF mle[p] # NoMle /\ mle[p].type = "MASTER" THEN {MasteryRef} ELSE {})
  /\ UNCHANGED <<alive, mortal, leaves, dom, recov, work, worker, thread, mover, post>>

\* All know: assert to them, then to the old master, then own it.
WorkerMoved(n) ==
  /\ worker[n].pc = "moving" /\ worker[n].todo = {}
  /\ worker' = [worker EXCEPT ![n].pc = "assert", ![n].todo = worker[n].map, ![n].again = FALSE]
  /\ res' = [res EXCEPT ![n].setref = TRUE]
  /\ UNCHANGED <<alive, mortal, leaves, dom, recov, mle, task, work, thread, mover, rpc, post, bug>>

WorkerMoveAsserted(n) ==
  /\ worker[n].pc = "assert" /\ worker[n].todo = {} /\ Head(work[n]).kind = "mig"
  /\ LET old == {Head(work[n]).from} IN
     CASE worker[n].again ->
            /\ worker' = [worker EXCEPT ![n].todo = worker[n].map, ![n].again = FALSE]
            /\ UNCHANGED <<res, work>>
       [] ~worker[n].again /\ worker[n].map # old ->
            /\ worker' = [worker EXCEPT ![n].todo = old, ![n].map = old]
            /\ UNCHANGED <<res, work>>
       [] OTHER ->
            /\ res' = [res EXCEPT ![n].owner = n, ![n].mig = FALSE, ![n].setref = FALSE]
            /\ worker' = [worker EXCEPT ![n] = Idle]
            /\ work' = [work EXCEPT ![n] = Tail(@)]
  /\ UNCHANGED <<alive, mortal, leaves, dom, recov, mle, task, thread, mover, rpc, post, bug>>

----------------------------------------------------------------------------
(* Deaths.                                                                 *)

Die(d) ==
  /\ d \in alive \intersect mortal
  /\ mortal' = mortal \ {d}
  /\ alive' = alive \ {d}
  /\ post' = post \ {d}
  /\ rpc' = [rpc EXCEPT ![d] = [t \in Threads |-> NoRpc]]
  /\ UNCHANGED <<leaves, dom, recov, res, mle, task, work, worker, thread, mover, bug>>

\* dlm_is_host_down(): the connection went before the answer came.
HostDown(n, t) ==
  /\ rpc[n][t] # NoRpc /\ rpc[n][t].to \notin alive /\ rpc[n][t].ans # {"down"}
  /\ Answer(n, t, {"down"})
  /\ UNCHANGED <<alive, mortal, leaves, dom, recov, res, mle, task, work, worker, thread, mover, post, bug>>

\* dlm_clean_block_mle(): no assert will come from the lowest asker.  A task
\* may still wait for the entry, which takes no more events.
CleanBlockMle(n, d) ==
  IF mle[n] = NoMle \/ mle[n].type # "BLOCK" \/ Lowest(mle[n].maybe) # d THEN mle[n]
  ELSE IF task[n].listed THEN [mle[n] EXCEPT !.hb = FALSE] ELSE NoMle

\* Mutant: the entry misses the event
MleNodeDownMissed(e, d) == e

\* dlm_mle_node_down(), for the entries attached to heartbeat events
MleNodeDown(e, d) == IF e = NoMle \/ ~e.hb THEN e ELSE [e EXCEPT !.node = @ \ {d}]

\* __dlm_hb_node_down() and dlm_do_local_recovery_cleanup()
NodeDown(n, d) ==
  /\ n \in alive /\ d \in dom[n] \ alive
  /\ mle' = [mle EXCEPT ![n] = MleNodeDown(CleanBlockMle(n, d), d)]
  /\ dom' = [dom EXCEPT ![n] = @ \ {d}]
  /\ recov' = [recov EXCEPT ![n] = @ \union {d}]
  /\ LET dropped == res[n].in /\ res[n].owner = d /\ res[n].drop IN
       IF dropped
         THEN /\ Bug("purged in use", ~Unused(n))
              /\ Unhash(n)
              /\ thread' = [thread EXCEPT ![n].cur = FALSE]
         ELSE /\ res' = IF ~res[n].in THEN res
                          ELSE IF res[n].owner = d THEN [res EXCEPT ![n].reco = TRUE]
                          ELSE [res EXCEPT ![n].refmap = @ \ {d}]
              /\ UNCHANGED <<work, post, thread, bug>>
  /\ UNCHANGED <<alive, mortal, leaves, task, worker, mover, rpc>>

\* Recovery as this module needs it: when all nodes have noticed the death, one
\* of those that know the resource masters it (dlm_finish_local_lockres_recovery
\* on each of them).
Recover(d, new) ==
  /\ d \notin alive /\ \A n \in alive : d \in recov[n]
  /\ LET know == {n \in alive : res[n].in /\ res[n].reco /\ res[n].owner = d} IN
       /\ IF know = {} THEN new = d ELSE new \in know
       /\ res' = [n \in DNode |->
            IF n \notin know THEN res[n]
            ELSE [res[n] EXCEPT !.owner = new, !.reco = FALSE,
                                !.refmap = IF n = new THEN know \ {new} ELSE @]]
  /\ recov' = [n \in DNode |-> recov[n] \ {d}]
  /\ UNCHANGED <<alive, mortal, leaves, dom, mle, task, work, worker, thread, mover, rpc, post, bug>>

----------------------------------------------------------------------------
TaskStep(n) ==
  \/ LookupFound(n) \/ LookupFirst(n) \/ LookupBlocked(n) \/ AfterRecovery(n)
  \/ AskNode(n) \/ AskedAll(n) \/ VoteAnswer(n) \/ WaitOwnerKnown(n) \/ TellAnswer(n)
  \/ WaitRestart(n) \/ WaitMasterKnown(n) \/ SetHeardOwner(n) \/ WaitElected(n) \/ WaitSleep(n) \/ WokenOwned(n)
  \/ TaskAsserts(n) \/ TaskAssertAnswer(n) \/ TaskAsserted(n) \/ Release(n)
WorkerStep(n) ==
  \/ WorkerStarts(n) \/ WorkerAsserts(n) \/ WorkerAssertAnswer(n) \/ WorkerAsserted(n)
  \/ WorkerDerefs(n) \/ WorkerDerefAnswer(n)
  \/ WorkerTakesOver(n) \/ WorkerTellsMove(n) \/ WorkerMoveAnswer(n) \/ WorkerMoved(n)
  \/ WorkerMoveAsserted(n)
ThreadStep(n) == PurgeMaster(n) \/ PurgeStart(n) \/ PurgeSend(n) \/ PurgeAnswer(n)
MoverStep(n) ==
  \/ MigrateStart(n) \/ MarkMigrating(n) \/ MigrateSend(n) \/ MigrateSent(n) \/ Migrated(n)
Handlers(n, t, p) ==
  \/ MasterRequestHandler(n, t, p) \/ AssertMasterHandler(n, t, p)
  \/ DerefHandler(n, t, p) \/ DerefDoneHandler(n, t, p)
  \/ MigLockresHandler(n, t, p) \/ MigrateRequestHandler(n, t, p)
NetStep(n) ==
  \/ \E m \in alive, t \in Threads : Handlers(m, t, n)
  \/ \E t \in Threads : HostDown(n, t)
  \/ AssertPostHandler(n)

MNext ==
  \/ \E n \in alive : \/ Ask(n) \/ TaskStep(n) \/ WorkerStep(n) \/ ThreadStep(n) \/ MoverStep(n) \/ NetStep(n)
                      \/ \E d \in DNode : NodeDown(n, d)
  \/ \E d \in DNode : Die(d) \/ \E new \in DNode : Recover(d, new)

MSpec == MInit /\ [][MNext]_mvars

----------------------------------------------------------------------------
(* Defects of migration that the runs meet; the other properties are about *)
(* what happens before one of them.  "target refused": the target forgets  *)
(* the resource and answers -EINVAL, a BUG() for dlm_send_one_lockres().   *)
(* "owner overwritten": dlm_wait_for_lock_mastery() sets the owner it      *)
(* heard of before a migration changed it.  "purged while it migrates":    *)
(* the last reference is dropped before MIGRATING is set.                  *)
Known == {"target refused", "owner overwritten", "purged while it migrates"}
Clean == bug \intersect Known = {}

MasterTypeOK ==
  /\ alive \subseteq DNode /\ mortal \subseteq DNode /\ leaves \subseteq DNode /\ post \subseteq alive
  /\ \A n \in DNode :
       /\ dom[n] \subseteq DNode /\ recov[n] \subseteq DNode
       /\ res[n].owner \in DNode \union {Unknown}
       /\ res[n].in => res[n].refmap \subseteq DNode
       /\ mle[n] # NoMle => /\ mle[n].type \in {"MASTER", "BLOCK", "MIGRATION"}
                            /\ mle[n].resp \union mle[n].maybe \union mle[n].vote \subseteq DNode
       /\ \A t \in Threads : rpc[n][t] # NoRpc => rpc[n][t].to \in DNode \ {n}
  /\ bug \subseteq Known \union {"lookup", "second asker", "request", "two masters", "deref",
                                 "assert refused", "purged in use", "two migrations"}

\* No assertion of the code fails: no second master asserts itself, no assert is
\* refused by a node that lives, nothing is purged in use, no request finds an
\* entry its state excludes (the BUG()s of dlmmaster.c and dlmthread.c).
NoBug == bug \subseteq Known \/ ~Clean

\* A resource has one master: whatever the order of requests, asserts and
\* deaths, no two nodes that live own it (dlm_do_assert_master, the handlers).
Masters(n) == res[n].in /\ res[n].owner = n /\ ~res[n].mig
OneMaster == Clean => \A a, b \in alive : Masters(a) /\ Masters(b) => a = b

\* Who uses a resource can reach its lock: the node it takes for the master is
\* dead and its death not yet recovered from, or has the resource and is, or is
\* about to be, its owner.
MasterKept ==
  Clean => \A n \in alive :
    LET m == res[n].owner IN
      task[n].pc = "use" /\ m \in alive \ {n}
        => res[m].in /\ (res[m].owner = m \/ (res[m].owner = Unknown /\ MasterHeard(m) = m))

\* The master never forgets a resource another node uses: it has that node in
\* refmap, or waits for the answer that puts it there (SETREF_INPROG; the race
\* of deref with assert_master).
RefmapCovers ==
  Clean => \A n \in alive :
    LET m == res[n].owner IN
      task[n].pc = "use" /\ m \in alive \ {n} /\ ~res[n].reco /\ ~res[n].mig
        => \/ n \in res[m].refmap
           \/ \E t \in Threads : rpc[m][t] # NoRpc /\ rpc[m][t].kind = "assert" /\ rpc[m][t].to = n

\* Both: users and masters know each other.
UsersKnown == MasterKept /\ RefmapCovers

\* A node that sleeps until it hears of a master is going to: somebody asks,
\* tells or waits for an answer, or a death is still to be noticed or recovered
\* from.  The entries dlm_clean_block_mle() detached from heartbeat events are
\* left out: a task that waits for one of them may sleep for ever.
Asleep(n) == task[n].pc = "sleep" /\ Sleepy(n)
NoStandstill ==
  Clean /\ (\E n \in alive : Asleep(n) /\ (task[n].listed => mle[n].hb))
    => \E n \in alive : \/ task[n].pc \notin {"idle", "use", "sleep"}
                        \/ task[n].pc = "sleep" /\ ~Sleepy(n)
                        \/ work[n] # << >> \/ mover[n].pc # "idle"
                        \/ dom[n] # alive \/ recov[n] # {}
                        \/ \E t \in Threads : rpc[n][t] # NoRpc
===============================================================================
