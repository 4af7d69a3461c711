------------------------------- MODULE DlmGlue -------------------------------
(***************************************************************************)
(* dlmglue: the cluster lock of one resource as every node of the cluster  *)
(* keeps it in a struct ocfs2_lock_res, over the o2dlm of DlmQueues.       *)
(*                                                                         *)
(* On each node run: tasks that take and release the lock through          *)
(* __ocfs2_cluster_lock() and __ocfs2_cluster_unlock(); the downconvert    *)
(* thread, which gives the lock up for other nodes; the ASTs and BASTs of  *)
(* the DLM; and, on the nodes of Evictors, the eviction of the object the  *)
(* lock protects.  A step is a critical section of lockres->l_lock, or a   *)
(* call of the DLM: the steps of the program between which others run.     *)
(*                                                                         *)
(* A lock has a type, which says what its l_ops ask of the downconvert     *)
(* thread, and how it is used.                                             *)
(*                                                                         *)
(* Bounds: the nodes, the tasks, what each may ask for, and that those of  *)
(* Once ask once; nothing else is bounded.                                 *)
(***************************************************************************)
EXTENDS DlmQueues

CONSTANTS
  Task,        \* the processes that use the lock
  NodeOf,      \* NodeOf[t]: the node t runs on
  Types,       \* the types of the lock, some of LockType
  Requests,    \* Requests[k][t]: how t may ask for a lock of type k
  Once,        \* Once[k]: the tasks that ask only once for it
  NoIntr,      \* the nodes mounted with "nointr": signals are not heeded
  Evictors     \* Evictors[k]: the nodes that may evict the object

LockType == {"rw", "meta", "super", "rename", "nfs_sync", "trim_fs",
             "orphan_scan", "dentry", "open", "flock", "qinfo", "refcount"}

\* The l_ops with a downconvert_worker, with a check_downconvert that may
\* refuse, with LOCK_TYPE_REQUIRES_REFRESH
WorkerTypes == {"meta", "dentry", "refcount"}
CheckedTypes == {"meta", "refcount"}
RefreshTypes == {"meta", "super", "trim_fs", "orphan_scan", "qinfo"}

\* How a task asks: it waits; DLM_LKF_NOQUEUE; OCFS2_LOCK_NONBLOCK
How == {"wait", "noqueue", "nonblock"}

ASSUME NodeOfAssumption == NodeOf \in [Task -> Node]
\* pendingBy tells a task from the downconvert thread.
ASSUME TaskAssumption == "dc" \notin Task
ASSUME TypesAssumption == Types \subseteq LockType
ASSUME RequestsAssumption ==
  Requests \in [Types -> [Task -> SUBSET [level : {PR, EX}, how : How]]]
ASSUME UsesAssumption ==
  /\ Once \in [Types -> SUBSET Task]
  /\ NoIntr \subseteq Node
  /\ Evictors \in [Types -> SUBSET Node]

Flag == {"ATTACHED", "BUSY", "BLOCKED", "PENDING", "UPCONVERT_FINISHING",
         "NONBLOCK_FINISHED", "QUEUED", "FREEING", "NEEDS_REFRESH",
         "REFRESHING"}

VARIABLES
  level, requested, blocking,   \* l_level, l_requested, l_blocking
  action, unlockAction,         \* l_action, l_unlock_action
  flags,                        \* l_flags
  pendingBy,     \* whose generation of l_pending_gen is the current one
  onList,        \* l_blocked_list is on osb->blocked_lock_list
  wake,          \* dc_wake_sequence # dc_work_sequence
  dcPc, dcSaved, dcRequeue,     \* the downconvert thread
  pc, want, mw,                 \* the tasks: where, for what, l_mask_waiters
  tried, locked,                \* noqueue_attempted, dlm_locked
  evictPc,                      \* the eviction
  ltype,         \* l_type
  current        \* the nodes whose copy of the object is up to date

lockVars == <<level, requested, blocking, action, unlockAction, flags,
              pendingBy, onList, wake>>
dcVars == <<dcPc, dcSaved, dcRequeue>>
taskVars == <<pc, want, mw, tried, locked>>
vars == <<dlmVars, lockVars, dcVars, taskVars, evictPc, current>>

HasWorker == ltype \in WorkerTypes
Checkpoints == ltype \in CheckedTypes
Refreshes == ltype \in RefreshTypes

TasksOf(n) == {t \in Task : NodeOf[t] = n}

\* A caller is inside ocfs2_inode_lock() ... ocfs2_inode_unlock() proper.
HoldsPc == {"holding", "refresh", "held", "failed"}
Holders(n, l) == {t \in TasksOf(n) : pc[t] \in HoldsPc /\ want[t].level = l}
ExHolders(n) == Holders(n, EX)      \* l_ex_holders > 0
RoHolders(n) == Holders(n, PR)      \* l_ro_holders > 0

Init ==
  /\ DlmInit
  /\ level = [n \in Node |-> IV]
  /\ requested = [n \in Node |-> IV]
  /\ blocking = [n \in Node |-> IV]
  /\ action = [n \in Node |-> "INVALID"]
  /\ unlockAction = [n \in Node |-> "INVALID"]
  /\ flags = [n \in Node |-> {}]
  /\ pendingBy = [n \in Node |-> "none"]
  /\ onList = [n \in Node |-> FALSE]
  /\ wake = [n \in Node |-> FALSE]
  /\ dcPc = [n \in Node |-> "idle"]
  /\ dcSaved = [n \in Node |-> [blocking |-> IV, level |-> IV]]
  /\ dcRequeue = [n \in Node |-> FALSE]
  /\ pc = [t \in Task |-> "idle"]
  /\ want = [t \in Task |-> [level |-> PR, how |-> "wait"]]
  /\ mw = [t \in Task |-> "none"]
  /\ tried = [t \in Task |-> FALSE]
  /\ locked = [t \in Task |-> FALSE]
  /\ evictPc = [n \in Node |-> "live"]
  /\ current = {}
  /\ ltype \in Types

-----------------------------------------------------------------------------
(* Pieces of the handlers                                                  *)

\* lockres_set_flags(): every mask waiter that has reached its goal leaves the
\* list.  The code only ever waits for one flag to be clear.
Released(n, f) ==
  [t \in Task |-> IF NodeOf[t] = n /\ mw[t] \notin f THEN "none" ELSE mw[t]]

SetFlags(n, f) ==
  /\ flags' = [flags EXCEPT ![n] = f]
  /\ mw' = Released(n, f)

\* ocfs2_wake_downconvert_thread(), if the condition c holds
Kick(n, c) == wake' = [wake EXCEPT ![n] = @ \/ c]

\* __lockres_clear_pending() by caller c, for flags f: what is left of f
ClearPending(n, c, f) ==
  IF "PENDING" \in f /\ pendingBy[n] = c THEN f \ {"PENDING"} ELSE f
ClearPendingKicks(n, c, f) ==
  "PENDING" \in f /\ pendingBy[n] = c /\ "BLOCKED" \in f

\* Mutant: whoever has the level goes on, blocked or not.
MayContinueAlways(n, l) == TRUE

\* ocfs2_may_continue_on_blocked_lock()
MayContinue(n, l) == l <= HighestCompat(blocking[n])

\* ocfs2_schedule_blocked_lock(), on top of flags f
Scheduled(n, f) == IF "FREEING" \in f THEN f ELSE f \union {"QUEUED"}
ListedWhen(n, f) == onList[n] \/ "FREEING" \notin f

\* Where a task ends up that has, or did not get, the lock behind it
Rest(t) == IF t \in Once[ltype] THEN "done" ELSE "idle"

Goto(t, l) == pc' = [pc EXCEPT ![t] = l]

\* __ocfs2_cluster_lock() returns: its locals are gone.
Return(t, l) ==
  /\ Goto(t, l)
  /\ tried' = [tried EXCEPT ![t] = FALSE]
  /\ locked' = [locked EXCEPT ![t] = FALSE]

DcGoto(n, l) == dcPc' = [dcPc EXCEPT ![n] = l]

-----------------------------------------------------------------------------
(* __ocfs2_cluster_lock()                                                  *)

Enter(t) ==
  /\ pc[t] = "idle"
  /\ evictPc[NodeOf[t]] = "live"
  /\ \E r \in Requests[ltype][t] : want' = [want EXCEPT ![t] = r]
  /\ Goto(t, "again")
  /\ UNCHANGED <<dlmVars, lockVars, dcVars, mw, tried, locked, evictPc,
                 current>>

\* The label "unlock": UPCONVERT_FINISHING is cleared, whoever comes by.
LeaveSection(n) ==
  /\ SetFlags(n, flags[n] \ {"UPCONVERT_FINISHING"})
  /\ Kick(n, "BLOCKED" \in flags[n])

\* It is about to look at the lock: for the first time, or because what
\* ocfs2_wait_for_mask() waited for has happened.
AtAgain(t) == pc[t] = "again" \/ (pc[t] = "wait" /\ mw[t] = "none")

\* Mutant: a request that has left the node is not waited for.
MustWaitPending(t) ==
  LET n == NodeOf[t] IN "PENDING" \in flags[n] /\ want[t].level > level[n]

MustWaitBusy(t) ==
  LET n == NodeOf[t] IN "BUSY" \in flags[n] /\ want[t].level > level[n]

\* The upconvert this task may have waited for has arrived.
Upconverted(t) ==
  LET n == NodeOf[t]
  IN "UPCONVERT_FINISHING" \in flags[n] /\ want[t].level <= level[n]

MustWaitBlocked(t) ==
  LET n == NodeOf[t]
  IN  /\ "BLOCKED" \in flags[n]
      /\ ~MayContinue(n, want[t].level)
      /\ ~Upconverted(t)

\* A signal is noticed only before the task has been inside the DLM.
AgainSignal(t) ==
  /\ AtAgain(t)
  /\ NodeOf[t] \notin NoIntr
  /\ ~locked[t]
  /\ LeaveSection(NodeOf[t])
  /\ Goto(t, Rest(t))
  /\ UNCHANGED <<dlmVars, level, requested, blocking, action, unlockAction,
                 pendingBy, onList, dcVars, want, tried, locked, evictPc,
                 current>>

\* The task becomes a mask waiter for BUSY or for BLOCKED.
AgainWait(t) ==
  LET n == NodeOf[t]
      f == flags[n] \ {"UPCONVERT_FINISHING"}
  IN  /\ AtAgain(t)
      /\ MustWaitBusy(t) \/ MustWaitBlocked(t)
      /\ flags' = [flags EXCEPT ![n] = f]
      /\ mw' = [Released(n, f) EXCEPT
                  ![t] = IF MustWaitBusy(t) THEN "BUSY" ELSE "BLOCKED"]
      /\ Kick(n, "BLOCKED" \in flags[n])
      /\ Goto(t, IF want[t].how = "nonblock" THEN "nonblock" ELSE "wait")
      /\ UNCHANGED <<dlmVars, level, requested, blocking, action, unlockAction,
                     pendingBy, onList, dcVars, want, tried, locked, evictPc,
                     current>>

\* update_holders
AgainHold(t) ==
  LET n == NodeOf[t]
  IN  /\ AtAgain(t)
      /\ ~MustWaitBusy(t)
      /\ ~MustWaitBlocked(t)
      /\ want[t].level <= level[n]
      /\ LeaveSection(n)
      /\ Return(t, IF Refreshes THEN "holding" ELSE "held")
      /\ UNCHANGED <<dlmVars, level, requested, blocking, action, unlockAction,
                     pendingBy, onList, dcVars, want, evictPc,
                     current>>

\* A second round of a NOQUEUE request: -EAGAIN
AgainGiveUp(t) ==
  LET n == NodeOf[t]
  IN  /\ AtAgain(t)
      /\ ~MustWaitBusy(t)
      /\ ~MustWaitBlocked(t)
      /\ want[t].level > level[n]
      /\ tried[t]
      /\ LeaveSection(n)
      /\ Return(t, Rest(t))
      /\ UNCHANGED <<dlmVars, level, requested, blocking, action, unlockAction,
                     pendingBy, onList, dcVars, want, evictPc,
                     current>>

\* The lock must be upgraded: BUSY and PENDING are set, then the DLM is called.
AgainRequest(t) ==
  LET n == NodeOf[t]
  IN  /\ AtAgain(t)
      /\ ~MustWaitBusy(t)
      /\ ~MustWaitBlocked(t)
      /\ want[t].level > level[n]
      /\ ~tried[t]
      /\ tried' = [tried EXCEPT ![t] = want[t].how = "noqueue"]
      /\ action' = [action EXCEPT ![n] = IF "ATTACHED" \in flags[n]
                                         THEN "CONVERT" ELSE "ATTACH"]
      /\ requested' = [requested EXCEPT ![n] = want[t].level]
      /\ SetFlags(n, flags[n] \union {"BUSY", "PENDING"})
      /\ pendingBy' = [pendingBy EXCEPT ![n] = t]
      /\ Goto(t, "dlm")
      /\ UNCHANGED <<dlmVars, level, blocking, unlockAction, onList, wake,
                     dcVars, want, locked, evictPc, current>>

\* ocfs2_dlm_lock() reaches the master.
DlmLockCall(t) ==
  LET n == NodeOf[t]
      l == want[t].level
      now == IF action[n] = "ATTACH" THEN CanGrantNew(l) ELSE CanConvert(n, l)
  IN  /\ pc[t] = "dlm"
      /\ IF want[t].how = "noqueue" /\ ~now
         THEN DlmNotQueued(n) /\ Goto(t, "refused")
         ELSE /\ IF action[n] = "ATTACH" THEN DlmLock(n, l)
                                         ELSE DlmConvert(n, l)
              /\ Goto(t, "called")
      /\ UNCHANGED <<lockVars, dcVars, want, mw, tried, locked, evictPc,
                     current>>

\* ... and returns; lockres_clear_pending() with the generation of the call
DlmLockReturn(t) ==
  LET n == NodeOf[t]
      f == ClearPending(n, t, flags[n])
  IN  /\ pc[t] \in {"called", "refused"}
      /\ owed[n] = "none"
      /\ SetFlags(n, f)
      /\ Kick(n, ClearPendingKicks(n, t, flags[n]))
      /\ pendingBy' = IF f = flags[n] THEN pendingBy
                      ELSE [pendingBy EXCEPT ![n] = "none"]
      /\ IF pc[t] = "called"
         THEN Goto(t, "again") /\ locked' = [locked EXCEPT ![t] = TRUE]
         ELSE Goto(t, "recover") /\ UNCHANGED locked
      /\ UNCHANGED <<dlmVars, level, requested, blocking, action, unlockAction,
                     onList, dcVars, want, tried, evictPc, current>>

\* ocfs2_recover_from_dlm_error() after a refused NOQUEUE request
RecoverFromError(t) ==
  LET n == NodeOf[t]
  IN  /\ pc[t] = "recover"
      /\ SetFlags(n, flags[n] \ {"BUSY", "UPCONVERT_FINISHING"})
      /\ action' = [action EXCEPT ![n] = "INVALID"]
      /\ Return(t, Rest(t))
      /\ UNCHANGED <<dlmVars, level, requested, blocking, unlockAction,
                     pendingBy, onList, wake, dcVars, want,
                     evictPc, current>>

\* OCFS2_LOCK_NONBLOCK: the waiter is taken off the list instead.  If what it
\* would have waited for has happened meanwhile, the call goes on ...
NonBlockArrived(t) ==
  /\ pc[t] = "nonblock"
  /\ mw[t] = "none"
  /\ Goto(t, "again")
  /\ UNCHANGED <<dlmVars, lockVars, dcVars, want, mw, tried, locked, evictPc,
                 current>>

\* ... otherwise it returns -EAGAIN.  The caller may ask again, and wait.
NonBlockGiveUp(t) ==
  LET n == NodeOf[t]
      finished == IF locked[t] THEN {"NONBLOCK_FINISHED"} ELSE {}
  IN  /\ pc[t] = "nonblock"
      /\ mw[t] # "none"
      /\ flags' = [flags EXCEPT ![n] = @ \union finished]
      /\ mw' = [mw EXCEPT ![t] = "none"]
      /\ Return(t, Rest(t))
      /\ UNCHANGED <<dlmVars, level, requested, blocking, action, unlockAction,
                     pendingBy, onList, wake, dcVars, want, evictPc, current>>

-----------------------------------------------------------------------------
(* While the lock is held                                                  *)

\* ocfs2_should_refresh_lock_res(): at most one task refreshes at a time.
ShouldRefresh(t) ==
  LET n == NodeOf[t]
  IN  /\ pc[t] = "holding"
      /\ \/ /\ "NEEDS_REFRESH" \notin flags[n]
            /\ Goto(t, "held")
            /\ UNCHANGED <<flags, mw>>
         \/ /\ "NEEDS_REFRESH" \in flags[n]
            /\ "REFRESHING" \notin flags[n]
            /\ Goto(t, "refresh")
            /\ SetFlags(n, flags[n] \union {"REFRESHING"})
      /\ UNCHANGED <<dlmVars, level, requested, blocking, action, unlockAction,
                     pendingBy, onList, wake, dcVars, want, tried, locked,
                     evictPc, current>>

\* Mutant: the downconvert thread is not told.
UnlockKicksNever(n, gone) == FALSE

\* The test of ocfs2_downconvert_on_unlock(), with the holders left
UnlockKicks(n, gone) ==
  /\ "BLOCKED" \in flags[n]
  /\ ExHolders(n) \ gone = {}
  /\ blocking[n] = EX => RoHolders(n) \ gone = {}

\* ocfs2_complete_lock_res_refresh(); if the update failed the lock is dropped
\* again by ocfs2_inode_lock_full_nested().
CompleteRefresh(t) ==
  LET n == NodeOf[t]
  IN  /\ pc[t] = "refresh"
      /\ \/ /\ SetFlags(n, flags[n] \ {"REFRESHING", "NEEDS_REFRESH"})
            /\ current' = current \union {n}
            /\ Goto(t, "held")
         \/ /\ SetFlags(n, flags[n] \ {"REFRESHING"})
            /\ Goto(t, "failed")
            /\ UNCHANGED current
      /\ UNCHANGED <<dlmVars, level, requested, blocking, action, unlockAction,
                     pendingBy, onList, wake, dcVars, want, tried, locked,
                     evictPc>>

\* __ocfs2_cluster_unlock(), after whoever had the lock EX has changed the
\* object
Unlock(t) ==
  LET n == NodeOf[t]
      changed == Refreshes /\ pc[t] = "held" /\ want[t].level = EX
  IN  /\ pc[t] \in {"held", "failed"}
      /\ Kick(n, UnlockKicks(n, {t}))
      /\ current' = IF changed THEN {n} ELSE current
      /\ Goto(t, Rest(t))
      /\ UNCHANGED <<dlmVars, level, requested, blocking, action, unlockAction,
                     flags, pendingBy, onList, dcVars, want, mw, tried, locked,
                     evictPc>>

-----------------------------------------------------------------------------
(* The ASTs and BASTs of the DLM.  A BUG_ON of the code is a conjunct: the *)
(* kernel goes no further; NoBug and CancelExpected below are about that.  *)

AstBug(n) ==
  \/ action[n] = "INVALID"
  \/ "BUSY" \notin flags[n]
  \/ action[n] = "ATTACH" /\ "ATTACHED" \in flags[n]
  \/ action[n] # "ATTACH" /\ "ATTACHED" \notin flags[n]
  \/ /\ action[n] = "DOWNCONVERT"
     /\ "BLOCKED" \notin flags[n] \/ blocking[n] <= NL

\* Mutant: an off-by-one
SatisfiesBlockerStrictly(n) ==
  /\ action[n] = "DOWNCONVERT"
  /\ requested[n] < HighestCompat(blocking[n])

\* ocfs2_generic_handle_downconvert_action(): the other node is satisfied.
SatisfiesBlocker(n) ==
  /\ action[n] = "DOWNCONVERT"
  /\ requested[n] <= HighestCompat(blocking[n])

\* Mutant: what a conversion from NL may have missed is not thought of.
NeedsRefreshAttached(n) == Refreshes /\ action[n] = "ATTACH"

NeedsRefresh(n) ==
  /\ Refreshes
  /\ \/ action[n] = "ATTACH"
     \/ action[n] = "CONVERT" /\ level[n] = NL

\* Mutant: the lock is not marked as known to the DLM.
AfterAttachForgotten(f) == f

\* ocfs2_generic_handle_attach_action()
AfterAttach(f) == f \union {"ATTACHED"}

\* What the ocfs2_generic_handle_*_action() make of the flags
AfterAction(n) ==
  LET refresh == IF NeedsRefresh(n) THEN {"NEEDS_REFRESH"} ELSE {}
      f == (flags[n] \union refresh) \ {"BUSY"}
  IN  CASE action[n] = "ATTACH" -> AfterAttach(f)
        [] action[n] = "CONVERT" ->
             IF "NONBLOCK_FINISHED" \in f THEN f \ {"NONBLOCK_FINISHED"}
             ELSE f \union {"UPCONVERT_FINISHING"}
        [] OTHER -> IF SatisfiesBlocker(n) THEN f \ {"BLOCKED"} ELSE f

\* ocfs2_locking_ast()
LockingAst(n) ==
  LET f == AfterAction(n)
  IN  /\ DeliverAst(n)
      /\ ~AstBug(n)
      /\ level' = [level EXCEPT ![n] = requested[n]]
      /\ blocking' = IF SatisfiesBlocker(n) THEN [blocking EXCEPT ![n] = NL]
                                            ELSE blocking
      /\ action' = [action EXCEPT ![n] = "INVALID"]
      /\ unlockAction' = [unlockAction EXCEPT
                            ![n] = IF @ = "CANCEL" THEN "INVALID" ELSE @]
      /\ SetFlags(n, f \ {"PENDING"})
      /\ pendingBy' = [pendingBy EXCEPT
                         ![n] = IF "PENDING" \in f THEN "none" ELSE @]
      /\ Kick(n, {"PENDING", "BLOCKED"} \subseteq f)
      /\ UNCHANGED <<requested, onList, dcVars, pc, want, tried, locked,
                     evictPc, current>>

\* dlm_proxy_ast_handler() knows the lock once its first AST has come.
BastFindsLock(n) == n = Master \/ (type[n] # IV /\ action[n] # "ATTACH")

\* ocfs2_generic_handle_bast(): a downconvert must go lower than is planned.
NeedsDownconvert(n, l) ==
  l > blocking[n] /\ HighestCompat(l) < HighestCompat(blocking[n])

\* ocfs2_blocking_ast()
BlockingAst(n) ==
  LET l == inflight.level
      f == flags[n] \union {"BLOCKED"}
  IN  /\ DeliverBast(n)
      /\ IF ~BastFindsLock(n)
         THEN UNCHANGED <<blocking, flags, mw, onList, wake>>
         ELSE /\ blocking' = [blocking EXCEPT ![n] = IF l > @ THEN l ELSE @]
              /\ Kick(n, TRUE)
              /\ IF NeedsDownconvert(n, l)
                 THEN /\ SetFlags(n, Scheduled(n, f))
                      /\ onList' = [onList EXCEPT ![n] = ListedWhen(n, f)]
                 ELSE UNCHANGED <<flags, mw, onList>>
      /\ UNCHANGED <<level, requested, action, unlockAction, pendingBy, dcVars,
                     pc, want, tried, locked, evictPc, current>>

-----------------------------------------------------------------------------
(* The downconvert thread.  It may be woken on behalf of any other lock of *)
(* the mount; ocfs2_downconvert_thread_do_work() takes the lock off the    *)
(* list once per wake.                                                     *)

DcRuns(n, l) == dcPc[n] = l /\ evictPc[n] # "freed"

OtherWake(n) ==
  /\ onList[n] /\ ~wake[n]
  /\ Kick(n, TRUE)
  /\ UNCHANGED <<dlmVars, level, requested, blocking, action, unlockAction,
                 flags, pendingBy, onList, dcVars, taskVars, evictPc, current>>

\* ... and ocfs2_process_blocked_lock() up to its first check of FREEING
DcTake(n) ==
  /\ DcRuns(n, "idle")
  /\ wake[n]
  /\ wake' = [wake EXCEPT ![n] = FALSE]
  /\ IF onList[n]
     THEN /\ onList' = [onList EXCEPT ![n] = FALSE]
          /\ DcGoto(n, IF "FREEING" \in flags[n] THEN "unqueue" ELSE "unblock")
     ELSE UNCHANGED <<onList, dcPc>>
  /\ UNCHANGED <<dlmVars, level, requested, blocking, action, unlockAction,
                 flags, pendingBy, dcSaved, dcRequeue, taskVars, evictPc,
                 current>>

\* Mutant: what the thread does to a lock is nobody else's business.
SettledOrBusy(n) ==
  "BLOCKED" \in flags[n] /\ "UPCONVERT_FINISHING" \notin flags[n]

\* No request is under way and the last one has been made use of.
Settled(n) ==
  /\ "BLOCKED" \in flags[n]
  /\ "BUSY" \notin flags[n]
  /\ "UPCONVERT_FINISHING" \notin flags[n]

\* The other two assertions of ocfs2_unblock_lock()
UnblockBug(n) ==
  /\ dcPc[n] = "unblock"
  /\ \/ "BLOCKED" \notin flags[n] /\ blocking[n] # NL
     \/ Settled(n) /\ level[n] = NL /\ ExHolders(n) \union RoHolders(n) # {}

\* ocfs2_unblock_lock(): it is not blocking any more.
DcNotBlocked(n) ==
  /\ DcRuns(n, "unblock")
  /\ "BLOCKED" \notin flags[n]
  /\ ~UnblockBug(n)
  /\ DcGoto(n, "unqueue")
  /\ UNCHANGED <<dlmVars, lockVars, dcSaved, dcRequeue, taskVars, evictPc,
                 current>>

IncompatibleHolders(n) ==
  \/ ExHolders(n) # {}
  \/ blocking[n] = EX /\ RoHolders(n) # {}

\* Mutant: the race of OCFS2_LOCK_PENDING
MustRequeuePendingOrNot(n) ==
  \/ {"BLOCKED", "BUSY"} \subseteq flags[n] /\ unlockAction[n] = "CANCEL"
  \/ /\ {"BLOCKED", "UPCONVERT_FINISHING"} \subseteq flags[n]
     /\ "BUSY" \notin flags[n]
  \/ /\ Settled(n)
     /\ level[n] # NL
     /\ IncompatibleHolders(n) \/ (Refreshes /\ "REFRESHING" \in flags[n])

\* The reasons to try again later that need no action of this thread
MustRequeue(n) ==
  \/ {"BLOCKED", "BUSY", "PENDING"} \subseteq flags[n]
  \/ /\ {"BLOCKED", "BUSY"} \subseteq flags[n]
     /\ unlockAction[n] = "CANCEL"
  \/ /\ {"BLOCKED", "UPCONVERT_FINISHING"} \subseteq flags[n]
     /\ "BUSY" \notin flags[n]
  \/ /\ Settled(n)
     /\ level[n] # NL
     /\ IncompatibleHolders(n) \/ (Refreshes /\ "REFRESHING" \in flags[n])

DcRequeue(n) ==
  /\ DcRuns(n, "unblock")
  /\ MustRequeue(n)
  /\ dcRequeue' = [dcRequeue EXCEPT ![n] = TRUE]
  /\ DcGoto(n, "unqueue")
  /\ UNCHANGED <<dlmVars, lockVars, dcSaved, taskVars, evictPc, current>>

\* ocfs2_prepare_cancel_convert() asserts that a conversion is under way.
CancelBug(n) ==
  /\ dcPc[n] = "unblock"
  /\ {"BLOCKED", "BUSY"} \subseteq flags[n]
  /\ ~MustRequeue(n)
  /\ action[n] \notin {"CONVERT", "DOWNCONVERT"}

DcPrepareCancel(n) ==
  /\ DcRuns(n, "unblock")
  /\ {"BLOCKED", "BUSY"} \subseteq flags[n]
  /\ ~MustRequeue(n)
  /\ ~CancelBug(n)
  /\ unlockAction' = [unlockAction EXCEPT ![n] = "CANCEL"]
  /\ dcRequeue' = [dcRequeue EXCEPT ![n] = TRUE]
  /\ DcGoto(n, "cancel")
  /\ UNCHANGED <<dlmVars, level, requested, blocking, action, flags, pendingBy,
                 onList, wake, dcSaved, taskVars, evictPc, current>>

\* "We were trying to upconvert from NL and got canceled."
DcAbort(n) ==
  /\ DcRuns(n, "unblock")
  /\ Settled(n)
  /\ level[n] = NL
  /\ ~UnblockBug(n)
  /\ blocking' = [blocking EXCEPT ![n] = NL]
  /\ SetFlags(n, flags[n] \ {"BLOCKED"})
  /\ DcGoto(n, "unqueue")
  /\ UNCHANGED <<dlmVars, level, requested, action, unlockAction, pendingBy,
                 onList, wake, dcSaved, dcRequeue, pc, want, tried, locked,
                 evictPc, current>>

\* The holders are compatible with what the other node wants.
MayDownconvert(n) == Settled(n) /\ level[n] # NL /\ ~MustRequeue(n)

\* check_downconvert() refuses; the commit thread will wake this one.
DcCheckpoint(n) ==
  /\ DcRuns(n, "unblock")
  /\ Checkpoints
  /\ MayDownconvert(n)
  /\ Kick(n, TRUE)
  /\ dcRequeue' = [dcRequeue EXCEPT ![n] = TRUE]
  /\ DcGoto(n, "unqueue")
  /\ UNCHANGED <<dlmVars, level, requested, blocking, action, unlockAction,
                 flags, pendingBy, onList, dcSaved, taskVars, evictPc,
                 current>>

\* downconvert_worker() runs without l_lock: what it relies on is saved.
DcWorkerStart(n) ==
  /\ DcRuns(n, "unblock")
  /\ HasWorker
  /\ MayDownconvert(n)
  /\ dcSaved' = [dcSaved EXCEPT ![n] = [blocking |-> blocking[n],
                                        level |-> level[n]]]
  /\ DcGoto(n, "worker")
  /\ UNCHANGED <<dlmVars, lockVars, dcRequeue, taskVars, evictPc, current>>

\* ocfs2_prepare_downconvert()
PrepareDownconvert(n) ==
  /\ action' = [action EXCEPT ![n] = "DOWNCONVERT"]
  /\ requested' = [requested EXCEPT ![n] = HighestCompat(blocking[n])]
  /\ SetFlags(n, flags[n] \union {"BUSY", "PENDING"})
  /\ pendingBy' = [pendingBy EXCEPT ![n] = "dc"]
  /\ dcRequeue' = [dcRequeue EXCEPT ![n] = FALSE]
  /\ DcGoto(n, "dlm")

\* ... which asserts that the level really goes down
DownconvertBug(n) ==
  \/ blocking[n] <= NL
  \/ level[n] <= HighestCompat(blocking[n])

DcDownconvert(n) ==
  /\ DcRuns(n, "unblock")
  /\ ~HasWorker
  /\ MayDownconvert(n)
  /\ ~DownconvertBug(n)
  /\ PrepareDownconvert(n)
  /\ UNCHANGED <<dlmVars, level, blocking, unlockAction, onList, wake, dcSaved,
                 pc, want, tried, locked, evictPc, current>>

\* Mutant: what the other nodes want is not looked at again.
WorkerLevelStillValid(n) == dcSaved[n].level = level[n]

WorkerStillValid(n) ==
  dcSaved[n] = [blocking |-> blocking[n], level |-> level[n]]

\* The worker has finished; if things changed underneath: recheck.
DcWorkerDone(n) ==
  /\ DcRuns(n, "worker")
  /\ IF WorkerStillValid(n)
     THEN ~DownconvertBug(n) /\ PrepareDownconvert(n)
     ELSE /\ DcGoto(n, "unblock")
          /\ UNCHANGED <<action, requested, flags, mw, pendingBy, dcRequeue>>
  /\ UNCHANGED <<dlmVars, level, blocking, unlockAction, onList, wake, dcSaved,
                 pc, want, tried, locked, evictPc, current>>

\* ocfs2_downconvert_lock(): the conversion reaches the master ...
DcDlmCall(n) ==
  /\ DcRuns(n, "dlm")
  /\ DlmConvert(n, requested[n])
  /\ DcGoto(n, "called")
  /\ UNCHANGED <<lockVars, dcSaved, dcRequeue, taskVars, evictPc, current>>

\* ... and the call returns.
DcDlmReturn(n) ==
  LET f == ClearPending(n, "dc", flags[n])
  IN  /\ DcRuns(n, "called")
      /\ owed[n] = "none"
      /\ SetFlags(n, f)
      /\ Kick(n, ClearPendingKicks(n, "dc", flags[n]))
      /\ pendingBy' = IF f = flags[n] THEN pendingBy
                      ELSE [pendingBy EXCEPT ![n] = "none"]
      /\ DcGoto(n, "unqueue")
      /\ UNCHANGED <<dlmVars, level, requested, blocking, action, unlockAction,
                     onList, dcSaved, dcRequeue, pc, want, tried, locked,
                     evictPc, current>>

\* ocfs2_cancel_convert() reaches the master.
DcCancelCall(n) ==
  /\ DcRuns(n, "cancel")
  /\ DlmCancel(n)
  /\ DcGoto(n, IF CancelStatus(n) = "NORMAL" THEN "cancelled" ELSE "unqueue")
  /\ UNCHANGED <<lockVars, dcSaved, dcRequeue, taskVars, evictPc, current>>

\* ocfs2_unlock_ast() of a cancel that came in time; o2dlm_unlock_ast_wrapper()
\* does not pass a late one on.
DcUnlockAst(n) ==
  /\ DcRuns(n, "cancelled")
  /\ n = Master => BastsFlushed(n)
  /\ unlockAction[n] = "CANCEL"               \* BUG() otherwise
  /\ action' = [action EXCEPT ![n] = "INVALID"]
  /\ Kick(n, "BLOCKED" \in flags[n])
  /\ SetFlags(n, flags[n] \ {"BUSY"})
  /\ unlockAction' = [unlockAction EXCEPT ![n] = "INVALID"]
  /\ DcGoto(n, "unqueue")
  /\ UNCHANGED <<dlmVars, level, requested, blocking, pendingBy, onList,
                 dcSaved, dcRequeue, pc, want, tried, locked, evictPc,
                 current>>

\* The end of ocfs2_process_blocked_lock()
DcUnqueue(n) ==
  /\ DcRuns(n, "unqueue")
  /\ IF "FREEING" \in flags[n] \/ ~dcRequeue[n]
     THEN SetFlags(n, flags[n] \ {"QUEUED"}) /\ UNCHANGED onList
     ELSE /\ SetFlags(n, Scheduled(n, flags[n]))
          /\ onList' = [onList EXCEPT ![n] = TRUE]
  /\ dcRequeue' = [dcRequeue EXCEPT ![n] = FALSE]
  /\ DcGoto(n, "idle")
  /\ UNCHANGED <<dlmVars, level, requested, blocking, action, unlockAction,
                 pendingBy, wake, dcSaved, pc, want, tried, locked,
                 evictPc, current>>

-----------------------------------------------------------------------------
(* The eviction of the object: ocfs2_mark_lockres_freeing(),               *)
(* ocfs2_drop_lock(), ocfs2_lock_res_free()                                *)

EvictGoto(n, l) == evictPc' = [evictPc EXCEPT ![n] = l]

\* The last reference is gone: nobody can ask for the lock any more.
EvictStart(n) ==
  /\ n \in Evictors[ltype]
  /\ evictPc[n] = "live"
  /\ \A t \in TasksOf(n) : pc[t] \in {"idle", "done"}
  /\ flags' = [flags EXCEPT ![n] = @ \union {"FREEING"}]
  /\ EvictGoto(n, "freeing")
  /\ UNCHANGED <<dlmVars, level, requested, blocking, action, unlockAction,
                 pendingBy, onList, wake, dcVars, taskVars, current>>

\* It waits until the downconvert thread has let go of the lock ...
EvictUnqueued(n) ==
  /\ evictPc[n] = "freeing"
  /\ "QUEUED" \notin flags[n]
  /\ EvictGoto(n, "drop")
  /\ UNCHANGED <<dlmVars, lockVars, dcVars, taskVars, current>>

\* ... and until no request is under way.  A lock that was never attached has
\* nothing to drop.
EvictDrop(n) ==
  /\ evictPc[n] = "drop"
  /\ "BUSY" \notin flags[n]
  /\ IF "ATTACHED" \in flags[n]
     THEN /\ action[n] = "INVALID"             \* BUG_ON otherwise
          /\ SetFlags(n, (flags[n] \ {"ATTACHED"}) \union {"BUSY"})
          /\ unlockAction' = [unlockAction EXCEPT ![n] = "DROP"]
          /\ EvictGoto(n, "unlock")
     ELSE EvictGoto(n, "dropped") /\ UNCHANGED <<flags, mw, unlockAction>>
  /\ UNCHANGED <<dlmVars, level, requested, blocking, action, pendingBy,
                 onList, wake, dcVars, pc, want, tried, locked, current>>

EvictUnlock(n) ==
  /\ evictPc[n] = "unlock"
  /\ DlmUnlock(n)
  /\ EvictGoto(n, "unlocked")
  /\ UNCHANGED <<lockVars, dcVars, taskVars, current>>

\* ocfs2_unlock_ast() of a dropped lock
EvictUnlockAst(n) ==
  /\ evictPc[n] = "unlocked"
  /\ n = Master => BastsFlushed(n)
  /\ unlockAction[n] = "DROP"
  /\ level' = [level EXCEPT ![n] = IV]
  /\ SetFlags(n, flags[n] \ {"BUSY"})
  /\ unlockAction' = [unlockAction EXCEPT ![n] = "INVALID"]
  /\ EvictGoto(n, "dropped")
  /\ UNCHANGED <<dlmVars, requested, blocking, action, pendingBy, onList, wake,
                 dcVars, pc, want, tried, locked, current>>

\* ocfs2_lock_res_free(): the memory may be used for something else.
EvictFree(n) ==
  /\ evictPc[n] = "dropped"
  /\ ~onList[n]                               \* BUG_ON otherwise
  /\ EvictGoto(n, "freed")
  /\ UNCHANGED <<dlmVars, lockVars, dcVars, taskVars, current>>

-----------------------------------------------------------------------------
(* The specification                                                       *)

glueVars == <<lockVars, dcVars, taskVars, evictPc, current>>

Post(n) == DlmPost(n) /\ UNCHANGED glueVars
Thread == DlmThread /\ UNCHANGED glueVars

\* A request goes on by itself ...
Proceed(t) ==
  \/ AgainWait(t) \/ AgainHold(t) \/ AgainGiveUp(t) \/ AgainRequest(t)
  \/ DlmLockCall(t) \/ DlmLockReturn(t) \/ RecoverFromError(t)
  \/ NonBlockArrived(t) \/ NonBlockGiveUp(t)
  \/ ShouldRefresh(t) \/ CompleteRefresh(t) \/ Unlock(t)

Downconvert(n) ==
  \/ DcTake(n) \/ DcNotBlocked(n) \/ DcRequeue(n) \/ DcPrepareCancel(n)
  \/ DcAbort(n) \/ DcCheckpoint(n) \/ DcWorkerStart(n) \/ DcDownconvert(n)
  \/ DcWorkerDone(n) \/ DcDlmCall(n) \/ DcDlmReturn(n) \/ DcCancelCall(n)
  \/ DcUnlockAst(n) \/ DcUnqueue(n)

Evict(n) ==
  \/ EvictUnqueued(n) \/ EvictDrop(n) \/ EvictUnlock(n)
  \/ EvictUnlockAst(n) \/ EvictFree(n)

Dlm ==
  \/ Thread
  \/ \E n \in Node : LockingAst(n) \/ BlockingAst(n) \/ Post(n)

Next ==
  /\ \/ \E t \in Task : Enter(t) \/ AgainSignal(t) \/ Proceed(t)
     \/ \E n \in Node : OtherWake(n) \/ Downconvert(n)
     \/ \E n \in Node : EvictStart(n) \/ Evict(n)
     \/ Dlm
  /\ UNCHANGED ltype

Spec == Init /\ [][Next]_<<vars, ltype>>

(***************************************************************************)
(* What goes on by itself: the threads are scheduled, the messages of the  *)
(* DLM arrive (no node fails here), and whoever holds the lock lets go of  *)
(* it.  Nobody need ask for the lock, be interrupted, wake the downconvert *)
(* thread for another lock, or evict the object.                           *)
(***************************************************************************)
Fairness ==
  /\ \A t \in Task : WF_vars(Proceed(t))
  /\ \A n \in Node : WF_vars(Downconvert(n))
  /\ \A n \in Node : WF_vars(Evict(n))
  /\ WF_vars(Dlm)

LiveSpec == Spec /\ Fairness

-----------------------------------------------------------------------------
(* What holds of it                                                        *)

TypeOK ==
  /\ DlmTypeOK
  /\ level \in [Node -> AnyMode]
  /\ requested \in [Node -> AnyMode]
  /\ blocking \in [Node -> AnyMode]
  /\ action \in [Node -> {"INVALID", "ATTACH", "CONVERT", "DOWNCONVERT"}]
  /\ unlockAction \in [Node -> {"INVALID", "CANCEL", "DROP"}]
  /\ flags \in [Node -> SUBSET Flag]
  /\ pendingBy \in [Node -> Task \union {"none", "dc"}]
  /\ onList \in [Node -> BOOLEAN]
  /\ wake \in [Node -> BOOLEAN]
  /\ dcPc \in [Node -> {"idle", "unblock", "cancel", "cancelled", "worker",
                       "dlm", "called", "unqueue"}]
  /\ dcSaved \in [Node -> [blocking : AnyMode, level : AnyMode]]
  /\ dcRequeue \in [Node -> BOOLEAN]
  /\ pc \in [Task -> {"idle", "done", "again", "wait", "nonblock", "dlm",
                     "called", "refused", "recover"} \union HoldsPc]
  /\ want \in [Task -> [level : {PR, EX}, how : How]]
  /\ mw \in [Task -> {"none", "BUSY", "BLOCKED"}]
  /\ tried \in [Task -> BOOLEAN]
  /\ locked \in [Task -> BOOLEAN]
  /\ evictPc \in [Node -> {"live", "freeing", "drop", "unlock", "unlocked",
                          "dropped", "freed"}]
  /\ current \in SUBSET Node
  /\ ltype \in Types

(***************************************************************************)
(* The cluster lock does what it is for: whoever is between                *)
(* __ocfs2_cluster_lock() and __ocfs2_cluster_unlock() on one node has a   *)
(* mode compatible with everyone else's on the other nodes, and one that   *)
(* the master of the lock knows the node to have: l_level may be ahead of  *)
(* the master while a downconvert is under way, but then nobody is let in  *)
(* at the old level.                                                       *)
(***************************************************************************)
HoldersBacked ==
  \A t \in Task : pc[t] \in HoldsPc => want[t].level <= type[NodeOf[t]]

MutualExclusion ==
  /\ HoldersBacked
  /\ \A t, u \in Task :
       (pc[t] \in HoldsPc /\ pc[u] \in HoldsPc /\ NodeOf[t] # NodeOf[u]) =>
         Compatible(want[t].level, want[u].level)

(***************************************************************************)
(* A caller of ocfs2_inode_lock() sees the object as the last holder of EX *)
(* left it: NEEDS_REFRESH is set whenever the copy may be out of date,     *)
(* whatever conversions were cancelled and refreshes failed in between.    *)
(***************************************************************************)
HeldIsCurrent ==
  Refreshes => \A t \in Task : pc[t] = "held" => NodeOf[t] \in current

(***************************************************************************)
(* dlmglue over o2dlm implements the lock that its callers rely on.        *)
(***************************************************************************)
CL == INSTANCE ClusterLock WITH
        mode <- [t \in Task |-> IF pc[t] \in HoldsPc
                                THEN want[t].level ELSE NL]
ImplementsClusterLock == CL!Spec

(***************************************************************************)
(* The assertions of ocfs2_locking_ast() and the handlers under it, of     *)
(* ocfs2_unblock_lock(), ocfs2_prepare_cancel_convert() and                *)
(* ocfs2_prepare_downconvert() never fail, in any interleaving of ASTs,    *)
(* BASTs, cancels and callers, as long as the object is not evicted.       *)
(***************************************************************************)
DcAboutToPrepare(n) ==
  \/ dcPc[n] = "unblock" /\ ~HasWorker /\ MayDownconvert(n)
  \/ dcPc[n] = "worker" /\ WorkerStillValid(n)

NoBug ==
  \A n \in Node : evictPc[n] = "live" =>
    /\ (n \in pendingAsts /\ FlushingAsts) => ~AstBug(n)
    /\ ~UnblockBug(n)
    /\ ~CancelBug(n)
    /\ DcAboutToPrepare(n) => ~DownconvertBug(n)

(***************************************************************************)
(* The assertion of ocfs2_unlock_ast() ("default: BUG()"), and what the    *)
(* comment on OCFS2_LOCK_PENDING in ocfs2_unblock_lock() says: "Only when  *)
(* the other thread has called dlm_lock() and cleared PENDING will we then *)
(* cancel their request."  A cancel that comes in time was meant for the   *)
(* request it meets.                                                       *)
(***************************************************************************)
CancelExpected ==
  \A n \in Node :
    (evictPc[n] = "live" /\ dcPc[n] = "cancelled") => unlockAction[n] = "CANCEL"

(***************************************************************************)
(* A blocked lock is never forgotten: it is on the list of the downconvert *)
(* thread, or the thread is at it, or the conversion that satisfies the    *)
(* other node is under way.                                                *)
(***************************************************************************)
BlockedIsServiced ==
  \A n \in Node :
    ("BLOCKED" \in flags[n] /\ "FREEING" \notin flags[n]) =>
      \/ onList[n]
      \/ dcPc[n] \in {"unblock", "worker", "cancel", "cancelled", "dlm"}
      \/ dcPc[n] = "unqueue" /\ dcRequeue[n]
      \/ SatisfiesBlocker(n) /\ "BUSY" \in flags[n]

(***************************************************************************)
(* What ocfs2_data_convert_worker() did for the other node, it did without *)
(* l_lock: pages it only wrote back, for a reader, must not survive a      *)
(* downconvert that a writer asked for meanwhile.                          *)
(***************************************************************************)
WorkerSufficed ==
  HasWorker =>
    \A n \in Node :
      dcPc[n] = "dlm" => requested[n] >= HighestCompat(dcSaved[n].blocking)

(***************************************************************************)
(* Types; and two requests of one node are never inside the DLM together:  *)
(* the comment in ocfs2_locking_ast() on which the use of l_pending_gen    *)
(* rests.  That is as long as the object is not evicted: an eviction that  *)
(* is not kept waiting by QUEUED overtakes the downconvert thread.         *)
(***************************************************************************)
OneRequest ==
  TypeOK /\ \A n \in Node : evictPc[n] = "live" =>
    LET asking == {t \in TasksOf(n) : pc[t] = "dlm"}
    IN  /\ Cardinality(asking) <= 1
        /\ (asking # {} \/ dcPc[n] = "dlm") =>
             /\ {"BUSY", "PENDING"} \subseteq flags[n]
             /\ n \notin pendingAsts
             /\ owed[n] # "ast"
        /\ ~(asking # {} /\ dcPc[n] = "dlm")

(***************************************************************************)
(* Once ocfs2_drop_lock() is done the DLM does not know the lock any more, *)
(* and no AST or BAST of it is under way to memory that may be reused.     *)
(***************************************************************************)
DroppedIsForgotten ==
  \A n \in Node :
    evictPc[n] \in {"dropped", "freed"} =>
      /\ n \notin OnLists \union Range(blocked)
      /\ n \notin pendingAsts
      /\ inflight.node = n => ~BastFindsLock(n)

\* ocfs2_wait_for_mask() sleeps.
Asleep(t) == pc[t] = "wait" /\ mw[t] # "none"
Resting(t) == pc[t] \in {"idle", "done"}
EvictAsleep(n) ==
  \/ evictPc[n] = "freeing" /\ "QUEUED" \in flags[n]
  \/ evictPc[n] = "drop" /\ "BUSY" \in flags[n]

(***************************************************************************)
(* Nobody waits for ever: it never comes to a point where a caller, or an  *)
(* eviction, sleeps and everyone who might wake it sleeps as well.  This   *)
(* is what OCFS2_LOCK_PENDING, the generations and all the calls of        *)
(* ocfs2_wake_downconvert_thread() are for.                                *)
(***************************************************************************)
Standstill ==
  /\ Quiet
  /\ \A n \in Node : dcPc[n] = "idle" /\ ~wake[n]
  /\ \A t \in Task : Asleep(t) \/ Resting(t)
  /\ \A n \in Node : evictPc[n] \in {"live", "freed"} \/ EvictAsleep(n)
  /\ \/ \E t \in Task : Asleep(t)
     \/ \E n \in Node : EvictAsleep(n)
NoStandstill == ~Standstill

\* A node where somebody who will not give up waits for the lock ...
Waiting(n) ==
  \E t \in TasksOf(n) :
    pc[t] \in {"again", "wait"} /\ locked[t] /\ want[t].how = "wait"
Using(n) == \E t \in TasksOf(n) : pc[t] \in HoldsPc

(***************************************************************************)
(* ... gets it: no wake-up of the downconvert thread is lost, on this node *)
(* or another, and the nodes do not take the lock from each other before   *)
(* it was used.                                                            *)
(***************************************************************************)
NodeProgress == \A n \in Node : Waiting(n) ~> Using(n)
=============================================================================
