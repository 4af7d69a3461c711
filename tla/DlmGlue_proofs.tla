--------------------------- MODULE DlmGlue_proofs ---------------------------
(***************************************************************************)
(* What the tests of dlmglue under l_lock add up to, for any nodes, tasks, *)
(* uses and types of lock: whoever is let in has a mode that the master of *)
(* the lock knows the node to have, so that the tasks of different nodes   *)
(* exclude each other; dlmglue over o2dlm implements ClusterLock.          *)
(***************************************************************************)
EXTENDS DlmGlue, DlmQueues_proofs, FiniteSetTheorems

-----------------------------------------------------------------------------
(* The invariant of a node.  BUSY stands for one of: a request that is     *)
(* about to leave, one at the master, an answer on its way.                *)

\* A request of n waits at the master; its answer is on the way.
Queued(n) == n \in Range(converting) \union Range(blocked)
Answered(n) == n \in pendingAsts \/ owed[n] = "ast"
Out(n) == Queued(n) \/ Answered(n)

\* The tasks of n whose request has not reached the master, or was refused by it
AskPc == {"dlm", "refused", "recover"}
Askers(n) == {t \in TasksOf(n) : pc[t] \in AskPc}

\* The downconvert thread is about to ask, or to clear BUSY after a cancel.
DcOwns(n) == dcPc[n] \in {"dlm", "cancelled"}

\* A downconvert is under way.
Lowering(n) == action[n] = "DOWNCONVERT"

\* BUSY has one owner.
OneOwner(n) ==
  /\ Queued(n) => ~Answered(n)
  /\ ~(n \in pendingAsts /\ owed[n] = "ast")
  /\ Out(n) => ~DcOwns(n)
  /\ Out(n) \/ DcOwns(n) => Askers(n) = {}
  /\ \A t, u \in Askers(n) : t = u
  /\ Out(n) \/ DcOwns(n) \/ Askers(n) # {} => "BUSY" \in flags[n]

\* The master does what the node asked for, and the AST tells the node what the
\* master did.
Agrees(n) ==
  /\ n \in Range(converting) =>
       convert[n] = requested[n] /\ "ATTACHED" \in flags[n]
  /\ n \in Range(blocked) => type[n] = requested[n]
  /\ Answered(n) => n \in granted /\ type[n] = requested[n]
  /\ "ATTACHED" \notin flags[n] /\ ~Out(n) => type[n] = IV
  /\ n \notin OnLists => level[n] = IV

\* An upconvert goes up; but for a downconvert, the node has no more than the
\* master knows it to have.
GoesUp(n) ==
  /\ \A t \in Askers(n) : pc[t] = "dlm" =>
       /\ requested[n] = want[t].level
       /\ level[n] < requested[n]
       /\ action[n] = "ATTACH" => "ATTACHED" \notin flags[n]
       /\ action[n] # "ATTACH" => "ATTACHED" \in flags[n]
  /\ Out(n) /\ ~Lowering(n) => level[n] < requested[n]
  /\ ~Lowering(n) \/ ~Answered(n) => level[n] <= type[n]

\* A downconvert goes down, and to what goes with what the others want.
GoesDown(n) ==
  /\ dcPc[n] = "dlm" => Lowering(n)
  /\ Lowering(n) =>
       /\ "BLOCKED" \in flags[n]
       /\ "UPCONVERT_FINISHING" \notin flags[n]
       /\ HighestCompat(blocking[n]) <= requested[n]
       /\ requested[n] < level[n]
       /\ dcPc[n] = "dlm" \/ Answered(n)

\* Nobody is let in at a level that is on its way down.
HoldersBelow(n) ==
  \A t \in TasksOf(n) : pc[t] \in HoldsPc =>
    /\ want[t].level <= level[n]
    /\ Lowering(n) => want[t].level <= requested[n]

\* While the downconvert worker runs without l_lock, nothing that it relies on
\* changes unless what ocfs2_unblock_lock() saved tells.
LooksTheSame(n) ==
  /\ dcSaved[n].blocking = blocking[n]
  /\ blocking[n] > NL
  /\ dcSaved[n].level > HighestCompat(blocking[n])
WorkerSafe(n) == dcPc[n] = "worker" =>
  /\ ~Lowering(n)
  /\ "BLOCKED" \in flags[n]
  /\ dcSaved[n].blocking <= blocking[n]
  /\ LooksTheSame(n) =>
       /\ level[n] = dcSaved[n].level
       /\ "BUSY" \notin flags[n]
       /\ "UPCONVERT_FINISHING" \notin flags[n]
       /\ \A t \in TasksOf(n) :
            pc[t] \in HoldsPc => want[t].level <= HighestCompat(blocking[n])

NodeInv(n) ==
  /\ OneOwner(n)
  /\ Agrees(n)
  /\ GoesUp(n)
  /\ GoesDown(n)
  /\ HoldersBelow(n)
  /\ WorkerSafe(n)

\* Tasks use the lock while its object lives; what the downconvert thread asks
\* for is a mode.
UsersLive ==
  \A t \in Task : pc[t] \notin {"idle", "done"} => evictPc[NodeOf[t]] = "live"
DcAsks == \A n \in Node : dcPc[n] = "dlm" => requested[n] \in Mode

LiveNodes == \A n \in Node : evictPc[n] = "live" => NodeInv(n)

GlueInv == DlmInv /\ TypeOK /\ UsersLive /\ DcAsks /\ LiveNodes

-----------------------------------------------------------------------------
(* Types                                                                   *)

Pc == {"idle", "done", "again", "wait", "nonblock", "dlm", "called", "refused",
       "recover"} \union HoldsPc

\* Those of the flags and of who waits for them, which go together
FlagsOK ==
  /\ flags \in [Node -> SUBSET Flag]
  /\ mw \in [Task -> {"none", "BUSY", "BLOCKED"}]

LEMMA SetFlagsTypes ==
  ASSUME TypeOK, NEW n \in Node, NEW f \in SUBSET Flag, SetFlags(n, f)
  PROVE  FlagsOK'
BY DEF TypeOK, SetFlags, Released, FlagsOK

LEMMA KickTypes ==
  ASSUME TypeOK, NEW n \in Node, NEW c, Kick(n, c)
  PROVE  wake' \in [Node -> BOOLEAN]
BY DEF TypeOK, Kick

LEMMA GotoTypes ==
  ASSUME TypeOK, NEW t \in Task, NEW l \in Pc, Goto(t, l)
  PROVE  pc' \in [Task -> Pc]
BY DEF TypeOK, Goto, Pc

LEMMA ReturnTypes ==
  ASSUME TypeOK, NEW t \in Task, NEW l \in Pc, Return(t, l)
  PROVE  /\ pc' \in [Task -> Pc]
         /\ tried' \in [Task -> BOOLEAN]
         /\ locked' \in [Task -> BOOLEAN]
BY DEF TypeOK, Return, Goto, Pc

LEMMA RestTypes ==
  ASSUME NEW t \in Task
  PROVE  Rest(t) \in Pc /\ Rest(t) \in {"idle", "done"}
BY DEF Rest, Pc

\* ... of the steps of a task
LEMMA TaskTypes ==
  ASSUME TypeOK, DlmTypeOK', UNCHANGED ltype, NEW t \in Task,
         Enter(t) \/ AgainSignal(t) \/ Proceed(t)
  PROVE  TypeOK'
<1>1. CASE Enter(t)
  <2>0. NodeOf[t] \in Node
    BY NodeOfAssumption
  <2>1. pc' \in [Task -> Pc]
    BY <1>1, GotoTypes DEF Enter, Pc
  <2>2. want' \in [Task -> [level : {PR, EX}, how : How]]
    BY <1>1, RequestsAssumption DEF TypeOK, Enter
  <2> QED
    BY <1>1, <2>0, <2>1, <2>2
       DEF TypeOK, FlagsOK, Pc, Enter, lockVars, dcVars, taskVars
<1>2. CASE AgainSignal(t)
  <2>0. NodeOf[t] \in Node /\ flags[NodeOf[t]] \subseteq Flag
    BY NodeOfAssumption DEF TypeOK
  <2>1. FlagsOK'
    BY <1>2, <2>0, SetFlagsTypes DEF AgainSignal, LeaveSection
  <2>2. wake' \in [Node -> BOOLEAN]
    BY <1>2, <2>0, KickTypes DEF AgainSignal, LeaveSection
  <2>3. pc' \in [Task -> Pc]
    BY <1>2, GotoTypes, RestTypes DEF AgainSignal
  <2> QED
    BY <1>2, <2>0, <2>1, <2>2, <2>3
       DEF TypeOK, FlagsOK, Pc, AgainSignal, lockVars, dcVars, taskVars
<1>3. CASE AgainWait(t)
  BY <1>3, NodeOfAssumption
     DEF TypeOK, AgainWait, Released, Kick, Goto, Flag, lockVars, dcVars,
         taskVars
<1>4. CASE AgainHold(t)
  <2>0. NodeOf[t] \in Node /\ flags[NodeOf[t]] \subseteq Flag
    BY NodeOfAssumption DEF TypeOK
  <2>1. FlagsOK'
    BY <1>4, <2>0, SetFlagsTypes DEF AgainHold, LeaveSection
  <2>2. wake' \in [Node -> BOOLEAN]
    BY <1>4, <2>0, KickTypes DEF AgainHold, LeaveSection
  <2>3. /\ pc' \in [Task -> Pc]
        /\ tried' \in [Task -> BOOLEAN]
        /\ locked' \in [Task -> BOOLEAN]
    BY <1>4, ReturnTypes DEF AgainHold, Pc, HoldsPc
  <2> QED
    BY <1>4, <2>0, <2>1, <2>2, <2>3
       DEF TypeOK, FlagsOK, Pc, AgainHold, lockVars, dcVars, taskVars
<1>5. CASE AgainGiveUp(t)
  <2>0. NodeOf[t] \in Node /\ flags[NodeOf[t]] \subseteq Flag
    BY NodeOfAssumption DEF TypeOK
  <2>1. FlagsOK'
    BY <1>5, <2>0, SetFlagsTypes DEF AgainGiveUp, LeaveSection
  <2>2. wake' \in [Node -> BOOLEAN]
    BY <1>5, <2>0, KickTypes DEF AgainGiveUp, LeaveSection
  <2>3. /\ pc' \in [Task -> Pc]
        /\ tried' \in [Task -> BOOLEAN]
        /\ locked' \in [Task -> BOOLEAN]
    BY <1>5, ReturnTypes, RestTypes DEF AgainGiveUp
  <2> QED
    BY <1>5, <2>0, <2>1, <2>2, <2>3
       DEF TypeOK, FlagsOK, Pc, AgainGiveUp, lockVars, dcVars, taskVars
<1>6. CASE AgainRequest(t)
  <2>0. NodeOf[t] \in Node /\ flags[NodeOf[t]] \subseteq Flag
    BY NodeOfAssumption DEF TypeOK
  <2>1. FlagsOK'
    BY <1>6, <2>0, SetFlagsTypes DEF AgainRequest, Flag
  <2>2. pc' \in [Task -> Pc]
    BY <1>6, GotoTypes DEF AgainRequest, Pc
  <2>3. tried' \in [Task -> BOOLEAN]
    BY <1>6 DEF TypeOK, AgainRequest
  <2>4. requested' \in [Node -> AnyMode]
    BY <1>6, <2>0 DEF TypeOK, AgainRequest, AnyMode, Mode
  <2> QED
    BY <1>6, <2>0, <2>1, <2>2, <2>3, <2>4
       DEF TypeOK, FlagsOK, Pc, AgainRequest, lockVars, dcVars, taskVars
<1>7. CASE DlmLockCall(t)
  BY <1>7, NodeOfAssumption
     DEF TypeOK, DlmLockCall, Goto, lockVars, dcVars, taskVars
<1>8. CASE DlmLockReturn(t)
  <2>0. NodeOf[t] \in Node /\ flags[NodeOf[t]] \subseteq Flag
    BY NodeOfAssumption DEF TypeOK
  <2>1. ClearPending(NodeOf[t], t, flags[NodeOf[t]]) \subseteq Flag
    BY <2>0 DEF ClearPending
  <2>2. FlagsOK'
    BY <1>8, <2>0, <2>1, SetFlagsTypes DEF DlmLockReturn
  <2>3. wake' \in [Node -> BOOLEAN]
    BY <1>8, <2>0, KickTypes DEF DlmLockReturn
  <2>4. pc' \in [Task -> Pc]
    BY <1>8, GotoTypes DEF DlmLockReturn, Pc
  <2>5. locked' \in [Task -> BOOLEAN]
    <3>1. \/ locked' = locked
          \/ locked' = [locked EXCEPT ![t] = TRUE]
      BY <1>8 DEF DlmLockReturn
    <3> QED
      BY <3>1 DEF TypeOK, FlagsOK
  <2>6. pendingBy' \in [Node -> Task \union {"none", "dc"}]
    <3>1. \/ pendingBy' = pendingBy
          \/ pendingBy' = [pendingBy EXCEPT ![NodeOf[t]] = "none"]
      BY <1>8 DEF DlmLockReturn
    <3> QED
      BY <3>1 DEF TypeOK, FlagsOK
  <2> QED
    BY <1>8, <2>0, <2>1, <2>2, <2>3, <2>4, <2>5, <2>6
       DEF TypeOK, FlagsOK, Pc, DlmLockReturn, lockVars, dcVars, taskVars
<1>9. CASE RecoverFromError(t)
  <2>0. NodeOf[t] \in Node /\ flags[NodeOf[t]] \subseteq Flag
    BY NodeOfAssumption DEF TypeOK
  <2>1. FlagsOK'
    BY <1>9, <2>0, SetFlagsTypes DEF RecoverFromError
  <2>2. /\ pc' \in [Task -> Pc]
        /\ tried' \in [Task -> BOOLEAN]
        /\ locked' \in [Task -> BOOLEAN]
    BY <1>9, ReturnTypes, RestTypes DEF RecoverFromError
  <2> QED
    BY <1>9, <2>0, <2>1, <2>2
       DEF TypeOK, FlagsOK, Pc, RecoverFromError, lockVars, dcVars, taskVars
<1>10. CASE NonBlockArrived(t)
  BY <1>10, NodeOfAssumption
     DEF TypeOK, NonBlockArrived, Goto, lockVars, dcVars, taskVars
<1>11. CASE NonBlockGiveUp(t)
  <2>0. NodeOf[t] \in Node /\ flags[NodeOf[t]] \subseteq Flag
    BY NodeOfAssumption DEF TypeOK
  <2>1. flags' \in [Node -> SUBSET Flag]
    BY <1>11, <2>0 DEF TypeOK, NonBlockGiveUp, Flag
  <2>2. /\ pc' \in [Task -> Pc]
        /\ tried' \in [Task -> BOOLEAN]
        /\ locked' \in [Task -> BOOLEAN]
    BY <1>11, ReturnTypes, RestTypes DEF NonBlockGiveUp
  <2> QED
    BY <1>11, <2>0, <2>1, <2>2
       DEF TypeOK, FlagsOK, Pc, NonBlockGiveUp, lockVars, dcVars, taskVars
<1>12. CASE ShouldRefresh(t)
  <2>0. NodeOf[t] \in Node /\ flags[NodeOf[t]] \subseteq Flag
    BY NodeOfAssumption DEF TypeOK
  <2>1. FlagsOK'
    <3>1. CASE UNCHANGED <<flags, mw>>
      BY <3>1 DEF TypeOK, FlagsOK
    <3>2. CASE SetFlags(NodeOf[t], flags[NodeOf[t]] \union {"REFRESHING"})
      <4>1. flags[NodeOf[t]] \union {"REFRESHING"} \in SUBSET Flag
        BY <2>0 DEF Flag
      <4> QED
        BY <2>0, <3>2, <4>1, SetFlagsTypes
    <3> QED
      BY <1>12, <3>1, <3>2 DEF ShouldRefresh
  <2>2. pc' \in [Task -> Pc]
    BY <1>12, GotoTypes DEF ShouldRefresh, Pc, HoldsPc
  <2> QED
    BY <1>12, <2>0, <2>1, <2>2
       DEF TypeOK, FlagsOK, Pc, ShouldRefresh, lockVars, dcVars, taskVars
<1>13. CASE CompleteRefresh(t)
  <2>0. NodeOf[t] \in Node /\ flags[NodeOf[t]] \subseteq Flag
    BY NodeOfAssumption DEF TypeOK
  <2>1. FlagsOK'
    BY <1>13, <2>0, SetFlagsTypes DEF CompleteRefresh
  <2>2. pc' \in [Task -> Pc]
    BY <1>13, GotoTypes DEF CompleteRefresh, Pc, HoldsPc
  <2>3. current' \in SUBSET Node
    BY <1>13, <2>0 DEF TypeOK, CompleteRefresh
  <2> QED
    BY <1>13, <2>0, <2>1, <2>2, <2>3
       DEF TypeOK, FlagsOK, Pc, CompleteRefresh, lockVars, dcVars, taskVars
<1>14. CASE Unlock(t)
  <2>0. NodeOf[t] \in Node /\ flags[NodeOf[t]] \subseteq Flag
    BY NodeOfAssumption DEF TypeOK
  <2>1. wake' \in [Node -> BOOLEAN]
    BY <1>14, <2>0, KickTypes DEF Unlock
  <2>2. pc' \in [Task -> Pc]
    BY <1>14, GotoTypes, RestTypes DEF Unlock
  <2>3. current' \in SUBSET Node
    BY <1>14, <2>0 DEF TypeOK, Unlock
  <2> QED
    BY <1>14, <2>0, <2>1, <2>2, <2>3
       DEF TypeOK, FlagsOK, Pc, Unlock, lockVars, dcVars, taskVars
<1> QED
  BY <1>1, <1>2, <1>3, <1>4, <1>5, <1>6, <1>7, <1>8, <1>9, <1>10, <1>11, <1>12,
     <1>13, <1>14 DEF Proceed, Downconvert, Evict

\* ... of the downconvert thread, of an eviction, and of the ASTs and BASTs
LEMMA NodeTypes ==
  ASSUME TypeOK, DlmTypeOK', UNCHANGED ltype, NEW n \in Node,
         \/ OtherWake(n) \/ Downconvert(n)
         \/ EvictStart(n) \/ Evict(n)
         \/ LockingAst(n) \/ BlockingAst(n)
  PROVE  TypeOK'
<1>1. CASE OtherWake(n)
  BY <1>1 DEF TypeOK, OtherWake, Kick, lockVars, dcVars, taskVars
<1>2. CASE DcTake(n)
  <2>0. onList' \in [Node -> BOOLEAN] /\ wake' \in [Node -> BOOLEAN]
    BY <1>2, ZenonT(60) DEF TypeOK, DcTake
  <2>1. \/ UNCHANGED dcPc
        \/ \E l \in {"unqueue", "unblock"} : dcPc' = [dcPc EXCEPT ![n] = l]
    BY <1>2 DEF DcTake, DcGoto
  <2>2. dcPc' \in [Node -> {"idle", "unblock", "cancel", "cancelled", "worker",
                         "dlm", "called", "unqueue"}]
    BY <2>1 DEF TypeOK
  <2> QED
    BY <1>2, <2>0, <2>1, <2>2
       DEF TypeOK, FlagsOK, Pc, DcTake, DcGoto, lockVars, dcVars, taskVars
<1>3. CASE DcNotBlocked(n)
  BY <1>3 DEF TypeOK, DcNotBlocked, DcGoto, lockVars, dcVars, taskVars
<1>4. CASE DcRequeue(n)
  BY <1>4 DEF TypeOK, DcRequeue, DcGoto, lockVars, dcVars, taskVars
<1>5. CASE DcPrepareCancel(n)
  BY <1>5 DEF TypeOK, DcPrepareCancel, DcGoto, lockVars, dcVars, taskVars
<1>6. CASE DcAbort(n)
  BY <1>6
     DEF TypeOK, DcAbort, SetFlags, Released, DcGoto, AnyMode, Mode, lockVars,
         dcVars, taskVars
<1>7. CASE DcCheckpoint(n)
  BY <1>7 DEF TypeOK, DcCheckpoint, Kick, DcGoto, lockVars, dcVars, taskVars
<1>8. CASE DcWorkerStart(n)
  BY <1>8 DEF TypeOK, DcWorkerStart, DcGoto, lockVars, dcVars, taskVars
<1>9. CASE DcDownconvert(n)
  <2>0. flags[n] \subseteq Flag
    BY DEF TypeOK
  <2>1. FlagsOK'
    BY <1>9, <2>0, SetFlagsTypes DEF DcDownconvert, PrepareDownconvert, Flag
  <2>2. HighestCompat(blocking[n]) \in AnyMode
    BY DEF HighestCompat, AnyMode, Mode
  <2> QED
    BY <1>9, <2>0, <2>1, <2>2
       DEF TypeOK, FlagsOK, Pc, DcDownconvert, PrepareDownconvert, DcGoto,
           lockVars, dcVars, taskVars
<1>10. CASE DcWorkerDone(n)
  <2>0. flags[n] \subseteq Flag
    BY DEF TypeOK
  <2>1. HighestCompat(blocking[n]) \in AnyMode
    BY DEF HighestCompat, AnyMode, Mode
  <2>2. CASE PrepareDownconvert(n)
    <3>1. FlagsOK'
      BY <2>0, <2>2, SetFlagsTypes DEF PrepareDownconvert, Flag
    <3> QED
      BY <1>10, <2>1, <2>2, <3>1
         DEF TypeOK, FlagsOK, Pc, DcWorkerDone, PrepareDownconvert, DcGoto
  <2>3. CASE /\ UNCHANGED <<action, requested, flags, mw, pendingBy, dcRequeue>>
             /\ DcGoto(n, "unblock")
    BY <1>10, <2>3 DEF TypeOK, FlagsOK, DcWorkerDone, DcGoto
  <2> QED
    BY <1>10, <2>2, <2>3 DEF DcWorkerDone
<1>11. CASE DcDlmCall(n)
  BY <1>11 DEF TypeOK, DcDlmCall, DcGoto, lockVars, dcVars, taskVars
<1>12. CASE DcDlmReturn(n)
  BY <1>12
     DEF TypeOK, DcDlmReturn, SetFlags, Released, Kick, DcGoto, ClearPending,
         lockVars, dcVars, taskVars
<1>13. CASE DcCancelCall(n)
  BY <1>13 DEF TypeOK, DcCancelCall, DcGoto, lockVars, dcVars, taskVars
<1>14. CASE DcUnlockAst(n)
  BY <1>14
     DEF TypeOK, DcUnlockAst, SetFlags, Released, Kick, DcGoto, lockVars,
         dcVars, taskVars
<1>15. CASE DcUnqueue(n)
  <2>0. flags[n] \subseteq Flag
    BY DEF TypeOK
  <2>1. Scheduled(n, flags[n]) \subseteq Flag
    BY <2>0 DEF Scheduled, Flag
  <2>2. FlagsOK'
    BY <1>15, <2>0, <2>1, SetFlagsTypes DEF DcUnqueue
  <2>3. onList' \in [Node -> BOOLEAN]
    BY <1>15 DEF TypeOK, DcUnqueue
  <2> QED
    BY <1>15, <2>0, <2>1, <2>2, <2>3
       DEF TypeOK, FlagsOK, Pc, DcUnqueue, DcGoto, lockVars, dcVars, taskVars
<1>16. CASE EvictStart(n)
  BY <1>16 DEF TypeOK, EvictStart, EvictGoto, Flag, lockVars, dcVars, taskVars
<1>17. CASE EvictUnqueued(n)
  BY <1>17 DEF TypeOK, EvictUnqueued, EvictGoto, lockVars, dcVars, taskVars
<1>18. CASE EvictDrop(n)
  <2>0. flags[n] \subseteq Flag
    BY DEF TypeOK
  <2>1. FlagsOK'
    <3>1. CASE "ATTACHED" \in flags[n]
      <4>1. (flags[n] \ {"ATTACHED"}) \union {"BUSY"} \in SUBSET Flag
        BY <2>0 DEF Flag
      <4> QED
        BY <1>18, <3>1, <4>1, SetFlagsTypes DEF EvictDrop
    <3>2. CASE "ATTACHED" \notin flags[n]
      BY <1>18, <3>2 DEF TypeOK, FlagsOK, EvictDrop
    <3> QED
      BY <3>1, <3>2
  <2>2. unlockAction' \in [Node -> {"INVALID", "CANCEL", "DROP"}]
    <3>1. \/ UNCHANGED unlockAction
          \/ unlockAction' = [unlockAction EXCEPT ![n] = "DROP"]
      BY <1>18 DEF EvictDrop
    <3> QED
      BY <3>1 DEF TypeOK
  <2>3. evictPc' \in [Node -> {"live", "freeing", "drop", "unlock",
                              "unlocked", "dropped", "freed"}]
    <3>1. \E l \in {"unlock", "dropped"} : evictPc' = [evictPc EXCEPT ![n] = l]
      BY <1>18 DEF EvictDrop, EvictGoto
    <3> QED
      BY <3>1 DEF TypeOK
  <2> QED
    BY <1>18, <2>0, <2>1, <2>2, <2>3
       DEF TypeOK, FlagsOK, Pc, EvictDrop, lockVars, dcVars, taskVars
<1>19. CASE EvictUnlock(n)
  BY <1>19 DEF TypeOK, EvictUnlock, EvictGoto, lockVars, dcVars, taskVars
<1>20. CASE EvictUnlockAst(n)
  BY <1>20
     DEF TypeOK, EvictUnlockAst, SetFlags, Released, EvictGoto, AnyMode,
         lockVars, dcVars, taskVars
<1>21. CASE EvictFree(n)
  BY <1>21 DEF TypeOK, EvictFree, EvictGoto, lockVars, dcVars, taskVars
<1>22. CASE LockingAst(n)
  <2> DEFINE f == AfterAction(n)
  <2>0. f \ {"PENDING"} \in SUBSET Flag
    <3> DEFINE r == IF NeedsRefresh(n) THEN {"NEEDS_REFRESH"} ELSE {}
               g == (flags[n] \union r) \ {"BUSY"}
    <3>1. g \in SUBSET Flag
      BY DEF TypeOK, Flag
    <3>2. f \in {AfterAttach(g), g \ {"NONBLOCK_FINISHED"},
                g \union {"UPCONVERT_FINISHING"}, g \ {"BLOCKED"}, g}
      <4>1. f = CASE action[n] = "ATTACH" -> AfterAttach(g)
                  [] action[n] = "CONVERT" ->
                       IF "NONBLOCK_FINISHED" \in g
                       THEN g \ {"NONBLOCK_FINISHED"}
                       ELSE g \union {"UPCONVERT_FINISHING"}
                  [] OTHER -> IF SatisfiesBlocker(n) THEN g \ {"BLOCKED"} ELSE g
        BY DEF AfterAction
      <4> HIDE DEF f, g
      <4> QED
        BY <4>1
    <3> HIDE DEF f, g
    <3> QED
      BY <3>1, <3>2 DEF AfterAttach, Flag
  <2>1. /\ SetFlags(n, f \ {"PENDING"})
        /\ Kick(n, {"PENDING", "BLOCKED"} \subseteq f)
        /\ pendingBy' = [pendingBy EXCEPT ![n] = IF "PENDING" \in f
                                                THEN "none" ELSE @]
    BY <1>22 DEF LockingAst
  <2> HIDE DEF f
  <2>2. FlagsOK'
    BY <2>0, <2>1, SetFlagsTypes
  <2>3. wake' \in [Node -> BOOLEAN]
    BY <2>1, KickTypes
  <2>4. pendingBy' \in [Node -> Task \union {"none", "dc"}]
    BY <2>1 DEF TypeOK
  <2>5. blocking' \in [Node -> AnyMode]
    BY <1>22 DEF TypeOK, LockingAst, AnyMode, Mode
  <2>6. /\ level' \in [Node -> AnyMode]
        /\ action' \in [Node -> {"INVALID", "ATTACH", "CONVERT", "DOWNCONVERT"}]
        /\ unlockAction' \in [Node -> {"INVALID", "CANCEL", "DROP"}]
    BY <1>22 DEF TypeOK, LockingAst
  <2> QED
    BY <1>22, <2>2, <2>3, <2>4, <2>5, <2>6
       DEF TypeOK, FlagsOK, LockingAst, lockVars, dcVars, taskVars
<1>23. CASE BlockingAst(n)
  <2> DEFINE f == flags[n] \union {"BLOCKED"}
  <2>0. f \subseteq Flag /\ Scheduled(n, f) \subseteq Flag
    BY DEF TypeOK, Scheduled, Flag
  <2> HIDE DEF f
  <2>1. FlagsOK'
    <3>1. CASE UNCHANGED <<flags, mw>>
      BY <3>1 DEF TypeOK, FlagsOK
    <3>2. CASE SetFlags(n, Scheduled(n, f))
      BY <2>0, <3>2, SetFlagsTypes
    <3> QED
      BY <1>23, <3>1, <3>2 DEF BlockingAst, f
  <2>2. onList' \in [Node -> BOOLEAN]
    BY <1>23, ZenonT(60) DEF TypeOK, BlockingAst, ListedWhen
  <2>3. wake' \in [Node -> BOOLEAN]
    BY <1>23, KickTypes DEF TypeOK, BlockingAst
  <2>4. blocking' \in [Node -> AnyMode]
    <3>1. inflight.node = n /\ n \in Node
      BY <1>23 DEF BlockingAst, DeliverBast
    <3>2. inflight.level \in AnyMode
      <4>1. CASE inflight \in [node : Node, level : Mode]
        BY <4>1 DEF AnyMode
      <4>2. CASE inflight = NoBast
        BY <4>2 DEF NoBast, AnyMode
      <4> QED
        BY <4>1, <4>2 DEF TypeOK, DlmTypeOK
    <3>3. CASE UNCHANGED blocking
      BY <3>3 DEF TypeOK
    <3>4. CASE blocking' = [blocking EXCEPT ![n] = IF inflight.level > @
                                                   THEN inflight.level ELSE @]
      <4> DEFINE l == IF inflight.level > blocking[n] THEN inflight.level
                                                      ELSE blocking[n]
      <4>1. l \in AnyMode
        BY <3>1, <3>2 DEF TypeOK
      <4>2. blocking' = [blocking EXCEPT ![n] = l]
        BY <3>4
      <4> HIDE DEF l
      <4> QED
        BY <4>1, <4>2 DEF TypeOK
    <3> QED
      BY <1>23, <3>3, <3>4 DEF BlockingAst
  <2> QED
    BY <1>23, <2>0, <2>1, <2>2, <2>3, <2>4
       DEF TypeOK, FlagsOK, Pc, BlockingAst, lockVars, dcVars, taskVars
<1> QED
  BY <1>1, <1>2, <1>3, <1>4, <1>5, <1>6, <1>7, <1>8, <1>9, <1>10, <1>11, <1>12,
     <1>13, <1>14, <1>15, <1>16, <1>17, <1>18, <1>19, <1>20, <1>21, <1>22,
     <1>23 DEF Proceed, Downconvert, Evict

-----------------------------------------------------------------------------
(* What a step of the DLM does to one lock                                 *)

\* Nothing that dlmglue of node m can tell
DlmSame(m) ==
  /\ type'[m] = type[m]
  /\ convert'[m] = convert[m]
  /\ m \in granted' <=> m \in granted
  /\ m \in Range(converting') <=> m \in Range(converting)
  /\ m \in Range(blocked') <=> m \in Range(blocked)
  /\ owed'[m] = owed[m]
  /\ m \in pendingAsts' <=> m \in pendingAsts

LEMMA DlmStutterSame ==
  ASSUME UNCHANGED dlmVars
  PROVE  \A m \in Node : DlmSame(m)
BY DEF dlmVars, DlmSame

LEMMA DlmNotQueuedSame ==
  ASSUME NEW n \in Node, DlmNotQueued(n)
  PROVE  \A m \in Node : DlmSame(m)
BY DEF DlmNotQueued, DlmSame

LEMMA DlmLockEffect ==
  ASSUME DlmInv, NEW n \in Node, NEW mode \in Mode, type[n] = IV,
         DlmLock(n, mode)
  PROVE  /\ \A m \in Node \ {n} : DlmSame(m)
         /\ type'[n] = mode
         /\ n \notin Range(converting')
         /\ n \in pendingAsts' <=> n \in pendingAsts
         /\ \/ n \in granted' /\ n \notin Range(blocked') /\ owed'[n] = "ast"
            \/ n \in Range(blocked') /\ owed'[n] = "kick"
<1>1. /\ n \notin Range(blocked) /\ n \notin Range(converting)
      /\ n \notin granted
  BY DEF DlmInv, OneList, OnLists
<1>2. /\ type'[n] = mode
      /\ owed'[n] \in {"ast", "kick"}
      /\ \A m \in Node \ {n} : type'[m] = type[m] /\ owed'[m] = owed[m]
      /\ UNCHANGED <<convert, converting, pendingAsts>>
  BY DEF DlmInv, DlmTypeOK, DlmLock
<1>3. CASE CanGrantNew(mode)
  <2>1. granted' = granted \union {n} /\ blocked' = blocked /\ owed'[n] = "ast"
    BY <1>3 DEF DlmInv, DlmTypeOK, DlmLock
  <2> QED
    BY <1>1, <1>2, <2>1 DEF DlmSame
<1>4. CASE ~CanGrantNew(mode)
  <2>1. /\ granted' = granted
        /\ blocked' = Append(blocked, n)
        /\ owed'[n] = "kick"
    BY <1>4 DEF DlmInv, DlmTypeOK, DlmLock
  <2>2. Range(blocked') = Range(blocked) \union {n}
    BY <2>1, AppendRange DEF DlmInv, DlmTypeOK
  <2> QED
    BY <1>1, <1>2, <2>1, <2>2 DEF DlmSame
<1> QED
  BY <1>3, <1>4

LEMMA DlmConvertEffect ==
  ASSUME DlmInv, NEW n \in Node, NEW mode \in Mode, DlmConvert(n, mode)
  PROVE  /\ \A m \in Node \ {n} : DlmSame(m)
         /\ n \in granted
         /\ n \notin Range(blocked')
         /\ n \in pendingAsts' <=> n \in pendingAsts
         /\ \/ /\ type'[n] = mode
               /\ n \in granted' /\ n \notin Range(converting')
               /\ owed'[n] = "ast"
            \/ /\ ~(mode <= type[n])
               /\ type'[n] = type[n] /\ convert'[n] = mode
               /\ n \in Range(converting') /\ owed'[n] = "kick"
<1>1. /\ n \in granted /\ n \notin Range(blocked) /\ n \notin Range(converting)
      /\ UNCHANGED <<blocked, pendingAsts>>
  BY DEF DlmInv, OneList, OnLists, DlmConvert
<1>2. CASE CanConvert(n, mode)
  <2>1. /\ type'[n] = mode /\ owed'[n] = "ast"
        /\ \A m \in Node \ {n} : type'[m] = type[m] /\ owed'[m] = owed[m]
        /\ UNCHANGED <<convert, granted, converting>>
    BY <1>2 DEF DlmInv, DlmTypeOK, DlmConvert
  <2> QED
    BY <1>1, <2>1 DEF DlmSame
<1>3. CASE ~CanConvert(n, mode)
  <2>1. /\ convert'[n] = mode /\ owed'[n] = "kick"
        /\ \A m \in Node \ {n} : convert'[m] = convert[m] /\ owed'[m] = owed[m]
        /\ granted' = granted \ {n}
        /\ converting' = Append(converting, n)
        /\ UNCHANGED type
    BY <1>3 DEF DlmInv, DlmTypeOK, DlmConvert
  <2>2. Range(converting') = Range(converting) \union {n}
    BY <2>1, AppendRange DEF DlmInv, DlmTypeOK
  <2>3. ~(mode <= type[n])
    BY <1>3 DEF CanConvert
  <2> QED
    BY <1>1, <2>1, <2>2, <2>3 DEF DlmSame
<1> QED
  BY <1>2, <1>3

LEMMA DlmCancelEffect ==
  ASSUME DlmInv, NEW n \in Node, DlmCancel(n)
  PROVE  /\ \A m \in Node \ {n} : DlmSame(m)
         /\ owed'[n] = owed[n]
         /\ n \in pendingAsts' <=> n \in pendingAsts
         /\ \/ /\ n \in Range(converting)
               /\ n \in granted' /\ type'[n] = type[n]
               /\ n \notin Range(converting') \union Range(blocked')
            \/ /\ n \in Range(blocked)
               /\ type'[n] = IV
               /\ n \notin Range(converting') \union Range(blocked')
            \/ n \in granted /\ DlmSame(n)
<1>1. UNCHANGED <<owed, pendingAsts>>
  BY DEF DlmCancel
<1>2. CASE /\ n \in Range(converting)
           /\ converting' = Without(converting, n)
           /\ granted' = granted \union {n}
           /\ convert' = [convert EXCEPT ![n] = IV]
           /\ UNCHANGED <<type, blocked>>
  <2>1. Range(converting') = Range(converting) \ {n}
    BY <1>2, WithoutRange DEF DlmInv, DlmTypeOK, OneList
  <2>2. n \notin Range(blocked)
    BY <1>2 DEF DlmInv, OneList, OnLists
  <2>3. \A m \in Node \ {n} : convert'[m] = convert[m]
    BY <1>2 DEF DlmInv, DlmTypeOK
  <2> QED
    BY <1>1, <1>2, <2>1, <2>2, <2>3 DEF DlmSame
<1>3. CASE /\ n \in Range(blocked)
           /\ blocked' = Without(blocked, n)
           /\ type' = [type EXCEPT ![n] = IV]
           /\ UNCHANGED <<convert, granted, converting>>
  <2>1. Range(blocked') = Range(blocked) \ {n}
    BY <1>3, WithoutRange DEF DlmInv, DlmTypeOK, OneList
  <2>2. n \notin Range(converting)
    BY <1>3 DEF DlmInv, OneList, OnLists
  <2>3. type'[n] = IV /\ \A m \in Node \ {n} : type'[m] = type[m]
    BY <1>3 DEF DlmInv, DlmTypeOK
  <2> QED
    BY <1>1, <1>3, <2>1, <2>2, <2>3 DEF DlmSame
<1>4. CASE /\ n \in granted
           /\ UNCHANGED <<type, convert, granted, converting, blocked>>
  BY <1>1, <1>4 DEF DlmSame
<1> QED
  BY <1>2, <1>3, <1>4 DEF DlmCancel

LEMMA DlmUnlockOthers ==
  ASSUME DlmInv, NEW n \in Node, DlmUnlock(n)
  PROVE  \A m \in Node \ {n} : DlmSame(m)
BY DEF DlmInv, DlmTypeOK, DlmUnlock, DlmSame

\* An AST that is owed becomes one that is pending.
LEMMA DlmPostEffect ==
  ASSUME DlmInv, NEW n \in Node, DlmPost(n)
  PROVE  /\ \A m \in Node \ {n} : DlmSame(m)
         /\ type'[n] = type[n] /\ convert'[n] = convert[n]
         /\ n \in granted' <=> n \in granted
         /\ n \in Range(converting') <=> n \in Range(converting)
         /\ n \in Range(blocked') <=> n \in Range(blocked)
         /\ owed'[n] = "none"
         /\ n \in pendingAsts' <=> (n \in pendingAsts \/ owed[n] = "ast")
<1>1. /\ UNCHANGED <<type, convert, granted, converting, blocked>>
      /\ owed'[n] = "none"
      /\ \A m \in Node \ {n} : owed'[m] = owed[m]
  BY DEF DlmInv, DlmTypeOK, DlmPost
<1>2. \/ owed[n] = "ast" /\ pendingAsts' = pendingAsts \union {n}
      \/ owed[n] = "kick" /\ pendingAsts' = pendingAsts
  BY DEF DlmPost
<1> QED
  BY <1>1, <1>2 DEF DlmSame

LEMMA DeliverAstEffect ==
  ASSUME NEW n \in Node, DeliverAst(n)
  PROVE  /\ \A m \in Node \ {n} : DlmSame(m)
         /\ n \in pendingAsts /\ n \notin pendingAsts'
         /\ UNCHANGED <<type, convert, granted, converting, blocked, owed>>
BY DEF DeliverAst, DlmSame

\* dlm_shuffle_lists() grants at most one lock at a time.
LEMMA DlmThreadEffect ==
  ASSUME DlmInv, DlmThread
  PROVE  \/ \A m \in Node : DlmSame(m)
         \/ \E n \in Node :
              /\ \A m \in Node \ {n} : DlmSame(m)
              /\ n \in granted' /\ n \in pendingAsts'
              /\ owed'[n] = owed[n]
              /\ n \notin Range(converting') \union Range(blocked')
              /\ \/ n \in Range(converting) /\ type'[n] = convert[n]
                 \/ n \in Range(blocked) /\ type'[n] = type[n]
<1>1. CASE ShuffleConvert
  <2> DEFINE t == ConvertTarget
  <2>1. /\ converting # <<>>
        /\ converting' = Tail(converting)
        /\ type' = [type EXCEPT ![t] = convert[t]]
        /\ convert' = [convert EXCEPT ![t] = IV]
        /\ granted' = granted \union {t}
        /\ pendingAsts' = pendingAsts \union {t}
        /\ UNCHANGED <<blocked, owed>>
    BY <1>1 DEF ShuffleConvert
  <2>2. /\ t \in Node /\ t \in Range(converting)
        /\ Range(converting') = Range(converting) \ {t}
    BY <2>1, TailRange DEF DlmInv, DlmTypeOK, OneList, ConvertTarget
  <2>3. t \notin Range(blocked)
    BY <2>2 DEF DlmInv, OneList, OnLists
  <2> HIDE DEF t
  <2>4. /\ type'[t] = convert[t]
        /\ \A m \in Node \ {t} : type'[m] = type[m] /\ convert'[m] = convert[m]
    BY <2>1, <2>2 DEF DlmInv, DlmTypeOK
  <2>5. \A m \in Node \ {t} : DlmSame(m)
    BY <2>1, <2>2, <2>4 DEF DlmSame
  <2> QED
    BY <2>1, <2>2, <2>3, <2>4, <2>5
<1>2. CASE ShuffleBlocked
  <2> DEFINE t == BlockedTarget
  <2>1. /\ blocked # <<>>
        /\ blocked' = Tail(blocked)
        /\ granted' = granted \union {t}
        /\ pendingAsts' = pendingAsts \union {t}
        /\ UNCHANGED <<type, convert, converting, owed>>
    BY <1>2 DEF ShuffleBlocked
  <2>2. /\ t \in Node /\ t \in Range(blocked)
        /\ Range(blocked') = Range(blocked) \ {t}
    BY <2>1, TailRange DEF DlmInv, DlmTypeOK, OneList, BlockedTarget
  <2>3. t \notin Range(converting)
    BY <2>2 DEF DlmInv, OneList, OnLists
  <2> HIDE DEF t
  <2>4. \A m \in Node \ {t} : DlmSame(m)
    BY <2>1, <2>2 DEF DlmSame
  <2> QED
    BY <2>1, <2>2, <2>3, <2>4
<1>3. CASE ShuffleStart \/ ShuffleBasts \/ FlushDone \/ \E n \in Node : TakeBast(n)
  BY <1>3 DEF ShuffleStart, ShuffleBasts, FlushDone, TakeBast, DlmSame
<1> QED
  BY <1>1, <1>2, <1>3 DEF DlmThread

-----------------------------------------------------------------------------
(* Steps that leave a node no worse off                                    *)

\* An answer may come nearer; nothing else happens.
DlmEases(n) ==
  /\ type'[n] = type[n]
  /\ convert'[n] = convert[n]
  /\ n \in granted' <=> n \in granted
  /\ n \in Range(converting') <=> n \in Range(converting)
  /\ n \in Range(blocked') <=> n \in Range(blocked)
  /\ Answered(n)' <=> Answered(n)
  /\ n \in pendingAsts' /\ owed'[n] = "ast" =>
       n \in pendingAsts /\ owed[n] = "ast"

\* UPCONVERT_FINISHING may go, and the downconvert thread and the tasks may move,
\* but nobody is let in and nobody asks.
TaskEases(t) ==
  /\ pc'[t] \in AskPc \union HoldsPc => want'[t] = want[t]
  /\ pc'[t] \in AskPc => pc[t] \in AskPc
  /\ pc'[t] = "dlm" => pc[t] = "dlm"
  /\ pc'[t] \in HoldsPc => pc[t] \in HoldsPc
NodeEases(n) ==
  /\ level'[n] = level[n]
  /\ requested'[n] = requested[n]
  /\ blocking'[n] = blocking[n]
  /\ action'[n] = action[n]
  /\ "ATTACHED" \in flags'[n] <=> "ATTACHED" \in flags[n]
  /\ "BUSY" \in flags'[n] <=> "BUSY" \in flags[n]
  /\ "BLOCKED" \in flags'[n] <=> "BLOCKED" \in flags[n]
  /\ "UPCONVERT_FINISHING" \in flags'[n] => "UPCONVERT_FINISHING" \in flags[n]
  /\ \/ dcPc'[n] = dcPc[n] /\ dcSaved'[n] = dcSaved[n]
     \/ ~DcOwns(n) /\ dcPc'[n] \notin {"dlm", "cancelled", "worker"}
  /\ \A t \in TasksOf(n) : TaskEases(t)

LEMMA SameEases ==
  ASSUME NEW n, DlmSame(n)
  PROVE  DlmEases(n)
BY DEF DlmSame, DlmEases, Answered

LEMMA Eased ==
  ASSUME NEW n \in Node, NodeInv(n), DlmEases(n), NodeEases(n)
  PROVE  NodeInv(n)'
<1>1. /\ Queued(n)' <=> Queued(n)
      /\ Answered(n)' <=> Answered(n)
      /\ Out(n)' <=> Out(n)
      /\ n \in OnLists' <=> n \in OnLists
      /\ Lowering(n)' <=> Lowering(n)
      /\ DcOwns(n)' => DcOwns(n)
      /\ TasksOf(n)' = TasksOf(n)
  BY DEF DlmEases, NodeEases, Queued, Out, OnLists, Lowering, DcOwns, TasksOf
<1>2. Askers(n)' \subseteq Askers(n)
  BY <1>1 DEF NodeEases, TaskEases, Askers
<1>3. OneOwner(n)'
  BY <1>1, <1>2 DEF NodeInv, OneOwner, DlmEases, NodeEases
<1>4. Agrees(n)'
  BY <1>1 DEF NodeInv, Agrees, DlmEases, NodeEases
<1>5. GoesUp(n)'
  <2>1. \A t \in Askers(n)' : pc'[t] = "dlm" =>
          t \in Askers(n) /\ pc[t] = "dlm" /\ want'[t] = want[t]
    BY <1>1, <1>2 DEF NodeEases, TaskEases, Askers
  <2> QED
    BY <1>1, <2>1 DEF NodeInv, GoesUp, DlmEases, NodeEases
<1>6. GoesDown(n)'
  BY <1>1 DEF NodeInv, GoesDown, NodeEases, DcOwns
<1>7. HoldersBelow(n)'
  BY <1>1 DEF NodeInv, HoldersBelow, NodeEases, TaskEases
<1>8. WorkerSafe(n)'
  <2>1. CASE dcPc'[n] = "worker"
    <3>1. dcPc[n] = "worker" /\ dcSaved'[n] = dcSaved[n]
      BY <2>1 DEF NodeEases
    <3>2. LooksTheSame(n)' <=> LooksTheSame(n)
      BY <3>1 DEF LooksTheSame, NodeEases
    <3> QED
      BY <1>1, <3>1, <3>2 DEF NodeInv, WorkerSafe, NodeEases, TaskEases
  <2> QED
    BY <2>1 DEF WorkerSafe
<1> QED
  BY <1>3, <1>4, <1>5, <1>6, <1>7, <1>8 DEF NodeInv

\* The steps of a task that neither asks nor is let in
LEMMA TaskStepEases ==
  ASSUME TypeOK, UsersLive, NEW t \in Task,
         \/ Enter(t) \/ AgainSignal(t) \/ AgainWait(t)
         \/ AgainGiveUp(t) \/ DlmLockReturn(t) \/ NonBlockArrived(t)
         \/ NonBlockGiveUp(t) \/ ShouldRefresh(t)
         \/ CompleteRefresh(t) \/ Unlock(t)
  PROVE  /\ \A m \in Node : NodeEases(m)
         /\ UsersLive' /\ UNCHANGED <<dlmVars, evictPc>>
<1>1. CASE Enter(t)
  <2>1. \A m \in Node : NodeEases(m)
    BY <1>1, NodeOfAssumption
       DEF TypeOK, Enter, Goto, NodeEases, TaskEases, TasksOf, AskPc, HoldsPc,
           DcOwns, lockVars, dcVars, taskVars
  <2>2. UsersLive'
    BY <1>1, NodeOfAssumption
       DEF TypeOK, UsersLive, Enter, Goto, taskVars, HoldsPc
  <2>3. UNCHANGED <<dlmVars, evictPc>>
    BY <1>1 DEF Enter
  <2> QED
    BY <2>1, <2>2, <2>3
<1>2. CASE AgainSignal(t)
  <2>1. \A m \in Node : NodeEases(m)
    <3>1. /\ flags' = [flags EXCEPT
                         ![NodeOf[t]] = flags[NodeOf[t]] \ {"UPCONVERT_FINISHING"}]
          /\ pc' = [pc EXCEPT ![t] = Rest(t)]
          /\ UNCHANGED <<level, requested, blocking, action, dcPc, dcSaved,
                          want>>
      BY <1>2 DEF AgainSignal, LeaveSection, SetFlags, Goto, dcVars
    <3>2. \A u \in Task : pc'[u] = pc[u] \/ pc'[u] \in {"idle", "done"}
      BY <3>1, RestTypes DEF TypeOK
    <3>3. \A m \in Node : flags'[m] \in {flags[m],
                                      flags[m] \ {"UPCONVERT_FINISHING"}}
      BY <3>1 DEF TypeOK
    <3> QED
      BY <3>1, <3>2, <3>3
         DEF NodeEases, TaskEases, TasksOf, AskPc, HoldsPc, DcOwns
  <2>2. UsersLive'
    BY <1>2, NodeOfAssumption, RestTypes
       DEF TypeOK, UsersLive, AgainSignal, LeaveSection, SetFlags, Goto,
           AtAgain, taskVars, HoldsPc
  <2>3. UNCHANGED <<dlmVars, evictPc>>
    BY <1>2 DEF AgainSignal
  <2> QED
    BY <2>1, <2>2, <2>3
<1>3. CASE AgainWait(t)
  <2>1. \A m \in Node : NodeEases(m)
    BY <1>3, NodeOfAssumption
       DEF TypeOK, AgainWait, Goto, AtAgain, NodeEases, TaskEases, TasksOf,
           AskPc, HoldsPc, DcOwns, lockVars, dcVars, taskVars
  <2>2. UsersLive'
    BY <1>3, NodeOfAssumption
       DEF TypeOK, UsersLive, AgainWait, Goto, AtAgain, taskVars, HoldsPc
  <2>3. UNCHANGED <<dlmVars, evictPc>>
    BY <1>3 DEF AgainWait
  <2> QED
    BY <2>1, <2>2, <2>3
<1>4. CASE AgainGiveUp(t)
  <2>1. \A m \in Node : NodeEases(m)
    BY <1>4, NodeOfAssumption, RestTypes
       DEF TypeOK, AgainGiveUp, LeaveSection, SetFlags, Return, Goto, AtAgain,
           NodeEases, TaskEases, TasksOf, AskPc, HoldsPc, DcOwns, lockVars,
           dcVars, taskVars
  <2>2. UsersLive'
    BY <1>4, NodeOfAssumption, RestTypes
       DEF TypeOK, UsersLive, AgainGiveUp, LeaveSection, SetFlags, Return, Goto,
           AtAgain, taskVars, HoldsPc
  <2>3. UNCHANGED <<dlmVars, evictPc>>
    BY <1>4 DEF AgainGiveUp
  <2> QED
    BY <2>1, <2>2, <2>3
<1>5. CASE DlmLockReturn(t)
  <2>1. \A m \in Node : NodeEases(m)
    BY <1>5, NodeOfAssumption
       DEF TypeOK, DlmLockReturn, SetFlags, Goto, ClearPending, NodeEases,
           TaskEases, TasksOf, AskPc, HoldsPc, DcOwns, lockVars, dcVars,
           taskVars
  <2>2. UsersLive'
    <3>1. pc[t] \in {"called", "refused"} /\ UNCHANGED evictPc
      BY <1>5 DEF DlmLockReturn
    <3>2. \A u \in Task \ {t} : pc'[u] = pc[u]
      BY <1>5 DEF TypeOK, DlmLockReturn, Goto
    <3> QED
      BY <3>1, <3>2 DEF UsersLive
  <2>3. UNCHANGED <<dlmVars, evictPc>>
    BY <1>5 DEF DlmLockReturn
  <2> QED
    BY <2>1, <2>2, <2>3
<1>6. CASE NonBlockArrived(t)
  <2>1. \A m \in Node : NodeEases(m)
    BY <1>6, NodeOfAssumption
       DEF TypeOK, NonBlockArrived, Goto, NodeEases, TaskEases, TasksOf, AskPc,
           HoldsPc, DcOwns, lockVars, dcVars, taskVars
  <2>2. UsersLive'
    BY <1>6, NodeOfAssumption
       DEF TypeOK, UsersLive, NonBlockArrived, Goto, taskVars, HoldsPc
  <2>3. UNCHANGED <<dlmVars, evictPc>>
    BY <1>6 DEF NonBlockArrived
  <2> QED
    BY <2>1, <2>2, <2>3
<1>7. CASE NonBlockGiveUp(t)
  <2>1. \A m \in Node : NodeEases(m)
    BY <1>7, NodeOfAssumption, RestTypes
       DEF TypeOK, NonBlockGiveUp, Return, Goto, NodeEases, TaskEases, TasksOf,
           AskPc, HoldsPc, DcOwns, lockVars, dcVars, taskVars
  <2>2. UsersLive'
    BY <1>7, NodeOfAssumption, RestTypes
       DEF TypeOK, UsersLive, NonBlockGiveUp, Return, Goto, taskVars, HoldsPc
  <2>3. UNCHANGED <<dlmVars, evictPc>>
    BY <1>7 DEF NonBlockGiveUp
  <2> QED
    BY <2>1, <2>2, <2>3
<1>8. CASE ShouldRefresh(t)
  <2>1. \A m \in Node : NodeEases(m)
    <3>1. UNCHANGED <<level, requested, blocking, action, dcPc, dcSaved, want>>
      BY <1>8 DEF ShouldRefresh, dcVars
    <3>2. \A u \in Task : \/ pc'[u] = pc[u]
                          \/ pc'[u] \in HoldsPc /\ pc[u] \in HoldsPc
      <4>1. pc[t] = "holding"
        BY <1>8 DEF ShouldRefresh
      <4>2. PICK l \in {"held", "refresh"} : pc' = [pc EXCEPT ![t] = l]
        BY <1>8 DEF ShouldRefresh, Goto
      <4>3. pc'[t] = l /\ \A u \in Task \ {t} : pc'[u] = pc[u]
        BY <4>2 DEF TypeOK
      <4> QED
        BY <4>1, <4>3 DEF HoldsPc
    <3>3. \A m \in Node : flags'[m] \in {flags[m], flags[m] \union {"REFRESHING"}}
      BY <1>8 DEF TypeOK, ShouldRefresh, SetFlags
    <3> QED
      BY <3>1, <3>2, <3>3
         DEF NodeEases, TaskEases, TasksOf, AskPc, HoldsPc, DcOwns
  <2>2. UsersLive'
    <3>1. pc[t] = "holding" /\ UNCHANGED evictPc
      BY <1>8 DEF ShouldRefresh
    <3>2. \A u \in Task \ {t} : pc'[u] = pc[u]
      BY <1>8 DEF TypeOK, ShouldRefresh, Goto
    <3> QED
      BY <3>1, <3>2 DEF UsersLive
  <2>3. UNCHANGED <<dlmVars, evictPc>>
    BY <1>8 DEF ShouldRefresh
  <2> QED
    BY <2>1, <2>2, <2>3
<1>9. CASE CompleteRefresh(t)
  <2>1. \A m \in Node : NodeEases(m)
    <3>1. UNCHANGED <<level, requested, blocking, action, dcPc, dcSaved, want>>
      BY <1>9 DEF CompleteRefresh, dcVars
    <3>2. \A u \in Task : \/ pc'[u] = pc[u]
                          \/ pc'[u] \in HoldsPc /\ pc[u] \in HoldsPc
      <4>1. pc[t] = "refresh"
        BY <1>9 DEF CompleteRefresh
      <4>2. PICK l \in {"held", "failed"} : pc' = [pc EXCEPT ![t] = l]
        BY <1>9 DEF CompleteRefresh, Goto
      <4>3. pc'[t] = l /\ \A u \in Task \ {t} : pc'[u] = pc[u]
        BY <4>2 DEF TypeOK
      <4> QED
        BY <4>1, <4>3 DEF HoldsPc
    <3>3. \A m \in Node :
            flags'[m] \in {flags[m], flags[m] \ {"REFRESHING"},
                           flags[m] \ {"REFRESHING", "NEEDS_REFRESH"}}
      BY <1>9 DEF TypeOK, CompleteRefresh, SetFlags
    <3> QED
      BY <3>1, <3>2, <3>3
         DEF NodeEases, TaskEases, TasksOf, AskPc, HoldsPc, DcOwns
  <2>2. UsersLive'
    <3>1. pc[t] = "refresh" /\ UNCHANGED evictPc
      BY <1>9 DEF CompleteRefresh
    <3>2. \A u \in Task \ {t} : pc'[u] = pc[u]
      BY <1>9 DEF TypeOK, CompleteRefresh, Goto
    <3> QED
      BY <3>1, <3>2 DEF UsersLive
  <2>3. UNCHANGED <<dlmVars, evictPc>>
    BY <1>9 DEF CompleteRefresh
  <2> QED
    BY <2>1, <2>2, <2>3
<1>10. CASE Unlock(t)
  <2>1. \A m \in Node : NodeEases(m)
    BY <1>10, NodeOfAssumption, RestTypes, SMTT(60)
       DEF TypeOK, Unlock, Goto, NodeEases, TaskEases, TasksOf, AskPc, HoldsPc,
           DcOwns, lockVars, dcVars, taskVars
  <2>2. UsersLive'
    BY <1>10, NodeOfAssumption, RestTypes
       DEF TypeOK, UsersLive, Unlock, Goto, taskVars, HoldsPc
  <2>3. UNCHANGED <<dlmVars, evictPc>>
    BY <1>10 DEF Unlock
  <2> QED
    BY <2>1, <2>2, <2>3
<1> QED
  BY <1>1, <1>2, <1>3, <1>4, <1>5, <1>6, <1>7, <1>8, <1>9, <1>10

\* The steps of the downconvert thread that change only where it is
LEMMA ThreadStepEases ==
  ASSUME TypeOK, UsersLive, NEW n \in Node,
         \/ OtherWake(n) \/ DcTake(n) \/ DcNotBlocked(n)
         \/ DcRequeue(n) \/ DcPrepareCancel(n) \/ DcCheckpoint(n)
         \/ DcDlmReturn(n) \/ DcUnqueue(n)
  PROVE  /\ \A m \in Node : NodeEases(m)
         /\ UsersLive' /\ UNCHANGED <<dlmVars, evictPc>>
<1>1. CASE OtherWake(n)
  <2>1. \A m \in Node : NodeEases(m)
    BY <1>1
       DEF TypeOK, OtherWake, NodeEases, TaskEases, TasksOf, AskPc, HoldsPc,
           DcOwns, lockVars, dcVars, taskVars
  <2>2. UsersLive'
    BY <1>1 DEF TypeOK, UsersLive, OtherWake, taskVars, HoldsPc
  <2>3. UNCHANGED <<dlmVars, evictPc>>
    BY <1>1 DEF OtherWake
  <2> QED
    BY <2>1, <2>2, <2>3
<1>2. CASE DcTake(n)
  <2>1. \A m \in Node : NodeEases(m)
    <3>1. UNCHANGED <<level, requested, blocking, action, flags, dcSaved, pc,
                     want>>
      BY <1>2 DEF DcTake, taskVars
    <3>2. dcPc[n] = "idle"
      BY <1>2 DEF DcTake, DcRuns
    <3>3. \A m \in Node : \/ dcPc'[m] = dcPc[m]
                          \/ m = n /\ dcPc'[m] \in {"unqueue", "unblock"}
      BY <1>2 DEF TypeOK, DcTake, DcGoto
    <3> QED
      BY <3>1, <3>2, <3>3
         DEF NodeEases, TaskEases, TasksOf, AskPc, HoldsPc, DcOwns
  <2>2. UsersLive'
    BY <1>2 DEF TypeOK, UsersLive, DcTake, DcGoto, taskVars, HoldsPc
  <2>3. UNCHANGED <<dlmVars, evictPc>>
    BY <1>2 DEF DcTake
  <2> QED
    BY <2>1, <2>2, <2>3
<1>3. CASE DcNotBlocked(n)
  <2>1. \A m \in Node : NodeEases(m)
    BY <1>3
       DEF TypeOK, DcNotBlocked, DcRuns, DcGoto, NodeEases, TaskEases, TasksOf,
           AskPc, HoldsPc, DcOwns, lockVars, dcVars, taskVars
  <2>2. UsersLive'
    BY <1>3
       DEF TypeOK, UsersLive, DcNotBlocked, DcRuns, DcGoto, taskVars, HoldsPc
  <2>3. UNCHANGED <<dlmVars, evictPc>>
    BY <1>3 DEF DcNotBlocked
  <2> QED
    BY <2>1, <2>2, <2>3
<1>4. CASE DcRequeue(n)
  <2>1. \A m \in Node : NodeEases(m)
    BY <1>4
       DEF TypeOK, DcRequeue, DcRuns, DcGoto, NodeEases, TaskEases, TasksOf,
           AskPc, HoldsPc, DcOwns, lockVars, dcVars, taskVars
  <2>2. UsersLive'
    BY <1>4 DEF TypeOK, UsersLive, DcRequeue, DcRuns, DcGoto, taskVars, HoldsPc
  <2>3. UNCHANGED <<dlmVars, evictPc>>
    BY <1>4 DEF DcRequeue
  <2> QED
    BY <2>1, <2>2, <2>3
<1>5. CASE DcPrepareCancel(n)
  <2>1. \A m \in Node : NodeEases(m)
    BY <1>5
       DEF TypeOK, DcPrepareCancel, DcRuns, DcGoto, NodeEases, TaskEases,
           TasksOf, AskPc, HoldsPc, DcOwns, lockVars, dcVars, taskVars
  <2>2. UsersLive'
    BY <1>5
       DEF TypeOK, UsersLive, DcPrepareCancel, DcRuns, DcGoto, taskVars, HoldsPc
  <2>3. UNCHANGED <<dlmVars, evictPc>>
    BY <1>5 DEF DcPrepareCancel
  <2> QED
    BY <2>1, <2>2, <2>3
<1>6. CASE DcCheckpoint(n)
  <2>1. \A m \in Node : NodeEases(m)
    BY <1>6
       DEF TypeOK, DcCheckpoint, DcRuns, DcGoto, NodeEases, TaskEases, TasksOf,
           AskPc, HoldsPc, DcOwns, lockVars, dcVars, taskVars
  <2>2. UsersLive'
    BY <1>6
       DEF TypeOK, UsersLive, DcCheckpoint, DcRuns, DcGoto, taskVars, HoldsPc
  <2>3. UNCHANGED <<dlmVars, evictPc>>
    BY <1>6 DEF DcCheckpoint
  <2> QED
    BY <2>1, <2>2, <2>3
<1>7. CASE DcDlmReturn(n)
  <2>1. \A m \in Node : NodeEases(m)
    BY <1>7
       DEF TypeOK, DcDlmReturn, SetFlags, DcRuns, DcGoto, ClearPending,
           NodeEases, TaskEases, TasksOf, AskPc, HoldsPc, DcOwns, lockVars,
           dcVars, taskVars
  <2>2. UsersLive'
    BY <1>7
       DEF TypeOK, UsersLive, DcDlmReturn, SetFlags, DcRuns, DcGoto,
           ClearPending, taskVars, HoldsPc
  <2>3. UNCHANGED <<dlmVars, evictPc>>
    BY <1>7 DEF DcDlmReturn
  <2> QED
    BY <2>1, <2>2, <2>3
<1>8. CASE DcUnqueue(n)
  <2>1. \A m \in Node : NodeEases(m)
    BY <1>8
       DEF TypeOK, DcUnqueue, SetFlags, DcRuns, DcGoto, Scheduled, NodeEases,
           TaskEases, TasksOf, AskPc, HoldsPc, DcOwns, lockVars, dcVars,
           taskVars
  <2>2. UsersLive'
    BY <1>8
       DEF TypeOK, UsersLive, DcUnqueue, SetFlags, DcRuns, DcGoto, Scheduled,
           taskVars, HoldsPc
  <2>3. UNCHANGED <<dlmVars, evictPc>>
    BY <1>8 DEF DcUnqueue
  <2> QED
    BY <2>1, <2>2, <2>3
<1> QED
  BY <1>1, <1>2, <1>3, <1>4, <1>5, <1>6, <1>7, <1>8

-----------------------------------------------------------------------------
(* The steps on which the exclusion rests                                  *)

LEMMA ModeOrder ==
  /\ AnyMode \subseteq Int
  /\ Mode \subseteq AnyMode
  /\ PR \in Mode /\ EX \in Mode
  /\ \A l \in AnyMode : HighestCompat(l) \in Mode
  /\ \A l, m \in AnyMode : l <= m => HighestCompat(m) <= HighestCompat(l)
BY DEF AnyMode, Mode, IV, NL, PR, EX, HighestCompat

LEMMA Levels ==
  ASSUME TypeOK, NEW n \in Node
  PROVE  /\ level[n] \in AnyMode /\ requested[n] \in AnyMode
         /\ blocking[n] \in AnyMode /\ type[n] \in AnyMode
         /\ dcSaved[n].blocking \in AnyMode /\ dcSaved[n].level \in AnyMode
         /\ level[n] \in Int /\ requested[n] \in Int /\ blocking[n] \in Int
         /\ type[n] \in Int /\ dcSaved[n].blocking \in Int
         /\ dcSaved[n].level \in Int
         /\ HighestCompat(blocking[n]) \in Mode /\ HighestCompat(blocking[n]) \in Int
BY ModeOrder, ZenonT(60) DEF TypeOK, DlmTypeOK

LEMMA Wants ==
  ASSUME TypeOK, NEW t \in Task
  PROVE  want[t].level \in {PR, EX} /\ want[t].level \in Mode /\ want[t].level \in Int
BY ModeOrder DEF TypeOK

\* One node has a new state, the others are no worse off.
LEMMA OneNode ==
  ASSUME LiveNodes, DcAsks, NEW n \in Node, UNCHANGED evictPc,
         \A m \in Node \ {n} : DlmEases(m) /\ NodeEases(m),
         NodeInv(n) => NodeInv(n)',
         dcPc'[n] = "dlm" => requested'[n] \in Mode
  PROVE  LiveNodes' /\ DcAsks'
<1>1. ASSUME NEW m \in Node, evictPc'[m] = "live"
      PROVE  NodeInv(m)'
  <2>1. NodeInv(m)
    BY <1>1 DEF LiveNodes
  <2> QED
    BY <2>1, Eased
<1>2. ASSUME NEW m \in Node, dcPc'[m] = "dlm"
      PROVE  requested'[m] \in Mode
  BY <1>2 DEF DcAsks, NodeEases
<1> QED
  BY <1>1, <1>2 DEF LiveNodes, DcAsks

LEMMA AgainHoldInv ==
  ASSUME GlueInv, NEW t \in Task, AgainHold(t)
  PROVE  UsersLive' /\ LiveNodes' /\ DcAsks'
<1> DEFINE n == NodeOf[t]
           l == want[t].level
<1>1. n \in Node /\ t \in TasksOf(n) /\ evictPc[n] = "live"
  BY NodeOfAssumption DEF GlueInv, UsersLive, AgainHold, AtAgain, TasksOf
<1>2. UNCHANGED <<dlmVars, level, requested, blocking, action, dcPc, dcSaved,
                  want, evictPc>>
  BY DEF AgainHold, dcVars
<1>3. /\ flags'[n] = flags[n] \ {"UPCONVERT_FINISHING"}
      /\ \A m \in Node \ {n} : flags'[m] = flags[m]
  BY <1>1 DEF GlueInv, TypeOK, AgainHold, LeaveSection, SetFlags
<1>4. /\ pc'[t] \in HoldsPc
      /\ \A u \in Task \ {t} : pc'[u] = pc[u]
  BY DEF GlueInv, TypeOK, AgainHold, Return, Goto, HoldsPc
<1>5. /\ l <= level[n]
      /\ "BLOCKED" \in flags[n] /\ "UPCONVERT_FINISHING" \notin flags[n]
           => l <= HighestCompat(blocking[n])
  BY DEF AgainHold, MustWaitBlocked, MayContinue, Upconverted
<1>6. \A m \in Node \ {n} : DlmEases(m) /\ NodeEases(m)
  <2>1. \A m \in Node : DlmEases(m)
    BY <1>2, DlmStutterSame, SameEases
  <2>2. \A m \in Node \ {n} : NodeEases(m)
    BY <1>1, <1>2, <1>3, <1>4 DEF NodeEases, TaskEases, TasksOf
  <2> QED
    BY <2>1, <2>2
<1>7. UsersLive'
  BY <1>1, <1>2, <1>4 DEF GlueInv, UsersLive
<1> HIDE DEF n, l
<1>8. ASSUME NodeInv(n) PROVE NodeInv(n)'
  <2>1. /\ Queued(n)' <=> Queued(n)
        /\ Answered(n)' <=> Answered(n)
        /\ Out(n)' <=> Out(n)
        /\ OnLists' = OnLists
        /\ Lowering(n)' <=> Lowering(n)
        /\ DcOwns(n)' <=> DcOwns(n)
        /\ TasksOf(n)' = TasksOf(n)
    BY <1>2
       DEF dlmVars, Queued, Answered, Out, OnLists, Lowering, DcOwns, TasksOf
  <2>2. Askers(n)' \subseteq Askers(n)
    BY <1>1, <1>4, <2>1 DEF Askers, TasksOf, AskPc, HoldsPc
  <2>3. OneOwner(n)' /\ Agrees(n)' /\ GoesDown(n)'
    BY <1>1, <1>2, <1>3, <1>8, <2>1, <2>2
       DEF dlmVars, NodeInv, OneOwner, Agrees, GoesDown
  <2>4. GoesUp(n)'
    <3>1. \A u \in Askers(n)' : u \in Askers(n) /\ pc'[u] = pc[u]
      BY <1>4, <2>1, <2>2 DEF Askers, TasksOf, AskPc, HoldsPc
    <3> QED
      BY <1>1, <1>2, <1>3, <1>8, <2>1, <3>1 DEF dlmVars, NodeInv, GoesUp
  <2>5. HoldersBelow(n)'
    <3>1. l <= level[n] /\ (Lowering(n) => l <= requested[n])
      BY <1>1, <1>5, <1>8, Levels, Wants DEF l, GlueInv, NodeInv, GoesDown
    <3> QED
      BY <1>2, <1>4, <1>8, <2>1, <3>1 DEF l, NodeInv, HoldersBelow, TasksOf
  <2>6. WorkerSafe(n)'
    <3>1. LooksTheSame(n)' <=> LooksTheSame(n)
      BY <1>2 DEF LooksTheSame
    <3> QED
      BY <1>1, <1>2, <1>3, <1>4, <1>5, <1>8, <2>1, <3>1
         DEF l, NodeInv, WorkerSafe, TasksOf
  <2> QED
    BY <2>3, <2>4, <2>5, <2>6 DEF NodeInv
<1>9. LiveNodes' /\ DcAsks'
  BY <1>1, <1>2, <1>6, <1>8, OneNode DEF GlueInv, DcAsks
<1> QED
  BY <1>7, <1>9

LEMMA AgainRequestInv ==
  ASSUME GlueInv, NEW t \in Task, AgainRequest(t)
  PROVE  UsersLive' /\ LiveNodes' /\ DcAsks'
<1> DEFINE n == NodeOf[t]
           l == want[t].level
<1>1. n \in Node /\ t \in TasksOf(n) /\ evictPc[n] = "live"
  BY NodeOfAssumption DEF GlueInv, UsersLive, AgainRequest, AtAgain, TasksOf
<1>2. UNCHANGED <<dlmVars, level, blocking, dcPc, dcSaved, want, evictPc>>
  BY DEF AgainRequest, dcVars
<1>3. /\ flags'[n] = flags[n] \union {"BUSY", "PENDING"}
      /\ requested'[n] = l
      /\ action'[n] = IF "ATTACHED" \in flags[n] THEN "CONVERT" ELSE "ATTACH"
      /\ \A m \in Node \ {n} : /\ flags'[m] = flags[m]
                               /\ requested'[m] = requested[m]
                               /\ action'[m] = action[m]
  BY <1>1 DEF GlueInv, TypeOK, AgainRequest, SetFlags
<1>4. /\ pc[t] \notin AskPc /\ pc'[t] = "dlm"
      /\ \A u \in Task \ {t} : pc'[u] = pc[u]
  BY DEF GlueInv, TypeOK, AgainRequest, AtAgain, Goto, AskPc
<1>5. l \in Mode /\ level[n] < l /\ l \in Int /\ level[n] \in Int
  BY <1>1, Levels, Wants DEF GlueInv, AgainRequest
<1>6. "BUSY" \notin flags[n]
  BY <1>5 DEF AgainRequest, MustWaitBusy
<1>7. "BLOCKED" \in flags[n] /\ "UPCONVERT_FINISHING" \notin flags[n] =>
        l <= HighestCompat(blocking[n])
  BY DEF AgainRequest, MustWaitBlocked, MayContinue, Upconverted
<1>8. \A m \in Node \ {n} : DlmEases(m) /\ NodeEases(m)
  <2>1. \A m \in Node : DlmEases(m)
    BY <1>2, DlmStutterSame, SameEases
  <2>2. \A m \in Node \ {n} : NodeEases(m)
    BY <1>1, <1>2, <1>3, <1>4 DEF NodeEases, TaskEases, TasksOf
  <2> QED
    BY <2>1, <2>2
<1>9. UsersLive'
  BY <1>1, <1>2, <1>4 DEF GlueInv, UsersLive
<1> HIDE DEF n, l
<1>10. ASSUME NodeInv(n) PROVE NodeInv(n)'
  <2>1. /\ Queued(n)' <=> Queued(n)
        /\ Answered(n)' <=> Answered(n)
        /\ Out(n)' <=> Out(n)
        /\ OnLists' = OnLists
        /\ DcOwns(n)' <=> DcOwns(n)
        /\ TasksOf(n)' = TasksOf(n)
        /\ ~Lowering(n)'
    BY <1>2, <1>3 DEF dlmVars, Queued, Answered, Out, OnLists, Lowering, DcOwns,
                      TasksOf
  <2>2. ~Out(n) /\ ~DcOwns(n) /\ Askers(n) = {}
    BY <1>6, <1>10 DEF NodeInv, OneOwner
  <2>3. ~Lowering(n)
    BY <1>10, <2>2 DEF NodeInv, GoesDown, Out, DcOwns
  <2>4. Askers(n)' = {t}
    BY <1>1, <1>4, <2>1, <2>2 DEF Askers, TasksOf, AskPc
  <2>5. OneOwner(n)'
    BY <1>2, <1>3, <1>10, <2>1, <2>2, <2>4
       DEF dlmVars, NodeInv, OneOwner, Out
  <2>6. Agrees(n)'
    BY <1>2, <1>3, <1>10, <2>1, <2>2 DEF dlmVars, NodeInv, Agrees, Out, Queued
  <2>7. GoesUp(n)'
    BY <1>2, <1>3, <1>5, <1>10, <2>1, <2>2, <2>3, <2>4
       DEF l, dlmVars, NodeInv, GoesUp
  <2>8. GoesDown(n)'
    BY <1>2, <2>1, <2>2 DEF GoesDown, DcOwns
  <2>9. HoldersBelow(n)'
    BY <1>2, <1>4, <1>10, <2>1 DEF NodeInv, HoldersBelow, HoldsPc, TasksOf
  <2>10. WorkerSafe(n)'
    <3>1. LooksTheSame(n)' <=> LooksTheSame(n)
      BY <1>2 DEF LooksTheSame
    <3>2. dcPc[n] = "worker" => ~LooksTheSame(n)
      <4>1. SUFFICES ASSUME dcPc[n] = "worker", LooksTheSame(n) PROVE FALSE
        OBVIOUS
      <4>2. l <= HighestCompat(blocking[n]) /\ HighestCompat(blocking[n]) < level[n]
        BY <1>1, <1>7, <1>10, <4>1, Levels
           DEF GlueInv, NodeInv, WorkerSafe, LooksTheSame
      <4> QED
        BY <1>1, <1>5, <4>2, Levels DEF GlueInv
    <3> QED
      BY <1>2, <1>3, <1>10, <2>1, <3>1, <3>2 DEF NodeInv, WorkerSafe
  <2> QED
    BY <2>5, <2>6, <2>7, <2>8, <2>9, <2>10 DEF NodeInv
<1>11. LiveNodes' /\ DcAsks'
  BY <1>1, <1>2, <1>3, <1>5, <1>8, <1>10, OneNode DEF GlueInv
<1> QED
  BY <1>9, <1>11

LEMMA RecoverFromErrorInv ==
  ASSUME GlueInv, NEW t \in Task, RecoverFromError(t)
  PROVE  UsersLive' /\ LiveNodes' /\ DcAsks'
<1> DEFINE n == NodeOf[t]
<1>1. n \in Node /\ t \in TasksOf(n) /\ evictPc[n] = "live"
  BY NodeOfAssumption DEF GlueInv, UsersLive, RecoverFromError, TasksOf
<1>2. UNCHANGED <<dlmVars, level, requested, blocking, dcPc, dcSaved, want,
                  evictPc>>
  BY DEF RecoverFromError, dcVars
<1>3. /\ flags'[n] = flags[n] \ {"BUSY", "UPCONVERT_FINISHING"}
      /\ action'[n] = "INVALID"
      /\ \A m \in Node \ {n} : flags'[m] = flags[m] /\ action'[m] = action[m]
  BY <1>1 DEF GlueInv, TypeOK, RecoverFromError, SetFlags
<1>4. /\ pc[t] = "recover" /\ pc'[t] \in {"idle", "done"}
      /\ \A u \in Task \ {t} : pc'[u] = pc[u]
  BY RestTypes DEF GlueInv, TypeOK, RecoverFromError, Return, Goto
<1>5. \A m \in Node \ {n} : DlmEases(m) /\ NodeEases(m)
  <2>1. \A m \in Node : DlmEases(m)
    BY <1>2, DlmStutterSame, SameEases
  <2>2. \A m \in Node \ {n} : NodeEases(m)
    BY <1>1, <1>2, <1>3, <1>4 DEF NodeEases, TaskEases, TasksOf
  <2> QED
    BY <2>1, <2>2
<1>6. UsersLive'
  BY <1>1, <1>2, <1>4 DEF GlueInv, UsersLive
<1> HIDE DEF n
<1>7. ASSUME NodeInv(n) PROVE NodeInv(n)'
  <2>1. /\ Queued(n)' <=> Queued(n)
        /\ Answered(n)' <=> Answered(n)
        /\ Out(n)' <=> Out(n)
        /\ OnLists' = OnLists
        /\ DcOwns(n)' <=> DcOwns(n)
        /\ TasksOf(n)' = TasksOf(n)
        /\ ~Lowering(n)'
    BY <1>2, <1>3 DEF dlmVars, Queued, Answered, Out, OnLists, Lowering, DcOwns,
                      TasksOf
  <2>2. t \in Askers(n)
    BY <1>1, <1>4 DEF Askers, AskPc
  <2>3. ~Out(n) /\ ~DcOwns(n) /\ "BUSY" \in flags[n]
    BY <1>7, <2>2 DEF NodeInv, OneOwner
  <2>4. Askers(n)' = {}
    BY <1>4, <1>7, <2>1, <2>2 DEF NodeInv, OneOwner, Askers, TasksOf, AskPc
  <2>5. OneOwner(n)'
    BY <1>2, <1>7, <2>1, <2>3, <2>4 DEF dlmVars, NodeInv, OneOwner, Out
  <2>6. Agrees(n)'
    BY <1>2, <1>3, <1>7, <2>1, <2>3 DEF dlmVars, NodeInv, Agrees, Out, Queued
  <2>7. GoesUp(n)'
    BY <1>2, <1>7, <2>1, <2>3, <2>4 DEF dlmVars, NodeInv, GoesUp, Out
  <2>8. GoesDown(n)'
    BY <1>2, <2>1, <2>3 DEF GoesDown, DcOwns
  <2>9. HoldersBelow(n)'
    BY <1>2, <1>4, <1>7, <2>1 DEF NodeInv, HoldersBelow, HoldsPc, TasksOf
  <2>10. WorkerSafe(n)'
    <3>1. LooksTheSame(n)' <=> LooksTheSame(n)
      BY <1>2 DEF LooksTheSame
    <3> QED
      BY <1>2, <1>3, <1>7, <2>1, <2>3, <3>1 DEF NodeInv, WorkerSafe
  <2> QED
    BY <2>5, <2>6, <2>7, <2>8, <2>9, <2>10 DEF NodeInv
<1>8. LiveNodes' /\ DcAsks'
  BY <1>1, <1>2, <1>5, <1>7, OneNode DEF GlueInv, DcAsks
<1> QED
  BY <1>6, <1>8

\* A task's request reaches the master, and is refused, queued or granted.
LEMMA DlmLockCallInv ==
  ASSUME GlueInv, NEW t \in Task, DlmLockCall(t)
  PROVE  UsersLive' /\ LiveNodes' /\ DcAsks' /\ DlmInv'
<1> DEFINE n == NodeOf[t]
           l == want[t].level
<1>1. n \in Node /\ t \in TasksOf(n) /\ evictPc[n] = "live"
  BY NodeOfAssumption DEF GlueInv, UsersLive, DlmLockCall, TasksOf
<1>2. UNCHANGED <<level, requested, blocking, action, flags, dcPc, dcSaved, want,
                  evictPc>>
  BY DEF DlmLockCall, lockVars, dcVars
<1>3. /\ pc[t] = "dlm" /\ pc'[t] \in {"refused", "called"}
      /\ \A u \in Task \ {t} : pc'[u] = pc[u]
  BY DEF GlueInv, TypeOK, DlmLockCall, Goto
<1>4. l \in Mode
  BY Wants DEF GlueInv
<1>5. UsersLive'
  BY <1>1, <1>2, <1>3 DEF GlueInv, UsersLive
<1>6. \A m \in Node \ {n} : NodeEases(m)
  BY <1>1, <1>2, <1>3 DEF NodeEases, TaskEases, TasksOf
<1>7. NodeInv(n)
  BY <1>1 DEF GlueInv, LiveNodes
<1>8. /\ t \in Askers(n)
      /\ ~Out(n) /\ ~DcOwns(n) /\ "BUSY" \in flags[n]
  BY <1>1, <1>3, <1>7 DEF NodeInv, OneOwner, Askers, AskPc
<1>9. /\ ~Lowering(n)
      /\ requested[n] = l
      /\ level[n] < l /\ level[n] <= type[n]
  BY <1>3, <1>7, <1>8 DEF NodeInv, GoesUp, GoesDown, Out, DcOwns
<1>10. CASE DlmNotQueued(n) /\ pc'[t] = "refused"
  <2>1. \A m \in Node : DlmEases(m)
    BY <1>1, <1>10, DlmNotQueuedSame, SameEases
  <2>2. NodeEases(n)
    BY <1>2, <1>3, <1>10 DEF NodeEases, TaskEases, TasksOf, AskPc, HoldsPc
  <2>3. NodeInv(n)'
    BY <1>1, <1>7, <2>1, <2>2, Eased
  <2>4. DlmInv'
    BY <1>1, <1>10, DlmNotQueuedInv DEF GlueInv
  <2> QED
    BY <1>1, <1>2, <1>5, <1>6, <2>1, <2>3, <2>4, OneNode DEF GlueInv, DcAsks
<1>11. ASSUME pc'[t] = "called",
              \A m \in Node \ {n} : DlmSame(m),
              n \notin pendingAsts',
              \/ /\ n \in granted' /\ type'[n] = l /\ owed'[n] = "ast"
                 /\ n \notin Range(converting') \union Range(blocked')
              \/ /\ n \in Range(converting') /\ n \notin Range(blocked')
                 /\ convert'[n] = l /\ type'[n] = type[n] /\ owed'[n] = "kick"
                 /\ "ATTACHED" \in flags[n]
              \/ /\ n \in Range(blocked') /\ n \notin Range(converting')
                 /\ type'[n] = l /\ owed'[n] = "kick"
                 /\ level[n] = IV
       PROVE  LiveNodes' /\ DcAsks'
  <2> HIDE DEF n, l
  <2>1. /\ TasksOf(n)' = TasksOf(n)
        /\ Lowering(n)' <=> Lowering(n)
        /\ DcOwns(n)' <=> DcOwns(n)
    BY <1>2 DEF TasksOf, Lowering, DcOwns
  <2>2. Askers(n)' = {}
    BY <1>3, <1>7, <1>8, <1>11, <2>1
       DEF NodeInv, OneOwner, Askers, TasksOf, AskPc
  <2>3. OneOwner(n)'
    BY <1>2, <1>8, <1>11, <2>1, <2>2 DEF OneOwner, Out, Queued, Answered
  <2>4. Agrees(n)'
    BY <1>2, <1>9, <1>11 DEF Agrees, Out, Queued, Answered, OnLists
  <2>5. GoesUp(n)'
    BY <1>1, <1>2, <1>4, <1>9, <1>11, <2>1, <2>2, Levels, ModeOrder
       DEF GlueInv, GoesUp
  <2>6. GoesDown(n)'
    BY <1>2, <1>8, <1>9, <2>1 DEF GoesDown, DcOwns
  <2>7. HoldersBelow(n)'
    BY <1>2, <1>3, <1>7, <2>1 DEF NodeInv, HoldersBelow, HoldsPc, TasksOf
  <2>8. WorkerSafe(n)'
    <3>1. LooksTheSame(n)' <=> LooksTheSame(n)
      BY <1>2 DEF LooksTheSame
    <3> QED
      BY <1>2, <1>7, <1>8, <2>1, <3>1 DEF NodeInv, WorkerSafe
  <2>9. NodeInv(n)'
    BY <2>3, <2>4, <2>5, <2>6, <2>7, <2>8 DEF NodeInv
  <2> QED
    BY <1>1, <1>2, <1>6, <1>11, <2>9, SameEases, OneNode DEF GlueInv, DcAsks
<1>12. CASE action[n] = "ATTACH" /\ DlmLock(n, l) /\ pc'[t] = "called"
  <2>1. "ATTACHED" \notin flags[n]
    BY <1>3, <1>7, <1>8, <1>12 DEF NodeInv, GoesUp
  <2>2. type[n] = IV
    BY <1>7, <1>8, <2>1 DEF NodeInv, Agrees
  <2>3. level[n] = IV
    BY <1>1, <1>7, <2>2 DEF GlueInv, DlmInv, OneList, NodeInv, Agrees
  <2>4. DlmInv'
    BY <1>1, <1>4, <1>12, <2>2, DlmLockInv DEF GlueInv
  <2>5. n \notin pendingAsts
    BY <1>8 DEF Out, Answered
  <2>6. /\ \A m \in Node \ {n} : DlmSame(m)
        /\ type'[n] = l
        /\ n \notin Range(converting')
        /\ n \notin pendingAsts'
        /\ \/ n \in granted' /\ n \notin Range(blocked') /\ owed'[n] = "ast"
           \/ n \in Range(blocked') /\ owed'[n] = "kick"
    BY <1>1, <1>4, <1>12, <2>2, <2>5, DlmLockEffect DEF GlueInv
  <2>7. LiveNodes' /\ DcAsks'
    BY <1>11, <1>12, <2>3, <2>6
  <2> QED
    BY <1>5, <2>4, <2>7
<1>13. CASE action[n] # "ATTACH" /\ DlmConvert(n, l) /\ pc'[t] = "called"
  <2>1. "ATTACHED" \in flags[n]
    BY <1>3, <1>7, <1>8, <1>13 DEF NodeInv, GoesUp
  <2>2. DlmInv'
    BY <1>1, <1>4, <1>13, DlmConvertInv DEF GlueInv
  <2>3. n \notin pendingAsts
    BY <1>8 DEF Out, Answered
  <2>4. /\ \A m \in Node \ {n} : DlmSame(m)
        /\ n \notin Range(blocked')
        /\ n \notin pendingAsts'
        /\ \/ /\ type'[n] = l
              /\ n \in granted' /\ n \notin Range(converting')
              /\ owed'[n] = "ast"
           \/ /\ type'[n] = type[n] /\ convert'[n] = l
              /\ n \in Range(converting') /\ owed'[n] = "kick"
    BY <1>1, <1>4, <1>13, <2>3, DlmConvertEffect DEF GlueInv
  <2>5. LiveNodes' /\ DcAsks'
    BY <1>11, <1>13, <2>1, <2>4
  <2> QED
    BY <1>5, <2>2, <2>5
<1> QED
  <2>1. pc'[t] = "refused" \/ pc'[t] = "called"
    BY <1>3
  <2>2. \/ DlmNotQueued(n) /\ pc'[t] = "refused"
        \/ action[n] = "ATTACH" /\ DlmLock(n, l) /\ pc'[t] = "called"
        \/ action[n] # "ATTACH" /\ DlmConvert(n, l) /\ pc'[t] = "called"
    BY DEF GlueInv, TypeOK, DlmLockCall, Goto
  <2> QED
    BY <1>10, <1>12, <1>13, <2>2

LEMMA LockingAstInv ==
  ASSUME GlueInv, NEW n \in Node, LockingAst(n)
  PROVE  UsersLive' /\ LiveNodes' /\ DcAsks'
<1>1. /\ UNCHANGED <<requested, dcPc, dcSaved, pc, want, evictPc>>
      /\ ~AstBug(n)
  BY DEF LockingAst, dcVars
<1>2. /\ \A m \in Node \ {n} : DlmSame(m)
      /\ n \in pendingAsts /\ n \notin pendingAsts'
      /\ UNCHANGED <<type, convert, granted, converting, blocked, owed>>
  BY DeliverAstEffect DEF LockingAst
<1>3. /\ level'[n] = requested[n]
      /\ action'[n] = "INVALID"
      /\ blocking'[n] = IF SatisfiesBlocker(n) THEN NL ELSE blocking[n]
      /\ flags'[n] = AfterAction(n) \ {"PENDING"}
      /\ \A m \in Node \ {n} : /\ level'[m] = level[m]
                               /\ action'[m] = action[m]
                               /\ blocking'[m] = blocking[m]
                               /\ flags'[m] = flags[m]
  BY DEF GlueInv, TypeOK, LockingAst, SetFlags
<1>4. \A m \in Node \ {n} : DlmEases(m) /\ NodeEases(m)
  <2>1. \A m \in Node \ {n} : NodeEases(m)
    BY <1>1, <1>3 DEF NodeEases, TaskEases
  <2> QED
    BY <1>2, <2>1, SameEases
<1>5. UsersLive'
  BY <1>1 DEF GlueInv, UsersLive
<1>6. ASSUME NodeInv(n) PROVE NodeInv(n)'
  <2>1. /\ TasksOf(n)' = TasksOf(n)
        /\ DcOwns(n)' <=> DcOwns(n)
        /\ Askers(n)' = Askers(n)
        /\ Queued(n)' <=> Queued(n)
        /\ ~Lowering(n)'
        /\ OnLists' = OnLists
    BY <1>1, <1>2, <1>3
       DEF TasksOf, DcOwns, Askers, Queued, Lowering, OnLists
  <2>2. /\ Answered(n) /\ Out(n) /\ ~Queued(n) /\ ~DcOwns(n)
        /\ Askers(n) = {} /\ "BUSY" \in flags[n]
        /\ owed[n] # "ast"
    BY <1>2, <1>6 DEF NodeInv, OneOwner, Out, Answered
  <2>3. ~Answered(n)' /\ ~Queued(n)' /\ ~Out(n)'
    BY <1>2, <2>1, <2>2 DEF Answered, Out
  <2>4. "ATTACHED" \in flags'[n]
    BY <1>1, <1>3 DEF AstBug, AfterAction, AfterAttach
  <2>5. OneOwner(n)'
    BY <2>1, <2>2, <2>3, <1>2 DEF OneOwner
  <2>6. Agrees(n)'
    BY <1>2, <1>6, <2>1, <2>2, <2>3, <2>4
       DEF NodeInv, Agrees, OnLists, Queued
  <2>7. GoesUp(n)'
    BY <1>1, <1>2, <1>3, <1>6, <2>1, <2>2, <2>3, Levels
       DEF GlueInv, NodeInv, GoesUp, Agrees
  <2>8. GoesDown(n)'
    BY <2>1, <2>2, <1>1 DEF GoesDown, DcOwns
  <2>9. HoldersBelow(n)'
    <3>1. ASSUME NEW u \in TasksOf(n), pc[u] \in HoldsPc
          PROVE  want[u].level <= requested[n]
      <4>1. CASE Lowering(n)
        BY <1>6, <3>1, <4>1 DEF NodeInv, HoldersBelow
      <4>2. CASE ~Lowering(n)
        <5>1. want[u].level <= level[n] /\ level[n] < requested[n]
          BY <1>6, <2>2, <3>1, <4>2 DEF NodeInv, HoldersBelow, GoesUp
        <5>2. want[u].level \in Int /\ level[n] \in Int /\ requested[n] \in Int
          BY Levels, Wants DEF GlueInv, TasksOf
        <5> QED
          BY <5>1, <5>2
      <4> QED
        BY <4>1, <4>2
    <3> QED
      BY <1>1, <1>3, <2>1, <3>1 DEF HoldersBelow
  <2>10. WorkerSafe(n)'
    <3>1. SUFFICES ASSUME dcPc[n] = "worker" PROVE WorkerSafe(n)'
      BY <1>1 DEF WorkerSafe
    <3>2. ~Lowering(n) /\ "BLOCKED" \in flags[n] /\ ~LooksTheSame(n)
          /\ dcSaved[n].blocking <= blocking[n]
      BY <1>6, <2>2, <3>1 DEF NodeInv, WorkerSafe
    <3>3. blocking'[n] = blocking[n] /\ "BLOCKED" \in flags'[n]
      BY <1>3, <3>2 DEF Lowering, SatisfiesBlocker, AfterAction, AfterAttach
    <3>4. ~LooksTheSame(n)'
      BY <1>1, <3>2, <3>3 DEF LooksTheSame
    <3> QED
      BY <1>1, <2>1, <3>2, <3>3, <3>4 DEF WorkerSafe
  <2> QED
    BY <2>5, <2>6, <2>7, <2>8, <2>9, <2>10 DEF NodeInv
<1>7. LiveNodes' /\ DcAsks'
  BY <1>1, <1>4, <1>6, OneNode DEF GlueInv, DcAsks
<1> QED
  BY <1>5, <1>7

LEMMA BlockingAstInv ==
  ASSUME GlueInv, NEW n \in Node, BlockingAst(n)
  PROVE  UsersLive' /\ LiveNodes' /\ DcAsks'
<1>1. UNCHANGED <<type, convert, granted, converting, blocked, owed, pendingAsts,
                  level, requested, action, dcPc, dcSaved, pc, want, evictPc>>
  BY DEF BlockingAst, DeliverBast, dcVars
<1>2. /\ \A f \in {"ATTACHED", "BUSY", "UPCONVERT_FINISHING"} :
           f \in flags'[n] <=> f \in flags[n]
      /\ "BLOCKED" \in flags[n] => "BLOCKED" \in flags'[n]
      /\ \A m \in Node \ {n} : flags'[m] = flags[m]
  <2>1. CASE UNCHANGED flags
    BY <2>1
  <2>2. CASE SetFlags(n, Scheduled(n, flags[n] \union {"BLOCKED"}))
    BY <2>2 DEF GlueInv, TypeOK, SetFlags, Scheduled
  <2> QED
    BY <2>1, <2>2 DEF BlockingAst
<1>3. /\ blocking'[n] \in AnyMode /\ blocking[n] <= blocking'[n]
      /\ \A m \in Node \ {n} : blocking'[m] = blocking[m]
  <2>1. inflight.level \in AnyMode
    <3>1. CASE inflight \in [node : Node, level : Mode]
      BY <3>1 DEF AnyMode
    <3>2. CASE inflight = NoBast
      BY <3>2 DEF NoBast, AnyMode
    <3> QED
      BY <3>1, <3>2 DEF GlueInv, TypeOK, DlmTypeOK
  <2>2. CASE UNCHANGED blocking
    BY <2>2, Levels DEF GlueInv
  <2>3. CASE blocking' = [blocking EXCEPT ![n] = IF inflight.level > @
                                                 THEN inflight.level ELSE @]
    <3>1. /\ blocking'[n] = IF inflight.level > blocking[n]
                            THEN inflight.level ELSE blocking[n]
          /\ \A m \in Node \ {n} : blocking'[m] = blocking[m]
      BY <2>3 DEF GlueInv, TypeOK
    <3>2. /\ inflight.level \in Int /\ blocking[n] \in Int
          /\ blocking[n] \in AnyMode
      BY <2>1, Levels, ModeOrder DEF GlueInv
    <3>3. CASE inflight.level > blocking[n]
      BY <2>1, <3>1, <3>2, <3>3
    <3>4. CASE ~(inflight.level > blocking[n])
      BY <3>1, <3>2, <3>4
    <3> QED
      BY <3>3, <3>4
  <2> QED
    BY <2>2, <2>3 DEF BlockingAst
<1>4. \A m \in Node \ {n} : DlmEases(m) /\ NodeEases(m)
  BY <1>1, <1>2, <1>3 DEF DlmEases, Answered, NodeEases, TaskEases
<1>5. UsersLive'
  BY <1>1 DEF GlueInv, UsersLive
<1>6. ASSUME NodeInv(n) PROVE NodeInv(n)'
  <2>1. /\ Queued(n)' <=> Queued(n)
        /\ Answered(n)' <=> Answered(n)
        /\ Out(n)' <=> Out(n)
        /\ OnLists' = OnLists
        /\ DcOwns(n)' <=> DcOwns(n)
        /\ TasksOf(n)' = TasksOf(n)
        /\ Askers(n)' = Askers(n)
        /\ Lowering(n)' <=> Lowering(n)
    BY <1>1
       DEF Queued, Answered, Out, OnLists, Lowering, DcOwns, TasksOf, Askers
  <2>2. OneOwner(n)' /\ Agrees(n)'
    BY <1>1, <1>2, <1>6, <2>1 DEF NodeInv, OneOwner, Agrees
  <2>3. GoesUp(n)' /\ HoldersBelow(n)'
    BY <1>1, <1>2, <1>6, <2>1 DEF NodeInv, GoesUp, HoldersBelow
  <2>4. GoesDown(n)'
    <3>1. HighestCompat(blocking'[n]) <= HighestCompat(blocking[n])
      BY <1>3, Levels, ModeOrder DEF GlueInv
    <3>2. HighestCompat(blocking'[n]) \in Int /\ HighestCompat(blocking[n]) \in Int
          /\ requested[n] \in Int
      BY <1>3, Levels, ModeOrder DEF GlueInv
    <3> QED
      BY <1>1, <1>2, <1>6, <2>1, <3>1, <3>2 DEF NodeInv, GoesDown
  <2>5. WorkerSafe(n)'
    <3>1. SUFFICES ASSUME dcPc[n] = "worker" PROVE WorkerSafe(n)'
      BY <1>1 DEF WorkerSafe
    <3>2. dcSaved[n].blocking <= blocking[n] /\ "BLOCKED" \in flags'[n]
          /\ ~Lowering(n)'
      BY <1>2, <1>6, <2>1, <3>1 DEF NodeInv, WorkerSafe
    <3>3. /\ dcSaved[n].blocking <= blocking'[n]
          /\ dcSaved[n].blocking = blocking'[n] => blocking'[n] = blocking[n]
      <4>1. /\ dcSaved[n].blocking \in Int /\ blocking[n] \in Int
            /\ blocking'[n] \in Int
        BY <1>3, Levels, ModeOrder DEF GlueInv
      <4> QED
        BY <1>3, <3>2, <4>1
    <3>4. LooksTheSame(n)' => LooksTheSame(n) /\ blocking'[n] = blocking[n]
      BY <1>1, <3>3 DEF LooksTheSame
    <3> QED
      BY <1>1, <1>2, <1>6, <2>1, <3>1, <3>2, <3>3, <3>4 DEF NodeInv, WorkerSafe
  <2> QED
    BY <2>2, <2>3, <2>4, <2>5 DEF NodeInv
<1>7. LiveNodes' /\ DcAsks'
  BY <1>1, <1>4, <1>6, OneNode DEF GlueInv, DcAsks
<1> QED
  BY <1>5, <1>7

\* The AST is queued: the answer only comes nearer.
LEMMA PostInv ==
  ASSUME GlueInv, NEW n \in Node, Post(n)
  PROVE  UsersLive' /\ LiveNodes' /\ DcAsks'
<1>1. UNCHANGED <<level, requested, blocking, action, flags, dcPc, dcSaved, pc,
                  want, evictPc>>
  BY DEF Post, glueVars, lockVars, dcVars, taskVars
<1>2. \A m \in Node : NodeEases(m)
  BY <1>1 DEF NodeEases, TaskEases
<1>3. DlmPost(n) /\ DlmInv
  BY DEF Post, GlueInv
<1>4. \A m \in Node \ {n} : DlmEases(m)
  BY <1>3, DlmPostEffect, SameEases
<1>5. ASSUME NodeInv(n) PROVE NodeInv(n)'
  <2>1. DlmEases(n)
    BY <1>3, DlmPostEffect DEF DlmEases, Answered
  <2> QED
    BY <1>2, <1>5, <2>1, Eased
<1> QED
  BY <1>1, <1>2, <1>4, <1>5, OneNode DEF GlueInv, DcAsks, UsersLive

\* The head of a queue is granted what its node asked for.
LEMMA ThreadInv ==
  ASSUME GlueInv, Thread
  PROVE  UsersLive' /\ LiveNodes' /\ DcAsks'
<1>1. UNCHANGED <<level, requested, blocking, action, flags, dcPc, dcSaved, pc,
                  want, evictPc>>
  BY DEF Thread, glueVars, lockVars, dcVars, taskVars
<1>2. \A m \in Node : NodeEases(m)
  BY <1>1 DEF NodeEases, TaskEases
<1>3. UsersLive'
  BY <1>1 DEF GlueInv, UsersLive
<1>4. CASE \A m \in Node : DlmSame(m)
  <2>1. \A m \in Node : NodeInv(m) => NodeInv(m)'
    BY <1>2, <1>4, SameEases, Eased
  <2> QED
    BY <1>1, <1>3, <2>1 DEF GlueInv, LiveNodes, DcAsks
<1>5. ASSUME NEW n \in Node,
             \A m \in Node \ {n} : DlmSame(m),
             n \in granted' /\ n \in pendingAsts',
             owed'[n] = owed[n],
             n \notin Range(converting') \union Range(blocked'),
             \/ n \in Range(converting) /\ type'[n] = convert[n]
             \/ n \in Range(blocked) /\ type'[n] = type[n]
      PROVE  LiveNodes' /\ DcAsks'
  <2>1. ASSUME NodeInv(n) PROVE NodeInv(n)'
    <3>1. /\ TasksOf(n)' = TasksOf(n)
          /\ DcOwns(n)' <=> DcOwns(n)
          /\ Askers(n)' = Askers(n)
          /\ Lowering(n)' <=> Lowering(n)
          /\ LooksTheSame(n)' <=> LooksTheSame(n)
          /\ Answered(n)' /\ Out(n)' /\ ~Queued(n)' /\ n \in OnLists'
      BY <1>1, <1>5
         DEF TasksOf, DcOwns, Askers, Lowering, LooksTheSame, Answered, Out,
             Queued, OnLists
    <3>2. Queued(n) /\ Out(n) /\ ~Answered(n) /\ ~DcOwns(n) /\ Askers(n) = {}
          /\ "BUSY" \in flags[n]
      BY <1>5, <2>1 DEF NodeInv, OneOwner, Queued, Out
    <3>3. ~Lowering(n) /\ level[n] < requested[n]
      BY <2>1, <3>2 DEF NodeInv, GoesUp, GoesDown, DcOwns
    <3>4. type'[n] = requested[n]
      BY <1>5, <2>1 DEF NodeInv, Agrees
    <3>5. OneOwner(n)'
      BY <1>1, <1>5, <3>1, <3>2 DEF OneOwner, Answered
    <3>6. Agrees(n)'
      BY <1>1, <1>5, <3>1, <3>4 DEF Agrees
    <3>7. GoesUp(n)'
      BY <1>1, <3>1, <3>2, <3>3, <3>4, Levels DEF GlueInv, GoesUp
    <3>8. GoesDown(n)' /\ HoldersBelow(n)' /\ WorkerSafe(n)'
      BY <1>1, <2>1, <3>1, <3>2, <3>3
         DEF NodeInv, GoesDown, HoldersBelow, WorkerSafe, DcOwns
    <3> QED
      BY <3>5, <3>6, <3>7, <3>8 DEF NodeInv
  <2> QED
    BY <1>1, <1>2, <1>5, <2>1, SameEases, OneNode DEF GlueInv, DcAsks
<1>6. DlmInv /\ DlmThread
  BY DEF GlueInv, Thread
<1> QED
  BY <1>3, <1>4, <1>5, <1>6, DlmThreadEffect

\* No request is under way, so BUSY has no owner.
LEMMA Free ==
  ASSUME NEW n \in Node, NodeInv(n), "BUSY" \notin flags[n]
  PROVE  ~Out(n) /\ ~Queued(n) /\ ~Answered(n) /\ ~DcOwns(n) /\ Askers(n) = {}
         /\ ~Lowering(n)
BY DEF NodeInv, OneOwner, GoesDown, Out, DcOwns

LEMMA DcAbortInv ==
  ASSUME GlueInv, NEW n \in Node, DcAbort(n)
  PROVE  UsersLive' /\ LiveNodes' /\ DcAsks'
<1>1. /\ UNCHANGED <<dlmVars, level, requested, action, dcSaved, pc, want, evictPc>>
      /\ "BUSY" \notin flags[n]
  BY DEF DcAbort, Settled
<1>2. /\ blocking'[n] = NL
      /\ flags'[n] = flags[n] \ {"BLOCKED"}
      /\ dcPc'[n] = "unqueue"
      /\ \A m \in Node \ {n} : /\ blocking'[m] = blocking[m]
                               /\ flags'[m] = flags[m]
                               /\ dcPc'[m] = dcPc[m]
  BY DEF GlueInv, TypeOK, DcAbort, SetFlags, DcGoto
<1>3. \A m \in Node \ {n} : DlmEases(m) /\ NodeEases(m)
  <2>1. \A m \in Node : DlmEases(m)
    BY <1>1, DlmStutterSame, SameEases
  <2>2. \A m \in Node \ {n} : NodeEases(m)
    BY <1>1, <1>2 DEF NodeEases, TaskEases
  <2> QED
    BY <2>1, <2>2
<1>4. ASSUME NodeInv(n) PROVE NodeInv(n)'
  <2>1. /\ Queued(n)' <=> Queued(n)
        /\ Answered(n)' <=> Answered(n)
        /\ Out(n)' <=> Out(n)
        /\ OnLists' = OnLists
        /\ ~DcOwns(n)'
        /\ TasksOf(n)' = TasksOf(n)
        /\ Askers(n)' = Askers(n)
        /\ Lowering(n)' <=> Lowering(n)
    BY <1>1, <1>2
       DEF dlmVars, Queued, Answered, Out, OnLists, Lowering, DcOwns, TasksOf,
           Askers
  <2>2. ~Out(n) /\ Askers(n) = {} /\ ~Lowering(n)
    BY <1>1, <1>4, Free
  <2>3. OneOwner(n)' /\ Agrees(n)'
    BY <1>1, <1>2, <1>4, <2>1, <2>2 DEF dlmVars, NodeInv, OneOwner, Agrees
  <2>4. GoesUp(n)' /\ GoesDown(n)' /\ HoldersBelow(n)' /\ WorkerSafe(n)'
    BY <1>1, <1>2, <1>4, <2>1, <2>2
       DEF dlmVars, NodeInv, GoesUp, GoesDown, HoldersBelow, WorkerSafe
  <2> QED
    BY <2>3, <2>4 DEF NodeInv
<1> QED
  BY <1>1, <1>2, <1>3, <1>4, OneNode DEF GlueInv, UsersLive

\* The holders that a downconvert leaves alone
LEMMA HoldersCompatible ==
  ASSUME TypeOK, NEW n \in Node, MayDownconvert(n), blocking[n] > NL
  PROVE  \A t \in TasksOf(n) :
           pc[t] \in HoldsPc => want[t].level <= HighestCompat(blocking[n])
<1>1. ~IncompatibleHolders(n)
  BY DEF MayDownconvert, MustRequeue
<1>2. SUFFICES ASSUME NEW t \in TasksOf(n), pc[t] \in HoldsPc
               PROVE  want[t].level <= HighestCompat(blocking[n])
  OBVIOUS
<1>3. want[t].level = PR /\ blocking[n] # EX
  BY <1>1, <1>2, Wants
     DEF IncompatibleHolders, ExHolders, RoHolders, Holders, TasksOf
<1>4. blocking[n] = PR
  BY <1>3, Levels DEF AnyMode, Mode, IV, NL, PR, EX
<1> QED
  BY <1>3, <1>4 DEF HighestCompat, PR, EX

LEMMA DcWorkerStartInv ==
  ASSUME GlueInv, NEW n \in Node, DcWorkerStart(n)
  PROVE  UsersLive' /\ LiveNodes' /\ DcAsks'
<1>1. /\ UNCHANGED <<dlmVars, level, requested, blocking, action, flags, pc, want,
                     evictPc>>
      /\ MayDownconvert(n)
  BY DEF DcWorkerStart, lockVars, taskVars
<1>2. /\ dcSaved'[n].blocking = blocking[n] /\ dcSaved'[n].level = level[n]
      /\ dcPc'[n] = "worker"
      /\ \A m \in Node \ {n} : dcSaved'[m] = dcSaved[m] /\ dcPc'[m] = dcPc[m]
  BY DEF GlueInv, TypeOK, DcWorkerStart, DcGoto
<1>3. \A m \in Node \ {n} : DlmEases(m) /\ NodeEases(m)
  <2>1. \A m \in Node : DlmEases(m)
    BY <1>1, DlmStutterSame, SameEases
  <2>2. \A m \in Node \ {n} : NodeEases(m)
    BY <1>1, <1>2 DEF NodeEases, TaskEases
  <2> QED
    BY <2>1, <2>2
<1>4. ASSUME NodeInv(n) PROVE NodeInv(n)'
  <2>1. /\ "BLOCKED" \in flags[n] /\ "BUSY" \notin flags[n]
        /\ "UPCONVERT_FINISHING" \notin flags[n]
    BY <1>1 DEF MayDownconvert, Settled
  <2>2. /\ Queued(n)' <=> Queued(n)
        /\ Answered(n)' <=> Answered(n)
        /\ Out(n)' <=> Out(n)
        /\ OnLists' = OnLists
        /\ ~DcOwns(n)'
        /\ TasksOf(n)' = TasksOf(n)
        /\ Askers(n)' = Askers(n)
        /\ Lowering(n)' <=> Lowering(n)
    BY <1>1, <1>2
       DEF dlmVars, Queued, Answered, Out, OnLists, Lowering, DcOwns, TasksOf,
           Askers
  <2>3. ~Out(n) /\ Askers(n) = {} /\ ~Lowering(n)
    BY <1>4, <2>1, Free
  <2>4. OneOwner(n)' /\ Agrees(n)' /\ GoesUp(n)' /\ GoesDown(n)' /\ HoldersBelow(n)'
    BY <1>1, <1>2, <1>4, <2>2, <2>3
       DEF dlmVars, NodeInv, OneOwner, Agrees, GoesUp, GoesDown, HoldersBelow
  <2>5. WorkerSafe(n)'
    <3>1. LooksTheSame(n)' => blocking[n] > NL
      BY <1>1 DEF LooksTheSame
    <3>2. blocking[n] <= blocking[n]
      BY Levels DEF GlueInv
    <3> QED
      BY <1>1, <1>2, <2>1, <2>2, <2>3, <3>1, <3>2, HoldersCompatible
         DEF GlueInv, WorkerSafe
  <2> QED
    BY <2>4, <2>5 DEF NodeInv
<1> QED
  BY <1>1, <1>2, <1>3, <1>4, OneNode DEF GlueInv, UsersLive

\* ocfs2_prepare_downconvert() of a node that is free and has no holders in the way
LEMMA PrepareInv ==
  ASSUME GlueInv, NEW n \in Node, PrepareDownconvert(n), ~DownconvertBug(n),
         UNCHANGED <<dlmVars, level, blocking, dcSaved, pc, want, evictPc>>,
         evictPc[n] = "live" =>
           /\ "BLOCKED" \in flags[n] /\ "BUSY" \notin flags[n]
           /\ "UPCONVERT_FINISHING" \notin flags[n]
           /\ \A t \in TasksOf(n) :
                pc[t] \in HoldsPc => want[t].level <= HighestCompat(blocking[n])
  PROVE  UsersLive' /\ LiveNodes' /\ DcAsks'
<1>1. /\ action'[n] = "DOWNCONVERT"
      /\ requested'[n] = HighestCompat(blocking[n])
      /\ flags'[n] = flags[n] \union {"BUSY", "PENDING"}
      /\ dcPc'[n] = "dlm"
      /\ \A m \in Node \ {n} : /\ action'[m] = action[m]
                               /\ requested'[m] = requested[m]
                               /\ flags'[m] = flags[m]
                               /\ dcPc'[m] = dcPc[m]
  BY DEF GlueInv, TypeOK, PrepareDownconvert, SetFlags, DcGoto
<1>2. \A m \in Node \ {n} : DlmEases(m) /\ NodeEases(m)
  <2>1. \A m \in Node : DlmEases(m)
    BY DlmStutterSame, SameEases
  <2>2. \A m \in Node \ {n} : NodeEases(m)
    BY <1>1 DEF NodeEases, TaskEases
  <2> QED
    BY <2>1, <2>2
<1>3. ASSUME NodeInv(n), evictPc[n] = "live" PROVE NodeInv(n)'
  <2>1. /\ Queued(n)' <=> Queued(n)
        /\ Answered(n)' <=> Answered(n)
        /\ Out(n)' <=> Out(n)
        /\ OnLists' = OnLists
        /\ TasksOf(n)' = TasksOf(n)
        /\ Askers(n)' = Askers(n)
        /\ Lowering(n)'
    BY <1>1
       DEF dlmVars, Queued, Answered, Out, OnLists, Lowering, TasksOf, Askers
  <2>2. ~Out(n) /\ ~Answered(n) /\ ~Queued(n) /\ Askers(n) = {} /\ ~Lowering(n)
    BY <1>3, Free
  <2>3. OneOwner(n)'
    BY <1>1, <1>3, <2>1, <2>2 DEF dlmVars, NodeInv, OneOwner
  <2>4. Agrees(n)'
    BY <1>1, <1>3, <2>1, <2>2 DEF dlmVars, NodeInv, Agrees, Queued
  <2>5. GoesUp(n)'
    BY <1>1, <1>3, <2>1, <2>2 DEF dlmVars, NodeInv, GoesUp
  <2>6. GoesDown(n)'
    <3>1. HighestCompat(blocking[n]) < level[n]
      BY Levels DEF GlueInv, DownconvertBug
    <3>2. HighestCompat(blocking[n]) <= HighestCompat(blocking[n])
      BY Levels DEF GlueInv
    <3> QED
      BY <1>1, <1>3, <2>1, <3>1, <3>2 DEF GoesDown
  <2>7. HoldersBelow(n)' /\ WorkerSafe(n)'
    BY <1>1, <1>3, <2>1 DEF NodeInv, HoldersBelow, WorkerSafe
  <2> QED
    BY <2>3, <2>4, <2>5, <2>6, <2>7 DEF NodeInv
<1>4. ASSUME NEW m \in Node, evictPc'[m] = "live" PROVE NodeInv(m)'
  BY <1>2, <1>3, <1>4, Eased DEF GlueInv, LiveNodes
<1>5. DcAsks'
  BY <1>1, Levels DEF GlueInv, DcAsks
<1> QED
  BY <1>4, <1>5 DEF GlueInv, UsersLive, LiveNodes

LEMMA DcDownconvertInv ==
  ASSUME GlueInv, NEW n \in Node, DcDownconvert(n)
  PROVE  UsersLive' /\ LiveNodes' /\ DcAsks'
<1>1. /\ UNCHANGED <<dlmVars, level, blocking, dcSaved, pc, want, evictPc>>
      /\ PrepareDownconvert(n) /\ ~DownconvertBug(n) /\ MayDownconvert(n)
  BY DEF DcDownconvert
<1>2. blocking[n] > NL
  BY <1>1, Levels DEF GlueInv, DownconvertBug, NL
<1>3. /\ "BLOCKED" \in flags[n] /\ "BUSY" \notin flags[n]
      /\ "UPCONVERT_FINISHING" \notin flags[n]
  BY <1>1 DEF MayDownconvert, Settled
<1> QED
  BY <1>1, <1>2, <1>3, HoldersCompatible, PrepareInv DEF GlueInv

\* The worker has finished, and what it relied on still holds.
LEMMA DcWorkerDoneInv ==
  ASSUME GlueInv, NEW n \in Node, DcWorkerDone(n)
  PROVE  UsersLive' /\ LiveNodes' /\ DcAsks'
<1>1. /\ UNCHANGED <<dlmVars, level, blocking, dcSaved, pc, want, evictPc>>
      /\ dcPc[n] = "worker"
  BY DEF DcWorkerDone, DcRuns
<1>2. CASE WorkerStillValid(n) /\ ~DownconvertBug(n) /\ PrepareDownconvert(n)
  <2>1. LooksTheSame(n)
    BY <1>2, Levels
       DEF GlueInv, WorkerStillValid, DownconvertBug, LooksTheSame, NL
  <2>2. evictPc[n] = "live" =>
          /\ "BLOCKED" \in flags[n] /\ "BUSY" \notin flags[n]
          /\ "UPCONVERT_FINISHING" \notin flags[n]
          /\ \A t \in TasksOf(n) :
               pc[t] \in HoldsPc => want[t].level <= HighestCompat(blocking[n])
    BY <1>1, <2>1 DEF GlueInv, LiveNodes, NodeInv, WorkerSafe
  <2> QED
    BY <1>1, <1>2, <2>2, PrepareInv
<1>3. CASE /\ DcGoto(n, "unblock")
           /\ UNCHANGED <<action, requested, flags, mw, pendingBy, dcRequeue>>
  <2>1. dcPc'[n] = "unblock" /\ \A m \in Node \ {n} : dcPc'[m] = dcPc[m]
    BY <1>3 DEF GlueInv, TypeOK, DcGoto
  <2>2. \A m \in Node : NodeEases(m)
    BY <1>1, <1>3, <2>1 DEF NodeEases, TaskEases, DcOwns
  <2>3. \A m \in Node : NodeInv(m) => NodeInv(m)'
    BY <1>1, <2>2, DlmStutterSame, SameEases, Eased
  <2> QED
    BY <1>1, <1>3, <2>1, <2>3 DEF GlueInv, LiveNodes, UsersLive, DcAsks
<1> QED
  BY <1>2, <1>3 DEF DcWorkerDone

\* A downconvert is always granted at once: the node has more than it asks for.
LEMMA DcDlmCallInv ==
  ASSUME GlueInv, NEW n \in Node, DcDlmCall(n)
  PROVE  UsersLive' /\ LiveNodes' /\ DcAsks' /\ DlmInv'
<1>1. /\ UNCHANGED <<level, requested, blocking, action, flags, dcSaved, pc, want,
                     evictPc>>
      /\ dcPc[n] = "dlm" /\ DlmConvert(n, requested[n])
  BY DEF DcDlmCall, DcRuns, lockVars, taskVars
<1>2. dcPc'[n] = "called" /\ \A m \in Node \ {n} : dcPc'[m] = dcPc[m]
  BY DEF GlueInv, TypeOK, DcDlmCall, DcGoto
<1>3. requested[n] \in Mode
  BY <1>1 DEF GlueInv, DcAsks
<1>4. DlmInv'
  BY <1>1, <1>3, DlmConvertInv DEF GlueInv
<1>5. /\ \A m \in Node \ {n} : DlmSame(m)
      /\ n \notin Range(blocked')
      /\ n \in pendingAsts' <=> n \in pendingAsts
      /\ \/ /\ type'[n] = requested[n]
            /\ n \in granted' /\ n \notin Range(converting')
            /\ owed'[n] = "ast"
         \/ ~(requested[n] <= type[n])
  BY <1>1, <1>3, DlmConvertEffect DEF GlueInv
<1>6. \A m \in Node \ {n} : DlmEases(m) /\ NodeEases(m)
  <2>1. \A m \in Node \ {n} : NodeEases(m)
    BY <1>1, <1>2 DEF NodeEases, TaskEases
  <2> QED
    BY <1>5, <2>1, SameEases
<1>7. ASSUME NodeInv(n) PROVE NodeInv(n)'
  <2>1. /\ Lowering(n) /\ ~Out(n) /\ ~Answered(n) /\ Askers(n) = {}
        /\ "BUSY" \in flags[n]
    BY <1>1, <1>7 DEF NodeInv, OneOwner, GoesDown, DcOwns, Out
  <2>2. requested[n] < level[n] /\ level[n] <= type[n]
    BY <1>7, <2>1 DEF NodeInv, GoesUp, GoesDown
  <2>3. requested[n] <= type[n]
    BY <2>2, Levels DEF GlueInv
  <2>4. /\ type'[n] = requested[n]
        /\ n \in granted' /\ n \notin Range(converting')
        /\ owed'[n] = "ast"
    BY <1>5, <2>3
  <2>5. /\ ~Queued(n)' /\ Answered(n)' /\ Out(n)' /\ n \in OnLists'
        /\ n \notin pendingAsts'
        /\ ~DcOwns(n)' /\ Lowering(n)'
        /\ TasksOf(n)' = TasksOf(n)
        /\ Askers(n)' = {}
    BY <1>1, <1>2, <1>5, <2>1, <2>4
       DEF Queued, Answered, Out, OnLists, DcOwns, Lowering, TasksOf, Askers
  <2>6. OneOwner(n)' /\ Agrees(n)'
    BY <1>1, <1>5, <2>1, <2>4, <2>5 DEF OneOwner, Agrees
  <2>7. GoesUp(n)' /\ GoesDown(n)' /\ HoldersBelow(n)' /\ WorkerSafe(n)'
    BY <1>1, <1>2, <1>7, <2>1, <2>5
       DEF NodeInv, GoesUp, GoesDown, HoldersBelow, WorkerSafe
  <2> QED
    BY <2>6, <2>7 DEF NodeInv
<1> QED
  BY <1>1, <1>2, <1>4, <1>6, <1>7, OneNode DEF GlueInv, UsersLive

\* A cancel finds the request on a queue, or comes too late.
LEMMA DcCancelCallInv ==
  ASSUME GlueInv, NEW n \in Node, DcCancelCall(n)
  PROVE  UsersLive' /\ LiveNodes' /\ DcAsks' /\ DlmInv'
<1>1. /\ UNCHANGED <<level, requested, blocking, action, flags, dcSaved, pc, want,
                     evictPc>>
      /\ dcPc[n] = "cancel" /\ DlmCancel(n)
  BY DEF DcCancelCall, DcRuns, lockVars, taskVars
<1>2. /\ dcPc'[n] = IF n \in granted THEN "unqueue" ELSE "cancelled"
      /\ \A m \in Node \ {n} : dcPc'[m] = dcPc[m]
  BY DEF GlueInv, TypeOK, DcCancelCall, DcGoto, CancelStatus
<1>3. DlmInv'
  BY <1>1, DlmCancelInv DEF GlueInv
<1>4. /\ \A m \in Node \ {n} : DlmSame(m)
      /\ owed'[n] = owed[n]
      /\ n \in pendingAsts' <=> n \in pendingAsts
      /\ \/ /\ n \in Range(converting)
            /\ n \in granted' /\ type'[n] = type[n]
            /\ n \notin Range(converting') \union Range(blocked')
         \/ /\ n \in Range(blocked)
            /\ type'[n] = IV
            /\ n \notin Range(converting') \union Range(blocked')
         \/ n \in granted /\ DlmSame(n)
  BY <1>1, DlmCancelEffect DEF GlueInv
<1>5. \A m \in Node \ {n} : DlmEases(m) /\ NodeEases(m)
  <2>1. \A m \in Node \ {n} : NodeEases(m)
    BY <1>1, <1>2 DEF NodeEases, TaskEases
  <2> QED
    BY <1>4, <2>1, SameEases
<1>6. /\ n \in Range(converting) => n \notin granted
      /\ n \in Range(blocked) => n \notin OnLists /\ n \notin granted
  BY DEF GlueInv, DlmInv, OneList, OnLists
<1>7. ASSUME NodeInv(n) PROVE NodeInv(n)'
  <2>1. /\ TasksOf(n)' = TasksOf(n)
        /\ Askers(n)' = Askers(n)
        /\ Answered(n)' <=> Answered(n)
        /\ Lowering(n)' <=> Lowering(n)
    BY <1>1, <1>4 DEF TasksOf, Askers, Answered, Lowering
  <2>2. CASE n \in granted /\ DlmSame(n)
    <3>1. NodeEases(n)
      BY <1>1, <1>2, <2>2 DEF NodeEases, TaskEases, DcOwns
    <3> QED
      BY <1>7, <2>2, <3>1, SameEases, Eased
  <2>3. CASE /\ n \in Range(converting) \union Range(blocked)
             /\ n \notin Range(converting') \union Range(blocked')
             /\ \/ n \in Range(converting) /\ n \in granted' /\ type'[n] = type[n]
                \/ n \in Range(blocked) /\ type'[n] = IV
    <3>1. /\ Queued(n) /\ Out(n) /\ ~Answered(n) /\ Askers(n) = {}
          /\ "BUSY" \in flags[n]
      BY <1>7, <2>3 DEF NodeInv, OneOwner, Queued, Out
    <3>2. ~Lowering(n) /\ level[n] <= type[n]
      BY <1>1, <1>7, <3>1 DEF NodeInv, GoesUp, GoesDown
    <3>3. dcPc'[n] = "cancelled" /\ DcOwns(n)' /\ ~Out(n)' /\ ~Queued(n)'
      BY <1>2, <1>6, <2>1, <2>3, <3>1 DEF DcOwns, Out, Queued
    <3>4. OneOwner(n)'
      BY <1>1, <2>1, <3>1, <3>3 DEF OneOwner, Out, Answered
    <3>5. Agrees(n)'
      <4>1. "ATTACHED" \notin flags[n] => type'[n] = IV
        BY <1>7, <2>3 DEF NodeInv, Agrees
      <4>2. n \notin OnLists' => level[n] = IV
        BY <1>6, <1>7, <2>3 DEF NodeInv, Agrees, OnLists
      <4> QED
        BY <1>1, <2>1, <2>3, <3>1, <3>3, <4>1, <4>2 DEF Agrees
    <3>6. GoesUp(n)'
      <4>1. level[n] <= type'[n]
        <5>1. CASE n \in Range(blocked) /\ type'[n] = IV
          <6>1. level[n] = IV
            BY <1>6, <1>7, <5>1 DEF NodeInv, Agrees
          <6> QED
            BY <5>1, <6>1 DEF IV
        <5> QED
          BY <2>3, <3>2, <5>1
      <4> QED
        BY <1>1, <2>1, <3>1, <3>3, <4>1 DEF GoesUp
    <3>7. GoesDown(n)' /\ HoldersBelow(n)' /\ WorkerSafe(n)'
      BY <1>1, <1>7, <2>1, <3>2, <3>3
         DEF NodeInv, GoesDown, HoldersBelow, WorkerSafe
    <3> QED
      BY <3>4, <3>5, <3>6, <3>7 DEF NodeInv
  <2> QED
    BY <1>4, <2>2, <2>3
<1> QED
  BY <1>1, <1>2, <1>3, <1>5, <1>7, OneNode DEF GlueInv, UsersLive

LEMMA DcUnlockAstInv ==
  ASSUME GlueInv, NEW n \in Node, DcUnlockAst(n)
  PROVE  UsersLive' /\ LiveNodes' /\ DcAsks'
<1>1. /\ UNCHANGED <<dlmVars, level, requested, blocking, dcSaved, pc, want, evictPc>>
      /\ dcPc[n] = "cancelled"
  BY DEF DcUnlockAst, DcRuns
<1>2. /\ action'[n] = "INVALID"
      /\ flags'[n] = flags[n] \ {"BUSY"}
      /\ dcPc'[n] = "unqueue"
      /\ \A m \in Node \ {n} : /\ action'[m] = action[m]
                               /\ flags'[m] = flags[m]
                               /\ dcPc'[m] = dcPc[m]
  BY DEF GlueInv, TypeOK, DcUnlockAst, SetFlags, DcGoto
<1>3. \A m \in Node \ {n} : DlmEases(m) /\ NodeEases(m)
  <2>1. \A m \in Node : DlmEases(m)
    BY <1>1, DlmStutterSame, SameEases
  <2>2. \A m \in Node \ {n} : NodeEases(m)
    BY <1>1, <1>2 DEF NodeEases, TaskEases
  <2> QED
    BY <2>1, <2>2
<1>4. ASSUME NodeInv(n) PROVE NodeInv(n)'
  <2>1. /\ Queued(n)' <=> Queued(n)
        /\ Answered(n)' <=> Answered(n)
        /\ Out(n)' <=> Out(n)
        /\ OnLists' = OnLists
        /\ ~DcOwns(n)' /\ ~Lowering(n)'
        /\ TasksOf(n)' = TasksOf(n)
        /\ Askers(n)' = Askers(n)
    BY <1>1, <1>2
       DEF dlmVars, Queued, Answered, Out, OnLists, Lowering, DcOwns, TasksOf,
           Askers
  <2>2. ~Out(n) /\ ~Answered(n) /\ ~Queued(n) /\ Askers(n) = {}
    BY <1>1, <1>4 DEF NodeInv, OneOwner, DcOwns, Out
  <2>3. OneOwner(n)'
    BY <1>1, <1>2, <1>4, <2>1, <2>2 DEF dlmVars, NodeInv, OneOwner
  <2>4. Agrees(n)'
    BY <1>1, <1>2, <1>4, <2>1, <2>2 DEF dlmVars, NodeInv, Agrees, Queued
  <2>5. GoesUp(n)' /\ GoesDown(n)' /\ HoldersBelow(n)' /\ WorkerSafe(n)'
    BY <1>1, <1>2, <1>4, <2>1, <2>2
       DEF dlmVars, NodeInv, GoesUp, GoesDown, HoldersBelow, WorkerSafe
  <2> QED
    BY <2>3, <2>4, <2>5 DEF NodeInv
<1> QED
  BY <1>1, <1>2, <1>3, <1>4, OneNode DEF GlueInv, UsersLive

\* An eviction touches only what nobody uses any more.
LEMMA EvictOthers ==
  ASSUME GlueInv, NEW n \in Node, EvictStart(n) \/ Evict(n)
  PROVE  /\ UNCHANGED <<requested, blocking, action, dcPc, dcSaved, pc, want>>
         /\ evictPc'[n] # "live"
         /\ \A t \in TasksOf(n) : pc[t] \in {"idle", "done"}
         /\ \A m \in Node \ {n} :
              /\ evictPc'[m] = evictPc[m] /\ level'[m] = level[m]
              /\ flags'[m] = flags[m] /\ DlmSame(m)
         /\ DlmInv'
<1>1. /\ UNCHANGED <<requested, blocking, action, dcPc, dcSaved, pc, want>>
      /\ evictPc'[n] # "live"
      /\ \A t \in TasksOf(n) : pc[t] \in {"idle", "done"}
      /\ \A m \in Node \ {n} : evictPc'[m] = evictPc[m]
  <2>1. CASE EvictStart(n)
    BY <2>1 DEF GlueInv, TypeOK, EvictStart, EvictGoto, dcVars, taskVars
  <2>2. CASE Evict(n)
    <3>1. evictPc[n] # "live"
      BY <2>2 DEF Evict, EvictUnqueued, EvictDrop, EvictUnlock, EvictUnlockAst,
                  EvictFree
    <3>2. \A t \in TasksOf(n) : pc[t] \in {"idle", "done"}
      BY <3>1 DEF GlueInv, UsersLive, TasksOf
    <3>3. \E l \in {"drop", "unlock", "unlocked", "dropped", "freed"} :
            evictPc' = [evictPc EXCEPT ![n] = l]
      BY <2>2 DEF Evict, EvictUnqueued, EvictDrop, EvictUnlock, EvictUnlockAst,
                  EvictFree, EvictGoto
    <3>4. UNCHANGED <<requested, blocking, action, dcPc, dcSaved, pc, want>>
      BY <2>2 DEF Evict, EvictUnqueued, EvictDrop, EvictUnlock, EvictUnlockAst,
                  EvictFree, lockVars, dcVars, taskVars
    <3> QED
      BY <3>2, <3>3, <3>4 DEF GlueInv, TypeOK
  <2> QED
    BY <2>1, <2>2
<1>2. \A m \in Node \ {n} : level'[m] = level[m] /\ flags'[m] = flags[m]
  <2>1. CASE UNCHANGED lockVars
    BY <2>1 DEF lockVars
  <2>2. CASE EvictStart(n) \/ EvictDrop(n) \/ EvictUnlockAst(n)
    BY <2>2 DEF GlueInv, TypeOK, EvictStart, EvictDrop, EvictUnlockAst, SetFlags
  <2> QED
    BY <2>1, <2>2 DEF Evict, EvictUnqueued, EvictUnlock, EvictFree
<1>3. /\ \A m \in Node \ {n} : DlmSame(m)
      /\ DlmInv'
  <2>1. CASE UNCHANGED dlmVars
    BY <2>1, DlmStutterSame, DlmStutterInv DEF GlueInv
  <2>2. CASE DlmUnlock(n)
    BY <2>2, DlmUnlockOthers, DlmUnlockInv DEF GlueInv
  <2> QED
    BY <2>1, <2>2 DEF EvictStart, Evict, EvictUnqueued, EvictDrop, EvictUnlock,
                      EvictUnlockAst, EvictFree
<1> QED
  BY <1>1, <1>2, <1>3

LEMMA EvictInv ==
  ASSUME GlueInv, NEW n \in Node,
         EvictStart(n) \/ Evict(n)
  PROVE  UsersLive' /\ LiveNodes' /\ DcAsks' /\ DlmInv'
<1>1. \A m \in Node \ {n} : DlmEases(m) /\ NodeEases(m)
  BY EvictOthers, SameEases DEF NodeEases, TaskEases
<1>2. LiveNodes'
  BY <1>1, EvictOthers, Eased DEF GlueInv, LiveNodes
<1>3. UsersLive' /\ DcAsks'
  BY EvictOthers, NodeOfAssumption DEF GlueInv, UsersLive, DcAsks, TasksOf
<1> QED
  BY <1>2, <1>3, EvictOthers

-----------------------------------------------------------------------------
(* The theorems                                                            *)

LEMMA AllEase ==
  ASSUME GlueInv, UNCHANGED <<dlmVars, evictPc>>, \A m \in Node : NodeEases(m)
  PROVE  DlmInv' /\ LiveNodes' /\ DcAsks'
<1>1. DlmInv'
  BY DlmStutterInv DEF GlueInv
<1>2. LiveNodes'
  BY DlmStutterSame, SameEases, Eased DEF GlueInv, LiveNodes
<1>3. DcAsks'
  BY DEF GlueInv, DcAsks, NodeEases, DcOwns
<1> QED
  BY <1>1, <1>2, <1>3

LEMMA TaskStep ==
  ASSUME GlueInv, UNCHANGED ltype, NEW t \in Task,
         Enter(t) \/ AgainSignal(t) \/ Proceed(t)
  PROVE  GlueInv'
<1>1. DlmInv' /\ UsersLive' /\ LiveNodes' /\ DcAsks'
  <2>1. CASE AgainHold(t) \/ AgainRequest(t) \/ RecoverFromError(t)
    <3>1. UNCHANGED dlmVars
      BY <2>1 DEF AgainHold, AgainRequest, RecoverFromError
    <3>2. DlmInv'
      BY <3>1, DlmStutterInv DEF GlueInv
    <3> QED
      BY <2>1, <3>2, AgainHoldInv, AgainRequestInv, RecoverFromErrorInv
  <2>2. CASE DlmLockCall(t)
    BY <2>2, DlmLockCallInv
  <2>3. CASE \/ Enter(t) \/ AgainSignal(t) \/ AgainWait(t) \/ AgainGiveUp(t)
             \/ DlmLockReturn(t) \/ NonBlockArrived(t) \/ NonBlockGiveUp(t)
             \/ ShouldRefresh(t) \/ CompleteRefresh(t) \/ Unlock(t)
    <3>1. /\ \A m \in Node : NodeEases(m)
          /\ UsersLive' /\ UNCHANGED <<dlmVars, evictPc>>
      BY <2>3, TaskStepEases DEF GlueInv
    <3> QED
      BY <3>1, AllEase
  <2> QED
    BY <2>1, <2>2, <2>3 DEF Proceed
<1>2. TypeOK'
  BY <1>1, TaskTypes DEF GlueInv, DlmInv
<1> QED
  BY <1>1, <1>2 DEF GlueInv

LEMMA ThreadStep ==
  ASSUME GlueInv, UNCHANGED ltype, NEW n \in Node,
         OtherWake(n) \/ Downconvert(n)
  PROVE  GlueInv'
<1>1. DlmInv' /\ UsersLive' /\ LiveNodes' /\ DcAsks'
  <2>1. CASE \/ DcAbort(n) \/ DcWorkerStart(n) \/ DcDownconvert(n)
             \/ DcWorkerDone(n) \/ DcUnlockAst(n)
    <3>1. UNCHANGED dlmVars
      BY <2>1 DEF DcAbort, DcWorkerStart, DcDownconvert, DcWorkerDone,
                  DcUnlockAst
    <3>2. DlmInv'
      BY <3>1, DlmStutterInv DEF GlueInv
    <3> QED
      BY <2>1, <3>2, DcAbortInv, DcWorkerStartInv, DcDownconvertInv,
         DcWorkerDoneInv, DcUnlockAstInv
  <2>2. CASE DcDlmCall(n) \/ DcCancelCall(n)
    BY <2>2, DcDlmCallInv, DcCancelCallInv
  <2>3. CASE \/ OtherWake(n) \/ DcTake(n) \/ DcNotBlocked(n) \/ DcRequeue(n)
             \/ DcPrepareCancel(n) \/ DcCheckpoint(n) \/ DcDlmReturn(n)
             \/ DcUnqueue(n)
    <3>1. /\ \A m \in Node : NodeEases(m)
          /\ UsersLive' /\ UNCHANGED <<dlmVars, evictPc>>
      BY <2>3, ThreadStepEases DEF GlueInv
    <3> QED
      BY <3>1, AllEase
  <2> QED
    BY <2>1, <2>2, <2>3 DEF Downconvert
<1>2. TypeOK'
  BY <1>1, NodeTypes DEF GlueInv, DlmInv
<1> QED
  BY <1>1, <1>2 DEF GlueInv

LEMMA DlmStep ==
  ASSUME GlueInv, UNCHANGED ltype, Dlm
  PROVE  GlueInv'
<1>1. CASE Thread \/ \E n \in Node : Post(n)
  <2>1. DlmInv' /\ UNCHANGED glueVars
    BY <1>1, DlmThreadInv, DlmPostInv DEF GlueInv, Thread, Post
  <2>2. TypeOK'
    BY <2>1 DEF GlueInv, DlmInv, TypeOK, glueVars, lockVars, dcVars, taskVars
  <2>3. UsersLive' /\ LiveNodes' /\ DcAsks'
    BY <1>1, ThreadInv, PostInv
  <2> QED
    BY <2>1, <2>2, <2>3 DEF GlueInv
<1>2. ASSUME NEW n \in Node, LockingAst(n) \/ BlockingAst(n)
      PROVE  GlueInv'
  <2>1. DlmInv'
    BY <1>2, DeliverAstInv, DeliverBastInv DEF GlueInv, LockingAst, BlockingAst
  <2>2. TypeOK'
    BY <1>2, <2>1, NodeTypes DEF GlueInv, DlmInv
  <2>3. UsersLive' /\ LiveNodes' /\ DcAsks'
    BY <1>2, LockingAstInv, BlockingAstInv
  <2> QED
    BY <2>1, <2>2, <2>3 DEF GlueInv
<1> QED
  BY <1>1, <1>2 DEF Dlm

LEMMA GlueStep ==
  ASSUME GlueInv, [Next]_<<vars, ltype>>
  PROVE  GlueInv'
<1>1. CASE UNCHANGED <<vars, ltype>>
  <2>1. UNCHANGED <<dlmVars, lockVars, dcVars, taskVars, evictPc, current, ltype>>
    BY <1>1 DEF vars
  <2>2. \A m \in Node : NodeEases(m)
    BY <2>1 DEF NodeEases, TaskEases, lockVars, dcVars, taskVars
  <2>3. DlmInv' /\ LiveNodes' /\ DcAsks'
    BY <2>1, <2>2, AllEase
  <2>4. TypeOK' /\ UsersLive'
    BY <2>1, <2>3
       DEF GlueInv, DlmInv, TypeOK, UsersLive, lockVars, dcVars, taskVars
  <2> QED
    BY <2>3, <2>4 DEF GlueInv
<1>2. CASE Next
  <2>1. ASSUME NEW n \in Node, EvictStart(n) \/ Evict(n), UNCHANGED ltype
        PROVE  GlueInv'
    <3>1. DlmInv' /\ UsersLive' /\ LiveNodes' /\ DcAsks'
      BY <2>1, EvictInv
    <3>2. TypeOK'
      BY <2>1, <3>1, NodeTypes DEF GlueInv, DlmInv
    <3> QED
      BY <3>1, <3>2 DEF GlueInv
  <2> QED
    BY <1>2, <2>1, TaskStep, ThreadStep, DlmStep DEF Next
<1> QED
  BY <1>1, <1>2

LEMMA GlueStarts ==
  ASSUME Init
  PROVE  GlueInv
<1>1. DlmInv
  BY DlmInitInv DEF Init
<1>2. TypeOK
  <2>1. IV \in AnyMode
    BY DEF AnyMode
  <2> QED
    BY <1>1, <2>1 DEF Init, DlmInv, TypeOK, How
<1>3. UsersLive /\ DcAsks
  BY DEF Init, UsersLive, DcAsks
<1>4. ASSUME NEW n \in Node PROVE NodeInv(n)
  <2>1. Range(<<>>) = {}
    BY DEF Range
  <2>2. ~Queued(n) /\ ~Answered(n) /\ ~Out(n) /\ ~DcOwns(n) /\ Askers(n) = {}
        /\ ~Lowering(n)
    BY <2>1 DEF Init, DlmInit, Queued, Answered, Out, DcOwns, Askers, AskPc,
                TasksOf, Lowering
  <2>3. OneOwner(n) /\ Agrees(n)
    BY <2>1, <2>2 DEF Init, DlmInit, OneOwner, Agrees
  <2>4. GoesUp(n) /\ GoesDown(n) /\ HoldersBelow(n) /\ WorkerSafe(n)
    BY <2>2 DEF Init, DlmInit, GoesUp, GoesDown, HoldersBelow, WorkerSafe,
                TasksOf, HoldsPc, IV
  <2> QED
    BY <2>3, <2>4 DEF NodeInv
<1> QED
  BY <1>1, <1>2, <1>3, <1>4 DEF GlueInv, LiveNodes

\* Whoever is let in has no more than the master knows the node to have: but for a
\* downconvert on its way back, the node never has more, and then its holders have
\* no more than it will have.
LEMMA HolderGranted ==
  ASSUME GlueInv, NEW t \in Task, pc[t] \in HoldsPc
  PROVE  want[t].level <= type[NodeOf[t]] /\ NodeOf[t] \in OnLists
<1> DEFINE n == NodeOf[t]
           l == want[t].level
<1>1. n \in Node /\ t \in TasksOf(n) /\ NodeInv(n)
  BY NodeOfAssumption
     DEF GlueInv, UsersLive, LiveNodes, TasksOf, HoldsPc
<1>2. l \in Int /\ l \in {PR, EX} /\ level[n] \in Int /\ type[n] \in Int
  BY <1>1, Levels, Wants DEF GlueInv
<1>3. l <= level[n]
  BY <1>1 DEF NodeInv, HoldersBelow
<1>4. l <= type[n]
  <2>1. CASE Lowering(n) /\ Answered(n)
    BY <1>1, <2>1 DEF NodeInv, HoldersBelow, Agrees
  <2>2. CASE ~Lowering(n) \/ ~Answered(n)
    <3>1. level[n] <= type[n]
      BY <1>1, <2>2 DEF NodeInv, GoesUp
    <3> QED
      BY <1>2, <1>3, <3>1
  <2> QED
    BY <2>1, <2>2
<1>5. n \in OnLists
  <2>1. level[n] # IV
    BY <1>2, <1>3 DEF PR, EX, IV
  <2> QED
    BY <1>1, <2>1 DEF NodeInv, Agrees
<1> QED
  BY <1>4, <1>5

LEMMA Excluded ==
  ASSUME GlueInv
  PROVE  MutualExclusion
<1>2. ASSUME NEW t \in Task, NEW u \in Task,
             pc[t] \in HoldsPc, pc[u] \in HoldsPc, NodeOf[t] # NodeOf[u]
      PROVE  Compatible(want[t].level, want[u].level)
  <2>1. /\ want[t].level \in AnyMode /\ want[u].level \in AnyMode
        /\ type[NodeOf[t]] \in AnyMode /\ type[NodeOf[u]] \in AnyMode
    BY NodeOfAssumption, Wants, Levels, ModeOrder DEF GlueInv
  <2>2. Compatible(type[NodeOf[t]], type[NodeOf[u]])
    BY HolderGranted, <1>2 DEF GlueInv, DlmInv, GrantedCompatible
  <2>3. Compatible(type[NodeOf[t]], want[u].level)
    BY HolderGranted, <1>2, <2>1, <2>2, CompatibleBelow
  <2>4. Compatible(want[u].level, type[NodeOf[t]])
    BY <2>1, <2>3, CompatibleSymmetric
  <2>5. Compatible(want[u].level, want[t].level)
    BY HolderGranted, <1>2, <2>1, <2>4, CompatibleBelow
  <2> QED
    BY <2>1, <2>5, CompatibleSymmetric
<1> QED
  BY HolderGranted, <1>2 DEF MutualExclusion, HoldersBacked

LEMMA GlueSafe == Spec => []GlueInv
<1>1. Init => GlueInv
  BY GlueStarts
<1>2. GlueInv /\ [Next]_<<vars, ltype>> => GlueInv'
  BY GlueStep
<1> QED
  BY <1>1, <1>2, PTL DEF Spec

\* Type correctness of dlmglue over o2dlm.
THEOREM GlueTypes == Spec => []TypeOK
<1>1. GlueInv => TypeOK
  BY DEF GlueInv
<1> QED
  BY <1>1, GlueSafe, PTL

\* Tasks of different nodes never hold the cluster lock in incompatible modes, and
\* nobody is let in above what the master granted its node, in any interleaving of
\* ocfs2_locking_ast(), ocfs2_blocking_ast(), the downconvert thread, callers and
\* evictions.
THEOREM Exclusion == Spec => []MutualExclusion
BY GlueSafe, Excluded, PTL

-----------------------------------------------------------------------------
(* What the holders see                                                    *)

\* A copy that need not be refreshed is up to date, for as long as both the node
\* and the master think that the node has the lock.
UpToDate(n) ==
  level[n] > NL /\ type[n] > NL /\ "NEEDS_REFRESH" \notin flags[n] =>
    n \in current

Fresh(n) ==
  /\ UpToDate(n)
  /\ "ATTACHED" \in flags[n] => level[n] # IV
  /\ \A t \in TasksOf(n) : pc[t] = "held" => n \in current

CurrentInv == Refreshes => \A n \in Node : evictPc[n] = "live" => Fresh(n)

\* Nothing happens to the copy of n, and nobody is shown a copy.
CopyKept(n) ==
  /\ level'[n] = level[n]
  /\ type'[n] > NL => type[n] > NL \/ level[n] <= NL
  /\ "NEEDS_REFRESH" \in flags[n] =>
       "NEEDS_REFRESH" \in flags'[n] \/ n \in current'
  /\ "ATTACHED" \in flags'[n] => "ATTACHED" \in flags[n]
  /\ n \in current => n \in current'
  /\ \A t \in TasksOf(n) : pc'[t] = "held" => pc[t] = "held" \/ n \in current'

LEMMA KeptFresh ==
  ASSUME TypeOK, NEW n \in Node, Fresh(n), CopyKept(n)
  PROVE  Fresh(n)'
<1>1. level'[n] > NL => ~(level[n] <= NL)
  BY Levels DEF CopyKept, NL
<1>2. UpToDate(n)'
  BY <1>1 DEF Fresh, UpToDate, CopyKept
<1> QED
  BY <1>2 DEF Fresh, CopyKept, TasksOf

LEMMA AllKept ==
  ASSUME TypeOK, CurrentInv, UNCHANGED ltype,
         \A n \in Node : evictPc'[n] = "live" => evictPc[n] = "live" /\ CopyKept(n)
  PROVE  CurrentInv'
BY KeptFresh DEF CurrentInv, Refreshes

\* The steps that touch neither level nor type nor current, and whose pc goes
\* anywhere but to "held"
LEMMA KeptSteps ==
  ASSUME TypeOK, Refreshes, NEW n \in Node,
         UNCHANGED <<level, current, evictPc>>,
         type'[n] > NL => type[n] > NL \/ level[n] <= NL,
         "NEEDS_REFRESH" \in flags[n] <=> "NEEDS_REFRESH" \in flags'[n],
         "ATTACHED" \in flags[n] <=> "ATTACHED" \in flags'[n],
         \A t \in TasksOf(n) : pc'[t] = "held" => pc[t] = "held" \/ n \in current'
  PROVE  CopyKept(n)
BY DEF CopyKept

\* The flags that a refresh goes by are as before.
SameMarks ==
  \A n \in Node :
    /\ "NEEDS_REFRESH" \in flags[n] <=> "NEEDS_REFRESH" \in flags'[n]
    /\ "ATTACHED" \in flags[n] <=> "ATTACHED" \in flags'[n]

LEMMA SetMarks ==
  ASSUME TypeOK, NEW n \in Node, NEW f, SetFlags(n, f),
         "NEEDS_REFRESH" \in flags[n] <=> "NEEDS_REFRESH" \in f,
         "ATTACHED" \in flags[n] <=> "ATTACHED" \in f
  PROVE  SameMarks
BY DEF TypeOK, SetFlags, SameMarks

LEMMA MovedOn ==
  ASSUME TypeOK, NEW t \in Task, NEW l, pc' = [pc EXCEPT ![t] = l], l # "held"
  PROVE  \A u \in Task : pc'[u] = "held" => pc[u] = "held"
BY DEF TypeOK

LEMMA TaskKeeps ==
  ASSUME GlueInv, CurrentInv, Refreshes, UNCHANGED ltype, NEW t \in Task,
         \/ Enter(t) \/ AgainSignal(t) \/ AgainWait(t) \/ AgainHold(t)
         \/ AgainGiveUp(t) \/ AgainRequest(t) \/ DlmLockReturn(t)
         \/ RecoverFromError(t) \/ NonBlockArrived(t) \/ NonBlockGiveUp(t)
  PROVE  CurrentInv'
<1>0. TypeOK /\ NodeOf[t] \in Node
  BY NodeOfAssumption DEF GlueInv
<1>1. UNCHANGED <<level, type, current, evictPc>>
  BY DEF Enter, AgainSignal, AgainWait, AgainHold, AgainGiveUp, AgainRequest,
         DlmLockReturn, RecoverFromError, NonBlockArrived, NonBlockGiveUp,
         dlmVars, lockVars
<1>2. \E l : l # "held" /\ pc' = [pc EXCEPT ![t] = l]
  <2>1. \/ \E l \in {"again", "wait", "nonblock", "dlm", "recover", "holding"} :
             pc' = [pc EXCEPT ![t] = l]
        \/ pc' = [pc EXCEPT ![t] = Rest(t)]
    BY DEF Enter, AgainSignal, AgainWait, AgainHold, AgainGiveUp, AgainRequest,
           DlmLockReturn, RecoverFromError, NonBlockArrived, NonBlockGiveUp,
           Return, Goto
  <2> QED
    BY <2>1, RestTypes
<1>3. SameMarks
  <2>1. CASE Enter(t) \/ NonBlockArrived(t)
    BY <2>1 DEF Enter, NonBlockArrived, lockVars, SameMarks
  <2>2. CASE AgainWait(t)
    BY <1>0, <2>2 DEF AgainWait, TypeOK, SameMarks
  <2>3. CASE NonBlockGiveUp(t)
    BY <1>0, <2>3 DEF NonBlockGiveUp, TypeOK, SameMarks
  <2>4. CASE AgainSignal(t) \/ AgainHold(t) \/ AgainGiveUp(t)
    BY <1>0, <2>4, SetMarks
       DEF AgainSignal, AgainHold, AgainGiveUp, LeaveSection
  <2>5. CASE AgainRequest(t) \/ RecoverFromError(t)
    BY <1>0, <2>5, SetMarks DEF AgainRequest, RecoverFromError
  <2>6. CASE DlmLockReturn(t)
    BY <1>0, <2>6, SetMarks DEF DlmLockReturn, ClearPending
  <2> QED
    BY <2>1, <2>2, <2>3, <2>4, <2>5, <2>6
<1>4. \A u \in Task : pc'[u] = "held" => pc[u] = "held"
  BY <1>0, <1>2, MovedOn
<1>5. \A n \in Node : CopyKept(n)
  BY <1>0, <1>1, <1>3, <1>4, KeptSteps DEF SameMarks, TasksOf
<1> QED
  BY <1>0, <1>1, <1>5, AllKept

LEMMA RefreshKeeps ==
  ASSUME GlueInv, CurrentInv, Refreshes, UNCHANGED ltype, NEW t \in Task,
         ShouldRefresh(t) \/ CompleteRefresh(t)
  PROVE  CurrentInv'
<1> DEFINE n == NodeOf[t]
<1>0. TypeOK /\ n \in Node /\ t \in TasksOf(n)
  BY NodeOfAssumption DEF GlueInv, TasksOf
<1>1. UNCHANGED <<level, type, evictPc>>
  BY DEF ShouldRefresh, CompleteRefresh, dlmVars
<1>2. \A m \in Node \ {n} : flags'[m] = flags[m]
  BY <1>0 DEF ShouldRefresh, CompleteRefresh, SetFlags, TypeOK
<1>3. "ATTACHED" \in flags'[n] <=> "ATTACHED" \in flags[n]
  BY <1>0 DEF ShouldRefresh, CompleteRefresh, SetFlags, TypeOK
<1>4. \A u \in Task \ {t} : pc'[u] = pc[u]
  BY <1>0 DEF ShouldRefresh, CompleteRefresh, Goto, TypeOK
<1>5. \A m \in Node : m \in current => m \in current'
  BY DEF ShouldRefresh, CompleteRefresh
<1>6. "NEEDS_REFRESH" \in flags[n] => "NEEDS_REFRESH" \in flags'[n] \/ n \in current'
  BY <1>0 DEF ShouldRefresh, CompleteRefresh, SetFlags, TypeOK
<1>7. pc'[t] = "held" => n \in current'
  <2>1. CASE CompleteRefresh(t)
    BY <1>0, <2>1 DEF CompleteRefresh, Goto, TypeOK
  <2>2. CASE ShouldRefresh(t) /\ "NEEDS_REFRESH" \notin flags[n]
    <3>1. pc[t] = "holding" /\ UNCHANGED current
      BY <2>2 DEF ShouldRefresh
    <3>2. want[t].level <= type[n] /\ evictPc[n] = "live" /\ NodeInv(n)
      BY <1>0, <3>1, Excluded
         DEF MutualExclusion, HoldersBacked, HoldsPc, GlueInv, UsersLive,
             LiveNodes
    <3>3. want[t].level <= level[n]
      BY <1>0, <3>1, <3>2 DEF NodeInv, HoldersBelow, HoldsPc
    <3>4. level[n] > NL /\ type[n] > NL
      BY <1>0, <3>2, <3>3, Wants, Levels DEF PR, EX, NL
    <3> QED
      BY <1>0, <2>2, <3>1, <3>2, <3>4 DEF CurrentInv, Fresh, UpToDate
  <2>3. CASE ShouldRefresh(t) /\ "NEEDS_REFRESH" \in flags[n]
    BY <1>0, <2>3 DEF ShouldRefresh, Goto, TypeOK
  <2> QED
    BY <2>1, <2>2, <2>3
<1>8. \A m \in Node : CopyKept(m)
  BY <1>0, <1>1, <1>2, <1>3, <1>4, <1>5, <1>6, <1>7 DEF CopyKept, TasksOf
<1> QED
  BY <1>0, <1>1, <1>8, AllKept

\* Whoever had EX may have changed the object: nobody else has a copy.
LEMMA UnlockKeeps ==
  ASSUME GlueInv, CurrentInv, Refreshes, UNCHANGED ltype, NEW t \in Task,
         Unlock(t)
  PROVE  CurrentInv'
<1> DEFINE n == NodeOf[t]
<1>0. TypeOK /\ n \in Node /\ t \in TasksOf(n)
  BY NodeOfAssumption DEF GlueInv, TasksOf
<1>1. UNCHANGED <<level, type, evictPc, flags>>
  BY DEF Unlock, dlmVars
<1>2. \A u \in Task : pc'[u] = "held" => pc[u] = "held"
  BY <1>0, RestTypes, MovedOn DEF Unlock, Goto
<1>3. CASE UNCHANGED current
  <2>1. \A m \in Node : CopyKept(m)
    BY <1>1, <1>2, <1>3 DEF CopyKept, TasksOf
  <2> QED
    BY <1>0, <1>1, <2>1, AllKept
<1>4. CASE current' = {n} /\ pc[t] = "held" /\ want[t].level = EX
  <2>1. EX <= type[n] /\ n \in OnLists
    BY <1>0, <1>4, HolderGranted DEF HoldsPc
  <2>2. ASSUME NEW m \in Node, evictPc[m] = "live", m # n
        PROVE  Fresh(m)'
    <3>1. NodeInv(m) /\ Fresh(m)
      BY <2>2 DEF GlueInv, LiveNodes, CurrentInv
    <3>2. ~(level[m] > NL /\ type[m] > NL)
      <4>1. SUFFICES ASSUME level[m] > NL, type[m] > NL PROVE FALSE
        OBVIOUS
      <4>2. m \in OnLists
        BY <3>1, <4>1 DEF NodeInv, Agrees, IV, NL
      <4>3. Compatible(type[m], type[n])
        BY <2>1, <2>2, <4>2 DEF GlueInv, DlmInv, GrantedCompatible
      <4> QED
        BY <1>0, <2>1, <4>1, <4>3, Levels DEF Compatible, PR, EX, NL
    <3>3. ASSUME NEW u \in TasksOf(m), pc[u] = "held" PROVE FALSE
      <4>1. want[u].level <= type[m] /\ want[u].level <= level[m]
        BY <1>0, <2>2, <3>1, <3>3, HolderGranted
           DEF NodeInv, HoldersBelow, HoldsPc, TasksOf
      <4> QED
        BY <1>0, <3>2, <3>3, <4>1, Wants, Levels DEF TasksOf, PR, EX, NL
    <3> QED
      BY <1>1, <1>2, <3>1, <3>2, <3>3 DEF Fresh, UpToDate, TasksOf
  <2>3. ASSUME evictPc[n] = "live" PROVE Fresh(n)'
    <3>1. n \in current'
      BY <1>4
    <3>2. "ATTACHED" \in flags[n] => level[n] # IV
      BY <1>0, <2>3 DEF CurrentInv, Fresh
    <3> QED
      BY <1>1, <3>1, <3>2 DEF Fresh, UpToDate
  <2> QED
    BY <1>1, <2>2, <2>3 DEF CurrentInv, Refreshes
<1> QED
  BY <1>3, <1>4 DEF Unlock

\* Steps of the DLM and of the downconvert thread: no task moves, and no level.
LEMMA NobodyShown ==
  ASSUME GlueInv, CurrentInv, UNCHANGED <<ltype, level, current, evictPc, pc>>,
         SameMarks,
         \A n \in Node : evictPc[n] = "live" =>
           (type'[n] > NL => type[n] > NL \/ level[n] <= NL)
  PROVE  CurrentInv'
<1>1. \A n \in Node : evictPc'[n] = "live" => evictPc[n] = "live" /\ CopyKept(n)
  BY DEF CopyKept, SameMarks, TasksOf
<1> QED
  BY <1>1, AllKept DEF GlueInv

LEMMA Unanswered ==
  ASSUME TypeOK, NEW n \in Node, NodeInv(n), ~Answered(n)
  PROVE  type[n] > NL \/ level[n] <= NL
<1>1. level[n] <= type[n]
  BY DEF NodeInv, GoesUp
<1> QED
  BY <1>1, Levels DEF NL

LEMMA ThreadKeeps ==
  ASSUME GlueInv, CurrentInv, UNCHANGED ltype, NEW n \in Node,
         OtherWake(n) \/ Downconvert(n)
  PROVE  CurrentInv'
<1>0. TypeOK /\ flags \in [Node -> SUBSET Flag]
  BY DEF GlueInv, TypeOK
<1>1. UNCHANGED <<level, current, evictPc, pc>>
  BY DEF OtherWake, Downconvert, DcTake, DcNotBlocked, DcRequeue,
         DcPrepareCancel, DcAbort, DcCheckpoint, DcWorkerStart, DcDownconvert,
         DcWorkerDone, DcDlmCall, DcDlmReturn, DcCancelCall, DcUnlockAst,
         DcUnqueue, lockVars, taskVars
<1>2. SameMarks
  <2>1. CASE \/ OtherWake(n) \/ DcTake(n) \/ DcNotBlocked(n) \/ DcRequeue(n)
             \/ DcPrepareCancel(n) \/ DcCheckpoint(n) \/ DcWorkerStart(n)
             \/ DcDlmCall(n) \/ DcCancelCall(n)
    BY <2>1 DEF OtherWake, DcTake, DcNotBlocked, DcRequeue, DcPrepareCancel,
                DcCheckpoint, DcWorkerStart, DcDlmCall, DcCancelCall, lockVars,
                SameMarks
  <2>2. CASE DcAbort(n) \/ DcUnlockAst(n)
    BY <1>0, <2>2, SetMarks DEF DcAbort, DcUnlockAst
  <2>3. CASE DcDownconvert(n) \/ DcWorkerDone(n)
    <3>1. CASE UNCHANGED flags
      BY <3>1 DEF SameMarks
    <3>2. CASE PrepareDownconvert(n)
      BY <1>0, <3>2, SetMarks DEF PrepareDownconvert
    <3> QED
      BY <2>3, <3>1, <3>2 DEF DcDownconvert, DcWorkerDone
  <2>4. CASE DcDlmReturn(n)
    BY <1>0, <2>4, SetMarks DEF DcDlmReturn, ClearPending
  <2>5. CASE DcUnqueue(n)
    <3>1. SetFlags(n, flags[n] \ {"QUEUED"}) \/ SetFlags(n, Scheduled(n, flags[n]))
      BY <2>5 DEF DcUnqueue
    <3> QED
      BY <1>0, <3>1, SetMarks DEF Scheduled
  <2> QED
    BY <2>1, <2>2, <2>3, <2>4, <2>5 DEF Downconvert
<1>3. ASSUME NEW m \in Node, evictPc[m] = "live", type'[m] > NL
      PROVE  type[m] > NL \/ level[m] <= NL
  <2>1. CASE UNCHANGED type
    BY <1>3, <2>1
  <2>2. CASE DcDlmCall(n)
    <3>1. type' = type \/ type' = [type EXCEPT ![n] = requested[n]]
      BY <2>2 DEF DcDlmCall, DlmConvert
    <3>2. CASE m # n
      BY <1>0, <1>3, <3>1, <3>2 DEF TypeOK, DlmTypeOK
    <3>3. CASE m = n
      <4>1. NodeInv(n) /\ ~Answered(n)
        BY <1>3, <2>2, <3>3
           DEF GlueInv, LiveNodes, NodeInv, OneOwner, Out, DcOwns, DcDlmCall,
               DcRuns
      <4> QED
        BY <1>0, <3>3, <4>1, Unanswered
    <3> QED
      BY <3>2, <3>3
  <2>3. CASE DcCancelCall(n)
    <3>1. type' = type \/ type' = [type EXCEPT ![n] = IV]
      BY <2>3 DEF DcCancelCall, DlmCancel
    <3>2. type'[m] = type[m] \/ type'[m] = IV
      BY <1>0, <3>1 DEF TypeOK, DlmTypeOK
    <3>3. ~(IV > NL)
      BY DEF IV, NL
    <3> QED
      BY <1>3, <3>2, <3>3
  <2> QED
    BY <2>1, <2>2, <2>3
       DEF OtherWake, Downconvert, DcTake, DcNotBlocked, DcRequeue,
           DcPrepareCancel, DcAbort, DcCheckpoint, DcWorkerStart, DcDownconvert,
           DcWorkerDone, DcDlmReturn, DcUnlockAst, DcUnqueue, dlmVars
<1> QED
  BY <1>1, <1>2, <1>3, NobodyShown

\* The request of a task reaches the master, which may already do as it asks.
LEMMA CallKeeps ==
  ASSUME GlueInv, CurrentInv, UNCHANGED ltype, NEW t \in Task, DlmLockCall(t)
  PROVE  CurrentInv'
<1> DEFINE n == NodeOf[t]
<1>0. TypeOK /\ n \in Node /\ t \in TasksOf(n) /\ pc[t] = "dlm" /\ evictPc[n] = "live"
  BY NodeOfAssumption DEF GlueInv, TasksOf, DlmLockCall, UsersLive
<1>1. UNCHANGED <<level, flags, current, evictPc>>
  BY DEF DlmLockCall, lockVars
<1>2. \A u \in Task : pc'[u] = "held" => pc[u] = "held"
  BY <1>0, MovedOn DEF DlmLockCall, Goto
<1>3. type[n] > NL \/ level[n] <= NL
  <2>1. NodeInv(n) /\ t \in Askers(n)
    BY <1>0 DEF GlueInv, LiveNodes, Askers, AskPc
  <2>2. ~Answered(n)
    BY <2>1 DEF NodeInv, OneOwner, Out
  <2> QED
    BY <1>0, <2>1, <2>2, Unanswered
<1>4. \A m \in Node \ {n} : type'[m] = type[m]
  <2>1. \/ type' = type
        \/ \E l : type' = [type EXCEPT ![n] = l]
    BY DEF DlmLockCall, DlmNotQueued, DlmLock, DlmConvert
  <2> QED
    BY <1>0, <2>1 DEF TypeOK, DlmTypeOK
<1>5. \A m \in Node : CopyKept(m)
  BY <1>0, <1>1, <1>2, <1>3, <1>4 DEF CopyKept, TasksOf
<1> QED
  BY <1>0, <1>1, <1>5, AllKept

LEMMA DlmKeeps ==
  ASSUME GlueInv, CurrentInv, UNCHANGED ltype,
         Thread \/ \E n \in Node : Post(n) \/ BlockingAst(n)
  PROVE  CurrentInv'
<1>0. TypeOK
  BY DEF GlueInv
<1>1. UNCHANGED <<level, current, evictPc, pc>>
  BY DEF Thread, Post, BlockingAst, glueVars, lockVars, taskVars
<1>2. SameMarks
  <2>1. CASE UNCHANGED flags
    BY <2>1 DEF SameMarks
  <2>2. ASSUME NEW n \in Node, BlockingAst(n)
        PROVE  SameMarks
    <3>1. \/ UNCHANGED flags
          \/ SetFlags(n, Scheduled(n, flags[n] \union {"BLOCKED"}))
      BY <2>2 DEF BlockingAst
    <3> QED
      BY <1>0, <2>1, <3>1, SetMarks DEF Scheduled
  <2> QED
    BY <2>1, <2>2 DEF Thread, Post, glueVars, lockVars
<1>3. ASSUME NEW m \in Node, evictPc[m] = "live", type'[m] > NL
      PROVE  type[m] > NL \/ level[m] <= NL
  <2>1. CASE UNCHANGED type
    BY <1>3, <2>1
  <2>2. CASE DlmThread
    <3>1. DlmSame(m) \/ m \in Range(converting) \/ m \in Range(blocked)
      BY <2>2, DlmThreadEffect DEF GlueInv
    <3>2. CASE DlmSame(m)
      BY <1>3, <3>2 DEF DlmSame
    <3>3. CASE m \in Range(converting) \/ m \in Range(blocked)
      <4>1. NodeInv(m) /\ ~Answered(m)
        BY <1>3, <3>3 DEF GlueInv, LiveNodes, NodeInv, OneOwner, Queued
      <4> QED
        BY <1>0, <4>1, Unanswered
    <3> QED
      BY <3>1, <3>2, <3>3
  <2> QED
    BY <2>1, <2>2 DEF Thread, Post, BlockingAst, DlmPost, DeliverBast
<1> QED
  BY <1>1, <1>2, <1>3, NobodyShown

\* A node that comes to have the lock, again or for the first time, is told to
\* refresh its copy; one that keeps it keeps what it has.
LEMMA AstKeeps ==
  ASSUME GlueInv, CurrentInv, Refreshes, UNCHANGED ltype, NEW n \in Node,
         LockingAst(n)
  PROVE  CurrentInv'
<1>0. TypeOK
  BY DEF GlueInv
<1>1. UNCHANGED <<type, current, evictPc, pc>> /\ ~AstBug(n) /\ n \in pendingAsts
  BY DeliverAstEffect DEF LockingAst
<1>2. /\ level'[n] = requested[n]
      /\ flags'[n] = AfterAction(n) \ {"PENDING"}
      /\ \A m \in Node \ {n} : level'[m] = level[m] /\ flags'[m] = flags[m]
  BY DEF GlueInv, TypeOK, LockingAst, SetFlags
<1>3. ASSUME evictPc[n] = "live" PROVE Fresh(n)'
  <2>1. NodeInv(n) /\ Fresh(n) /\ Answered(n) /\ Out(n)
    BY <1>1, <1>3 DEF GlueInv, LiveNodes, CurrentInv, Answered, Out
  <2>2. type[n] = requested[n] /\ (~Lowering(n) => level[n] < requested[n])
    BY <2>1 DEF NodeInv, Agrees, GoesUp
  <2>3. Lowering(n) => requested[n] < level[n] /\ requested[n] > IV
    <3>1. Lowering(n) => /\ HighestCompat(blocking[n]) <= requested[n]
                         /\ requested[n] < level[n]
      BY <2>1 DEF NodeInv, GoesDown
    <3>2. HighestCompat(blocking[n]) > IV
      BY DEF HighestCompat, NL, PR, EX, IV
    <3> QED
      BY <1>0, <3>1, <3>2, Levels DEF IV
  <2>4. "NEEDS_REFRESH" \in flags[n] => "NEEDS_REFRESH" \in flags'[n]
    BY <1>2 DEF AfterAction, AfterAttach
  <2>5. requested[n] > IV
    BY <1>0, <2>2, <2>3, Levels DEF AnyMode, Mode, IV, NL, PR, EX
  <2>6. ASSUME requested[n] > NL, "NEEDS_REFRESH" \notin flags'[n]
        PROVE  n \in current
    <3>1. "NEEDS_REFRESH" \notin flags[n]
      BY <2>4, <2>6
    <3>2. level[n] > NL
      <4>1. CASE Lowering(n)
        BY <1>0, <2>3, <2>6, <4>1, Levels DEF NL
      <4>2. CASE ~Lowering(n)
        <5>1. action[n] = "CONVERT" \/ action[n] = "ATTACH"
          BY <1>0, <1>1, <4>2 DEF TypeOK, AstBug, Lowering
        <5>2. ~NeedsRefresh(n)
          BY <1>2, <2>6, <5>1 DEF AfterAction, AfterAttach
        <5>3. action[n] = "CONVERT" /\ level[n] # NL
          BY <5>1, <5>2 DEF NeedsRefresh
        <5>4. level[n] # IV
          BY <1>1, <2>1, <5>3 DEF AstBug, Fresh
        <5> QED
          BY <1>0, <5>3, <5>4, Levels DEF AnyMode, Mode, IV, NL, PR, EX
      <4> QED
        BY <4>1, <4>2
    <3> QED
      BY <2>1, <2>2, <2>6, <3>1, <3>2 DEF Fresh, UpToDate
  <2> QED
    BY <1>1, <1>2, <2>1, <2>2, <2>5, <2>6 DEF Fresh, UpToDate, TasksOf, IV
<1>4. ASSUME NEW m \in Node \ {n}, evictPc[m] = "live" PROVE Fresh(m)'
  <2>1. Fresh(m) /\ CopyKept(m)
    BY <1>1, <1>2, <1>4 DEF CurrentInv, CopyKept
  <2> QED
    BY <1>0, <2>1, KeptFresh
<1> QED
  BY <1>1, <1>3, <1>4 DEF CurrentInv, Refreshes

LEMMA EvictKeeps ==
  ASSUME GlueInv, CurrentInv, UNCHANGED ltype, NEW n \in Node,
         EvictStart(n) \/ Evict(n)
  PROVE  CurrentInv'
<1>1. UNCHANGED current
  BY DEF EvictStart, Evict, EvictUnqueued, EvictDrop, EvictUnlock,
         EvictUnlockAst, EvictFree
<1>2. \A m \in Node \ {n} : CopyKept(m)
  BY <1>1, EvictOthers DEF CopyKept, DlmSame
<1> QED
  BY <1>2, EvictOthers, AllKept DEF GlueInv

LEMMA CurrentStep ==
  ASSUME GlueInv, CurrentInv, [Next]_<<vars, ltype>>
  PROVE  CurrentInv'
<1>1. CASE UNCHANGED <<vars, ltype>>
  BY <1>1 DEF vars, dlmVars, lockVars, taskVars, CurrentInv, Refreshes, Fresh,
              UpToDate, TasksOf
<1>2. CASE Next
  <2>1. CASE ~Refreshes
    BY <1>2, <2>1 DEF Next, CurrentInv, Refreshes
  <2>2. CASE Refreshes
    <3>1. UNCHANGED ltype
      BY <1>2 DEF Next
    <3>2. ASSUME NEW t \in Task, Enter(t) \/ AgainSignal(t) \/ Proceed(t)
          PROVE  CurrentInv'
      BY <2>2, <3>1, <3>2, TaskKeeps, RefreshKeeps, UnlockKeeps, CallKeeps
         DEF Proceed
    <3>3. ASSUME NEW n \in Node, OtherWake(n) \/ Downconvert(n)
          PROVE  CurrentInv'
      BY <3>1, <3>3, ThreadKeeps
    <3>4. ASSUME NEW n \in Node, EvictStart(n) \/ Evict(n)
          PROVE  CurrentInv'
      BY <3>1, <3>4, EvictKeeps
    <3>5. ASSUME Dlm PROVE CurrentInv'
      BY <2>2, <3>1, <3>5, DlmKeeps, AstKeeps DEF Dlm
    <3> QED
      BY <1>2, <3>2, <3>3, <3>4, <3>5 DEF Next
  <2> QED
    BY <2>1, <2>2
<1> QED
  BY <1>1, <1>2

\* Whoever is let into a lock that needs refreshing sees the object as the last
\* holder of EX left it, whatever conversions were cancelled and refreshes failed.
THEOREM FreshReads == Spec => []HeldIsCurrent
<1>1. Init => CurrentInv
  BY DEF Init, DlmInit, CurrentInv, Fresh, UpToDate, TasksOf, IV, NL
<1>2. GlueInv /\ CurrentInv /\ [Next]_<<vars, ltype>> => CurrentInv'
  BY CurrentStep
<1>3. GlueInv /\ CurrentInv => HeldIsCurrent
  BY NodeOfAssumption
     DEF GlueInv, UsersLive, CurrentInv, Fresh, HeldIsCurrent, TasksOf
<1> QED
  BY <1>1, <1>2, <1>3, GlueSafe, PTL DEF Spec

-----------------------------------------------------------------------------
(* What the downconvert worker did                                         *)

\* What a downconvert asks for is settled when its worker is done: while it waits
\* to be sent, BUSY keeps everyone else from asking for something.
LEMMA WorkerStep ==
  ASSUME GlueInv, WorkerSufficed, [Next]_<<vars, ltype>>
  PROVE  WorkerSufficed'
<1>0. TypeOK
  BY DEF GlueInv
<1>1. UNCHANGED ltype
  BY DEF Next
<1> SUFFICES ASSUME HasWorker, NEW n \in Node, dcPc'[n] = "dlm"
             PROVE  requested'[n] >= HighestCompat(dcSaved'[n].blocking)
  BY <1>1 DEF WorkerSufficed, HasWorker
<1>2. CASE UNCHANGED <<dcPc, dcSaved, requested>>
  BY <1>2 DEF WorkerSufficed
<1>3. ASSUME NEW t \in Task, AgainRequest(t)
      PROVE  requested'[n] >= HighestCompat(dcSaved'[n].blocking)
  <2>1. UNCHANGED <<dcPc, dcSaved>> /\ NodeOf[t] \in Node
    BY <1>3, NodeOfAssumption DEF AgainRequest, dcVars
  <2>2. CASE n # NodeOf[t]
    <3>1. requested'[n] = requested[n]
      BY <1>0, <1>3, <2>1, <2>2 DEF TypeOK, AgainRequest
    <3> QED
      BY <2>1, <3>1 DEF WorkerSufficed
  <2>3. CASE n = NodeOf[t]
    <3>1. NodeInv(n) /\ DcOwns(n)
      BY <1>3, <2>1, <2>3
         DEF GlueInv, UsersLive, LiveNodes, AgainRequest, AtAgain, DcOwns
    <3>2. "BUSY" \in flags[n]
      BY <3>1 DEF NodeInv, OneOwner
    <3> QED
      BY <1>3, <2>3, <3>2 DEF AgainRequest, MustWaitBusy
  <2> QED
    BY <2>2, <2>3
<1>4. ASSUME NEW m \in Node, Downconvert(m)
      PROVE  requested'[n] >= HighestCompat(dcSaved'[n].blocking)
  <2>1. \A k \in Node \ {m} : /\ dcPc'[k] = dcPc[k]
                              /\ dcSaved'[k] = dcSaved[k]
                              /\ requested'[k] = requested[k]
    <3>1. /\ dcPc' = dcPc \/ \E l : dcPc' = [dcPc EXCEPT ![m] = l]
          /\ dcSaved' = dcSaved \/ \E s : dcSaved' = [dcSaved EXCEPT ![m] = s]
          /\ requested' = requested \/ \E l : requested' = [requested EXCEPT ![m] = l]
      BY <1>4 DEF Downconvert, DcTake, DcNotBlocked, DcRequeue, DcPrepareCancel,
                  DcAbort, DcCheckpoint, DcWorkerStart, DcDownconvert,
                  DcWorkerDone, DcDlmCall, DcDlmReturn, DcCancelCall,
                  DcUnlockAst, DcUnqueue, PrepareDownconvert, DcGoto, lockVars
    <3> QED
      BY <1>0, <3>1 DEF TypeOK
  <2>2. CASE n # m
    BY <2>1, <2>2 DEF WorkerSufficed
  <2>3. CASE n = m
    <3>1. DcWorkerDone(n) /\ WorkerStillValid(n) /\ PrepareDownconvert(n)
      <4>1. \/ DcDownconvert(n) /\ ~HasWorker
            \/ DcWorkerDone(n) /\ WorkerStillValid(n) /\ PrepareDownconvert(n)
            \/ dcPc' = dcPc /\ dcPc[n] = "idle"
            \/ \E l : l # "dlm" /\ dcPc' = [dcPc EXCEPT ![n] = l]
        BY <1>4, <2>3
           DEF Downconvert, DcTake, DcNotBlocked, DcRequeue,
               DcPrepareCancel, DcAbort, DcCheckpoint, DcWorkerStart,
               DcDownconvert, DcWorkerDone, DcDlmCall, DcDlmReturn,
               DcCancelCall, DcUnlockAst, DcUnqueue, DcGoto, DcRuns
      <4>2. ~\E l : l # "dlm" /\ dcPc' = [dcPc EXCEPT ![n] = l]
        BY <1>0 DEF TypeOK
      <4> QED
        BY <4>1, <4>2
    <3>2. /\ dcSaved' = dcSaved /\ dcSaved[n].blocking = blocking[n]
          /\ requested'[n] = HighestCompat(blocking[n])
      BY <1>0, <3>1
      DEF TypeOK, DcWorkerDone, WorkerStillValid, PrepareDownconvert
    <3> QED
      BY <1>0, <3>2, Levels
  <2> QED
    BY <2>2, <2>3
<1> QED
  <2>1. ASSUME NEW t \in Task, Enter(t) \/ AgainSignal(t) \/ Proceed(t)
        PROVE  AgainRequest(t) \/ UNCHANGED <<dcPc, dcSaved, requested>>
    BY <2>1 DEF Proceed, Enter, AgainSignal, AgainWait, AgainHold, AgainGiveUp,
                DlmLockCall, DlmLockReturn, RecoverFromError, NonBlockArrived,
                NonBlockGiveUp, ShouldRefresh, CompleteRefresh, Unlock,
                lockVars, dcVars
  <2>2. ASSUME NEW m \in Node, OtherWake(m) \/ EvictStart(m) \/ Evict(m)
        PROVE  UNCHANGED <<dcPc, dcSaved, requested>>
    BY <2>2 DEF OtherWake, EvictStart, Evict, EvictUnqueued, EvictDrop,
                EvictUnlock, EvictUnlockAst, EvictFree, lockVars, dcVars
  <2>3. ASSUME Dlm PROVE UNCHANGED <<dcPc, dcSaved, requested>>
    BY <2>3 DEF Dlm, Thread, Post, LockingAst, BlockingAst, glueVars, lockVars,
                dcVars
  <2>4. ASSUME UNCHANGED vars PROVE UNCHANGED <<dcPc, dcSaved, requested>>
    BY <2>4 DEF vars, lockVars, dcVars
  <2> QED
    BY <1>2, <1>3, <1>4, <2>1, <2>2, <2>3, <2>4 DEF Next

\* A downconvert never goes lower than what its worker has prepared the pages for.
THEOREM WorkerDidEnough == Spec => []WorkerSufficed
<1>1. Init => WorkerSufficed
  BY DEF Init, WorkerSufficed
<1>2. GlueInv /\ WorkerSufficed /\ [Next]_<<vars, ltype>> => WorkerSufficed'
  BY WorkerStep
<1> QED
  BY <1>1, <1>2, GlueSafe, PTL DEF Spec

-----------------------------------------------------------------------------
(* dlmglue over o2dlm is a ClusterLock.                                    *)

Holding == [t \in Task |-> IF pc[t] \in HoldsPc THEN want[t].level ELSE NL]

\* Only AgainHold lets anybody in and only Unlock lets anybody go.
LEMMA NobodyMoves ==
  ASSUME GlueInv, Next,
         \A t \in Task : ~AgainHold(t) /\ ~Unlock(t)
  PROVE  UNCHANGED Holding
<1>1. CASE UNCHANGED <<pc, want>>
  BY <1>1 DEF Holding
<1>2. ASSUME NEW t \in Task, ShouldRefresh(t) \/ CompleteRefresh(t)
      PROVE  UNCHANGED Holding
  <2>1. pc[t] \in HoldsPc /\ UNCHANGED want
    BY <1>2 DEF ShouldRefresh, CompleteRefresh, HoldsPc
  <2>2. PICK l \in HoldsPc : pc' = [pc EXCEPT ![t] = l]
    BY <1>2 DEF ShouldRefresh, CompleteRefresh, Goto, HoldsPc
  <2>3. pc'[t] \in HoldsPc /\ \A u \in Task \ {t} : pc'[u] = pc[u]
    BY <2>2 DEF GlueInv, TypeOK
  <2> QED
    BY <2>1, <2>3 DEF Holding
<1>3. ASSUME NEW t \in Task,
             \/ Enter(t) \/ AgainSignal(t) \/ AgainWait(t) \/ AgainGiveUp(t)
             \/ AgainRequest(t) \/ DlmLockCall(t) \/ DlmLockReturn(t)
             \/ RecoverFromError(t) \/ NonBlockArrived(t) \/ NonBlockGiveUp(t)
      PROVE  UNCHANGED Holding
  <2>1. pc[t] \notin HoldsPc
    BY <1>3 DEF Enter, AgainSignal, AgainWait, AgainGiveUp, AgainRequest,
                DlmLockCall, DlmLockReturn, RecoverFromError, NonBlockArrived,
                NonBlockGiveUp, AtAgain, HoldsPc
  <2>2. \E l : l \notin HoldsPc /\ pc' = [pc EXCEPT ![t] = l]
    <3>1. \/ \E l \in {"again", "wait", "nonblock", "dlm", "called", "refused",
                       "recover"} : pc' = [pc EXCEPT ![t] = l]
          \/ pc' = [pc EXCEPT ![t] = Rest(t)]
      BY <1>3 DEF Enter, AgainSignal, AgainWait, AgainGiveUp, AgainRequest,
                  DlmLockCall, DlmLockReturn, RecoverFromError, NonBlockArrived,
                  NonBlockGiveUp, Return, Goto
    <3> QED
      BY <3>1, RestTypes DEF HoldsPc
  <2>3. pc'[t] \notin HoldsPc /\ \A u \in Task \ {t} : pc'[u] = pc[u]
    BY <2>2 DEF GlueInv, TypeOK
  <2>4. \A u \in Task \ {t} : want'[u] = want[u]
    BY <1>3 DEF GlueInv, TypeOK, Enter, AgainSignal, AgainWait, AgainGiveUp,
                AgainRequest, DlmLockCall, DlmLockReturn, RecoverFromError,
                NonBlockArrived, NonBlockGiveUp
  <2> QED
    BY <2>1, <2>3, <2>4 DEF Holding
<1>4. ASSUME NEW n \in Node, OtherWake(n) \/ Downconvert(n) \/ EvictStart(n)
                             \/ Evict(n) \/ LockingAst(n) \/ BlockingAst(n)
                             \/ Post(n)
      PROVE  UNCHANGED <<pc, want>>
  <2>1. CASE OtherWake(n) \/ EvictStart(n) \/ LockingAst(n) \/ BlockingAst(n)
             \/ Post(n)
    BY <2>1 DEF OtherWake, EvictStart, LockingAst, BlockingAst, Post, glueVars,
                taskVars
  <2>2. CASE Evict(n)
    BY <2>2 DEF Evict, EvictUnqueued, EvictDrop, EvictUnlock, EvictUnlockAst,
                EvictFree, taskVars
  <2>3. CASE Downconvert(n)
    BY <2>3 DEF Downconvert, DcTake, DcNotBlocked, DcRequeue, DcPrepareCancel,
                DcAbort, DcCheckpoint, DcWorkerStart, DcDownconvert,
                DcWorkerDone, DcDlmCall, DcDlmReturn, DcCancelCall, DcUnlockAst,
                DcUnqueue, taskVars
  <2> QED
    BY <1>4, <2>1, <2>2, <2>3
<1>5. CASE Thread
  BY <1>1, <1>5 DEF Thread, glueVars, taskVars
<1> QED
  BY <1>1, <1>2, <1>3, <1>4, <1>5 DEF Next, Proceed, Dlm

LEMMA OneEntry ==
  ASSUME NEW S, NEW t \in S, NEW v, NEW f, NEW g,
         f = [x \in S |-> f[x]], g = [x \in S |-> g[x]],
         g[t] = v, \A x \in S \ {t} : g[x] = f[x]
  PROVE  g = [f EXCEPT ![t] = v]
OBVIOUS

LEMMA HoldingForm ==
  /\ Holding = [t \in Task |-> Holding[t]]
  /\ Holding' = [t \in Task |-> Holding'[t]]
BY DEF Holding

LEMMA AcquireForm ==
  ASSUME NEW t \in Task, NEW m,
         Holding[t] = NL,
         \A u \in Task : NodeOf[u] # NodeOf[t] => Compatible(Holding[u], m),
         Holding' = [Holding EXCEPT ![t] = m]
  PROVE  CL!Acquire(t, m)
BY DEF CL!Acquire, CL!Compatible, CL!NL, CL!PR, CL!EX, Compatible, NL, PR, EX,
       Holding

LEMMA ReleaseForm ==
  ASSUME NEW t \in Task, Holding[t] # NL, Holding' = [Holding EXCEPT ![t] = NL]
  PROVE  CL!Release(t)
BY DEF CL!Release, CL!NL, NL, Holding

LEMMA GlueRefines ==
  ASSUME GlueInv, MutualExclusion', [Next]_<<vars, ltype>>
  PROVE  [CL!Next]_Holding
<1>1. CASE UNCHANGED <<vars, ltype>>
  BY <1>1 DEF vars, taskVars, Holding
<1>2. ASSUME NEW t \in Task, AgainHold(t)
      PROVE  CL!Next
  <2> PICK m \in {PR, EX} : m = want[t].level
    BY Wants DEF GlueInv
  <2>1. /\ pc[t] \notin HoldsPc
        /\ pc'[t] \in HoldsPc
        /\ \A u \in Task \ {t} : pc'[u] = pc[u]
        /\ UNCHANGED want
    BY <1>2 DEF GlueInv, TypeOK, AgainHold, AtAgain, Return, Goto, HoldsPc
  <2>3. Holding[t] = NL
    BY <2>1 DEF Holding
  <2>4. Holding' = [Holding EXCEPT ![t] = m]
    <3>1. Holding'[t] = m /\ \A u \in Task \ {t} : Holding'[u] = Holding[u]
      BY <2>1 DEF Holding
    <3> QED
      BY <3>1, HoldingForm, OneEntry
  <2>5. ASSUME NEW u \in Task, NodeOf[u] # NodeOf[t]
        PROVE  Compatible(Holding[u], m)
    <3>1. CASE pc[u] \in HoldsPc
      <4>1. pc'[u] \in HoldsPc /\ want'[u] = want[u] /\ want'[t] = want[t]
        BY <2>1, <2>5, <3>1
      <4> QED
        BY <2>1, <2>5, <3>1, <4>1 DEF MutualExclusion, Holding
    <3>2. CASE pc[u] \notin HoldsPc
      BY <3>2 DEF Holding, Compatible, NL
    <3> QED
      BY <3>1, <3>2
  <2>6. CL!Acquire(t, m)
    BY <2>3, <2>4, <2>5, AcquireForm
  <2> QED
    BY <2>6 DEF CL!Next, CL!PR, CL!EX, PR, EX
<1>3. ASSUME NEW t \in Task, Unlock(t)
      PROVE  CL!Next
  <2>1. /\ pc[t] \in HoldsPc /\ pc'[t] \notin HoldsPc
        /\ \A u \in Task \ {t} : pc'[u] = pc[u]
        /\ UNCHANGED want
    <3>1. pc[t] \in HoldsPc /\ UNCHANGED want
      BY <1>3 DEF Unlock, HoldsPc
    <3>2. pc' = [pc EXCEPT ![t] = Rest(t)]
      BY <1>3 DEF Unlock, Goto
    <3>3. Rest(t) \notin HoldsPc
      BY RestTypes DEF HoldsPc
    <3> QED
      BY <3>1, <3>2, <3>3 DEF GlueInv, TypeOK
  <2>2. Holding[t] # NL
    BY <2>1, Wants DEF GlueInv, Holding, PR, EX, NL
  <2>3. Holding' = [Holding EXCEPT ![t] = NL]
    <3>1. Holding'[t] = NL /\ \A u \in Task \ {t} : Holding'[u] = Holding[u]
      BY <2>1 DEF Holding
    <3> QED
      BY <3>1, HoldingForm, OneEntry
  <2>4. CL!Release(t)
    BY <2>2, <2>3, ReleaseForm
  <2> QED
    BY <2>4 DEF CL!Next
<1> QED
  BY <1>1, <1>2, <1>3, NobodyMoves

\* What the tasks of all nodes see of dlmglue over o2dlm is a ClusterLock: every step
\* is an Acquire, a Release or none.
THEOREM GlueImplements == Spec => ImplementsClusterLock
<1>1. Init => CL!Init
  <2>1. Init => \A t \in Task : pc[t] \notin HoldsPc
    BY DEF Init, HoldsPc
  <2> QED
    BY <2>1 DEF CL!Init, CL!NL, NL
<1>2. GlueInv /\ MutualExclusion' /\ [Next]_<<vars, ltype>> => [CL!Next]_Holding
  BY GlueRefines
<1> QED
  BY <1>1, <1>2, GlueSafe, Exclusion, PTL
     DEF Spec, ImplementsClusterLock, CL!Spec, Holding

-----------------------------------------------------------------------------
(* The assertions                                                          *)

\* BUSY goes with an action, which tells the first request from a conversion.
ActionKnown(n) ==
  /\ "BUSY" \in flags[n] <=> action[n] # "INVALID"
  /\ action[n] # "INVALID" =>
       (action[n] = "ATTACH" <=> "ATTACHED" \notin flags[n])
  /\ "ATTACHED" \in flags[n] => level[n] # IV

\* The node and the master agree on the mode, but for an answer on its way and
\* for a first request that waits.
LevelKnown(n) ==
  /\ ~Answered(n) /\ n \notin Range(blocked) => level[n] = type[n]
  /\ n \in Range(blocked) => level[n] = IV

\* BLOCKED goes with a mode that somebody wants; the downconvert thread looks only
\* at locks that a BAST has come for.
BlockKnown(n) ==
  /\ "BLOCKED" \in flags[n] => "ATTACHED" \in flags[n]
  /\ "BLOCKED" \in flags[n] <=> blocking[n] > NL
  /\ onList[n] \/ dcPc[n] # "idle" => blocking[n] # IV

\* The node is in the way of who wants l.
InTheWay(n, l) == l > NL /\ ~Compatible(type[n], l)

\* No BAST is stale, although nobody takes one back from the node: one that a
\* downconvert has overtaken at the master is dropped by dlm_queue_ast(), or comes
\* before the AST of that downconvert.
BastsMeant(n) ==
  /\ "BLOCKED" \in flags[n] /\ ~Lowering(n) => InTheWay(n, blocking[n])
  /\ highestBlocked[n] # IV =>
       /\ highestBlocked[n] > NL
       /\ n \notin Range(blocked)
       /\ InTheWay(n, highestBlocked[n]) \/ (owed[n] = "ast" /\ Lowering(n))
  /\ inflight # NoBast /\ inflight.node = n =>
       /\ inflight.level > NL
       /\ n \notin Range(blocked)
       /\ InTheWay(n, inflight.level) \/ (Answered(n) /\ Lowering(n))

\* The worker was started to go down.
WorkerDown(n) ==
  dcPc[n] = "worker" => dcSaved[n].level > HighestCompat(dcSaved[n].blocking)

SoundNode(n) ==
  /\ ActionKnown(n)
  /\ LevelKnown(n)
  /\ BlockKnown(n)
  /\ BastsMeant(n)
  /\ WorkerDown(n)

SoundInv ==
  /\ inflight # NoBast => thread = "basts"
  /\ \A n \in Node : evictPc[n] = "live" => SoundNode(n)

\* What the assertions read of a node, and of the DLM
LocalSame(m) ==
  /\ level'[m] = level[m] /\ blocking'[m] = blocking[m] /\ action'[m] = action[m]
  /\ "ATTACHED" \in flags'[m] <=> "ATTACHED" \in flags[m]
  /\ "BUSY" \in flags'[m] <=> "BUSY" \in flags[m]
  /\ "BLOCKED" \in flags'[m] <=> "BLOCKED" \in flags[m]
  /\ onList'[m] \/ dcPc'[m] # "idle" => onList[m] \/ dcPc[m] # "idle"
  /\ dcPc'[m] = "worker" => dcPc[m] = "worker" /\ dcSaved'[m] = dcSaved[m]
AskedSame(m) ==
  /\ type'[m] = type[m]
  /\ m \in Range(blocked') <=> m \in Range(blocked)
  /\ Answered(m)' <=> Answered(m)
  /\ owed'[m] = owed[m]
  /\ highestBlocked'[m] = highestBlocked[m]
  /\ inflight' \in {inflight, NoBast}

LEMMA SameSound ==
  ASSUME NEW m \in Node, SoundNode(m), LocalSame(m), AskedSame(m)
  PROVE  SoundNode(m)'
<1>1. /\ Lowering(m)' <=> Lowering(m)
      /\ \A l : InTheWay(m, l)' <=> InTheWay(m, l)
  BY DEF LocalSame, AskedSame, Lowering, InTheWay
<1>2. ActionKnown(m)' /\ LevelKnown(m)' /\ BlockKnown(m)' /\ WorkerDown(m)'
  BY DEF SoundNode, ActionKnown, LevelKnown, BlockKnown, WorkerDown, LocalSame,
         AskedSame
<1>3. BastsMeant(m)'
  <2>1. "BLOCKED" \in flags'[m] /\ ~Lowering(m)' => InTheWay(m, blocking[m])'
    BY <1>1 DEF SoundNode, BastsMeant, LocalSame
  <2>2. highestBlocked'[m] # IV =>
          /\ highestBlocked'[m] > NL
          /\ m \notin Range(blocked')
          /\ InTheWay(m, highestBlocked[m])' \/ (owed'[m] = "ast" /\ Lowering(m)')
    BY <1>1 DEF SoundNode, BastsMeant, AskedSame
  <2>3. inflight' # NoBast /\ inflight'.node = m =>
          /\ inflight'.level > NL
          /\ m \notin Range(blocked')
          /\ InTheWay(m, inflight.level)' \/ (Answered(m)' /\ Lowering(m)')
    BY <1>1 DEF SoundNode, BastsMeant, AskedSame
  <2> QED
    BY <2>1, <2>2, <2>3 DEF BastsMeant, LocalSame
<1> QED
  BY <1>2, <1>3 DEF SoundNode

\* One node has a new state, the others look the same.
LEMMA OneSound ==
  ASSUME SoundInv, NEW n \in Node,
         inflight' # NoBast => thread' = "basts",
         \A m \in Node \ {n} :
           evictPc'[m] = evictPc[m] /\ LocalSame(m) /\ AskedSame(m),
         evictPc'[n] = "live" => SoundNode(n)'
  PROVE  SoundInv'
<1>1. ASSUME NEW m \in Node \ {n}, evictPc'[m] = "live" PROVE SoundNode(m)'
  BY <1>1, SameSound DEF SoundInv
<1> QED
  BY <1>1 DEF SoundInv

LEMMA AllSound ==
  ASSUME SoundInv, UNCHANGED evictPc,
         inflight' # NoBast => thread' = "basts",
         \A m \in Node : LocalSame(m) /\ AskedSame(m)
  PROVE  SoundInv'
BY SameSound DEF SoundInv

LEMMA StutterAsked ==
  ASSUME UNCHANGED dlmVars
  PROVE  \A m \in Node : AskedSame(m)
BY DEF dlmVars, AskedSame, Answered

\* A BAST goes on being meant when the node gets more.
LEMMA MoreInTheWay ==
  ASSUME NEW k \in AnyMode, NEW m \in AnyMode, NEW l \in AnyMode,
         k <= m, ~Compatible(k, l)
  PROVE  ~Compatible(m, l)
BY DEF AnyMode, Mode, IV, NL, PR, EX, Compatible

\* A mode is in the way of l if it is above what may be kept.
LEMMA KeptModes ==
  ASSUME NEW k \in AnyMode, NEW l \in AnyMode
  PROVE  l > NL => (~Compatible(k, l) <=> k > HighestCompat(l))
BY DEF AnyMode, Mode, IV, NL, PR, EX, Compatible, HighestCompat

\* The steps of a task that leave the request of its node alone
LEMMA TaskStepSound ==
  ASSUME GlueInv, SoundInv, NEW t \in Task,
         \/ Enter(t) \/ AgainSignal(t) \/ AgainWait(t) \/ AgainHold(t)
         \/ AgainGiveUp(t) \/ DlmLockReturn(t) \/ NonBlockArrived(t)
         \/ NonBlockGiveUp(t) \/ ShouldRefresh(t)
         \/ CompleteRefresh(t) \/ Unlock(t)
  PROVE  SoundInv'
<1>1. UNCHANGED <<dlmVars, evictPc, onList, dcPc, dcSaved>>
  BY DEF Enter, AgainSignal, AgainWait, AgainHold, AgainGiveUp, DlmLockReturn,
         NonBlockArrived, NonBlockGiveUp, ShouldRefresh, CompleteRefresh, Unlock,
         lockVars, dcVars
<1>2. \A m \in Node : /\ level'[m] = level[m] /\ blocking'[m] = blocking[m]
                      /\ action'[m] = action[m]
                      /\ "ATTACHED" \in flags'[m] <=> "ATTACHED" \in flags[m]
                      /\ "BUSY" \in flags'[m] <=> "BUSY" \in flags[m]
                      /\ "BLOCKED" \in flags'[m] <=> "BLOCKED" \in flags[m]
  <2>1. CASE AgainHold(t)
    <3>1. UNCHANGED <<level, blocking, action>>
      BY <2>1 DEF AgainHold
    <3>2. \A m \in Node :
            flags'[m] \in {flags[m], flags[m] \ {"UPCONVERT_FINISHING"}}
      BY <2>1, NodeOfAssumption
         DEF GlueInv, TypeOK, AgainHold, LeaveSection, SetFlags
    <3> QED
      BY <3>1, <3>2
  <2>2. CASE ~AgainHold(t)
    BY <2>2, TaskStepEases DEF GlueInv, NodeEases
  <2> QED
    BY <2>1, <2>2
<1>3. \A m \in Node : LocalSame(m)
  BY <1>1, <1>2 DEF LocalSame
<1> QED
  BY <1>1, <1>3, StutterAsked, AllSound DEF SoundInv, dlmVars

\* ... and those of the downconvert thread
LEMMA ThreadStepSound ==
  ASSUME GlueInv, SoundInv, NEW n \in Node,
         \/ OtherWake(n) \/ DcTake(n) \/ DcNotBlocked(n)
         \/ DcRequeue(n) \/ DcPrepareCancel(n) \/ DcCheckpoint(n)
         \/ DcDlmReturn(n) \/ DcUnqueue(n)
  PROVE  SoundInv'
<1>1. /\ \A m \in Node : NodeEases(m)
      /\ UNCHANGED <<dlmVars, evictPc>>
  BY ThreadStepEases DEF GlueInv
<1>2. \A m \in Node : onList'[m] \/ dcPc'[m] # "idle" => onList[m] \/ dcPc[m] # "idle"
  <2>1. CASE OtherWake(n)
    BY <2>1 DEF OtherWake, dcVars
  <2>2. CASE DcTake(n)
    <3>1. \/ UNCHANGED <<onList, dcPc>>
          \/ /\ onList[n] /\ onList' = [onList EXCEPT ![n] = FALSE]
             /\ \E l : dcPc' = [dcPc EXCEPT ![n] = l]
      BY <2>2 DEF DcTake, DcGoto
    <3>2. onList \in [Node -> BOOLEAN] /\ DOMAIN dcPc = Node
      BY DEF GlueInv, TypeOK
    <3>3. ASSUME onList[n], onList' = [onList EXCEPT ![n] = FALSE],
                 NEW l, dcPc' = [dcPc EXCEPT ![n] = l]
          PROVE  \A m \in Node : onList'[m] \/ dcPc'[m] # "idle" =>
                                 onList[m] \/ dcPc[m] # "idle"
      BY <3>2, <3>3
    <3> QED
      BY <3>1, <3>3
  <2>3. CASE DcNotBlocked(n) \/ DcRequeue(n) \/ DcPrepareCancel(n)
             \/ DcCheckpoint(n) \/ DcDlmReturn(n)
    <3>1. dcPc[n] # "idle" /\ UNCHANGED onList
      BY <2>3 DEF DcNotBlocked, DcRequeue, DcPrepareCancel, DcCheckpoint,
                  DcDlmReturn, DcRuns, lockVars
    <3>2. \E l : dcPc' = [dcPc EXCEPT ![n] = l]
      BY <2>3 DEF DcNotBlocked, DcRequeue, DcPrepareCancel, DcCheckpoint,
                  DcDlmReturn, DcGoto
    <3>3. \A m \in Node \ {n} : dcPc'[m] = dcPc[m]
      BY <3>2 DEF GlueInv, TypeOK
    <3> QED
      BY <3>1, <3>3
  <2>4. CASE DcUnqueue(n)
    <3>1. dcPc[n] # "idle"
      BY <2>4 DEF DcUnqueue, DcRuns
    <3>2. \A m \in Node \ {n} : dcPc'[m] = dcPc[m] /\ onList'[m] = onList[m]
      BY <2>4 DEF GlueInv, TypeOK, DcUnqueue, DcGoto
    <3> QED
      BY <3>1, <3>2
  <2> QED
    BY <2>1, <2>2, <2>3, <2>4
<1>3. \A m \in Node : LocalSame(m)
  BY <1>1, <1>2 DEF LocalSame, NodeEases
<1> QED
  BY <1>1, <1>3, StutterAsked, AllSound DEF SoundInv, dlmVars

LEMMA AgainRequestSound ==
  ASSUME GlueInv, SoundInv, NEW t \in Task, AgainRequest(t)
  PROVE  SoundInv'
<1> DEFINE n == NodeOf[t]
<1>1. n \in Node /\ evictPc[n] = "live"
  BY NodeOfAssumption DEF GlueInv, UsersLive, AgainRequest, AtAgain
<1>2. UNCHANGED <<dlmVars, level, blocking, onList, dcPc, dcSaved, evictPc>>
  BY DEF AgainRequest, dcVars
<1>3. /\ flags'[n] = flags[n] \union {"BUSY", "PENDING"}
      /\ action'[n] = IF "ATTACHED" \in flags[n] THEN "CONVERT" ELSE "ATTACH"
      /\ \A m \in Node \ {n} : flags'[m] = flags[m] /\ action'[m] = action[m]
  BY <1>1 DEF GlueInv, TypeOK, AgainRequest, SetFlags
<1>4. "BUSY" \notin flags[n]
  BY DEF AgainRequest, MustWaitBusy
<1> HIDE DEF n
<1>5. \A m \in Node \ {n} : LocalSame(m)
  BY <1>2, <1>3 DEF LocalSame
<1>6. SoundNode(n)'
  <2>1. SoundNode(n) /\ ~Lowering(n) /\ ~Lowering(n)'
    BY <1>1, <1>3, <1>4, Free DEF GlueInv, LiveNodes, SoundInv, Lowering
  <2>2. Answered(n)' <=> Answered(n)
    BY <1>2 DEF dlmVars, Answered
  <2>3. ActionKnown(n)'
    BY <1>2, <1>3, <2>1 DEF SoundNode, ActionKnown
  <2>4. LevelKnown(n)' /\ BlockKnown(n)' /\ WorkerDown(n)'
    BY <1>2, <1>3, <2>1, <2>2
       DEF dlmVars, SoundNode, LevelKnown, BlockKnown, WorkerDown
  <2>5. BastsMeant(n)'
    BY <1>2, <1>3, <2>1, <2>2 DEF dlmVars, SoundNode, BastsMeant, InTheWay
  <2> QED
    BY <2>3, <2>4, <2>5 DEF SoundNode
<1> QED
  BY <1>1, <1>2, <1>5, <1>6, StutterAsked, OneSound DEF SoundInv, dlmVars

\* BUSY is cleared without an answer: the request was refused or cancelled.
LEMMA ClearedSound ==
  ASSUME GlueInv, SoundInv, NEW n \in Node, evictPc[n] = "live", ~Lowering(n),
         UNCHANGED <<dlmVars, level, blocking, onList, dcSaved, evictPc>>,
         flags'[n] = flags[n] \ {"BUSY", "UPCONVERT_FINISHING"}
           \/ flags'[n] = flags[n] \ {"BUSY"},
         action'[n] = "INVALID",
         dcPc'[n] = dcPc[n] \/ (dcPc[n] # "idle" /\ dcPc'[n] # "worker"),
         \A m \in Node \ {n} :
           flags'[m] = flags[m] /\ action'[m] = action[m] /\ dcPc'[m] = dcPc[m]
  PROVE  SoundInv'
<1>1. \A m \in Node \ {n} : LocalSame(m)
  BY DEF LocalSame
<1>2. SoundNode(n)'
  <2>1. SoundNode(n) /\ ~Lowering(n)'
    BY DEF SoundInv, Lowering
  <2>2. Answered(n)' <=> Answered(n)
    BY DEF dlmVars, Answered
  <2>3. ActionKnown(n)'
    BY <2>1 DEF SoundNode, ActionKnown
  <2>4. LevelKnown(n)' /\ BlockKnown(n)' /\ WorkerDown(n)'
    BY <2>1, <2>2 DEF dlmVars, SoundNode, LevelKnown, BlockKnown, WorkerDown
  <2>5. BastsMeant(n)'
    BY <2>1, <2>2 DEF dlmVars, SoundNode, BastsMeant, InTheWay
  <2> QED
    BY <2>3, <2>4, <2>5 DEF SoundNode
<1> QED
  BY <1>1, <1>2, StutterAsked, OneSound DEF SoundInv, dlmVars

LEMMA RecoverFromErrorSound ==
  ASSUME GlueInv, SoundInv, NEW t \in Task, RecoverFromError(t)
  PROVE  SoundInv'
<1> DEFINE n == NodeOf[t]
<1>1. n \in Node /\ t \in Askers(n) /\ evictPc[n] = "live"
  BY NodeOfAssumption
     DEF GlueInv, UsersLive, RecoverFromError, Askers, TasksOf, AskPc
<1>2. UNCHANGED <<dlmVars, level, blocking, onList, dcPc, dcSaved, evictPc>>
  BY DEF RecoverFromError, dcVars
<1>3. /\ flags'[n] = flags[n] \ {"BUSY", "UPCONVERT_FINISHING"}
      /\ action'[n] = "INVALID"
      /\ \A m \in Node \ {n} : flags'[m] = flags[m] /\ action'[m] = action[m]
  BY <1>1 DEF GlueInv, TypeOK, RecoverFromError, SetFlags
<1>4. ~Lowering(n)
  BY <1>1 DEF GlueInv, LiveNodes, NodeInv, OneOwner, GoesDown, Out, DcOwns
<1> QED
  BY <1>1, <1>2, <1>3, <1>4, ClearedSound

LEMMA DcUnlockAstSound ==
  ASSUME GlueInv, SoundInv, NEW n \in Node, DcUnlockAst(n)
  PROVE  SoundInv'
<1>1. /\ UNCHANGED <<dlmVars, level, blocking, onList, dcSaved, evictPc>>
      /\ dcPc[n] = "cancelled"
  BY DEF DcUnlockAst, DcRuns
<1>2. /\ flags'[n] = flags[n] \ {"BUSY"}
      /\ action'[n] = "INVALID" /\ dcPc'[n] = "unqueue"
      /\ \A m \in Node \ {n} :
           flags'[m] = flags[m] /\ action'[m] = action[m] /\ dcPc'[m] = dcPc[m]
  BY DEF GlueInv, TypeOK, DcUnlockAst, SetFlags, DcGoto
<1>3. CASE evictPc[n] = "live"
  <2>1. ~Lowering(n)
    BY <1>1, <1>3
    DEF GlueInv, LiveNodes, NodeInv, OneOwner, GoesDown, Out, DcOwns
  <2> QED
    BY <1>1, <1>2, <1>3, <2>1, ClearedSound
<1>4. CASE evictPc[n] # "live"
  <2>1. \A m \in Node \ {n} : LocalSame(m)
    BY <1>1, <1>2 DEF LocalSame
  <2> QED
    BY <1>1, <1>4, <2>1, StutterAsked, OneSound DEF SoundInv, dlmVars
<1> QED
  BY <1>3, <1>4

LEMMA DcAbortSound ==
  ASSUME GlueInv, SoundInv, NEW n \in Node, DcAbort(n)
  PROVE  SoundInv'
<1>1. /\ UNCHANGED <<dlmVars, level, action, onList, dcSaved, evictPc>>
      /\ "BUSY" \notin flags[n] /\ dcPc[n] = "unblock"
  BY DEF DcAbort, Settled, DcRuns
<1>2. /\ blocking'[n] = NL
      /\ flags'[n] = flags[n] \ {"BLOCKED"}
      /\ dcPc'[n] = "unqueue"
      /\ \A m \in Node \ {n} : /\ blocking'[m] = blocking[m]
                               /\ flags'[m] = flags[m]
                               /\ dcPc'[m] = dcPc[m]
  BY DEF GlueInv, TypeOK, DcAbort, SetFlags, DcGoto
<1>3. \A m \in Node \ {n} : LocalSame(m)
  BY <1>1, <1>2 DEF LocalSame
<1>4. ASSUME evictPc[n] = "live" PROVE SoundNode(n)'
  <2>1. SoundNode(n)
    BY <1>4 DEF SoundInv
  <2>2. (Answered(n)' <=> Answered(n)) /\ (Lowering(n)' <=> Lowering(n))
    BY <1>1 DEF dlmVars, Answered, Lowering
  <2>3. ActionKnown(n)' /\ LevelKnown(n)' /\ WorkerDown(n)'
    BY <1>1, <1>2, <2>1, <2>2
       DEF dlmVars, SoundNode, ActionKnown, LevelKnown, WorkerDown
  <2>4. BlockKnown(n)'
    BY <1>2 DEF BlockKnown, NL, IV
  <2>5. BastsMeant(n)'
    BY <1>1, <1>2, <2>1, <2>2 DEF dlmVars, SoundNode, BastsMeant, InTheWay
  <2> QED
    BY <2>3, <2>4, <2>5 DEF SoundNode
<1> QED
  BY <1>1, <1>3, <1>4, StutterAsked, OneSound DEF SoundInv, dlmVars

\* What the DLM did to the requests of other nodes
LEMMA SameAsked ==
  ASSUME NEW m, DlmSame(m), highestBlocked'[m] = highestBlocked[m],
         inflight' \in {inflight, NoBast}
  PROVE  AskedSame(m)
BY DEF DlmSame, AskedSame, Answered

\* The level goes down: the node is still in the way of who blocked it.
LEMMA MayGoDown ==
  ASSUME GlueInv, SoundInv, NEW n \in Node, evictPc[n] = "live",
         MayDownconvert(n)
  PROVE  level[n] > HighestCompat(blocking[n]) /\ ~DownconvertBug(n)
<1>1. "BLOCKED" \in flags[n] /\ "BUSY" \notin flags[n]
  BY DEF MayDownconvert, Settled
<1>2. SoundNode(n) /\ ~Lowering(n) /\ ~Answered(n) /\ n \notin Range(blocked)
  BY <1>1, Free DEF GlueInv, LiveNodes, SoundInv, Queued
<1>3. InTheWay(n, blocking[n]) /\ level[n] = type[n]
  BY <1>1, <1>2 DEF SoundNode, BastsMeant, LevelKnown
<1>4. /\ level[n] \in AnyMode /\ blocking[n] \in AnyMode
      /\ level[n] \in Int /\ HighestCompat(blocking[n]) \in Int
      /\ blocking[n] \in Int
  BY Levels DEF GlueInv
<1>5. level[n] > HighestCompat(blocking[n]) /\ blocking[n] > NL
  BY <1>3, <1>4, KeptModes DEF InTheWay
<1> QED
  BY <1>4, <1>5 DEF DownconvertBug, NL

LEMMA DcWorkerStartSound ==
  ASSUME GlueInv, SoundInv, NEW n \in Node, DcWorkerStart(n)
  PROVE  SoundInv'
<1>1. /\ UNCHANGED <<dlmVars, level, blocking, action, flags, onList, evictPc>>
      /\ MayDownconvert(n) /\ dcPc[n] = "unblock"
  BY DEF DcWorkerStart, DcRuns, lockVars
<1>2. /\ dcSaved'[n].blocking = blocking[n] /\ dcSaved'[n].level = level[n]
      /\ dcPc'[n] = "worker"
      /\ \A m \in Node \ {n} : dcSaved'[m] = dcSaved[m] /\ dcPc'[m] = dcPc[m]
  BY DEF GlueInv, TypeOK, DcWorkerStart, DcGoto
<1>3. \A m \in Node \ {n} : LocalSame(m)
  BY <1>1, <1>2 DEF LocalSame
<1>4. ASSUME evictPc[n] = "live" PROVE SoundNode(n)'
  <2>1. SoundNode(n)
    BY <1>4 DEF SoundInv
  <2>2. (Answered(n)' <=> Answered(n)) /\ (Lowering(n)' <=> Lowering(n))
    BY <1>1 DEF dlmVars, Answered, Lowering
  <2>3. ActionKnown(n)' /\ LevelKnown(n)' /\ BlockKnown(n)'
    BY <1>1, <2>1, <2>2
       DEF dlmVars, SoundNode, ActionKnown, LevelKnown, BlockKnown
  <2>4. BastsMeant(n)'
    BY <1>1, <2>1, <2>2 DEF dlmVars, SoundNode, BastsMeant, InTheWay
  <2>5. WorkerDown(n)'
    BY <1>1, <1>2, <1>4, MayGoDown DEF WorkerDown
  <2> QED
    BY <2>3, <2>4, <2>5 DEF SoundNode
<1> QED
  BY <1>1, <1>3, <1>4, StutterAsked, OneSound DEF SoundInv, dlmVars

LEMMA PrepareSound ==
  ASSUME GlueInv, SoundInv, NEW n \in Node, PrepareDownconvert(n),
         UNCHANGED <<dlmVars, level, blocking, onList, dcSaved, evictPc>>,
         dcPc[n] # "idle",
         evictPc[n] = "live" => "BLOCKED" \in flags[n] /\ "BUSY" \notin flags[n]
  PROVE  SoundInv'
<1>1. /\ action'[n] = "DOWNCONVERT"
      /\ flags'[n] = flags[n] \union {"BUSY", "PENDING"}
      /\ dcPc'[n] = "dlm"
      /\ \A m \in Node \ {n} : /\ action'[m] = action[m]
                               /\ flags'[m] = flags[m]
                               /\ dcPc'[m] = dcPc[m]
  BY DEF GlueInv, TypeOK, PrepareDownconvert, SetFlags, DcGoto
<1>2. \A m \in Node \ {n} : LocalSame(m)
  BY <1>1 DEF LocalSame
<1>3. ASSUME evictPc[n] = "live" PROVE SoundNode(n)'
  <2>1. SoundNode(n) /\ ~Lowering(n) /\ ~Answered(n)
    BY <1>3, Free DEF GlueInv, LiveNodes, SoundInv
  <2>2. ~Answered(n)' /\ Lowering(n)'
    BY <1>1, <2>1 DEF dlmVars, Answered, Lowering
  <2>3. "ATTACHED" \in flags[n]
    BY <1>3, <2>1 DEF SoundNode, BlockKnown
  <2>4. ActionKnown(n)'
    BY <1>1, <2>1, <2>3 DEF SoundNode, ActionKnown
  <2>5. LevelKnown(n)' /\ BlockKnown(n)' /\ WorkerDown(n)'
    BY <1>1, <2>1, <2>2
       DEF dlmVars, SoundNode, LevelKnown, BlockKnown, WorkerDown
  <2>6. BastsMeant(n)'
    BY <1>1, <2>1, <2>2 DEF dlmVars, SoundNode, BastsMeant, InTheWay
  <2> QED
    BY <2>4, <2>5, <2>6 DEF SoundNode
<1> QED
  BY <1>2, <1>3, StutterAsked, OneSound DEF SoundInv, dlmVars

LEMMA DcDownconvertSound ==
  ASSUME GlueInv, SoundInv, NEW n \in Node, DcDownconvert(n)
  PROVE  SoundInv'
<1>1. /\ UNCHANGED <<dlmVars, level, blocking, onList, dcSaved, evictPc>>
      /\ PrepareDownconvert(n) /\ MayDownconvert(n) /\ dcPc[n] # "idle"
  BY DEF DcDownconvert, DcRuns
<1>2. "BLOCKED" \in flags[n] /\ "BUSY" \notin flags[n]
  BY <1>1 DEF MayDownconvert, Settled
<1> QED
  BY <1>1, <1>2, PrepareSound

LEMMA DcWorkerDoneSound ==
  ASSUME GlueInv, SoundInv, NEW n \in Node, DcWorkerDone(n)
  PROVE  SoundInv'
<1>1. /\ UNCHANGED <<dlmVars, level, blocking, onList, dcSaved, evictPc>>
      /\ dcPc[n] = "worker"
  BY DEF DcWorkerDone, DcRuns
<1>2. CASE WorkerStillValid(n) /\ ~DownconvertBug(n) /\ PrepareDownconvert(n)
  <2>1. LooksTheSame(n)
    BY <1>2, Levels
       DEF GlueInv, WorkerStillValid, DownconvertBug, LooksTheSame, NL
  <2>2. evictPc[n] = "live" => "BLOCKED" \in flags[n] /\ "BUSY" \notin flags[n]
    BY <1>1, <2>1 DEF GlueInv, LiveNodes, NodeInv, WorkerSafe
  <2> QED
    BY <1>1, <1>2, <2>2, PrepareSound
<1>3. CASE DcGoto(n, "unblock") /\ UNCHANGED <<action, flags>>
  <2>1. dcPc'[n] = "unblock" /\ \A m \in Node \ {n} : dcPc'[m] = dcPc[m]
    BY <1>3 DEF GlueInv, TypeOK, DcGoto
  <2>2. \A m \in Node : LocalSame(m)
    BY <1>1, <1>3, <2>1 DEF LocalSame
  <2> QED
    BY <1>1, <2>2, StutterAsked, AllSound DEF SoundInv, dlmVars
<1> QED
  BY <1>2, <1>3 DEF DcWorkerDone

\* A downconvert is granted at once; a BAST for it is no longer meant, and
\* dlm_queue_ast() or the AST will say so.
LEMMA DcDlmCallSound ==
  ASSUME GlueInv, SoundInv, NEW n \in Node, DcDlmCall(n)
  PROVE  SoundInv'
<1>1. /\ UNCHANGED <<level, requested, blocking, action, flags, onList, dcSaved,
                     evictPc>>
      /\ dcPc[n] = "dlm" /\ DlmConvert(n, requested[n])
      /\ UNCHANGED <<highestBlocked, inflight, thread>>
  BY DEF DcDlmCall, DcRuns, DlmConvert, lockVars
<1>2. dcPc'[n] = "called" /\ \A m \in Node \ {n} : dcPc'[m] = dcPc[m]
  BY DEF GlueInv, TypeOK, DcDlmCall, DcGoto
<1>3. requested[n] \in Mode
  BY <1>1 DEF GlueInv, DcAsks
<1>4. /\ \A m \in Node \ {n} : DlmSame(m)
      /\ n \notin Range(blocked')
      /\ \/ owed'[n] = "ast"
         \/ ~(requested[n] <= type[n])
  BY <1>1, <1>3, DlmConvertEffect DEF GlueInv
<1>5. \A m \in Node \ {n} : LocalSame(m) /\ AskedSame(m)
  BY <1>1, <1>2, <1>4, SameAsked DEF LocalSame
<1>6. ASSUME evictPc[n] = "live" PROVE SoundNode(n)'
  <2>1. SoundNode(n) /\ NodeInv(n)
    BY <1>6 DEF SoundInv, GlueInv, LiveNodes
  <2>2. Lowering(n) /\ ~Answered(n)
    BY <1>1, <2>1 DEF NodeInv, OneOwner, GoesDown, DcOwns, Out
  <2>3. requested[n] < level[n] /\ level[n] <= type[n]
    BY <2>1, <2>2 DEF NodeInv, GoesUp, GoesDown
  <2>4. requested[n] <= type[n]
    BY <2>3, Levels DEF GlueInv
  <2>5. owed'[n] = "ast" /\ Answered(n)' /\ Lowering(n)'
    BY <1>1, <1>4, <2>2, <2>4 DEF Answered, Lowering
  <2>6. ActionKnown(n)' /\ BlockKnown(n)' /\ WorkerDown(n)'
    BY <1>1, <1>2, <2>1 DEF SoundNode, ActionKnown, BlockKnown, WorkerDown
  <2>7. LevelKnown(n)'
    BY <1>4, <2>5 DEF LevelKnown
  <2>8. BastsMeant(n)'
    BY <1>1, <1>4, <2>1, <2>5 DEF SoundNode, BastsMeant
  <2> QED
    BY <2>6, <2>7, <2>8 DEF SoundNode
<1> QED
  BY <1>1, <1>5, <1>6, OneSound DEF SoundInv

LEMMA DcCancelCallSound ==
  ASSUME GlueInv, SoundInv, NEW n \in Node, DcCancelCall(n)
  PROVE  SoundInv'
<1>1. /\ UNCHANGED <<level, requested, blocking, action, flags, onList, dcSaved,
                     evictPc>>
      /\ dcPc[n] = "cancel" /\ DlmCancel(n)
      /\ UNCHANGED <<highestBlocked, inflight, thread>>
  BY DEF DcCancelCall, DcRuns, DlmCancel, lockVars
<1>2. dcPc'[n] \in {"unqueue", "cancelled"}
      /\ \A m \in Node \ {n} : dcPc'[m] = dcPc[m]
  BY DEF GlueInv, TypeOK, DcCancelCall, DcGoto
<1>3. /\ \A m \in Node \ {n} : DlmSame(m)
      /\ owed'[n] = owed[n]
      /\ n \in pendingAsts' <=> n \in pendingAsts
      /\ \/ /\ n \in Range(converting)
            /\ type'[n] = type[n]
            /\ n \notin Range(blocked')
         \/ /\ n \in Range(blocked)
            /\ type'[n] = IV
            /\ n \notin Range(blocked')
         \/ DlmSame(n)
  BY <1>1, DlmCancelEffect DEF GlueInv
<1>4. \A m \in Node : LocalSame(m)
  BY <1>1, <1>2 DEF LocalSame
<1>5. \A m \in Node \ {n} : AskedSame(m)
  BY <1>1, <1>3, SameAsked
<1>6. ASSUME evictPc[n] = "live" PROVE SoundNode(n)'
  <2>1. SoundNode(n) /\ NodeInv(n)
    BY <1>6 DEF SoundInv, GlueInv, LiveNodes
  <2>2. Answered(n)' <=> Answered(n)
    BY <1>3 DEF Answered
  <2>3. CASE DlmSame(n)
    BY <1>1, <1>4, <2>1, <2>3, SameAsked, SameSound
  <2>4. CASE n \in Range(converting) /\ type'[n] = type[n] /\ n \notin Range(blocked')
    <3>1. n \notin Range(blocked)
      BY <2>4 DEF GlueInv, DlmInv, OneList, OnLists
    <3>2. AskedSame(n)
      BY <1>1, <1>3, <2>2, <2>4, <3>1 DEF AskedSame
    <3> QED
      BY <1>4, <2>1, <3>2, SameSound
  <2>5. CASE n \in Range(blocked) /\ type'[n] = IV /\ n \notin Range(blocked')
    <3>1. level[n] = IV /\ "ATTACHED" \notin flags[n] /\ "BLOCKED" \notin flags[n]
      BY <2>1, <2>5 DEF SoundNode, ActionKnown, LevelKnown, BlockKnown
    <3>2. highestBlocked[n] = IV /\ ~(inflight # NoBast /\ inflight.node = n)
      BY <2>1, <2>5 DEF SoundNode, BastsMeant
    <3>3. ActionKnown(n)' /\ BlockKnown(n)' /\ WorkerDown(n)'
      BY <1>1, <1>2, <2>1
         DEF SoundNode, ActionKnown, BlockKnown, WorkerDown
    <3>4. LevelKnown(n)'
      BY <1>1, <2>5, <3>1 DEF LevelKnown
    <3>5. BastsMeant(n)'
      BY <1>1, <3>1, <3>2 DEF BastsMeant
    <3> QED
      BY <3>3, <3>4, <3>5 DEF SoundNode
  <2> QED
    BY <1>3, <2>3, <2>4, <2>5
<1> QED
  BY <1>1, <1>4, <1>5, <1>6, OneSound DEF SoundInv

LEMMA DlmLockCallSound ==
  ASSUME GlueInv, SoundInv, NEW t \in Task, DlmLockCall(t)
  PROVE  SoundInv'
<1> DEFINE n == NodeOf[t]
           l == want[t].level
<1>1. n \in Node /\ t \in TasksOf(n) /\ evictPc[n] = "live"
  BY NodeOfAssumption DEF GlueInv, UsersLive, DlmLockCall, TasksOf
<1>2. /\ UNCHANGED <<level, requested, blocking, action, flags, onList, dcPc,
                     dcSaved, evictPc>>
      /\ UNCHANGED <<highestBlocked, inflight, thread>>
  BY DEF DlmLockCall, DlmNotQueued, DlmLock, DlmConvert, lockVars, dcVars
<1>3. /\ pc[t] = "dlm" /\ l \in Mode
  BY Wants DEF GlueInv, DlmLockCall
<1>4. \A m \in Node : LocalSame(m)
  BY <1>2 DEF LocalSame
<1>5. NodeInv(n) /\ SoundNode(n)
  BY <1>1 DEF GlueInv, LiveNodes, SoundInv
<1>6. t \in Askers(n) /\ ~Out(n) /\ ~Answered(n) /\ n \notin Range(blocked)
  BY <1>1, <1>3, <1>5 DEF NodeInv, OneOwner, Askers, AskPc, Out, Queued
<1>7. /\ ~Lowering(n) /\ requested[n] = l /\ level[n] < l
      /\ level[n] = type[n]
      /\ action[n] = "ATTACH" => "ATTACHED" \notin flags[n]
  BY <1>3, <1>5, <1>6
     DEF NodeInv, GoesUp, GoesDown, DcOwns, OneOwner, SoundNode, LevelKnown
<1> HIDE DEF n, l
<1>8. ~Lowering(n)'
  BY <1>2, <1>7 DEF Lowering
<1>9. ActionKnown(n)' /\ BlockKnown(n)' /\ WorkerDown(n)'
  BY <1>2, <1>5 DEF SoundNode, ActionKnown, BlockKnown, WorkerDown
<1>10. \A x \in AnyMode : InTheWay(n, x) =>
         \A m \in AnyMode : type[n] <= m => ~Compatible(m, x)
  BY <1>1, Levels, MoreInTheWay DEF GlueInv, InTheWay
<1>11. /\ "BLOCKED" \in flags[n] => InTheWay(n, blocking[n])
       /\ highestBlocked[n] # IV => InTheWay(n, highestBlocked[n])
       /\ inflight # NoBast /\ inflight.node = n => InTheWay(n, inflight.level)
  BY <1>5, <1>6, <1>7 DEF SoundNode, BastsMeant, Answered
<1>12. CASE DlmNotQueued(n)
  <2>1. \A m \in Node : AskedSame(m)
    BY <1>1, <1>2, <1>12, DlmNotQueuedSame, SameAsked
  <2> QED
    BY <1>2, <1>4, <2>1, AllSound DEF SoundInv
<1>13. CASE action[n] = "ATTACH" /\ DlmLock(n, l)
  <2>1. type[n] = IV
    BY <1>5, <1>6, <1>7, <1>13 DEF NodeInv, Agrees
  <2>2. /\ \A m \in Node \ {n} : DlmSame(m)
        /\ \/ n \notin Range(blocked') /\ owed'[n] = "ast"
           \/ n \in Range(blocked') /\ owed'[n] = "kick"
    BY <1>1, <1>3, <1>13, <2>1, DlmLockEffect DEF GlueInv
  <2>3. \A m \in Node \ {n} : AskedSame(m)
    BY <1>2, <2>2, SameAsked
  <2>4. \A x : ~InTheWay(n, x)
    BY <2>1 DEF InTheWay, Compatible, IV, NL
  <2>5. LevelKnown(n)'
    BY <1>2, <1>7, <2>1, <2>2 DEF LevelKnown, Answered
  <2>6. BastsMeant(n)'
    BY <1>2, <1>11, <2>4 DEF BastsMeant
  <2> QED
    BY <1>1, <1>2, <1>4, <1>9, <2>3, <2>5, <2>6, OneSound
    DEF SoundInv, SoundNode
<1>14. CASE DlmConvert(n, l)
  <2>1. /\ \A m \in Node \ {n} : DlmSame(m)
        /\ n \notin Range(blocked')
        /\ n \in pendingAsts' <=> n \in pendingAsts
        /\ \/ type'[n] = l /\ owed'[n] = "ast"
           \/ type'[n] = type[n] /\ owed'[n] = "kick"
    BY <1>1, <1>3, <1>14, DlmConvertEffect DEF GlueInv
  <2>2. \A m \in Node \ {n} : AskedSame(m)
    BY <1>2, <2>1, SameAsked
  <2>3. LevelKnown(n)'
    BY <1>2, <1>6, <1>7, <2>1 DEF LevelKnown, Answered
  <2>4. type[n] <= type'[n] /\ type'[n] \in AnyMode
    BY <1>1, <1>3, <1>7, <2>1, Levels, ModeOrder DEF GlueInv
  <2>5. \A x \in AnyMode : InTheWay(n, x) => InTheWay(n, x)'
    BY <1>10, <2>4 DEF InTheWay
  <2>6. /\ blocking[n] \in AnyMode /\ highestBlocked[n] \in AnyMode
        /\ inflight # NoBast => inflight.level \in AnyMode
    BY <1>1, Levels DEF GlueInv, TypeOK, DlmTypeOK, AnyMode
  <2>7. BastsMeant(n)'
    BY <1>2, <1>5, <1>11, <2>1, <2>5, <2>6 DEF SoundNode, BastsMeant
  <2> QED
    BY <1>1, <1>2, <1>4, <1>9, <2>2, <2>3, <2>7, OneSound
    DEF SoundInv, SoundNode
<1> QED
  <2>1. \/ DlmNotQueued(n)
        \/ action[n] = "ATTACH" /\ DlmLock(n, l)
        \/ DlmConvert(n, l)
    BY DEF n, l, DlmLockCall
  <2> QED
    BY <1>12, <1>13, <1>14, <2>1

\* dlm_queue_ast() drops a BAST that the mode just granted has answered.
LEMMA PostSound ==
  ASSUME GlueInv, SoundInv, NEW n \in Node, Post(n)
  PROVE  SoundInv'
<1>1. UNCHANGED <<level, blocking, action, flags, onList, dcPc, dcSaved, evictPc>>
  BY DEF Post, glueVars, lockVars, dcVars
<1>2. UNCHANGED <<inflight, thread>> /\ DlmPost(n) /\ DlmInv
  BY DEF Post, DlmPost, GlueInv
<1>3. \A m \in Node \ {n} : highestBlocked'[m] = highestBlocked[m]
  BY <1>2 DEF DlmInv, DlmTypeOK, DlmPost
<1>4. /\ \A m \in Node \ {n} : DlmSame(m)
      /\ type'[n] = type[n]
      /\ n \in granted' <=> n \in granted
      /\ n \in Range(blocked') <=> n \in Range(blocked)
      /\ owed'[n] = "none"
      /\ n \in pendingAsts' <=> (n \in pendingAsts \/ owed[n] = "ast")
  BY <1>2, DlmPostEffect
<1>5. \A m \in Node : LocalSame(m)
  BY <1>1 DEF LocalSame
<1>6. \A m \in Node \ {n} : AskedSame(m)
  BY <1>2, <1>3, <1>4, SameAsked
<1>7. ASSUME evictPc[n] = "live" PROVE SoundNode(n)'
  <2>1. SoundNode(n) /\ NodeInv(n)
    BY <1>7 DEF SoundInv, GlueInv, LiveNodes
  <2>2. /\ Answered(n)' <=> Answered(n)
        /\ Lowering(n)' <=> Lowering(n)
    BY <1>1, <1>4 DEF Answered, Lowering
  <2>3. ActionKnown(n)' /\ LevelKnown(n)' /\ BlockKnown(n)' /\ WorkerDown(n)'
    BY <1>1, <1>4, <2>1, <2>2
       DEF SoundNode, ActionKnown, LevelKnown, BlockKnown, WorkerDown
  <2>4. highestBlocked'[n] # IV =>
          /\ highestBlocked'[n] = highestBlocked[n]
          /\ owed[n] = "ast" => ~BastObsolete(n)
    BY <1>2 DEF DlmInv, DlmTypeOK, DlmPost
  <2>5. ASSUME owed[n] = "ast", highestBlocked[n] > NL, ~BastObsolete(n)
        PROVE  InTheWay(n, highestBlocked[n])
    <3>1. n \in granted /\ type[n] # IV
      BY <2>1, <2>5
      DEF NodeInv, Agrees, Answered, GlueInv, DlmInv, OneList, OnLists
    <3>2. type[n] \in AnyMode /\ highestBlocked[n] \in AnyMode
      BY DEF GlueInv, TypeOK, DlmTypeOK
    <3> QED
      BY <2>5, <3>1, <3>2
         DEF BastObsolete, InTheWay, Compatible, AnyMode, Mode, IV, NL, PR, EX
  <2>6. highestBlocked'[n] # IV =>
          /\ highestBlocked'[n] > NL
          /\ n \notin Range(blocked')
          /\ InTheWay(n, highestBlocked[n])'
    BY <1>4, <2>1, <2>4, <2>5 DEF SoundNode, BastsMeant, InTheWay
  <2>7. BastsMeant(n)'
    BY <1>1, <1>2, <1>4, <2>1, <2>2, <2>6 DEF SoundNode, BastsMeant, InTheWay
  <2> QED
    BY <2>3, <2>7 DEF SoundNode
<1> QED
  BY <1>1, <1>2, <1>5, <1>6, <1>7, OneSound DEF SoundInv

LEMMA ConvertSound ==
  ASSUME GlueInv, SoundInv, Thread, ShuffleConvert
  PROVE  SoundInv'
<1> PICK n : n = ConvertTarget
  OBVIOUS
<1>1. UNCHANGED <<level, blocking, action, flags, onList, dcPc, dcSaved, evictPc>>
  BY DEF Thread, glueVars, lockVars, dcVars
<1>2. /\ thread = "shuffle" /\ inflight = NoBast /\ highestBlocked[n] = IV
      /\ UNCHANGED <<blocked, owed, highestBlocked, inflight, thread>>
      /\ type' = [type EXCEPT ![n] = convert[n]]
      /\ convert' = [convert EXCEPT ![n] = IV]
      /\ granted' = granted \union {n}
      /\ pendingAsts' = pendingAsts \union {n}
      /\ converting # <<>> /\ converting' = Tail(converting)
  BY DEF ShuffleConvert, SoundInv
<1>3. /\ n \in Node /\ n \in Range(converting)
      /\ Range(converting') = Range(converting) \ {n}
  BY <1>2, TailRange DEF GlueInv, DlmInv, DlmTypeOK, OneList, ConvertTarget
<1>4. n \notin Range(blocked)
  BY <1>3 DEF GlueInv, DlmInv, OneList, OnLists
<1>5. /\ type'[n] = convert[n]
      /\ \A m \in Node \ {n} : type'[m] = type[m]
  BY <1>2, <1>3 DEF GlueInv, DlmInv, DlmTypeOK
<1>6. \A m \in Node : LocalSame(m)
  BY <1>1 DEF LocalSame
<1>7. \A m \in Node \ {n} : AskedSame(m)
  BY <1>2, <1>5 DEF AskedSame, Answered
<1>8. ASSUME evictPc[n] = "live" PROVE SoundNode(n)'
  <2>1. SoundNode(n) /\ NodeInv(n)
    BY <1>3, <1>8 DEF SoundInv, GlueInv, LiveNodes
  <2>2. ~Answered(n) /\ ~Lowering(n) /\ level[n] < requested[n]
        /\ convert[n] = requested[n]
    BY <1>3, <2>1 DEF NodeInv, OneOwner, Agrees, GoesUp, GoesDown, Out, Queued,
                      DcOwns
  <2>3. level[n] = type[n] /\ type[n] <= type'[n] /\ type'[n] \in AnyMode
        /\ type[n] \in AnyMode
    BY <1>3, <1>4, <1>5, <2>1, <2>2, Levels, ModeOrder
       DEF SoundNode, LevelKnown, GlueInv
  <2>4. Answered(n)' /\ ~Lowering(n)'
    BY <1>1, <1>2, <2>2 DEF Answered, Lowering
  <2>5. ActionKnown(n)' /\ BlockKnown(n)' /\ WorkerDown(n)'
    BY <1>1, <2>1 DEF SoundNode, ActionKnown, BlockKnown, WorkerDown
  <2>6. LevelKnown(n)'
    BY <1>2, <1>4, <2>4 DEF LevelKnown
  <2>7. InTheWay(n, blocking[n]) => InTheWay(n, blocking[n])'
    <3>1. blocking[n] \in AnyMode /\ blocking'[n] = blocking[n]
      BY <1>1, <1>3, Levels DEF GlueInv
    <3> QED
      BY <2>3, <3>1, MoreInTheWay DEF InTheWay
  <2>8. BastsMeant(n)'
    BY <1>1, <1>2, <2>1, <2>2, <2>7 DEF SoundNode, BastsMeant
  <2> QED
    BY <2>5, <2>6, <2>8 DEF SoundNode
<1> QED
  BY <1>1, <1>2, <1>3, <1>6, <1>7, <1>8, OneSound

LEMMA BlockedSound ==
  ASSUME GlueInv, SoundInv, Thread, ShuffleBlocked
  PROVE  SoundInv'
<1> PICK n : n = BlockedTarget
  OBVIOUS
<1>1. UNCHANGED <<level, blocking, action, flags, onList, dcPc, dcSaved, evictPc>>
  BY DEF Thread, glueVars, lockVars, dcVars
<1>2. /\ thread = "shuffle" /\ inflight = NoBast
      /\ UNCHANGED <<type, owed, highestBlocked, inflight, thread>>
      /\ pendingAsts' = pendingAsts \union {n}
      /\ blocked # <<>> /\ blocked' = Tail(blocked)
  BY DEF ShuffleBlocked, SoundInv
<1>3. /\ n \in Node /\ n \in Range(blocked)
      /\ Range(blocked') = Range(blocked) \ {n}
  BY <1>2, TailRange DEF GlueInv, DlmInv, DlmTypeOK, OneList, BlockedTarget
<1>4. \A m \in Node : LocalSame(m)
  BY <1>1 DEF LocalSame
<1>5. \A m \in Node \ {n} : AskedSame(m)
  BY <1>2, <1>3 DEF AskedSame, Answered
<1>6. ASSUME evictPc[n] = "live" PROVE SoundNode(n)'
  <2>1. SoundNode(n)
    BY <1>3, <1>6 DEF SoundInv
  <2>2. /\ level[n] = IV /\ "BLOCKED" \notin flags[n]
        /\ highestBlocked[n] = IV
    BY <1>3, <2>1
       DEF SoundNode, ActionKnown, LevelKnown, BlockKnown, BastsMeant
  <2>3. ActionKnown(n)' /\ BlockKnown(n)' /\ WorkerDown(n)'
    BY <1>1, <2>1 DEF SoundNode, ActionKnown, BlockKnown, WorkerDown
  <2>4. LevelKnown(n)'
    BY <1>2, <1>3 DEF LevelKnown, Answered
  <2>5. BastsMeant(n)'
    BY <1>1, <1>2, <2>2 DEF BastsMeant
  <2> QED
    BY <2>3, <2>4, <2>5 DEF SoundNode
<1> QED
  BY <1>1, <1>2, <1>3, <1>4, <1>5, <1>6, OneSound

\* Who is told is in the way of the head of a queue.
LEMMA RaisedMeant ==
  ASSUME NEW m \in Node, NEW hb, NEW ls, NEW mode \in AnyMode,
         m \in ls => m \in OnLists /\ ~Compatible(type[m], mode),
         hb[m] # IV =>
           m \notin Range(blocked) /\ hb[m] > NL
             /\ (InTheWay(m, hb[m]) \/ (owed[m] = "ast" /\ Lowering(m))),
         GlueInv
  PROVE  Raised(hb, ls, mode)[m] # IV =>
           /\ m \notin Range(blocked) /\ Raised(hb, ls, mode)[m] > NL
           /\ \/ InTheWay(m, Raised(hb, ls, mode)[m])
              \/ owed[m] = "ast" /\ Lowering(m)
<1>1. CASE m \in ls /\ hb[m] < mode
  <2>1. Raised(hb, ls, mode)[m] = mode
    BY <1>1 DEF Raised
  <2>2. m \notin Range(blocked)
    BY <1>1 DEF GlueInv, DlmInv, OneList
  <2>3. mode > NL /\ ~Compatible(type[m], mode)
    BY <1>1, ModeOrder DEF Compatible, NL
  <2> QED
    BY <2>1, <2>2, <2>3 DEF InTheWay
<1>2. CASE ~(m \in ls /\ hb[m] < mode)
  <2>1. Raised(hb, ls, mode)[m] = hb[m]
    BY <1>2 DEF Raised
  <2> QED
    BY <2>1
<1> QED
  BY <1>1, <1>2

LEMMA ToldSound ==
  ASSUME GlueInv, SoundInv, Thread, ShuffleBasts
  PROVE  SoundInv'
<1> DEFINE told == IF converting = <<>> THEN highestBlocked
                   ELSE Raised(highestBlocked, ConvertObstacles,
                               convert[ConvertTarget])
           Meant(hb, m) == hb[m] # IV =>
             m \notin Range(blocked) /\ hb[m] > NL
               /\ (InTheWay(m, hb[m]) \/ (owed[m] = "ast" /\ Lowering(m)))
<1>1. UNCHANGED <<level, blocking, action, flags, onList, dcPc, dcSaved, evictPc>>
  BY DEF Thread, glueVars, lockVars, dcVars
<1>2. /\ thread = "shuffle" /\ inflight = NoBast
      /\ UNCHANGED <<type, granted, converting, blocked, owed, pendingAsts,
                     inflight>>
      /\ highestBlocked' = IF blocked = <<>> THEN told
                           ELSE Raised(told, BlockedObstacles,
                                       type[BlockedTarget])
  BY DEF ShuffleBasts, SoundInv
<1>3. ASSUME NEW m \in Node, Meant(highestBlocked, m)
      PROVE  Meant(highestBlocked', m)
  <2>1. Meant(told, m)
    <3>1. CASE converting = <<>>
      BY <1>3, <3>1
    <3>2. CASE converting # <<>>
      <4>1. ConvertTarget \in Node
        BY <3>2, TailRange
        DEF GlueInv, DlmInv, DlmTypeOK, OneList, ConvertTarget
      <4>2. convert[ConvertTarget] \in AnyMode
        BY <4>1 DEF GlueInv, DlmInv, DlmTypeOK
      <4>3. m \in ConvertObstacles =>
              m \in OnLists /\ ~Compatible(type[m], convert[ConvertTarget])
        BY <3>2 DEF ConvertObstacles, Obstacles
      <4> QED
        BY <1>3, <3>2, <4>2, <4>3, RaisedMeant
    <3> QED
      BY <3>1, <3>2
  <2> HIDE DEF told
  <2>2. CASE blocked = <<>>
    BY <1>2, <2>1, <2>2
  <2>3. CASE blocked # <<>>
    <3>1. BlockedTarget \in Node
      BY <2>3, TailRange DEF GlueInv, DlmInv, DlmTypeOK, OneList, BlockedTarget
    <3>2. type[BlockedTarget] \in AnyMode
      BY <3>1 DEF GlueInv, DlmInv, DlmTypeOK
    <3>3. m \in BlockedObstacles =>
            m \in OnLists /\ ~Compatible(type[m], type[BlockedTarget])
      BY <2>3 DEF BlockedObstacles, Obstacles
    <3>4. highestBlocked' = Raised(told, BlockedObstacles, type[BlockedTarget])
      BY <1>2, <2>3
    <3> QED
      BY <2>1, <3>2, <3>3, <3>4, RaisedMeant
  <2> QED
    BY <2>2, <2>3
<1> HIDE DEF told
<1>4. ASSUME NEW m \in Node, evictPc[m] = "live" PROVE SoundNode(m)'
  <2>1. SoundNode(m)
    BY <1>4 DEF SoundInv
  <2>2. /\ Answered(m)' <=> Answered(m)
        /\ Lowering(m)' <=> Lowering(m)
        /\ \A l : InTheWay(m, l)' <=> InTheWay(m, l)
    BY <1>1, <1>2 DEF Answered, Lowering, InTheWay
  <2>3. ActionKnown(m)' /\ LevelKnown(m)' /\ BlockKnown(m)' /\ WorkerDown(m)'
    BY <1>1, <1>2, <2>1, <2>2
       DEF SoundNode, ActionKnown, LevelKnown, BlockKnown, WorkerDown
  <2>4. Meant(highestBlocked', m)
    BY <1>3, <2>1 DEF SoundNode, BastsMeant
  <2>5. BastsMeant(m)'
    BY <1>1, <1>2, <2>1, <2>2, <2>4 DEF SoundNode, BastsMeant
  <2> QED
    BY <2>3, <2>5 DEF SoundNode
<1> QED
  BY <1>1, <1>2, <1>4 DEF SoundInv

LEMMA TakeBastSound ==
  ASSUME GlueInv, SoundInv, Thread, NEW n \in Node, TakeBast(n)
  PROVE  SoundInv'
<1>1. UNCHANGED <<level, blocking, action, flags, onList, dcPc, dcSaved, evictPc>>
  BY DEF Thread, glueVars, lockVars, dcVars
<1>2. /\ inflight = NoBast /\ highestBlocked[n] # IV
      /\ UNCHANGED <<type, blocked, owed, pendingAsts>>
      /\ inflight' = [node |-> n, level |-> highestBlocked[n]]
      /\ thread' = "basts"
  BY DEF TakeBast, PendingBasts
<1>3. /\ highestBlocked'[n] = IV
      /\ \A m \in Node \ {n} : highestBlocked'[m] = highestBlocked[m]
  BY DEF TakeBast, GlueInv, DlmInv, DlmTypeOK
<1>4. ASSUME NEW m \in Node, evictPc[m] = "live" PROVE SoundNode(m)'
  <2>1. SoundNode(m)
    BY <1>4 DEF SoundInv
  <2>2. /\ Answered(m)' <=> Answered(m)
        /\ Lowering(m)' <=> Lowering(m)
    BY <1>1, <1>2 DEF Answered, Lowering
  <2>3. ActionKnown(m)' /\ LevelKnown(m)' /\ BlockKnown(m)' /\ WorkerDown(m)'
    BY <1>1, <1>2, <2>1, <2>2
       DEF SoundNode, ActionKnown, LevelKnown, BlockKnown, WorkerDown
  <2>4. "BLOCKED" \in flags'[m] /\ ~Lowering(m)' => InTheWay(m, blocking[m])'
    BY <1>1, <1>2, <2>1, <2>2 DEF SoundNode, BastsMeant, InTheWay
  <2>5. highestBlocked'[m] # IV =>
          /\ highestBlocked'[m] > NL
          /\ m \notin Range(blocked')
          /\ InTheWay(m, highestBlocked[m])' \/ (owed'[m] = "ast" /\ Lowering(m)')
    BY <1>2, <1>3, <2>1, <2>2 DEF SoundNode, BastsMeant, InTheWay
  <2>6. inflight'.node = m =>
          /\ inflight'.level > NL
          /\ m \notin Range(blocked')
          /\ InTheWay(m, inflight.level)' \/ (Answered(m)' /\ Lowering(m)')
    BY <1>2, <2>1, <2>2 DEF SoundNode, BastsMeant, InTheWay, Answered
  <2>7. BastsMeant(m)'
    BY <2>4, <2>5, <2>6 DEF BastsMeant
  <2> QED
    BY <2>1, <2>3, <2>7 DEF SoundNode
<1> QED
  BY <1>1, <1>2, <1>4 DEF SoundInv

LEMMA ThreadSound ==
  ASSUME GlueInv, SoundInv, Thread
  PROVE  SoundInv'
<1>1. CASE ShuffleStart \/ FlushDone
  <2>1. /\ UNCHANGED <<type, blocked, owed, pendingAsts, highestBlocked, inflight>>
        /\ inflight = NoBast
    BY <1>1 DEF ShuffleStart, FlushDone, SoundInv
  <2>2. UNCHANGED evictPc /\ \A m \in Node : LocalSame(m)
    BY DEF Thread, glueVars, lockVars, dcVars, LocalSame
  <2>3. \A m \in Node : AskedSame(m)
    BY <2>1 DEF AskedSame, Answered
  <2> QED
    BY <2>1, <2>2, <2>3, AllSound
<1> QED
  BY <1>1, ConvertSound, BlockedSound, ToldSound, TakeBastSound
     DEF Thread, DlmThread

LEMMA LockingAstSound ==
  ASSUME GlueInv, SoundInv, NEW n \in Node, LockingAst(n)
  PROVE  SoundInv'
<1>1. /\ UNCHANGED <<requested, onList, dcPc, dcSaved, evictPc>>
      /\ ~AstBug(n)
  BY DEF LockingAst, dcVars
<1>2. /\ \A m \in Node \ {n} : DlmSame(m)
      /\ n \in pendingAsts /\ n \notin pendingAsts'
      /\ UNCHANGED <<type, blocked, owed>>
  BY DeliverAstEffect DEF LockingAst
<1>3. inflight = NoBast /\ UNCHANGED <<highestBlocked, inflight>>
  BY DEF LockingAst, DeliverAst, FlushingAsts, SoundInv
<1>4. /\ level'[n] = requested[n]
      /\ action'[n] = "INVALID"
      /\ blocking'[n] = IF SatisfiesBlocker(n) THEN NL ELSE blocking[n]
      /\ flags'[n] = AfterAction(n) \ {"PENDING"}
      /\ \A m \in Node \ {n} : /\ level'[m] = level[m]
                               /\ action'[m] = action[m]
                               /\ blocking'[m] = blocking[m]
                               /\ flags'[m] = flags[m]
  BY DEF GlueInv, TypeOK, LockingAst, SetFlags
<1>5. \A m \in Node \ {n} : LocalSame(m) /\ AskedSame(m)
  BY <1>1, <1>2, <1>3, <1>4, SameAsked DEF LocalSame
<1>6. ASSUME evictPc[n] = "live" PROVE SoundNode(n)'
  <2>1. SoundNode(n) /\ NodeInv(n)
    BY <1>6 DEF SoundInv, GlueInv, LiveNodes
  <2>2. /\ Answered(n) /\ owed[n] # "ast" /\ n \in granted
        /\ type[n] = requested[n]
    BY <1>2, <2>1 DEF NodeInv, OneOwner, Agrees, Answered
  <2>3. type[n] # IV /\ n \notin Range(blocked) /\ type[n] \in AnyMode
    BY <2>2, Levels DEF GlueInv, DlmInv, OneList, OnLists
  <2>4. ~Answered(n)' /\ ~Lowering(n)'
    BY <1>2, <1>4, <2>2 DEF Answered, Lowering
  <2>5. "ATTACHED" \in flags'[n] /\ "BUSY" \notin flags'[n]
    BY <1>1, <1>4 DEF AstBug, AfterAction, AfterAttach
  <2>6. "BLOCKED" \in flags'[n] <=> "BLOCKED" \in flags[n] /\ ~SatisfiesBlocker(n)
    BY <1>4 DEF AfterAction, AfterAttach, SatisfiesBlocker
  <2>7. ActionKnown(n)'
    BY <1>4, <2>2, <2>3, <2>5 DEF ActionKnown
  <2>8. LevelKnown(n)'
    BY <1>2, <1>4, <2>2, <2>3 DEF LevelKnown
  <2>9. BlockKnown(n)'
    BY <1>1, <1>4, <2>1, <2>5, <2>6 DEF SoundNode, BlockKnown, NL, IV
  <2>10. WorkerDown(n)'
    BY <1>1, <2>1 DEF SoundNode, WorkerDown
  <2>11. ASSUME "BLOCKED" \in flags[n], ~SatisfiesBlocker(n)
         PROVE  InTheWay(n, blocking[n])
    <3>1. CASE ~Lowering(n)
      BY <2>1, <2>11, <3>1 DEF SoundNode, BastsMeant
    <3>2. CASE Lowering(n)
      <4>1. blocking[n] > NL
        BY <2>1, <2>11 DEF SoundNode, BlockKnown
      <4>2. ~(type[n] <= HighestCompat(blocking[n]))
        BY <2>2, <2>11, <3>2 DEF SatisfiesBlocker, Lowering
      <4>3. type[n] > HighestCompat(blocking[n])
        BY <4>2, Levels DEF GlueInv
      <4> QED
        BY <4>1, <4>3, Levels, KeptModes DEF GlueInv, InTheWay
    <3> QED
      BY <3>1, <3>2
  <2>12. BastsMeant(n)'
    BY <1>2, <1>3, <1>4, <2>1, <2>2, <2>6, <2>11
       DEF SoundNode, BastsMeant, InTheWay
  <2> QED
    BY <2>7, <2>8, <2>9, <2>10, <2>12 DEF SoundNode
<1> QED
  BY <1>1, <1>3, <1>5, <1>6, OneSound

\* A BAST that finds the lock blocks it, for a mode that the node is in the way of.
LEMMA BlockingAstSound ==
  ASSUME Master \notin Node, GlueInv, SoundInv, NEW n \in Node, BlockingAst(n)
  PROVE  SoundInv'
<1>1. /\ UNCHANGED <<type, granted, converting, blocked, owed, pendingAsts,
                     highestBlocked, level, action, dcPc, dcSaved, evictPc>>
      /\ inflight.node = n /\ inflight' = NoBast
  BY DEF BlockingAst, DeliverBast, dcVars
<1>2. \A m \in Node : AskedSame(m)
  BY <1>1 DEF AskedSame, Answered
<1>3. CASE UNCHANGED <<blocking, flags, onList>>
  <2>1. \A m \in Node : LocalSame(m)
    BY <1>1, <1>3 DEF LocalSame
  <2> QED
    BY <1>1, <1>2, <2>1, AllSound
<1>4. CASE inflight = NoBast
  <2>1. inflight.level <= blocking[n]
    BY <1>4, Levels DEF GlueInv, NoBast, AnyMode, Mode, IV, NL, PR, EX
  <2>2. ~(inflight.level > blocking[n])
    BY <1>4, <2>1, Levels DEF GlueInv, NoBast, IV
  <2>3. UNCHANGED <<blocking, flags, onList>>
    BY <2>2 DEF BlockingAst, NeedsDownconvert, GlueInv, TypeOK
  <2> QED
    BY <1>3, <2>3
<1>5. CASE inflight # NoBast /\ BastFindsLock(n)
  <2> DEFINE l == inflight.level
             f == flags[n] \union {"BLOCKED"}
  <2>1. l \in Mode /\ l \in AnyMode /\ l \in Int
    BY <1>5, ModeOrder DEF GlueInv, TypeOK, DlmTypeOK
  <2>2. /\ blocking' = [blocking EXCEPT ![n] = IF l > @ THEN l ELSE @]
        /\ IF NeedsDownconvert(n, l)
           THEN /\ SetFlags(n, Scheduled(n, f))
                /\ onList' = [onList EXCEPT ![n] = ListedWhen(n, f)]
           ELSE UNCHANGED <<flags, mw, onList>>
    BY <1>5 DEF BlockingAst
  <2> HIDE DEF l
  <2>3. /\ blocking'[n] = IF l > blocking[n] THEN l ELSE blocking[n]
        /\ \A m \in Node \ {n} : /\ blocking'[m] = blocking[m]
                                 /\ flags'[m] = flags[m]
                                 /\ onList'[m] = onList[m]
    BY <2>2 DEF GlueInv, TypeOK, SetFlags
  <2>4. /\ flags'[n] \in {flags[n], Scheduled(n, f)}
        /\ NeedsDownconvert(n, l) => flags'[n] = Scheduled(n, f)
    BY <2>2 DEF GlueInv, TypeOK, SetFlags
  <2>5. /\ \A g \in {"ATTACHED", "BUSY"} : g \in flags'[n] <=> g \in flags[n]
        /\ "BLOCKED" \in flags[n] \/ NeedsDownconvert(n, l) =>
             "BLOCKED" \in flags'[n]
    BY <2>4 DEF Scheduled
  <2>6. \A m \in Node \ {n} : LocalSame(m)
    BY <1>1, <2>3 DEF LocalSame
  <2>7. ASSUME evictPc[n] = "live" PROVE SoundNode(n)'
    <3>1. SoundNode(n) /\ NodeInv(n)
      BY <2>7 DEF SoundInv, GlueInv, LiveNodes
    <3>2. /\ l > NL /\ n \notin Range(blocked)
          /\ InTheWay(n, l) \/ (Answered(n) /\ Lowering(n))
      BY <1>1, <1>5, <3>1 DEF SoundNode, BastsMeant, l
    <3>3. "ATTACHED" \in flags[n]
      <4>1. type[n] # IV /\ action[n] # "ATTACH"
        BY <1>5 DEF BastFindsLock
      <4>2. CASE "BUSY" \in flags[n]
        BY <3>1, <4>1, <4>2 DEF SoundNode, ActionKnown
      <4>3. CASE "BUSY" \notin flags[n]
        BY <3>1, <4>1, <4>3, Free DEF NodeInv, Agrees
      <4> QED
        BY <4>2, <4>3
    <3>4. blocking[n] \in AnyMode /\ blocking[n] \in Int
      BY Levels DEF GlueInv
    <3>5. /\ "BLOCKED" \in flags'[n] /\ blocking'[n] > NL
          /\ \/ blocking'[n] = l
             \/ blocking'[n] = blocking[n] /\ "BLOCKED" \in flags[n]
      <4>1. CASE l > blocking[n]
        <5>1. NeedsDownconvert(n, l)
          BY <2>1, <3>2, <3>4, <4>1
             DEF NeedsDownconvert, AnyMode, Mode, IV, NL, PR, EX, HighestCompat
        <5> QED
          BY <2>3, <2>5, <3>2, <4>1, <5>1
      <4>2. CASE ~(l > blocking[n])
        <5>1. blocking'[n] = blocking[n] /\ blocking[n] > NL
          BY <2>1, <2>3, <3>2, <3>4, <4>2 DEF NL
        <5> QED
          BY <2>5, <3>1, <5>1 DEF SoundNode, BlockKnown
      <4> QED
        BY <4>1, <4>2
    <3>6. /\ Answered(n)' <=> Answered(n)
          /\ Lowering(n)' <=> Lowering(n)
      BY <1>1 DEF Answered, Lowering
    <3>7. ActionKnown(n)' /\ LevelKnown(n)' /\ WorkerDown(n)'
      BY <1>1, <2>5, <3>1, <3>6
         DEF SoundNode, ActionKnown, LevelKnown, WorkerDown
    <3>8. BlockKnown(n)'
      <4>1. blocking'[n] # IV
        BY <3>5 DEF IV, NL
      <4> QED
        BY <2>5, <3>3, <3>5, <4>1 DEF BlockKnown
    <3>9. BastsMeant(n)'
      <4>1. ~Lowering(n)' => InTheWay(n, blocking[n])'
        BY <1>1, <3>1, <3>2, <3>5, <3>6 DEF SoundNode, BastsMeant, InTheWay
      <4> QED
        BY <1>1, <3>1, <3>6, <4>1 DEF SoundNode, BastsMeant, InTheWay
    <3> QED
      BY <3>7, <3>8, <3>9 DEF SoundNode
  <2> QED
    BY <1>1, <1>2, <2>6, <2>7, OneSound
<1> QED
  BY <1>3, <1>4, <1>5 DEF BlockingAst

LEMMA EvictSound ==
  ASSUME GlueInv, SoundInv, NEW n \in Node, EvictStart(n) \/ Evict(n)
  PROVE  SoundInv'
<1>1. /\ UNCHANGED <<blocking, action, dcPc, dcSaved>>
      /\ evictPc'[n] # "live"
      /\ \A m \in Node \ {n} :
           /\ evictPc'[m] = evictPc[m] /\ level'[m] = level[m]
           /\ flags'[m] = flags[m] /\ DlmSame(m)
  BY EvictOthers
<1>2. UNCHANGED <<onList, highestBlocked, inflight, thread>>
  BY DEF EvictStart, Evict, EvictUnqueued, EvictDrop, EvictUnlock,
         EvictUnlockAst, EvictFree, DlmUnlock, lockVars, dlmVars
<1>3. \A m \in Node \ {n} : LocalSame(m) /\ AskedSame(m)
  BY <1>1, <1>2, SameAsked DEF LocalSame
<1> QED
  BY <1>1, <1>2, <1>3, OneSound DEF SoundInv

LEMMA SoundStep ==
  ASSUME Master \notin Node, GlueInv, SoundInv, [Next]_<<vars, ltype>>
  PROVE  SoundInv'
<1>1. CASE UNCHANGED <<vars, ltype>>
  <2>1. UNCHANGED <<dlmVars, lockVars, dcVars, evictPc>>
    BY <1>1 DEF vars
  <2>2. \A m \in Node : LocalSame(m)
    BY <2>1 DEF LocalSame, lockVars, dcVars
  <2> QED
    BY <2>1, <2>2, StutterAsked, AllSound DEF SoundInv, dlmVars
<1>2. ASSUME NEW t \in Task, Enter(t) \/ AgainSignal(t) \/ Proceed(t)
      PROVE  SoundInv'
  BY <1>2, TaskStepSound, AgainRequestSound, DlmLockCallSound,
     RecoverFromErrorSound DEF Proceed
<1>3. ASSUME NEW n \in Node, OtherWake(n) \/ Downconvert(n)
      PROVE  SoundInv'
  BY <1>3, ThreadStepSound, DcAbortSound, DcWorkerStartSound,
     DcDownconvertSound, DcWorkerDoneSound, DcDlmCallSound, DcCancelCallSound,
     DcUnlockAstSound DEF Downconvert
<1> QED
  BY <1>1, <1>2, <1>3, EvictSound, ThreadSound, LockingAstSound,
     BlockingAstSound, PostSound DEF Next, Dlm

LEMMA SoundStarts ==
  ASSUME Init
  PROVE  SoundInv
<1>1. Range(<<>>) = {}
  BY DEF Range
<1>2. ASSUME NEW n \in Node PROVE SoundNode(n)
  <2>1. ActionKnown(n) /\ WorkerDown(n)
    BY <1>2 DEF Init, ActionKnown, WorkerDown
  <2>2. LevelKnown(n)
    BY <1>1, <1>2 DEF Init, DlmInit, LevelKnown
  <2>3. BlockKnown(n)
    BY <1>2 DEF Init, BlockKnown, IV, NL
  <2>4. BastsMeant(n)
    BY <1>2 DEF Init, DlmInit, BastsMeant
  <2> QED
    BY <2>1, <2>2, <2>3, <2>4 DEF SoundNode
<1> QED
  BY <1>2 DEF Init, DlmInit, SoundInv

\* What the assertions ask for, read off the invariants
LEMMA SoundNoBug ==
  ASSUME GlueInv, SoundInv
  PROVE  NoBug
<1> SUFFICES ASSUME NEW n \in Node, evictPc[n] = "live"
             PROVE  /\ n \in pendingAsts => ~AstBug(n)
                    /\ ~UnblockBug(n)
                    /\ ~CancelBug(n)
                    /\ DcAboutToPrepare(n) => ~DownconvertBug(n)
  BY DEF NoBug
<1>1. NodeInv(n) /\ SoundNode(n)
  BY DEF GlueInv, LiveNodes, SoundInv
<1>2. ASSUME n \in pendingAsts PROVE ~AstBug(n)
  <2>1. "BUSY" \in flags[n]
    BY <1>1, <1>2 DEF NodeInv, OneOwner, Out, Answered
  <2>2. Lowering(n) => "BLOCKED" \in flags[n] /\ blocking[n] > NL
    BY <1>1 DEF NodeInv, GoesDown, SoundNode, BlockKnown
  <2>3. Lowering(n) => ~(blocking[n] <= NL)
    BY <2>2, Levels DEF GlueInv, NL
  <2> QED
    BY <1>1, <2>1, <2>2, <2>3 DEF AstBug, SoundNode, ActionKnown, Lowering
<1>3. ~UnblockBug(n)
  <2>1. SUFFICES ASSUME dcPc[n] = "unblock" PROVE ~UnblockBug(n)
    BY DEF UnblockBug
  <2>2. "BLOCKED" \notin flags[n] => blocking[n] = NL
    BY <1>1, <2>1, Levels
       DEF GlueInv, SoundNode, BlockKnown, AnyMode, Mode, IV, NL, PR, EX
  <2>3. level[n] = NL => ExHolders(n) \union RoHolders(n) = {}
    <3>1. ASSUME NEW t \in TasksOf(n), pc[t] \in HoldsPc, level[n] = NL
          PROVE  FALSE
      <4>1. want[t].level <= NL
        BY <1>1, <3>1 DEF NodeInv, HoldersBelow
      <4> QED
        BY <4>1, Wants DEF GlueInv, TasksOf, NL, PR, EX
    <3> QED
      BY <3>1 DEF ExHolders, RoHolders, Holders
  <2> QED
    BY <2>2, <2>3 DEF UnblockBug
<1>4. ~CancelBug(n)
  <2>1. action[n] \in {"INVALID", "ATTACH", "CONVERT", "DOWNCONVERT"}
    BY DEF GlueInv, TypeOK
  <2> QED
    BY <1>1, <2>1 DEF CancelBug, SoundNode, ActionKnown, BlockKnown
<1>5. ASSUME DcAboutToPrepare(n) PROVE ~DownconvertBug(n)
  <2>1. CASE MayDownconvert(n)
    BY <2>1, MayGoDown
  <2>2. CASE dcPc[n] = "worker" /\ WorkerStillValid(n)
    <3>1. "BLOCKED" \in flags[n]
      BY <1>1, <2>2 DEF NodeInv, WorkerSafe
    <3>2. blocking[n] > NL /\ level[n] > HighestCompat(blocking[n])
      BY <1>1, <2>2, <3>1
         DEF SoundNode, BlockKnown, WorkerDown, WorkerStillValid
    <3> QED
      BY <3>2, Levels DEF GlueInv, DownconvertBug, NL
  <2> QED
    BY <1>5, <2>1, <2>2 DEF DcAboutToPrepare
<1> QED
  BY <1>2, <1>3, <1>4, <1>5

\* The assertions of ocfs2_locking_ast(), ocfs2_unblock_lock(),
\* ocfs2_prepare_cancel_convert() and ocfs2_prepare_downconvert() hold on the nodes
\* that do not master the lock.  On the master a BAST finds the lock without
\* dlm_proxy_ast_handler()'s look for it.
THEOREM AssertionsHold ==
  ASSUME Master \notin Node
  PROVE  Spec => []NoBug
<1>1. Init => SoundInv
  BY SoundStarts
<1>2. GlueInv /\ SoundInv /\ [Next]_<<vars, ltype>> => SoundInv'
  BY SoundStep
<1>3. GlueInv /\ SoundInv => NoBug
  BY SoundNoBug
<1> QED
  BY <1>1, <1>2, <1>3, GlueSafe, PTL DEF Spec

-----------------------------------------------------------------------------
(* Blocked locks and the downconvert thread                                *)

\* BlockedIsServiced, for one node
Serviced(n) ==
  ("BLOCKED" \in flags[n] /\ "FREEING" \notin flags[n]) =>
    \/ onList[n]
    \/ dcPc[n] \in {"unblock", "worker", "cancel", "cancelled", "dlm"}
    \/ dcPc[n] = "unqueue" /\ dcRequeue[n]
    \/ SatisfiesBlocker(n) /\ "BUSY" \in flags[n]

\* A cancel is followed by another look at the lock.  Before a downconvert is sent,
\* a BAST that asks for more has put the lock on the list again.
ServedNode(n) ==
  /\ evictPc[n] # "live" => "FREEING" \in flags[n]
  /\ dcPc[n] \in {"cancel", "cancelled"} => dcRequeue[n]
  /\ dcPc[n] = "dlm" /\ "FREEING" \notin flags[n] =>
       onList[n] \/ SatisfiesBlocker(n)
  /\ Serviced(n)

ServedInv == \A n \in Node : ServedNode(n)

\* The flags that this is about are as before.
ServedMarks ==
  \A n \in Node :
    /\ "FREEING" \in flags[n] <=> "FREEING" \in flags'[n]
    /\ "BLOCKED" \in flags[n] <=> "BLOCKED" \in flags'[n]
    /\ "BUSY" \in flags[n] <=> "BUSY" \in flags'[n]

LEMMA SetServedMarks ==
  ASSUME TypeOK, NEW n \in Node, NEW f, SetFlags(n, f),
         "FREEING" \in flags[n] <=> "FREEING" \in f,
         "BLOCKED" \in flags[n] <=> "BLOCKED" \in f,
         "BUSY" \in flags[n] <=> "BUSY" \in f
  PROVE  ServedMarks
BY DEF TypeOK, SetFlags, ServedMarks

LEMMA SameServed ==
  ASSUME ServedInv, ServedMarks,
         UNCHANGED <<level, evictPc, dcPc, dcRequeue, onList, action, requested,
                     blocking>>
  PROVE  ServedInv'
BY DEF ServedInv, ServedNode, Serviced, ServedMarks, SatisfiesBlocker

\* All but n are as before.
ServedOthers(n) ==
  \A m \in Node \ {n} :
    /\ evictPc'[m] = evictPc[m] /\ flags'[m] = flags[m]
    /\ dcPc'[m] = dcPc[m] /\ dcRequeue'[m] = dcRequeue[m]
    /\ onList'[m] = onList[m] /\ action'[m] = action[m]
    /\ requested'[m] = requested[m] /\ blocking'[m] = blocking[m]

LEMMA OneServed ==
  ASSUME ServedInv, NEW n \in Node, ServedOthers(n), ServedNode(n)'
  PROVE  ServedInv'
<1>1. ASSUME NEW m \in Node \ {n} PROVE ServedNode(m)'
  BY <1>1 DEF ServedInv, ServedOthers, ServedNode, Serviced, SatisfiesBlocker
<1> QED
  BY <1>1 DEF ServedInv

LEMMA TaskServed ==
  ASSUME GlueInv, ServedInv, NEW t \in Task,
         \/ Enter(t) \/ AgainSignal(t) \/ AgainWait(t) \/ AgainHold(t)
         \/ AgainGiveUp(t) \/ DlmLockCall(t) \/ DlmLockReturn(t)
         \/ NonBlockArrived(t) \/ NonBlockGiveUp(t)
         \/ ShouldRefresh(t) \/ CompleteRefresh(t) \/ Unlock(t)
  PROVE  ServedInv'
<1>0. TypeOK /\ NodeOf[t] \in Node
  BY NodeOfAssumption DEF GlueInv
<1>1. UNCHANGED <<level, evictPc, dcPc, dcRequeue, onList, action, requested,
                  blocking>>
  BY DEF Enter, AgainSignal, AgainWait, AgainHold, AgainGiveUp, DlmLockCall,
         DlmLockReturn, NonBlockArrived, NonBlockGiveUp, ShouldRefresh,
         CompleteRefresh, Unlock, lockVars, dcVars
<1>2. ServedMarks
  <2>1. CASE Enter(t) \/ NonBlockArrived(t) \/ DlmLockCall(t) \/ Unlock(t)
    BY <2>1 DEF Enter, NonBlockArrived, DlmLockCall, Unlock, lockVars,
                ServedMarks
  <2>2. CASE AgainWait(t)
    BY <1>0, <2>2 DEF AgainWait, TypeOK, ServedMarks
  <2>3. CASE NonBlockGiveUp(t)
    BY <1>0, <2>3 DEF NonBlockGiveUp, TypeOK, ServedMarks
  <2>4. CASE AgainSignal(t) \/ AgainHold(t) \/ AgainGiveUp(t)
    BY <1>0, <2>4, SetServedMarks
       DEF AgainSignal, AgainHold, AgainGiveUp, LeaveSection
  <2>5. CASE DlmLockReturn(t)
    BY <1>0, <2>5, SetServedMarks DEF DlmLockReturn, ClearPending
  <2>6. CASE CompleteRefresh(t)
    BY <1>0, <2>6, SetServedMarks DEF CompleteRefresh
  <2>7. CASE ShouldRefresh(t)
    <3>1. CASE UNCHANGED flags
      BY <3>1 DEF ServedMarks
    <3>2. CASE SetFlags(NodeOf[t], flags[NodeOf[t]] \union {"REFRESHING"})
      BY <1>0, <3>2, SetServedMarks
    <3> QED
      BY <2>7, <3>1, <3>2 DEF ShouldRefresh
  <2> QED
    BY <2>1, <2>2, <2>3, <2>4, <2>5, <2>6, <2>7
<1> QED
  BY <1>1, <1>2, SameServed

LEMMA AgainRequestServed ==
  ASSUME GlueInv, ServedInv, NEW t \in Task, AgainRequest(t)
  PROVE  ServedInv'
<1> DEFINE n == NodeOf[t]
<1>0. TypeOK /\ n \in Node /\ "BUSY" \notin flags[n]
  BY NodeOfAssumption DEF GlueInv, AgainRequest, MustWaitBusy
<1>1. evictPc[n] = "live" /\ NodeInv(n)
  BY <1>0 DEF GlueInv, UsersLive, LiveNodes, AgainRequest, AtAgain
<1>2. /\ UNCHANGED <<evictPc, dcPc, dcRequeue, onList, blocking>>
      /\ flags'[n] = flags[n] \union {"BUSY", "PENDING"}
      /\ ServedOthers(n)
  BY <1>0 DEF AgainRequest, SetFlags, TypeOK, dcVars, ServedOthers
<1>3. dcPc[n] # "dlm"
  BY <1>0, <1>1 DEF NodeInv, OneOwner, DcOwns
<1>4. ServedNode(n)'
  BY <1>0, <1>2, <1>3 DEF ServedInv, ServedNode, Serviced
<1> QED
  BY <1>0, <1>2, <1>4, OneServed

LEMMA RecoverFromErrorServed ==
  ASSUME GlueInv, ServedInv, NEW t \in Task, RecoverFromError(t)
  PROVE  ServedInv'
<1> DEFINE n == NodeOf[t]
<1>0. TypeOK /\ n \in Node
  BY NodeOfAssumption DEF GlueInv
<1>1. evictPc[n] = "live" /\ NodeInv(n)
  BY <1>0 DEF GlueInv, UsersLive, LiveNodes, RecoverFromError
<1>2. /\ UNCHANGED <<evictPc, dcPc, dcRequeue, onList, requested, blocking>>
      /\ flags'[n] = flags[n] \ {"BUSY", "UPCONVERT_FINISHING"}
      /\ ServedOthers(n)
  BY <1>0 DEF RecoverFromError, SetFlags, TypeOK, dcVars, ServedOthers
<1>3. t \in Askers(n)
  BY DEF RecoverFromError, Askers, AskPc, TasksOf
<1>4. dcPc[n] # "dlm" /\ ~SatisfiesBlocker(n)
  BY <1>1, <1>3
     DEF NodeInv, OneOwner, GoesDown, DcOwns, Out, Lowering, SatisfiesBlocker
<1>5. ServedNode(n)'
  BY <1>0, <1>2, <1>4 DEF ServedInv, ServedNode, Serviced
<1> QED
  BY <1>0, <1>2, <1>5, OneServed

\* What the downconvert thread does to the lock of one node
LEMMA ThreadServed ==
  ASSUME GlueInv, ServedInv, NEW n \in Node, OtherWake(n) \/ Downconvert(n)
  PROVE  ServedInv'
<1>0. TypeOK /\ ServedNode(n)
  BY DEF GlueInv, ServedInv
<1>1. CASE OtherWake(n)
  BY <1>1, SameServed DEF OtherWake, dcVars, ServedMarks
<1>2. CASE DcTake(n)
  <2>1. ServedOthers(n)
    BY <1>0, <1>2 DEF DcTake, DcGoto, TypeOK, ServedOthers
  <2>2. ServedNode(n)'
    BY <1>0, <1>2
       DEF DcTake, DcRuns, DcGoto, TypeOK, ServedNode, Serviced,
           SatisfiesBlocker
  <2> QED
    BY <2>1, <2>2, OneServed
<1>3. CASE \/ DcNotBlocked(n) \/ DcRequeue(n) \/ DcPrepareCancel(n)
           \/ DcCheckpoint(n) \/ DcWorkerStart(n)
  <2>1. /\ UNCHANGED <<evictPc, flags, onList, action, requested, blocking>>
        /\ dcPc[n] = "unblock"
    BY <1>3
       DEF DcNotBlocked, DcRequeue, DcPrepareCancel, DcCheckpoint,
           DcWorkerStart, DcRuns, lockVars
  <2>2. \/ /\ "BLOCKED" \notin flags[n] /\ UNCHANGED dcRequeue
           /\ dcPc' = [dcPc EXCEPT ![n] = "unqueue"]
        \/ /\ dcRequeue' = [dcRequeue EXCEPT ![n] = TRUE]
           /\ \E l \in {"unqueue", "cancel"} : dcPc' = [dcPc EXCEPT ![n] = l]
        \/ UNCHANGED dcRequeue /\ dcPc' = [dcPc EXCEPT ![n] = "worker"]
    BY <1>3
       DEF DcNotBlocked, DcRequeue, DcPrepareCancel, DcCheckpoint,
           DcWorkerStart, DcGoto
  <2>3. /\ ServedOthers(n)
        /\ \/ "BLOCKED" \notin flags[n] /\ dcPc'[n] = "unqueue"
           \/ dcPc'[n] \in {"unqueue", "cancel"} /\ dcRequeue'[n]
           \/ dcPc'[n] = "worker"
    BY <1>0, <2>1, <2>2 DEF TypeOK, ServedOthers
  <2>4. ServedNode(n)'
    BY <1>0, <2>1, <2>3 DEF ServedNode, Serviced
  <2> QED
    BY <2>3, <2>4, OneServed
<1>4. CASE DcAbort(n)
  <2>1. /\ UNCHANGED evictPc /\ dcPc'[n] = "unqueue"
        /\ flags'[n] = flags[n] \ {"BLOCKED"}
        /\ ServedOthers(n)
    BY <1>0, <1>4
       DEF DcAbort, DcGoto, SetFlags, TypeOK, ServedOthers
  <2>2. ServedNode(n)'
    BY <1>0, <2>1 DEF ServedNode, Serviced
  <2> QED
    BY <2>1, <2>2, OneServed
<1>5. ASSUME PrepareDownconvert(n), DcDownconvert(n) \/ DcWorkerDone(n)
      PROVE  ServedInv'
  <2>1. /\ UNCHANGED <<evictPc, onList, blocking>>
        /\ dcPc'[n] = "dlm" /\ action'[n] = "DOWNCONVERT"
        /\ requested'[n] = HighestCompat(blocking[n])
        /\ flags'[n] = flags[n] \union {"BUSY", "PENDING"}
        /\ ServedOthers(n)
    BY <1>0, <1>5
       DEF PrepareDownconvert, DcDownconvert, DcWorkerDone, DcGoto, SetFlags,
           TypeOK, ServedOthers
  <2>2. SatisfiesBlocker(n)'
    BY <1>0, <2>1, Levels DEF SatisfiesBlocker
  <2>3. ServedNode(n)'
    BY <1>0, <2>1, <2>2 DEF ServedNode, Serviced
  <2> QED
    BY <2>1, <2>3, OneServed
<1>6. ASSUME DcWorkerDone(n), ~WorkerStillValid(n) PROVE ServedInv'
  <2>1. /\ UNCHANGED <<evictPc, flags, onList>>
        /\ dcPc'[n] = "unblock"
        /\ ServedOthers(n)
    BY <1>0, <1>6 DEF DcWorkerDone, DcGoto, TypeOK, ServedOthers
  <2>2. ServedNode(n)'
    BY <1>0, <2>1 DEF ServedNode, Serviced
  <2> QED
    BY <2>1, <2>2, OneServed
<1>7. CASE DcDlmCall(n)
  <2>1. /\ UNCHANGED <<evictPc, flags, onList, action, requested, blocking>>
        /\ dcPc[n] = "dlm" /\ dcPc'[n] = "called"
        /\ ServedOthers(n)
    BY <1>0, <1>7
       DEF DcDlmCall, DcRuns, DcGoto, TypeOK, lockVars, ServedOthers
  <2>2. "FREEING" \notin flags[n] => "BUSY" \in flags[n]
    <3>1. "FREEING" \notin flags[n] => evictPc[n] = "live"
      BY <1>0 DEF ServedNode
    <3> QED
      BY <2>1, <3>1 DEF GlueInv, LiveNodes, NodeInv, OneOwner, DcOwns
  <2>3. ServedNode(n)'
    BY <1>0, <2>1, <2>2 DEF ServedNode, Serviced, SatisfiesBlocker
  <2> QED
    BY <2>1, <2>3, OneServed
<1>8. CASE DcDlmReturn(n)
  <2>1. /\ UNCHANGED <<evictPc, onList, action, requested, blocking>>
        /\ dcPc[n] = "called" /\ dcPc'[n] = "unqueue"
        /\ flags'[n] = ClearPending(n, "dc", flags[n])
        /\ ServedOthers(n)
    BY <1>0, <1>8
       DEF DcDlmReturn, DcRuns, DcGoto, SetFlags, TypeOK, ServedOthers
  <2>2. ServedNode(n)'
    BY <1>0, <2>1 DEF ClearPending, ServedNode, Serviced, SatisfiesBlocker
  <2> QED
    BY <2>1, <2>2, OneServed
<1>9. CASE DcCancelCall(n)
  <2>1. /\ UNCHANGED <<evictPc, flags, dcRequeue>>
        /\ dcPc[n] = "cancel" /\ dcPc'[n] \in {"cancelled", "unqueue"}
        /\ ServedOthers(n)
    BY <1>0, <1>9
       DEF DcCancelCall, DcRuns, DcGoto, TypeOK, lockVars, ServedOthers
  <2>2. ServedNode(n)'
    BY <1>0, <2>1 DEF ServedNode, Serviced
  <2> QED
    BY <2>1, <2>2, OneServed
<1>10. CASE DcUnlockAst(n)
  <2>1. /\ UNCHANGED <<evictPc, dcRequeue>>
        /\ dcPc[n] = "cancelled" /\ dcPc'[n] = "unqueue"
        /\ flags'[n] = flags[n] \ {"BUSY"}
        /\ ServedOthers(n)
    BY <1>0, <1>10
       DEF DcUnlockAst, DcRuns, DcGoto, SetFlags, TypeOK, ServedOthers
  <2>2. ServedNode(n)'
    BY <1>0, <2>1 DEF ServedNode, Serviced
  <2> QED
    BY <2>1, <2>2, OneServed
<1>11. CASE DcUnqueue(n)
  <2>1. /\ UNCHANGED <<evictPc, action, requested, blocking>>
        /\ dcPc[n] = "unqueue" /\ dcPc'[n] = "idle"
        /\ ServedOthers(n)
    BY <1>0, <1>11
       DEF DcUnqueue, DcRuns, DcGoto, SetFlags, TypeOK, ServedOthers
  <2>2. CASE "FREEING" \in flags[n] \/ ~dcRequeue[n]
    <3>1. UNCHANGED onList /\ flags'[n] = flags[n] \ {"QUEUED"}
      BY <1>0, <1>11, <2>2 DEF DcUnqueue, SetFlags, TypeOK
    <3>2. ServedNode(n)'
      BY <1>0, <2>1, <2>2, <3>1 DEF ServedNode, Serviced, SatisfiesBlocker
    <3> QED
      BY <2>1, <3>2, OneServed
  <2>3. CASE "FREEING" \notin flags[n] /\ dcRequeue[n]
    <3>1. onList'[n] /\ flags'[n] = flags[n] \union {"QUEUED"}
      BY <1>0, <1>11, <2>3 DEF DcUnqueue, SetFlags, Scheduled, TypeOK
    <3>2. ServedNode(n)'
      BY <1>0, <2>1, <2>3, <3>1 DEF ServedNode, Serviced
    <3> QED
      BY <2>1, <3>2, OneServed
  <2> QED
    BY <2>2, <2>3
<1>12. DcDownconvert(n) => PrepareDownconvert(n)
  BY DEF DcDownconvert
<1>13. DcWorkerDone(n) => PrepareDownconvert(n) \/ ~WorkerStillValid(n)
  BY DEF DcWorkerDone
<1> QED
  BY <1>1, <1>2, <1>3, <1>4, <1>5, <1>6, <1>7, <1>8, <1>9, <1>10, <1>11,
     <1>12, <1>13 DEF Downconvert

\* An AST that clears BUSY satisfies who was blocked, or somebody else sees to it.
LEMMA LockingAstServed ==
  ASSUME GlueInv, ServedInv, NEW n \in Node, LockingAst(n)
  PROVE  ServedInv'
<1>0. TypeOK /\ ServedNode(n)
  BY DEF GlueInv, ServedInv
<1>1. /\ UNCHANGED <<evictPc, dcPc, dcRequeue, onList>>
      /\ n \in pendingAsts
      /\ flags'[n] = AfterAction(n) \ {"PENDING"}
      /\ ServedOthers(n)
  BY <1>0
     DEF LockingAst, DeliverAst, SetFlags, dcVars, TypeOK, ServedOthers
<1>2. /\ "FREEING" \in flags[n] <=> "FREEING" \in flags'[n]
      /\ "BLOCKED" \in flags'[n] => "BLOCKED" \in flags[n] /\ ~SatisfiesBlocker(n)
  BY <1>1 DEF AfterAction, AfterAttach, SatisfiesBlocker
<1>3. "FREEING" \notin flags[n] => dcPc[n] # "dlm"
  <2>1. "FREEING" \notin flags[n] => NodeInv(n)
    BY <1>0 DEF ServedNode, GlueInv, LiveNodes
  <2> QED
    BY <1>1, <2>1 DEF NodeInv, OneOwner, Out, Answered, DcOwns
<1>4. ServedNode(n)'
  BY <1>0, <1>1, <1>2, <1>3 DEF ServedNode, Serviced
<1> QED
  BY <1>1, <1>4, OneServed

\* A BAST asks for no less than the one before, or the lock is put on the list.
LEMMA NoLess ==
  ASSUME NEW l \in AnyMode, NEW b \in AnyMode, l > b,
         ~(HighestCompat(l) < HighestCompat(b))
  PROVE  HighestCompat(l) = HighestCompat(b)
BY DEF AnyMode, Mode, IV, NL, PR, EX, HighestCompat

LEMMA BlockingAstServed ==
  ASSUME GlueInv, ServedInv, NEW n \in Node, BlockingAst(n)
  PROVE  ServedInv'
<1>0. TypeOK /\ ServedNode(n)
  BY DEF GlueInv, ServedInv
<1>1. UNCHANGED <<level, evictPc, dcPc, dcRequeue, action, requested>>
  BY DEF BlockingAst, dcVars
<1>2. CASE ~BastFindsLock(n)
  BY <1>1, <1>2, SameServed DEF BlockingAst, ServedMarks
<1>3. CASE BastFindsLock(n)
  <2> DEFINE l == inflight.level
             f == flags[n] \union {"BLOCKED"}
  <2>1. blocking' = [blocking EXCEPT ![n] = IF l > @ THEN l ELSE @]
    BY <1>3 DEF BlockingAst
  <2>2. l \in AnyMode
    BY <1>0 DEF TypeOK, DlmTypeOK, NoBast, AnyMode
  <2>3. CASE NeedsDownconvert(n, l)
    <3>1. SetFlags(n, Scheduled(n, f))
          /\ onList' = [onList EXCEPT ![n] = ListedWhen(n, f)]
      BY <1>3, <2>3 DEF BlockingAst
    <3>2. /\ ServedOthers(n)
          /\ onList'[n] = (onList[n] \/ "FREEING" \notin flags[n])
          /\ flags'[n] = Scheduled(n, f)
      BY <1>0, <1>1, <2>1, <3>1
         DEF SetFlags, TypeOK, ServedOthers, ListedWhen
    <3>3. "FREEING" \in flags[n] <=> "FREEING" \in flags'[n]
      BY <3>2 DEF Scheduled
    <3>4. ServedNode(n)'
      BY <1>0, <1>1, <3>2, <3>3 DEF ServedNode, Serviced
    <3> QED
      BY <3>2, <3>4, OneServed
  <2>4. CASE ~NeedsDownconvert(n, l)
    <3>1. UNCHANGED <<flags, onList>>
      BY <1>3, <2>4 DEF BlockingAst
    <3>2. ServedOthers(n)
      BY <1>0, <1>1, <2>1, <3>1 DEF TypeOK, ServedOthers
    <3>3. HighestCompat(blocking'[n]) = HighestCompat(blocking[n])
      <4>1. blocking[n] \in AnyMode
            /\ blocking'[n] = IF l > blocking[n] THEN l ELSE blocking[n]
        BY <1>0, <2>1, Levels DEF TypeOK
      <4>2. l > blocking[n] => ~(HighestCompat(l) < HighestCompat(blocking[n]))
        BY <2>4 DEF NeedsDownconvert
      <4> QED
        BY <2>2, <4>1, <4>2, NoLess
    <3>4. SatisfiesBlocker(n)' <=> SatisfiesBlocker(n)
      BY <1>1, <3>3 DEF SatisfiesBlocker
    <3>5. ServedNode(n)'
      BY <1>0, <1>1, <3>1, <3>4 DEF ServedNode, Serviced
    <3> QED
      BY <3>2, <3>5, OneServed
  <2> QED
    BY <2>3, <2>4
<1> QED
  BY <1>2, <1>3

LEMMA EvictServed ==
  ASSUME GlueInv, ServedInv, NEW n \in Node, EvictStart(n) \/ Evict(n)
  PROVE  ServedInv'
<1>0. TypeOK /\ ServedNode(n)
  BY DEF GlueInv, ServedInv
<1>1. UNCHANGED <<dcPc, dcRequeue, onList, action, requested, blocking>>
  BY DEF EvictStart, Evict, EvictUnqueued, EvictDrop, EvictUnlock,
         EvictUnlockAst, EvictFree, lockVars, dcVars
<1>2. ServedOthers(n)
  BY <1>1, EvictOthers DEF ServedOthers
<1>3. "FREEING" \in flags'[n]
  <2>1. CASE EvictStart(n)
    BY <1>0, <2>1 DEF EvictStart, TypeOK
  <2>2. CASE Evict(n)
    <3>1. "FREEING" \in flags[n]
      BY <1>0, <2>2
         DEF ServedNode, Evict, EvictUnqueued, EvictDrop, EvictUnlock,
             EvictUnlockAst, EvictFree
    <3>2. \/ UNCHANGED flags
          \/ flags' = [flags EXCEPT ![n] = (@ \ {"ATTACHED"}) \union {"BUSY"}]
          \/ flags' = [flags EXCEPT ![n] = @ \ {"BUSY"}]
      BY <2>2
         DEF Evict, EvictUnqueued, EvictDrop, EvictUnlock, EvictUnlockAst,
             EvictFree, SetFlags, lockVars
    <3> QED
      BY <1>0, <3>1, <3>2 DEF TypeOK
  <2> QED
    BY <2>1, <2>2
<1>4. ServedNode(n)'
  BY <1>0, <1>1, <1>3 DEF ServedNode, Serviced
<1> QED
  BY <1>2, <1>4, OneServed

LEMMA ServedStep ==
  ASSUME GlueInv, ServedInv, [Next]_<<vars, ltype>>
  PROVE  ServedInv'
<1>1. CASE UNCHANGED <<lockVars, dcVars, evictPc>>
  BY <1>1, SameServed DEF lockVars, dcVars, ServedMarks
<1>2. ASSUME NEW t \in Task, Enter(t) \/ AgainSignal(t) \/ Proceed(t)
      PROVE  ServedInv'
  BY <1>2, TaskServed, AgainRequestServed, RecoverFromErrorServed DEF Proceed
<1>3. ASSUME Dlm PROVE ServedInv'
  BY <1>1, <1>3, LockingAstServed, BlockingAstServed
     DEF Dlm, Thread, Post, glueVars
<1> QED
  BY <1>1, <1>2, <1>3, ThreadServed, EvictServed DEF Next, vars

\* A lock that blocks another node is on the list of the downconvert thread, in its
\* hands, or the conversion that satisfies the other node is under way.
THEOREM BlockedAreServiced == Spec => []BlockedIsServiced
<1>1. Init => ServedInv
  BY DEF Init, ServedInv, ServedNode, Serviced
<1>2. GlueInv /\ ServedInv /\ [Next]_<<vars, ltype>> => ServedInv'
  BY ServedStep
<1>3. ServedInv => BlockedIsServiced
  BY DEF ServedInv, ServedNode, Serviced, BlockedIsServiced
<1> QED
  BY <1>1, <1>2, <1>3, GlueSafe, PTL DEF Spec

-----------------------------------------------------------------------------
(* PENDING and who it is of                                                *)

\* Until it has reached the master, a request is the one of the generation.
PendingNode(n) ==
  /\ \A t \in TasksOf(n) : pc[t] = "dlm" =>
       "PENDING" \in flags[n] /\ pendingBy[n] = t
  /\ dcPc[n] = "dlm" => "PENDING" \in flags[n] /\ pendingBy[n] = "dc"

PendingInv == \A n \in Node : evictPc[n] = "live" => PendingNode(n)

\* Nobody on n has become about to ask, nobody's PENDING is taken away.
PendingSame(n) ==
  /\ evictPc'[n] = "live" => evictPc[n] = "live"
  /\ "PENDING" \in flags[n] => "PENDING" \in flags'[n]
  /\ pendingBy'[n] = pendingBy[n]
  /\ dcPc'[n] = "dlm" => dcPc[n] = "dlm"
  /\ \A t \in TasksOf(n) : pc'[t] = "dlm" => pc[t] = "dlm"

LEMMA SamePending ==
  ASSUME PendingInv, \A n \in Node : PendingSame(n)
  PROVE  PendingInv'
BY DEF PendingInv, PendingNode, PendingSame, TasksOf

LEMMA OnePending ==
  ASSUME PendingInv, NEW n \in Node, \A m \in Node \ {n} : PendingSame(m),
         evictPc'[n] = "live" => PendingNode(n)'
  PROVE  PendingInv'
<1>1. ASSUME NEW m \in Node \ {n}, evictPc'[m] = "live" PROVE PendingNode(m)'
  BY <1>1 DEF PendingInv, PendingNode, PendingSame, TasksOf
<1> QED
  BY <1>1 DEF PendingInv

\* BUSY clear, or the answer on its way: nobody on n is about to ask.
LEMMA NobodyAsks ==
  ASSUME GlueInv, NEW n \in Node, evictPc[n] = "live",
         "BUSY" \notin flags[n] \/ n \in pendingAsts
  PROVE  dcPc[n] # "dlm" /\ \A t \in TasksOf(n) : pc[t] # "dlm"
<1>1. NodeInv(n)
  BY DEF GlueInv, LiveNodes
<1>2. Askers(n) = {} /\ ~DcOwns(n)
  BY <1>1 DEF NodeInv, OneOwner, Out, Answered
<1> QED
  BY <1>2 DEF Askers, AskPc, DcOwns

LEMMA TaskPending ==
  ASSUME GlueInv, PendingInv, NEW t \in Task,
         \/ Enter(t) \/ AgainSignal(t) \/ AgainWait(t) \/ AgainHold(t)
         \/ AgainGiveUp(t) \/ DlmLockCall(t) \/ RecoverFromError(t)
         \/ NonBlockArrived(t) \/ NonBlockGiveUp(t)
         \/ ShouldRefresh(t) \/ CompleteRefresh(t) \/ Unlock(t)
  PROVE  PendingInv'
<1>0. TypeOK /\ NodeOf[t] \in Node
  BY NodeOfAssumption DEF GlueInv
<1>1. UNCHANGED <<evictPc, dcPc, pendingBy>>
  BY DEF Enter, AgainSignal, AgainWait, AgainHold, AgainGiveUp, DlmLockCall,
         RecoverFromError, NonBlockArrived, NonBlockGiveUp, ShouldRefresh,
         CompleteRefresh, Unlock, lockVars, dcVars
<1>2. \E l : l # "dlm" /\ pc' \in {pc, [pc EXCEPT ![t] = l]}
  <2>1. \/ \E l \in {"again", "wait", "nonblock", "refused", "called",
                     "holding", "held", "refresh", "failed"} :
             pc' = [pc EXCEPT ![t] = l]
        \/ pc' = pc
        \/ pc' = [pc EXCEPT ![t] = Rest(t)]
    BY DEF Enter, AgainSignal, AgainWait, AgainHold, AgainGiveUp, DlmLockCall,
           RecoverFromError, NonBlockArrived, NonBlockGiveUp, ShouldRefresh,
           CompleteRefresh, Unlock, Return, Goto
  <2> QED
    BY <2>1, RestTypes
<1>3. \A u \in Task : pc'[u] = "dlm" => pc[u] = "dlm"
  BY <1>0, <1>2 DEF TypeOK
<1>4. \A m \in Node : "PENDING" \in flags[m] => "PENDING" \in flags'[m]
  <2>1. CASE UNCHANGED flags
    BY <2>1
  <2>2. ASSUME NEW n \in Node, NEW f, flags' = [flags EXCEPT ![n] = f],
               "PENDING" \in flags[n] => "PENDING" \in f
        PROVE  \A m \in Node : "PENDING" \in flags[m] => "PENDING" \in flags'[m]
    BY <1>0, <2>2 DEF TypeOK
  <2>3. \/ UNCHANGED flags
        \/ \E f : /\ flags' = [flags EXCEPT ![NodeOf[t]] = f]
                  /\ "PENDING" \in flags[NodeOf[t]] => "PENDING" \in f
    <3>1. CASE Enter(t) \/ NonBlockArrived(t) \/ DlmLockCall(t) \/ Unlock(t)
      BY <3>1 DEF Enter, NonBlockArrived, DlmLockCall, Unlock, lockVars
    <3>2. CASE AgainWait(t)
      BY <3>2 DEF AgainWait
    <3>3. CASE NonBlockGiveUp(t)
      <4>1. \E g : flags' = [flags EXCEPT ![NodeOf[t]] = flags[NodeOf[t]] \union g]
        BY <3>3 DEF NonBlockGiveUp
      <4> QED
        BY <4>1
    <3>4. CASE AgainSignal(t) \/ AgainHold(t) \/ AgainGiveUp(t)
      BY <3>4 DEF AgainSignal, AgainHold, AgainGiveUp, LeaveSection, SetFlags
    <3>5. CASE RecoverFromError(t)
      BY <3>5 DEF RecoverFromError, SetFlags
    <3>6. CASE CompleteRefresh(t)
      BY <3>6 DEF CompleteRefresh, SetFlags
    <3>7. CASE ShouldRefresh(t)
      BY <3>7 DEF ShouldRefresh, SetFlags
    <3> QED
      BY <3>1, <3>2, <3>3, <3>4, <3>5, <3>6, <3>7
  <2> QED
    BY <1>0, <2>1, <2>2, <2>3
<1> QED
  BY <1>1, <1>3, <1>4, SamePending DEF PendingSame, TasksOf

LEMMA AgainRequestPending ==
  ASSUME GlueInv, PendingInv, NEW t \in Task, AgainRequest(t)
  PROVE  PendingInv'
<1> DEFINE n == NodeOf[t]
<1>0. TypeOK /\ n \in Node /\ evictPc[n] = "live"
  BY NodeOfAssumption DEF GlueInv, UsersLive, AgainRequest, AtAgain
<1>1. dcPc[n] # "dlm" /\ \A u \in TasksOf(n) : pc[u] # "dlm"
  BY <1>0, NobodyAsks DEF AgainRequest, MustWaitBusy
<1>2. /\ UNCHANGED <<evictPc, dcPc>>
      /\ flags' = [flags EXCEPT ![n] = flags[n] \union {"BUSY", "PENDING"}]
      /\ pendingBy' = [pendingBy EXCEPT ![n] = t]
      /\ pc' = [pc EXCEPT ![t] = "dlm"]
  BY DEF AgainRequest, SetFlags, Goto, dcVars
<1> HIDE DEF n
<1>3. \A u \in Task : u # t => pc'[u] = pc[u]
  BY <1>0, <1>2 DEF TypeOK
<1>4. \A m \in Node \ {n} : flags'[m] = flags[m] /\ pendingBy'[m] = pendingBy[m]
  BY <1>0, <1>2 DEF TypeOK
<1>5. \A m \in Node \ {n} : PendingSame(m)
  BY <1>2, <1>3, <1>4 DEF PendingSame, TasksOf, n
<1>6. PendingNode(n)'
  BY <1>0, <1>1, <1>2, <1>3 DEF PendingNode, TasksOf, TypeOK
<1> QED
  BY <1>0, <1>5, <1>6, OnePending

LEMMA DlmLockReturnPending ==
  ASSUME GlueInv, PendingInv, NEW t \in Task, DlmLockReturn(t)
  PROVE  PendingInv'
<1> DEFINE n == NodeOf[t]
           f == ClearPending(n, t, flags[n])
<1>0. TypeOK /\ n \in Node /\ evictPc[n] = "live" /\ PendingNode(n)
  BY NodeOfAssumption
     DEF GlueInv, UsersLive, DlmLockReturn, PendingInv
<1>1. /\ UNCHANGED <<evictPc, dcPc>>
      /\ flags' = [flags EXCEPT ![n] = f]
      /\ pendingBy' = IF f = flags[n] THEN pendingBy
                      ELSE [pendingBy EXCEPT ![n] = "none"]
      /\ \E l \in {"again", "recover"} : pc' = [pc EXCEPT ![t] = l]
  BY DEF DlmLockReturn, SetFlags, Goto, dcVars
<1>2. pc[t] # "dlm"
  BY DEF DlmLockReturn
<1>3. f = flags[n] \/ pendingBy[n] = t
  BY DEF ClearPending
<1> HIDE DEF n, f
<1>4. \A u \in Task : pc'[u] = "dlm" => pc[u] = "dlm" /\ u # t
  BY <1>0, <1>1, <1>2 DEF TypeOK
<1>5. \A m \in Node \ {n} : flags'[m] = flags[m] /\ pendingBy'[m] = pendingBy[m]
  BY <1>0, <1>1 DEF TypeOK
<1>6. \A m \in Node \ {n} : PendingSame(m)
  BY <1>1, <1>4, <1>5 DEF PendingSame, TasksOf
<1>7. CASE f = flags[n]
  <2>1. PendingNode(n)'
    BY <1>0, <1>1, <1>4, <1>7 DEF PendingNode, TasksOf, TypeOK
  <2> QED
    BY <1>0, <1>6, <2>1, OnePending
<1>8. CASE pendingBy[n] = t
  <2>1. PendingNode(n)'
    BY <1>0, <1>1, <1>4, <1>8, TaskAssumption DEF PendingNode, TasksOf
  <2> QED
    BY <1>0, <1>6, <2>1, OnePending
<1> QED
  BY <1>3, <1>7, <1>8

\* The steps of the downconvert thread, but for the one that makes a request and
\* the return of its call
LEMMA ThreadPending ==
  ASSUME GlueInv, PendingInv, NEW n \in Node,
         \/ OtherWake(n) \/ DcTake(n) \/ DcNotBlocked(n) \/ DcRequeue(n)
         \/ DcPrepareCancel(n) \/ DcAbort(n) \/ DcCheckpoint(n)
         \/ DcWorkerStart(n) \/ (DcWorkerDone(n) /\ ~WorkerStillValid(n))
         \/ DcDlmCall(n) \/ DcCancelCall(n) \/ DcUnlockAst(n) \/ DcUnqueue(n)
  PROVE  PendingInv'
<1>0. TypeOK
  BY DEF GlueInv
<1>1. UNCHANGED <<evictPc, pc, pendingBy>>
  BY DEF OtherWake, DcTake, DcNotBlocked, DcRequeue, DcPrepareCancel, DcAbort,
         DcCheckpoint, DcWorkerStart, DcWorkerDone, DcDlmCall, DcCancelCall,
         DcUnlockAst, DcUnqueue, lockVars, taskVars
<1>2. dcPc' = dcPc \/ \E l : l # "dlm" /\ dcPc' = [dcPc EXCEPT ![n] = l]
  BY DEF OtherWake, DcTake, DcNotBlocked, DcRequeue, DcPrepareCancel, DcAbort,
         DcCheckpoint, DcWorkerStart, DcWorkerDone, DcDlmCall, DcCancelCall,
         DcUnlockAst, DcUnqueue, DcGoto, dcVars
<1>3. \A m \in Node : dcPc'[m] = "dlm" => dcPc[m] = "dlm"
  BY <1>0, <1>2 DEF TypeOK
<1>4. \/ UNCHANGED flags
      \/ \E f \in {{"BLOCKED"}, {"BUSY"}, {"QUEUED"}} :
           flags' = [flags EXCEPT ![n] = flags[n] \ f]
      \/ flags' = [flags EXCEPT ![n] = Scheduled(n, flags[n])]
  BY DEF OtherWake, DcTake, DcNotBlocked, DcRequeue, DcPrepareCancel, DcAbort,
         DcCheckpoint, DcWorkerStart, DcWorkerDone, DcDlmCall, DcCancelCall,
         DcUnlockAst, DcUnqueue, SetFlags, lockVars
<1>5. \A m \in Node : "PENDING" \in flags[m] => "PENDING" \in flags'[m]
  <2>1. "PENDING" \in flags[n] => "PENDING" \in Scheduled(n, flags[n])
    BY DEF Scheduled
  <2>2. CASE UNCHANGED flags
    BY <2>2
  <2>3. ASSUME NEW f \in {{"BLOCKED"}, {"BUSY"}, {"QUEUED"}},
               flags' = [flags EXCEPT ![n] = flags[n] \ f]
        PROVE  \A m \in Node :
                 "PENDING" \in flags[m] => "PENDING" \in flags'[m]
    BY <1>0, <2>3 DEF TypeOK
  <2>4. CASE flags' = [flags EXCEPT ![n] = Scheduled(n, flags[n])]
    BY <1>0, <2>1, <2>4 DEF TypeOK
  <2> QED
    BY <1>4, <2>2, <2>3, <2>4
<1> QED
  BY <1>1, <1>3, <1>5, SamePending DEF PendingSame

LEMMA PreparePending ==
  ASSUME GlueInv, PendingInv, NEW n \in Node, DcDownconvert(n) \/ DcWorkerDone(n),
         PrepareDownconvert(n), DcWorkerDone(n) => WorkerStillValid(n)
  PROVE  PendingInv'
<1>0. TypeOK
  BY DEF GlueInv
<1>1. /\ UNCHANGED <<evictPc, pc>>
      /\ flags' = [flags EXCEPT ![n] = flags[n] \union {"BUSY", "PENDING"}]
      /\ pendingBy' = [pendingBy EXCEPT ![n] = "dc"]
      /\ dcPc' = [dcPc EXCEPT ![n] = "dlm"]
  BY DEF DcDownconvert, DcWorkerDone, PrepareDownconvert, SetFlags, DcGoto
<1>2. \A m \in Node \ {n} : PendingSame(m)
  BY <1>0, <1>1 DEF PendingSame, TypeOK
<1>3. ASSUME evictPc[n] = "live" PROVE \A u \in TasksOf(n) : pc[u] # "dlm"
  <2>1. CASE DcDownconvert(n)
    BY <1>3, <2>1, NobodyAsks DEF DcDownconvert, MayDownconvert, Settled
  <2>2. CASE DcWorkerDone(n)
    <3>1. NodeInv(n) /\ dcPc[n] = "worker"
      BY <1>3, <2>2 DEF GlueInv, LiveNodes, DcWorkerDone, DcRuns
    <3>2. dcSaved[n].blocking = blocking[n] /\ dcSaved[n].level = level[n]
      BY <2>2 DEF WorkerStillValid
    <3>3. blocking[n] > NL /\ level[n] > HighestCompat(blocking[n])
      <4>1. ~(blocking[n] <= NL) /\ ~(level[n] <= HighestCompat(blocking[n]))
        BY <2>2 DEF DcWorkerDone, DownconvertBug
      <4> QED
        BY <1>0, <4>1, Levels DEF NL
    <3>4. "BUSY" \notin flags[n]
      BY <3>1, <3>2, <3>3 DEF NodeInv, WorkerSafe, LooksTheSame
    <3> QED
      BY <1>3, <3>4, NobodyAsks
  <2> QED
    BY <2>1, <2>2
<1>4. evictPc'[n] = "live" => PendingNode(n)'
  BY <1>0, <1>1, <1>3 DEF PendingNode, TasksOf, TypeOK
<1> QED
  BY <1>2, <1>4, OnePending

LEMMA DcDlmReturnPending ==
  ASSUME GlueInv, PendingInv, NEW n \in Node, DcDlmReturn(n)
  PROVE  PendingInv'
<1> DEFINE f == ClearPending(n, "dc", flags[n])
<1>0. TypeOK
  BY DEF GlueInv
<1>1. /\ UNCHANGED <<evictPc, pc>>
      /\ flags' = [flags EXCEPT ![n] = f]
      /\ pendingBy' = IF f = flags[n] THEN pendingBy
                      ELSE [pendingBy EXCEPT ![n] = "none"]
      /\ dcPc' = [dcPc EXCEPT ![n] = "unqueue"]
  BY DEF DcDlmReturn, SetFlags, DcGoto
<1>2. f = flags[n] \/ pendingBy[n] = "dc"
  BY DEF ClearPending
<1> HIDE DEF f
<1>3. \A m \in Node \ {n} : PendingSame(m)
  BY <1>0, <1>1 DEF PendingSame, TypeOK
<1>4. PendingInv => (evictPc'[n] = "live" => PendingNode(n)')
  BY <1>0, <1>1, <1>2, TaskAssumption
     DEF PendingInv, PendingNode, TasksOf, TypeOK
<1> QED
  BY <1>3, <1>4, OnePending

LEMMA DlmPending ==
  ASSUME GlueInv, PendingInv, Dlm
  PROVE  PendingInv'
<1>0. TypeOK
  BY DEF GlueInv
<1>1. CASE Thread \/ \E n \in Node : Post(n)
  BY <1>1, SamePending
     DEF Thread, Post, glueVars, lockVars, dcVars, taskVars, PendingSame
<1>2. ASSUME NEW n \in Node, LockingAst(n) PROVE PendingInv'
  <2>1. /\ UNCHANGED <<evictPc, pc, dcPc>>
        /\ n \in pendingAsts
        /\ \A m \in Node \ {n} :
             flags'[m] = flags[m] /\ pendingBy'[m] = pendingBy[m]
    BY <1>0, <1>2 DEF LockingAst, DeliverAst, SetFlags, dcVars, TypeOK
  <2>2. evictPc[n] = "live" =>
          dcPc[n] # "dlm" /\ \A t \in TasksOf(n) : pc[t] # "dlm"
    BY <2>1, NobodyAsks
  <2>3. evictPc'[n] = "live" => PendingNode(n)'
    BY <2>1, <2>2 DEF PendingNode, TasksOf
  <2>4. \A m \in Node \ {n} : PendingSame(m)
    BY <2>1 DEF PendingSame
  <2> QED
    BY <2>3, <2>4, OnePending
<1>3. ASSUME NEW n \in Node, BlockingAst(n) PROVE PendingInv'
  <2>1. /\ UNCHANGED <<evictPc, pc, dcPc, pendingBy>>
        /\ \/ UNCHANGED flags
           \/ flags' = [flags EXCEPT
                          ![n] = Scheduled(n, flags[n] \union {"BLOCKED"})]
    BY <1>3 DEF BlockingAst, SetFlags, dcVars
  <2>2. \A m \in Node : "PENDING" \in flags[m] => "PENDING" \in flags'[m]
    <3> DEFINE f == flags[n] \union {"BLOCKED"}
    <3>1. "PENDING" \in flags[n] => "PENDING" \in Scheduled(n, f)
      BY DEF Scheduled
    <3>2. CASE UNCHANGED flags
      BY <3>2
    <3>3. CASE flags' = [flags EXCEPT ![n] = Scheduled(n, f)]
      <4> HIDE DEF f
      <4> QED
        BY <1>0, <3>1, <3>3 DEF TypeOK
    <3> QED
      BY <2>1, <3>2, <3>3
  <2> QED
    BY <2>1, <2>2, SamePending DEF PendingSame
<1> QED
  BY <1>1, <1>2, <1>3 DEF Dlm

LEMMA PendingStep ==
  ASSUME GlueInv, PendingInv, [Next]_<<vars, ltype>>
  PROVE  PendingInv'
<1>1. ASSUME NEW t \in Task, Enter(t) \/ AgainSignal(t) \/ Proceed(t)
      PROVE  PendingInv'
  BY <1>1, TaskPending, AgainRequestPending, DlmLockReturnPending DEF Proceed
<1>2. ASSUME NEW n \in Node, OtherWake(n) \/ Downconvert(n)
      PROVE  PendingInv'
  <2>1. DcDownconvert(n) => PrepareDownconvert(n) /\ ~DcWorkerDone(n)
    BY DEF DcDownconvert, DcWorkerDone, DcRuns
  <2>2. DcWorkerDone(n) =>
          ~WorkerStillValid(n) \/ (WorkerStillValid(n) /\ PrepareDownconvert(n))
    BY DEF DcWorkerDone
  <2> QED
    BY <1>2, <2>1, <2>2, ThreadPending, PreparePending, DcDlmReturnPending
       DEF Downconvert
<1>3. ASSUME NEW n \in Node, EvictStart(n) \/ Evict(n)
      PROVE  PendingInv'
  <2>1. UNCHANGED pendingBy
    BY <1>3 DEF EvictStart, Evict, EvictUnqueued, EvictDrop, EvictUnlock,
                EvictUnlockAst, EvictFree, lockVars
  <2> QED
    BY <1>3, <2>1, EvictOthers, OnePending DEF PendingSame
<1>4. CASE UNCHANGED vars
  BY <1>4, SamePending DEF vars, lockVars, dcVars, taskVars, PendingSame
<1> QED
  BY <1>1, <1>2, <1>3, <1>4, DlmPending DEF Next

\* What keeps the requests of a node apart
LEMMA RequestsApart ==
  ASSUME GlueInv, PendingInv
  PROVE  OneRequest
<1> SUFFICES ASSUME NEW n \in Node, evictPc[n] = "live",
                    NEW asking, asking = {t \in TasksOf(n) : pc[t] = "dlm"}
             PROVE  /\ Cardinality(asking) <= 1
                    /\ (asking # {} \/ dcPc[n] = "dlm") =>
                         /\ {"BUSY", "PENDING"} \subseteq flags[n]
                         /\ n \notin pendingAsts
                         /\ owed[n] # "ast"
                    /\ ~(asking # {} /\ dcPc[n] = "dlm")
  BY DEF GlueInv, OneRequest
<1>1. OneOwner(n) /\ PendingNode(n)
  BY DEF GlueInv, LiveNodes, NodeInv, PendingInv
<1>2. asking \subseteq Askers(n)
  BY DEF Askers, AskPc
<1>3. Cardinality(asking) <= 1
  <2>1. CASE asking = {}
    BY <2>1, FS_EmptySet
  <2>2. CASE asking # {}
    <3>1. PICK t : asking = {t}
      BY <1>1, <1>2, <2>2 DEF OneOwner
    <3> QED
      BY <3>1, FS_Singleton
  <2> QED
    BY <2>1, <2>2
<1>4. asking # {} \/ dcPc[n] = "dlm" =>
        /\ "BUSY" \in flags[n] /\ "PENDING" \in flags[n]
        /\ n \notin pendingAsts /\ owed[n] # "ast"
  BY <1>1, <1>2 DEF OneOwner, PendingNode, DcOwns, Out, Answered
<1>5. ~(asking # {} /\ dcPc[n] = "dlm")
  BY <1>1, <1>2 DEF OneOwner, DcOwns
<1> QED
  BY <1>3, <1>4, <1>5

\* Two requests of a node are never inside the DLM together, whoever makes them,
\* and PENDING is that of the request that has not reached the master.
THEOREM RequestsOneByOne == Spec => []OneRequest
<1>1. Init => PendingInv
  <2> SUFFICES ASSUME Init
               PROVE  \A n \in Node : PendingNode(n)
    BY DEF PendingInv
  <2>1. pc = [t \in Task |-> "idle"] /\ dcPc = [n \in Node |-> "idle"]
    BY DEF Init
  <2> QED
    BY <2>1 DEF PendingNode, TasksOf
<1>2. GlueInv /\ PendingInv /\ [Next]_<<vars, ltype>> => PendingInv'
  BY PendingStep
<1>3. GlueInv /\ PendingInv => OneRequest
  BY RequestsApart
<1> QED
  BY <1>1, <1>2, <1>3, GlueSafe, PTL DEF Spec
====
