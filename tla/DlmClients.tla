------------------------------ MODULE DlmClients ------------------------------
(***************************************************************************)
(* The lock resource of DlmQueues under every legal use of it: each node   *)
(* creates its lock, converts it to any mode, cancels a conversion that    *)
(* has not been answered and drops the lock, and never has two requests    *)
(* under way.                                                              *)
(*                                                                         *)
(* asked[n] is the request of n that has not been answered by an AST.      *)
(* told[n] is the highest level of the BASTs that reached n and that the   *)
(* mode it was granted since does not satisfy.                             *)
(***************************************************************************)
EXTENDS DlmQueues

VARIABLES asked, told

vars == <<dlmVars, asked, told>>

Init ==
  /\ DlmInit
  /\ asked = [n \in Node |-> "none"]
  /\ told = [n \in Node |-> IV]

\* No request of n is under way.
Idle(n) == asked[n] = "none" /\ owed[n] = "none"

\* dlmlock() for a new lock
Lock(n, mode) ==
  /\ type[n] = IV
  /\ Idle(n)
  /\ DlmLock(n, mode)
  /\ asked' = [asked EXCEPT ![n] = "lock"]
  /\ UNCHANGED told

\* dlmlock() with LKM_CONVERT
Convert(n, mode) ==
  /\ n \in granted
  /\ Idle(n)
  /\ mode # type[n]
  /\ DlmConvert(n, mode)
  /\ asked' = [asked EXCEPT ![n] = "convert"]
  /\ UNCHANGED told

\* dlmlock() with LKM_NOQUEUE, of a request that cannot be granted at once
TryFails(n, mode) ==
  /\ Idle(n)
  /\ \/ type[n] = IV /\ ~CanGrantNew(mode)
     \/ n \in granted /\ ~CanConvert(n, mode)
  /\ DlmNotQueued(n)
  /\ UNCHANGED <<asked, told>>

\* dlmunlock() with LKM_CANCEL, once dlmlock() has returned.  If the
\* conversion was granted in the meantime its AST is still to come.
Cancel(n) ==
  /\ asked[n] = "convert"
  /\ owed[n] = "none"
  /\ DlmCancel(n)
  /\ asked' = [asked EXCEPT ![n] = IF CancelStatus(n) = "NORMAL"
                                   THEN "none" ELSE @]
  /\ UNCHANGED told

\* dlmunlock(); the master waits for the BASTs of the lock to be flushed.
Unlock(n) ==
  /\ Idle(n)
  /\ n = Master => BastsFlushed(n)
  /\ DlmUnlock(n)
  /\ told' = [told EXCEPT ![n] = IV]
  /\ UNCHANGED asked

\* dlm_do_local_ast() / dlm_do_remote_ast()
Ast(n) ==
  /\ DeliverAst(n)
  /\ asked' = [asked EXCEPT ![n] = "none"]
  /\ told' = [told EXCEPT ![n] = IF type[n] <= HighestCompat(@)
                                 THEN IV ELSE @]

\* Mutant: it looks among the granted ones only.
BastFindsGranted(n) == type[n] # IV /\ asked[n] = "none"

\* dlm_proxy_ast_handler() looks for the lock of a BAST among the converting
\* and the granted ones: a lock whose first AST has not arrived is not there.
BastFindsLock(n) ==
  /\ type[n] # IV
  /\ asked[n] = "lock" => n = Master

Bast(n) ==
  /\ DeliverBast(n)
  /\ told' = IF BastFindsLock(n) /\ told[n] < inflight.level
             THEN [told EXCEPT ![n] = inflight.level]
             ELSE told
  /\ UNCHANGED asked

Post(n) == DlmPost(n) /\ UNCHANGED <<asked, told>>
Thread == DlmThread /\ UNCHANGED <<asked, told>>

Next ==
  \/ \E n \in Node, mode \in {PR, EX} : Lock(n, mode)
  \/ \E n \in Node, mode \in Mode : Convert(n, mode)
  \/ \E n \in Node, mode \in {PR, EX} : TryFails(n, mode)
  \/ \E n \in Node : Cancel(n)
  \/ \E n \in Node : Unlock(n)
  \/ \E n \in Node : Ast(n)
  \/ \E n \in Node : Bast(n)
  \/ \E n \in Node : Post(n)
  \/ Thread

Spec == Init /\ [][Next]_vars

-----------------------------------------------------------------------------
TypeOK ==
  /\ DlmTypeOK
  /\ asked \in [Node -> {"none", "lock", "convert"}]
  /\ told \in [Node -> AnyMode]

(***************************************************************************)
(* A request is answered once or is still on its way: it waits on exactly  *)
(* one of the two queues, or its handler is about to queue the AST, or the *)
(* AST is pending.  In particular a cancel that comes too late neither     *)
(* loses the AST nor adds a second one.                                    *)
(***************************************************************************)
RequestAccounted ==
  \A n \in Node :
    LET waits    == n \in Range(converting) \union Range(blocked)
        answered == n \in pendingAsts \/ owed[n] = "ast"
    IN  /\ asked[n] # "none" <=> waits \/ answered
        /\ ~(waits /\ answered)

(***************************************************************************)
(* dlm_thread never goes to sleep on a request it could have granted: no   *)
(* handler changes the lists without kicking it afterwards.                *)
(***************************************************************************)
NoLostKick ==
  Quiet =>
    /\ converting # <<>> => ConvertObstacles # {}
    /\ (converting = <<>> /\ blocked # <<>>) => BlockedObstacles # {}

(***************************************************************************)
(* ... nor while a node that stands in the way of the next request does    *)
(* not know it: the BAST that dlm_proxy_ast_handler() drops for a lock     *)
(* without its first AST is sent again, a BAST cancelled as obsolete was   *)
(* obsolete.                                                               *)
(***************************************************************************)
ObstaclesTold ==
  Quiet =>
    \A l \in ConvertObstacles \union BlockedObstacles :
      type[l] > HighestCompat(told[l])
=============================================================================
