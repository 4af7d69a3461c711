------------------------------ MODULE DlmQueues ------------------------------
(***************************************************************************)
(* The master of one o2dlm lock resource: the granted, converting and      *)
(* blocked lists, the handlers that create, convert, cancel and drop a     *)
(* lock, and dlm_thread, which shuffles the lists and delivers the ASTs    *)
(* and BASTs.  Every node owns at most one lock on the resource, so a lock *)
(* is named by its node.                                                   *)
(*                                                                         *)
(* The module has no specification of its own: DlmClients drives it with   *)
(* every legal call, DlmGlue with the calls of the file system.            *)
(*                                                                         *)
(* A handler works under res->spinlock, then queues the AST and kicks      *)
(* dlm_thread after it has dropped the lock: "owed" is what it still has   *)
(* to do.  dlm_shuffle_lists keeps the spinlock for the whole pass, so     *)
(* while thread = "shuffle" no handler runs.                               *)
(***************************************************************************)
EXTENDS LockModes, Sequences, FiniteSets, Functions

CONSTANTS
  Node,     \* the nodes that use the resource
  Master    \* the node that masters it; it need not use it

NoBast == [node |-> "none", level |-> IV]

VARIABLES
  type,            \* lock->ml.type; IV: the node has no lock
  convert,         \* lock->ml.convert_type
  granted,         \* res->granted
  converting,      \* res->converting, in order
  blocked,         \* res->blocked, in order
  owed,            \* "ast" / "kick": what the request handler has yet to do
  pendingAsts,     \* dlm->pending_asts
  highestBlocked,  \* lock->ml.highest_blocked; not IV: on dlm->pending_basts
  inflight,        \* the BAST dlm_thread has taken off the list to deliver
  dirty,           \* the resource is on dlm->dirty_list
  thread           \* where dlm_thread is

dlmVars == <<type, convert, granted, converting, blocked, owed, pendingAsts,
             highestBlocked, inflight, dirty, thread>>

DlmInit ==
  /\ type = [n \in Node |-> IV]
  /\ convert = [n \in Node |-> IV]
  /\ granted = {}
  /\ converting = <<>>
  /\ blocked = <<>>
  /\ owed = [n \in Node |-> "none"]
  /\ pendingAsts = {}
  /\ highestBlocked = [n \in Node |-> IV]
  /\ inflight = NoBast
  /\ dirty = FALSE
  /\ thread = "lists"

\* Mutant: the head goes instead of n.
WithoutHead(q, n) == Tail(q)

\* list_del() of n from a list it is on
Without(q, n) ==
  LET i == CHOOSE j \in DOMAIN q : q[j] = n
  IN  SubSeq(q, 1, i - 1) \o SubSeq(q, i + 1, Len(q))

\* The spinlock of the resource is free: a handler may run.
ResUnlocked == thread # "shuffle"

-----------------------------------------------------------------------------
(* The request handlers, at the master                                     *)

\* Mutant: the conversions that wait are forgotten.
CanGrantNewUnqueued(mode) == \A l \in granted : Compatible(type[l], mode)

\* dlm_can_grant_new_lock()
CanGrantNew(mode) ==
  /\ \A l \in granted : Compatible(type[l], mode)
  /\ \A l \in Range(converting) :
       Compatible(type[l], mode) /\ Compatible(convert[l], mode)

\* The upconvert test of __dlmconvert_master()
CanConvert(n, mode) ==
  \/ mode <= type[n]
  \/ /\ \A l \in granted \ {n} : Compatible(type[l], mode)
     /\ \A l \in Range(converting) :
          Compatible(type[l], mode) /\ Compatible(convert[l], mode)

\* A LKM_NOQUEUE request that cannot be granted at once: DLM_NOTQUEUED.
\* Only dlmlock() of the master itself kicks the thread all the same.
DlmNotQueued(n) ==
  /\ ResUnlocked
  /\ dirty' = (dirty \/ (n = Master /\ type[n] = IV))
  /\ UNCHANGED <<type, convert, granted, converting, blocked, owed,
                 pendingAsts, highestBlocked, inflight, thread>>

\* dlmlock_master(): a lock is created and granted, or put on the blocked list
DlmLock(n, mode) ==
  /\ ResUnlocked
  /\ type' = [type EXCEPT ![n] = mode]
  /\ \/ /\ CanGrantNew(mode)
        /\ granted' = granted \union {n}
        /\ owed' = [owed EXCEPT ![n] = "ast"]
        /\ UNCHANGED blocked
     \/ /\ ~CanGrantNew(mode)
        /\ blocked' = Append(blocked, n)
        /\ owed' = [owed EXCEPT ![n] = "kick"]
        /\ UNCHANGED granted
  /\ UNCHANGED <<convert, converting, pendingAsts, highestBlocked, inflight,
                 dirty, thread>>

\* __dlmconvert_master(): a conversion of a granted lock
DlmConvert(n, mode) ==
  /\ ResUnlocked
  /\ n \in granted
  /\ \/ /\ CanConvert(n, mode)
        /\ type' = [type EXCEPT ![n] = mode]
        /\ owed' = [owed EXCEPT ![n] = "ast"]
        /\ UNCHANGED <<convert, granted, converting>>
     \/ /\ ~CanConvert(n, mode)
        /\ convert' = [convert EXCEPT ![n] = mode]
        /\ granted' = granted \ {n}
        /\ converting' = Append(converting, n)
        /\ owed' = [owed EXCEPT ![n] = "kick"]
        /\ UNCHANGED type
  /\ UNCHANGED <<blocked, pendingAsts, highestBlocked, inflight, dirty,
                 thread>>

\* Mutant: a late cancel is taken for a good one.
CancelStatusNormal(n) == "NORMAL"

\* dlm_get_cancel_actions()
CancelStatus(n) ==
  IF n \in granted THEN "CANCELGRANT" ELSE "NORMAL"

\* dlmunlock_common() with LKM_CANCEL: a queued conversion goes back to the
\* granted list, a queued lock is removed, a granted one is left to its AST.
DlmCancel(n) ==
  /\ ResUnlocked
  /\ \/ /\ n \in Range(converting)
        /\ converting' = Without(converting, n)
        /\ granted' = granted \union {n}
        /\ convert' = [convert EXCEPT ![n] = IV]
        /\ UNCHANGED <<type, blocked>>
     \/ /\ n \in Range(blocked)
        /\ blocked' = Without(blocked, n)
        /\ type' = [type EXCEPT ![n] = IV]
        /\ UNCHANGED <<convert, granted, converting>>
     \/ /\ n \in granted
        /\ UNCHANGED <<type, convert, granted, converting, blocked>>
  /\ dirty' = TRUE
  /\ UNCHANGED <<owed, pendingAsts, highestBlocked, inflight, thread>>

\* Mutant: dlm_kick_thread() is forgotten.
DlmUnlockQuietly(n) ==
  /\ ResUnlocked
  /\ n \in granted
  /\ n \notin pendingAsts
  /\ granted' = granted \ {n}
  /\ type' = [type EXCEPT ![n] = IV]
  /\ UNCHANGED <<convert, converting, blocked, owed, pendingAsts,
                 highestBlocked, inflight, dirty, thread>>

\* dlmunlock_common() without LKM_CANCEL: the granted lock is gone.  For a
\* pending AST it would return DLM_BADPARAM.
DlmUnlock(n) ==
  /\ ResUnlocked
  /\ n \in granted
  /\ n \notin pendingAsts
  /\ granted' = granted \ {n}
  /\ type' = [type EXCEPT ![n] = IV]
  /\ dirty' = TRUE
  /\ UNCHANGED <<convert, converting, blocked, owed, pendingAsts,
                 highestBlocked, inflight, thread>>

\* dlm_should_cancel_bast(): the mode just granted blocks nobody any more
BastObsolete(n) ==
  /\ highestBlocked[n] # IV
  /\ \/ type[n] = NL
     \/ type[n] = PR /\ highestBlocked[n] # EX

\* The tail of the handlers, after the spinlock is dropped: dlm_queue_ast()
\* when the request was granted, dlm_kick_thread() in any case.
DlmPost(n) ==
  /\ owed[n] # "none"
  /\ ResUnlocked
  /\ owed' = [owed EXCEPT ![n] = "none"]
  /\ dirty' = TRUE
  /\ \/ /\ owed[n] = "ast"
        /\ pendingAsts' = pendingAsts \union {n}
        /\ highestBlocked' = IF BastObsolete(n)
                             THEN [highestBlocked EXCEPT ![n] = IV]
                             ELSE highestBlocked
     \/ /\ owed[n] = "kick"
        /\ UNCHANGED <<pendingAsts, highestBlocked>>
  /\ UNCHANGED <<type, convert, granted, converting, blocked, inflight,
                 thread>>

-----------------------------------------------------------------------------
(* dlm_thread                                                              *)

OnLists == granted \union Range(converting)

\* The locks that keep target from getting mode
Obstacles(target, mode) ==
  {l \in OnLists \ {target} : ~Compatible(type[l], mode)}

ConvertTarget == Head(converting)
BlockedTarget == Head(blocked)

ConvertObstacles ==
  IF converting = <<>> THEN {}
  ELSE Obstacles(ConvertTarget, convert[ConvertTarget])
BlockedObstacles ==
  IF blocked = <<>> THEN {}
  ELSE Obstacles(BlockedTarget, type[BlockedTarget])

\* What the pass over the heads makes of highest_blocked: raised, never lowered
Raised(hb, ls, mode) ==
  [l \in Node |-> IF l \in ls /\ hb[l] < mode THEN mode ELSE hb[l]]

ShuffleStart ==
  /\ thread = "lists"
  /\ dirty
  /\ dirty' = FALSE
  /\ thread' = "shuffle"
  /\ UNCHANGED <<type, convert, granted, converting, blocked, owed,
                 pendingAsts, highestBlocked, inflight>>

\* The head of the convert queue can be granted; "go back and check for more"
ShuffleConvert ==
  /\ thread = "shuffle"
  /\ converting # <<>>
  /\ ConvertObstacles = {}
  /\ highestBlocked[ConvertTarget] = IV       \* BUG_ON otherwise
  /\ LET t == ConvertTarget
     IN  /\ type' = [type EXCEPT ![t] = convert[t]]
         /\ convert' = [convert EXCEPT ![t] = IV]
         /\ granted' = granted \union {t}
         /\ pendingAsts' = pendingAsts \union {t}
  /\ converting' = Tail(converting)
  /\ UNCHANGED <<blocked, owed, highestBlocked, inflight, dirty, thread>>

\* The head of the blocked queue can be granted: only if nobody converts
ShuffleBlocked ==
  /\ thread = "shuffle"
  /\ converting = <<>>
  /\ blocked # <<>>
  /\ BlockedObstacles = {}
  /\ granted' = granted \union {BlockedTarget}
  /\ pendingAsts' = pendingAsts \union {BlockedTarget}
  /\ blocked' = Tail(blocked)
  /\ UNCHANGED <<type, convert, converting, owed, highestBlocked, inflight,
                 dirty, thread>>

\* Nothing more to grant: the obstacles of both heads are sent BASTs
ShuffleBasts ==
  /\ thread = "shuffle"
  /\ converting # <<>> => ConvertObstacles # {}
  /\ (converting = <<>> /\ blocked # <<>>) => BlockedObstacles # {}
  /\ LET told == IF converting = <<>> THEN highestBlocked
                 ELSE Raised(highestBlocked, ConvertObstacles,
                             convert[ConvertTarget])
     IN  highestBlocked' = IF blocked = <<>> THEN told
                           ELSE Raised(told, BlockedObstacles,
                                       type[BlockedTarget])
  /\ thread' = "lists"
  /\ UNCHANGED <<type, convert, granted, converting, blocked, owed,
                 pendingAsts, inflight, dirty>>

\* dlm_flush_asts() is entered once the dirty list is empty, and it empties
\* the list of ASTs before it turns to the BASTs.
FlushingAsts == thread = "asts" \/ (thread = "lists" /\ ~dirty)

PendingBasts == {n \in Node : highestBlocked[n] # IV}

\* An AST is delivered to n; the caller adds what its handler does.
DeliverAst(n) ==
  /\ FlushingAsts
  /\ n \in pendingAsts
  /\ pendingAsts' = pendingAsts \ {n}
  /\ thread' = "asts"
  /\ UNCHANGED <<type, convert, granted, converting, blocked, owed,
                 highestBlocked, inflight, dirty>>

\* dlm_thread takes a BAST off the list: highest_blocked is reset ...
TakeBast(n) ==
  /\ thread = "basts" \/ (FlushingAsts /\ pendingAsts = {})
  /\ inflight = NoBast
  /\ n \in PendingBasts
  /\ inflight' = [node |-> n, level |-> highestBlocked[n]]
  /\ highestBlocked' = [highestBlocked EXCEPT ![n] = IV]
  /\ thread' = "basts"
  /\ UNCHANGED <<type, convert, granted, converting, blocked, owed,
                 pendingAsts, dirty>>

\* ... and it reaches the node, which may have changed its mind meanwhile.
DeliverBast(n) ==
  /\ inflight.node = n
  /\ inflight' = NoBast
  /\ UNCHANGED <<type, convert, granted, converting, blocked, owed,
                 pendingAsts, highestBlocked, dirty, thread>>

FlushDone ==
  /\ \/ thread = "asts" /\ pendingAsts = {}
     \/ thread = "basts"
  /\ PendingBasts = {}
  /\ inflight = NoBast
  /\ thread' = "lists"
  /\ UNCHANGED <<type, convert, granted, converting, blocked, owed,
                 pendingAsts, highestBlocked, inflight, dirty>>

\* dlm_lock_basts_flushed(): what dlmunlock() of the master waits for
BastsFlushed(n) == highestBlocked[n] = IV /\ inflight.node # n

DlmThread ==
  \/ ShuffleStart
  \/ ShuffleConvert
  \/ ShuffleBlocked
  \/ ShuffleBasts
  \/ \E n \in Node : TakeBast(n)
  \/ FlushDone

\* dlm_thread has nothing to do, and no handler is about to give it work.
Quiet ==
  /\ thread = "lists"
  /\ ~dirty
  /\ pendingAsts = {}
  /\ PendingBasts = {}
  /\ inflight = NoBast
  /\ \A n \in Node : owed[n] = "none"

-----------------------------------------------------------------------------
DlmTypeOK ==
  /\ type \in [Node -> AnyMode]
  /\ convert \in [Node -> AnyMode]
  /\ granted \in SUBSET Node
  /\ converting \in Seq(Node)
  /\ blocked \in Seq(Node)
  /\ owed \in [Node -> {"none", "ast", "kick"}]
  /\ pendingAsts \in SUBSET Node
  /\ highestBlocked \in [Node -> AnyMode]
  /\ inflight \in [node : Node, level : Mode] \union {NoBast}
  /\ dirty \in BOOLEAN
  /\ thread \in {"lists", "shuffle", "asts", "basts"}

(***************************************************************************)
(* A lock is on one of the three lists, once, or on none and has no mode;  *)
(* only a lock on the convert list has a mode to convert to.               *)
(***************************************************************************)
OneList ==
  /\ IsInjective(converting)
  /\ IsInjective(blocked)
  /\ granted \intersect Range(converting) = {}
  /\ OnLists \intersect Range(blocked) = {}
  /\ \A n \in Node : type[n] # IV <=> n \in OnLists \union Range(blocked)
  /\ \A n \in Node : convert[n] # IV <=> n \in Range(converting)

(***************************************************************************)
(* No two nodes are granted incompatible modes: what dlm_can_grant_new_    *)
(* lock(), __dlmconvert_master() and dlm_shuffle_lists() must preserve     *)
(* together.  A lock on the convert list still holds its old mode.         *)
(***************************************************************************)
GrantedCompatible ==
  \A m, n \in OnLists : m # n => Compatible(type[m], type[n])
=============================================================================
