-------------------------- MODULE DlmClients_proofs --------------------------
(***************************************************************************)
(* Proofs about the lock resource of o2dlm under every legal use of it,    *)
(* for any number of nodes.                                                *)
(*                                                                         *)
(* Inv, the inductive invariant, joins the invariant of the lists with     *)
(* what the requests of the nodes have to do with them.                    *)
(***************************************************************************)
EXTENDS DlmClients, DlmQueues_proofs

OneAnswer == \A n \in Node : ~(n \in pendingAsts /\ owed[n] = "ast")

Inv == DlmInv /\ TypeOK /\ RequestAccounted /\ OneAnswer

\* The call a client makes of the master is one of its operations.
LEMMA StepDlmInv ==
  ASSUME DlmInv, [Next]_vars
  PROVE  DlmInv'
<1>1. ASSUME NEW n \in Node, NEW mode \in {PR, EX}, Lock(n, mode)
      PROVE  DlmInv'
  BY <1>1, DlmLockInv DEF Lock, Mode
<1>2. ASSUME NEW n \in Node, NEW mode \in Mode, Convert(n, mode)
      PROVE  DlmInv'
  BY <1>2, DlmConvertInv DEF Convert
<1>3. ASSUME NEW n \in Node, NEW mode \in {PR, EX}, TryFails(n, mode)
      PROVE  DlmInv'
  BY <1>3, DlmNotQueuedInv DEF TryFails
<1>4. ASSUME NEW n \in Node, Cancel(n) PROVE DlmInv'
  BY <1>4, DlmCancelInv DEF Cancel
<1>5. ASSUME NEW n \in Node, Unlock(n) PROVE DlmInv'
  BY <1>5, DlmUnlockInv DEF Unlock
<1>6. ASSUME NEW n \in Node, Ast(n) PROVE DlmInv'
  BY <1>6, DeliverAstInv DEF Ast
<1>7. ASSUME NEW n \in Node, Bast(n) PROVE DlmInv'
  BY <1>7, DeliverBastInv DEF Bast
<1>8. ASSUME NEW n \in Node, Post(n) PROVE DlmInv'
  BY <1>8, DlmPostInv DEF Post
<1>9. CASE Thread
  BY <1>9, DlmThreadInv DEF Thread
<1>10. CASE UNCHANGED vars
  BY <1>10, DlmStutterInv DEF vars
<1> QED
  BY <1>1, <1>2, <1>3, <1>4, <1>5, <1>6, <1>7, <1>8, <1>9, <1>10 DEF Next

LEMMA StepTypeOK ==
  ASSUME DlmInv, TypeOK, [Next]_vars
  PROVE  TypeOK'
<1>1. DlmTypeOK'
  BY StepDlmInv DEF DlmInv
<1>2. /\ IV \in AnyMode
      /\ \A n \in Node : inflight.node = n => inflight.level \in AnyMode
  BY DEF TypeOK, DlmTypeOK, NoBast, AnyMode
<1>3. /\ asked' \in [Node -> {"none", "lock", "convert"}]
      /\ told' \in [Node -> AnyMode]
  BY <1>2 DEF TypeOK, Next, vars, Lock, Convert, TryFails, Cancel, Unlock, Ast,
              Bast, DeliverBast, Post, Thread
<1> QED
  BY <1>1, <1>3 DEF TypeOK

-----------------------------------------------------------------------------
(* Requests and answers                                                    *)

Waiting(n) == n \in Range(converting) \union Range(blocked)
Answered(n) == n \in pendingAsts \/ owed[n] = "ast"

\* RequestAccounted and OneAnswer, for one node
Accounted(n) ==
  /\ asked[n] # "none" <=> Waiting(n) \/ Answered(n)
  /\ ~(Waiting(n) /\ Answered(n))
  /\ ~(n \in pendingAsts /\ owed[n] = "ast")

LEMMA AccountedAll ==
  (RequestAccounted /\ OneAnswer) <=> \A n \in Node : Accounted(n)
BY DEF RequestAccounted, OneAnswer, Accounted, Waiting, Answered

LEMMA LockAccounted ==
  ASSUME Inv, NEW n \in Node, NEW mode \in Mode, Lock(n, mode)
  PROVE  \A m \in Node : Accounted(m)'
<1>1. /\ \A m \in Node : Accounted(m)
      /\ asked[n] = "none" /\ owed[n] = "none"
      /\ asked' = [asked EXCEPT ![n] = "lock"]
      /\ UNCHANGED <<converting, pendingAsts>>
  BY AccountedAll DEF Inv, Lock, DlmLock, Idle
<1>2. CASE CanGrantNew(mode)
  <2>1. owed' = [owed EXCEPT ![n] = "ast"] /\ UNCHANGED blocked
    BY <1>2 DEF Lock, DlmLock
  <2> QED
    BY <1>1, <2>1 DEF Inv, TypeOK, DlmTypeOK, Accounted, Waiting, Answered
<1>3. CASE ~CanGrantNew(mode)
  <2>1. owed' = [owed EXCEPT ![n] = "kick"] /\ blocked' = Append(blocked, n)
    BY <1>3 DEF Lock, DlmLock
  <2>2. Range(blocked') = Range(blocked) \union {n}
    BY <2>1, AppendRange DEF Inv, TypeOK, DlmTypeOK
  <2> QED
    BY <1>1, <2>1, <2>2
    DEF Inv, TypeOK, DlmTypeOK, Accounted, Waiting, Answered
<1> QED
  BY <1>2, <1>3

LEMMA ConvertAccounted ==
  ASSUME Inv, NEW n \in Node, NEW mode \in Mode, Convert(n, mode)
  PROVE  \A m \in Node : Accounted(m)'
<1>1. /\ \A m \in Node : Accounted(m)
      /\ asked[n] = "none" /\ owed[n] = "none"
      /\ asked' = [asked EXCEPT ![n] = "convert"]
      /\ UNCHANGED <<blocked, pendingAsts>>
  BY AccountedAll DEF Inv, Convert, DlmConvert, Idle
<1>2. CASE CanConvert(n, mode)
  <2>1. owed' = [owed EXCEPT ![n] = "ast"] /\ UNCHANGED converting
    BY <1>2 DEF Convert, DlmConvert
  <2> QED
    BY <1>1, <2>1 DEF Inv, TypeOK, DlmTypeOK, Accounted, Waiting, Answered
<1>3. CASE ~CanConvert(n, mode)
  <2>1. /\ owed' = [owed EXCEPT ![n] = "kick"]
        /\ converting' = Append(converting, n)
    BY <1>3 DEF Convert, DlmConvert
  <2>2. Range(converting') = Range(converting) \union {n}
    BY <2>1, AppendRange DEF Inv, TypeOK, DlmTypeOK
  <2> QED
    BY <1>1, <2>1, <2>2
    DEF Inv, TypeOK, DlmTypeOK, Accounted, Waiting, Answered
<1> QED
  BY <1>2, <1>3

\* A cancel that comes in time takes the request off its queue, one that
\* comes too late changes nothing.
LEMMA CancelAccounted ==
  ASSUME Inv, NEW n \in Node, Cancel(n)
  PROVE  \A m \in Node : Accounted(m)'
<1>1. /\ \A m \in Node : Accounted(m)
      /\ OneList
      /\ asked[n] = "convert" /\ owed[n] = "none"
      /\ asked' = [asked EXCEPT ![n] = IF n \in granted THEN @ ELSE "none"]
      /\ UNCHANGED <<owed, pendingAsts>>
  BY AccountedAll
  DEF Inv, DlmInv, Cancel, DlmCancel, CancelStatus
<1>2. CASE n \in granted
  <2>1. n \notin Range(converting) \union Range(blocked)
    BY <1>1, <1>2 DEF OneList, OnLists
  <2>2. UNCHANGED <<converting, blocked>>
    BY <1>2, <2>1 DEF Cancel, DlmCancel
  <2> QED
    BY <1>1, <1>2, <2>2
    DEF Inv, TypeOK, DlmTypeOK, Accounted, Waiting, Answered
<1>3. CASE n \notin granted
  <2>1. /\ Range(converting') = Range(converting) \ {n}
        /\ Range(blocked') = Range(blocked) \ {n}
    BY <1>1, <1>3, WithoutRange
    DEF Cancel, DlmCancel, Inv, TypeOK, DlmTypeOK, OneList, OnLists
  <2>2. Waiting(n)
    BY <1>3 DEF Cancel, DlmCancel, Waiting
  <2> QED
    BY <1>1, <1>3, <2>1, <2>2
    DEF Inv, TypeOK, DlmTypeOK, Accounted, Waiting, Answered
<1> QED
  BY <1>2, <1>3

LEMMA AstAccounted ==
  ASSUME Inv, NEW n \in Node, Ast(n)
  PROVE  \A m \in Node : Accounted(m)'
<1>1. \A m \in Node : Accounted(m)
  BY AccountedAll DEF Inv
<1>2. /\ n \in pendingAsts
      /\ pendingAsts' = pendingAsts \ {n}
      /\ asked' = [asked EXCEPT ![n] = "none"]
      /\ UNCHANGED <<converting, blocked, owed>>
  BY DEF Ast, DeliverAst
<1> QED
  BY <1>1, <1>2 DEF Inv, TypeOK, DlmTypeOK, Accounted, Waiting, Answered

LEMMA PostAccounted ==
  ASSUME Inv, NEW n \in Node, Post(n)
  PROVE  \A m \in Node : Accounted(m)'
<1>1. \A m \in Node : Accounted(m)
  BY AccountedAll DEF Inv
<1>2. /\ owed' = [owed EXCEPT ![n] = "none"]
      /\ pendingAsts' = IF owed[n] = "ast" THEN pendingAsts \union {n}
                                           ELSE pendingAsts
      /\ UNCHANGED <<asked, converting, blocked>>
  BY DEF Post, DlmPost
<1> QED
  BY <1>1, <1>2 DEF Inv, TypeOK, DlmTypeOK, Accounted, Waiting, Answered

LEMMA ThreadAccounted ==
  ASSUME Inv, Thread
  PROVE  \A m \in Node : Accounted(m)'
<1>1. (\A m \in Node : Accounted(m)) /\ UNCHANGED asked
  BY AccountedAll DEF Inv, Thread
<1>2. CASE ShuffleConvert
  <2> DEFINE t == ConvertTarget
  <2>1. /\ pendingAsts' = pendingAsts \union {t}
        /\ UNCHANGED <<blocked, owed>>
    BY <1>2 DEF ShuffleConvert
  <2>2. /\ t \in Range(converting) /\ t \notin Range(blocked)
        /\ Range(converting') = Range(converting) \ {t}
    BY <1>2, TailRange
    DEF ShuffleConvert, ConvertTarget, Inv, DlmInv, DlmTypeOK, OneList, OnLists
  <2> HIDE DEF t
  <2> QED
    BY <1>1, <2>1, <2>2
    DEF Inv, TypeOK, DlmTypeOK, Accounted, Waiting, Answered
<1>3. CASE ShuffleBlocked
  <2> DEFINE t == BlockedTarget
  <2>1. /\ pendingAsts' = pendingAsts \union {t}
        /\ UNCHANGED <<converting, owed>>
    BY <1>3 DEF ShuffleBlocked
  <2>2. /\ t \in Range(blocked) /\ t \notin Range(converting)
        /\ Range(blocked') = Range(blocked) \ {t}
    BY <1>3, TailRange
    DEF ShuffleBlocked, BlockedTarget, Inv, DlmInv, DlmTypeOK, OneList, OnLists
  <2> HIDE DEF t
  <2> QED
    BY <1>1, <2>1, <2>2
    DEF Inv, TypeOK, DlmTypeOK, Accounted, Waiting, Answered
<1>4. CASE UNCHANGED <<converting, blocked, owed, pendingAsts>>
  BY <1>1, <1>4 DEF Accounted, Waiting, Answered
<1> QED
  BY <1>2, <1>3, <1>4
  DEF Thread, DlmThread, ShuffleStart, ShuffleBasts, TakeBast, FlushDone

LEMMA StepAccounted ==
  ASSUME Inv, [Next]_vars
  PROVE  RequestAccounted' /\ OneAnswer'
<1>1. \A m \in Node : Accounted(m)
  BY AccountedAll DEF Inv
<1>2. (\A m \in Node : Accounted(m)') => RequestAccounted' /\ OneAnswer'
  BY DEF RequestAccounted, OneAnswer, Accounted, Waiting, Answered
<1>3. CASE UNCHANGED <<converting, blocked, owed, pendingAsts, asked>>
  BY <1>1, <1>2, <1>3 DEF Accounted, Waiting, Answered
<1>4. ASSUME NEW n \in Node, NEW mode \in {PR, EX},
             Lock(n, mode) \/ TryFails(n, mode)
      PROVE  RequestAccounted' /\ OneAnswer'
  BY <1>2, <1>3, <1>4, LockAccounted DEF Mode, TryFails, DlmNotQueued
<1>5. ASSUME NEW n \in Node, NEW mode \in Mode, Convert(n, mode)
      PROVE  RequestAccounted' /\ OneAnswer'
  BY <1>2, <1>5, ConvertAccounted
<1>6. ASSUME NEW n \in Node, Cancel(n) \/ Ast(n) \/ Post(n)
      PROVE  RequestAccounted' /\ OneAnswer'
  BY <1>2, <1>6, CancelAccounted, AstAccounted, PostAccounted
<1>7. ASSUME NEW n \in Node, Unlock(n) \/ Bast(n)
      PROVE  RequestAccounted' /\ OneAnswer'
  BY <1>3, <1>7 DEF Unlock, DlmUnlock, Bast, DeliverBast
<1>8. CASE Thread
  BY <1>2, <1>8, ThreadAccounted
<1>9. CASE UNCHANGED vars
  BY <1>3, <1>9 DEF vars, dlmVars
<1> QED
  BY <1>4, <1>5, <1>6, <1>7, <1>8, <1>9 DEF Next

-----------------------------------------------------------------------------
(* dlm_thread and its kicks                                                *)

\* Neither queue can move.
Obstructed ==
  /\ converting # <<>> => ConvertObstacles # {}
  /\ (converting = <<>> /\ blocked # <<>>) => BlockedObstacles # {}

\* The lists will be looked at again.
Awake == thread = "shuffle" \/ dirty \/ \E n \in Node : owed[n] # "none"

KickInv == Awake \/ Obstructed

\* Steps that change none of what dlm_shuffle_lists() looks at
LEMMA StaysObstructed ==
  ASSUME Obstructed, UNCHANGED <<type, convert, granted, converting, blocked>>
  PROVE  Obstructed'
BY DEF Obstructed, ConvertObstacles, BlockedObstacles, Obstacles, OnLists,
       ConvertTarget, BlockedTarget

LEMMA StepKickInv ==
  ASSUME TypeOK, KickInv, [Next]_vars
  PROVE  KickInv'
<1>1. ASSUME NEW n \in Node,
             \/ \E mode \in {PR, EX} : Lock(n, mode)
             \/ \E mode \in Mode : Convert(n, mode)
      PROVE  KickInv'
  <2>1. owed'[n] # "none"
    BY <1>1 DEF Lock, DlmLock, Convert, DlmConvert, TypeOK, DlmTypeOK
  <2> QED
    BY <2>1 DEF KickInv, Awake
<1>2. ASSUME NEW n \in Node, Cancel(n) \/ Unlock(n) \/ Post(n)
      PROVE  KickInv'
  BY <1>2
  DEF Cancel, DlmCancel, Unlock, DlmUnlock, Post, DlmPost, KickInv, Awake
<1>3. ASSUME UNCHANGED <<type, convert, granted, converting, blocked, owed>>,
             dirty => dirty', thread # "shuffle" \/ thread' = "shuffle"
      PROVE  KickInv'
  BY <1>3, StaysObstructed DEF KickInv, Awake
<1>4. ASSUME NEW n \in Node,
             \/ \E mode \in {PR, EX} : TryFails(n, mode)
             \/ Ast(n)
             \/ Bast(n)
      PROVE  KickInv'
  <2>1. UNCHANGED <<type, convert, granted, converting, blocked, owed>>
    BY <1>4 DEF TryFails, DlmNotQueued, Ast, DeliverAst, Bast, DeliverBast
  <2>2. dirty => dirty'
    <3>1. dirty' = dirty \/ dirty' = (dirty \/ (n = Master /\ type[n] = IV))
      BY <1>4 DEF TryFails, DlmNotQueued, Ast, DeliverAst, Bast, DeliverBast
    <3> QED
      BY <3>1
  <2>3. thread # "shuffle" \/ thread' = "shuffle"
    BY <1>4 DEF TryFails, DlmNotQueued, ResUnlocked, Ast, DeliverAst,
                FlushingAsts, Bast, DeliverBast
  <2> QED
    BY <1>3, <2>1, <2>2, <2>3
<1>5. CASE Thread
  <2>1. CASE ShuffleStart \/ ShuffleConvert \/ ShuffleBlocked
    BY <2>1
    DEF ShuffleStart, ShuffleConvert, ShuffleBlocked, KickInv, Awake
  <2>2. CASE ShuffleBasts
    <3>1. Obstructed
      BY <2>2 DEF ShuffleBasts, Obstructed
    <3> QED
      BY <2>2, <3>1, StaysObstructed DEF ShuffleBasts, KickInv
  <2>3. CASE FlushDone \/ \E n \in Node : TakeBast(n)
    <3>1. /\ UNCHANGED <<type, convert, granted, converting, blocked, owed,
                         dirty>>
          /\ thread # "shuffle"
      BY <2>3 DEF FlushDone, TakeBast, FlushingAsts
    <3> QED
      BY <1>3, <3>1
  <2> QED
    BY <1>5, <2>1, <2>2, <2>3 DEF Thread, DlmThread
<1>6. CASE UNCHANGED vars
  BY <1>3, <1>6 DEF vars, dlmVars
<1> QED
  BY <1>1, <1>2, <1>4, <1>5, <1>6 DEF Next

-----------------------------------------------------------------------------
(* Who stands in the way                                                   *)

\* A request for a new lock does not wait among the conversions.
LocksUnconverted ==
  \A n \in Node : asked[n] = "lock" => n \notin Range(converting)

\* dlm_flush_asts() turns to the BASTs when the list of ASTs is empty; what
\* comes later has dlm_thread look at the lists again.
AstsFirst ==
  /\ inflight # NoBast => thread = "basts"
  /\ thread = "basts" => pendingAsts = {} \/ dirty

\* n has been told that somebody waits, or the BAST is on its way.
Warned(n) ==
  \/ type[n] > HighestCompat(told[n])
  \/ type[n] > HighestCompat(highestBlocked[n])
  \/ inflight.node = n /\ type[n] > HighestCompat(inflight.level)

InTheWay == ConvertObstacles \union BlockedObstacles

ToldInv ==
  /\ LocksUnconverted
  /\ AstsFirst
  /\ Awake \/ \A n \in InTheWay : Warned(n)

LEMMA InTheWayKeeps ==
  ASSUME UNCHANGED <<type, convert, granted, converting, blocked>>
  PROVE  InTheWay' = InTheWay
BY DEF InTheWay, ConvertObstacles, BlockedObstacles, Obstacles, OnLists,
       ConvertTarget, BlockedTarget

LEMMA InTheWayOnLists ==
  ASSUME TypeOK, NEW n \in InTheWay
  PROVE  n \in Node /\ n \in granted \union Range(converting)
<1>1. Range(converting) \subseteq Node
  BY SeqRange DEF TypeOK, DlmTypeOK
<1> QED
  BY <1>1
  DEF InTheWay, ConvertObstacles, BlockedObstacles, Obstacles, OnLists, TypeOK,
      DlmTypeOK

\* A mode that waits is in conflict with what it has to wait for, and so is a
\* stronger one.
LEMMA ConflictAbove ==
  ASSUME NEW a \in AnyMode, NEW b \in AnyMode, NEW c \in AnyMode,
         ~Compatible(a, b), b =< c
  PROVE  a > HighestCompat(c)
BY DEF AnyMode, Mode, Compatible, HighestCompat, IV, NL, PR, EX

LEMMA StepLocksUnconverted ==
  ASSUME Inv, LocksUnconverted, [Next]_vars
  PROVE  LocksUnconverted'
<1>1. ASSUME NEW n \in Node, NEW mode \in {PR, EX}, Lock(n, mode)
      PROVE  LocksUnconverted'
  <2>1. /\ n \notin Range(converting)
        /\ UNCHANGED converting
        /\ asked' = [asked EXCEPT ![n] = "lock"]
    BY <1>1 DEF Lock, DlmLock, Inv, DlmInv, OneList, OnLists
  <2> QED
    BY <2>1 DEF LocksUnconverted, Inv, TypeOK
<1>2. ASSUME NEW n \in Node, NEW mode \in Mode, Convert(n, mode)
      PROVE  LocksUnconverted'
  <2>1. asked' = [asked EXCEPT ![n] = "convert"]
    BY <1>2 DEF Convert
  <2>2. Range(converting') \subseteq Range(converting) \union {n}
    <3>1. CASE CanConvert(n, mode)
      BY <1>2, <3>1 DEF Convert, DlmConvert
    <3>2. CASE ~CanConvert(n, mode)
      <4>1. converting' = Append(converting, n)
        BY <1>2, <3>2 DEF Convert, DlmConvert
      <4> QED
        BY <4>1, AppendRange DEF Inv, TypeOK, DlmTypeOK
    <3> QED
      BY <3>1, <3>2
  <2> QED
    BY <2>1, <2>2 DEF LocksUnconverted, Inv, TypeOK
<1>3. ASSUME NEW n \in Node, Cancel(n) PROVE LocksUnconverted'
  <2>1. \A m \in Node : asked'[m] = "lock" => asked[m] = "lock"
    BY <1>3 DEF Cancel, Inv, TypeOK
  <2>2. Range(converting') \subseteq Range(converting)
    BY <1>3, WithoutRange
    DEF Cancel, DlmCancel, Inv, TypeOK, DlmTypeOK, DlmInv, OneList
  <2> QED
    BY <2>1, <2>2 DEF LocksUnconverted
<1>4. CASE Thread
  <2>1. UNCHANGED asked
    BY <1>4 DEF Thread
  <2>2. Range(converting') \subseteq Range(converting)
    <3>1. CASE ShuffleConvert
      BY <3>1, TailRange
      DEF ShuffleConvert, Inv, TypeOK, DlmTypeOK, DlmInv, OneList
    <3>2. CASE UNCHANGED converting
      BY <3>2
    <3> QED
      BY <1>4, <3>1, <3>2
      DEF Thread, DlmThread, ShuffleStart, ShuffleBlocked, ShuffleBasts,
          TakeBast, FlushDone
  <2> QED
    BY <2>1, <2>2 DEF LocksUnconverted
<1>5. ASSUME NEW n \in Node,
             \/ Unlock(n) \/ Ast(n) \/ Bast(n) \/ Post(n)
             \/ \E mode \in {PR, EX} : TryFails(n, mode)
      PROVE  LocksUnconverted'
  <2>1. UNCHANGED converting
    BY <1>5
    DEF Unlock, DlmUnlock, Ast, DeliverAst, Bast, DeliverBast, Post, DlmPost,
        TryFails, DlmNotQueued
  <2>2. \A m \in Node : asked'[m] = "lock" => asked[m] = "lock"
    BY <1>5 DEF Unlock, Ast, Bast, Post, TryFails, Inv, TypeOK
  <2> QED
    BY <2>1, <2>2 DEF LocksUnconverted
<1>6. CASE UNCHANGED vars
  BY <1>6 DEF LocksUnconverted, vars, dlmVars
<1> QED
  BY <1>1, <1>2, <1>3, <1>4, <1>5, <1>6 DEF Next

LEMMA StepAstsFirst ==
  ASSUME TypeOK, AstsFirst, [Next]_vars
  PROVE  AstsFirst'
<1>1. ASSUME NEW n \in Node,
             \/ \E mode \in Mode :
                  Lock(n, mode) \/ Convert(n, mode) \/ TryFails(n, mode)
             \/ Cancel(n) \/ Unlock(n) \/ Post(n)
      PROVE  AstsFirst'
  <2>1. UNCHANGED <<inflight, thread>>
    BY <1>1
    DEF Lock, DlmLock, Convert, DlmConvert, TryFails, DlmNotQueued, Cancel,
        DlmCancel, Unlock, DlmUnlock, Post, DlmPost
  <2>2. dirty' \/ (UNCHANGED pendingAsts /\ (dirty => dirty'))
    BY <1>1
    DEF Lock, DlmLock, Convert, DlmConvert, TryFails, DlmNotQueued, Cancel,
        DlmCancel, Unlock, DlmUnlock, Post, DlmPost
  <2> QED
    BY <2>1, <2>2 DEF AstsFirst
<1>2. ASSUME NEW n \in Node, Ast(n) \/ Bast(n) PROVE AstsFirst'
  BY <1>2 DEF AstsFirst, Ast, DeliverAst, FlushingAsts, Bast, DeliverBast
<1>3. CASE Thread
  BY <1>3
  DEF AstsFirst, Thread, DlmThread, ShuffleStart, ShuffleConvert,
      ShuffleBlocked, ShuffleBasts, TakeBast, FlushingAsts, FlushDone
<1>4. CASE UNCHANGED vars
  BY <1>4 DEF AstsFirst, vars, dlmVars
<1> QED
  BY <1>1, <1>2, <1>3, <1>4 DEF Next, Mode

\* dlm_shuffle_lists() ends with a BAST for whoever is in the way.
LEMMA BastsWarn ==
  ASSUME Inv, ShuffleBasts, UNCHANGED told, NEW n \in InTheWay
  PROVE  Warned(n)'
<1> DEFINE raised == IF converting = <<>> THEN highestBlocked
                     ELSE Raised(highestBlocked, ConvertObstacles,
                                 convert[ConvertTarget])
<1>1. highestBlocked' = IF blocked = <<>> THEN raised
                        ELSE Raised(raised, BlockedObstacles,
                                    type[BlockedTarget])
  BY DEF ShuffleBasts
<1>2. /\ n \in Node
      /\ type \in [Node -> AnyMode] /\ convert \in [Node -> AnyMode]
      /\ highestBlocked \in [Node -> AnyMode] /\ UNCHANGED type
  BY InTheWayOnLists DEF Inv, TypeOK, DlmTypeOK, ShuffleBasts
<1>3. /\ converting # <<>> => ConvertTarget \in Node
      /\ blocked # <<>> => BlockedTarget \in Node
  BY DEF Inv, TypeOK, DlmTypeOK, ConvertTarget, BlockedTarget
<1>4. raised \in [Node -> AnyMode]
  BY <1>2, <1>3 DEF Raised
<1>5. highestBlocked' \in [Node -> AnyMode] /\ raised[n] =< highestBlocked'[n]
  BY <1>1, <1>2, <1>3, <1>4 DEF Raised, AnyMode, Mode, IV, NL, PR, EX
<1>6. ASSUME NEW m \in AnyMode, ~Compatible(type[n], m), m =< highestBlocked'[n]
      PROVE  Warned(n)'
  BY <1>2, <1>5, <1>6, ConflictAbove DEF Warned
<1>7. CASE n \in ConvertObstacles
  <2>1. converting # <<>> /\ ~Compatible(type[n], convert[ConvertTarget])
    BY <1>7 DEF ConvertObstacles, Obstacles
  <2>2. convert[ConvertTarget] =< raised[n]
    BY <1>2, <1>3, <1>7, <2>1 DEF Raised, AnyMode, Mode, IV, NL, PR, EX
  <2>3. convert[ConvertTarget] \in AnyMode
    BY <1>2, <1>3, <2>1
  <2>4. convert[ConvertTarget] =< highestBlocked'[n]
    BY <1>2, <1>4, <1>5, <2>2, <2>3 DEF AnyMode, Mode, IV, NL, PR, EX
  <2> QED
    BY <1>6, <2>1, <2>3, <2>4
<1>8. CASE n \in BlockedObstacles
  <2>1. blocked # <<>> /\ ~Compatible(type[n], type[BlockedTarget])
    BY <1>8 DEF BlockedObstacles, Obstacles
  <2>2. type[BlockedTarget] =< highestBlocked'[n]
    BY <1>1, <1>2, <1>3, <1>4, <1>8, <2>1
    DEF Raised, AnyMode, Mode, IV, NL, PR, EX
  <2> QED
    BY <1>2, <1>3, <1>6, <2>1, <2>2
<1> QED
  BY <1>7, <1>8 DEF InTheWay

\* A BAST for a lock that is in the way finds it: its first AST has come.
LEMMA BastArrives ==
  ASSUME Inv, LocksUnconverted, AstsFirst, ~Awake, inflight # NoBast,
         NEW n \in InTheWay
  PROVE  BastFindsLock(n)
<1>1. n \in Node /\ n \in granted \union Range(converting)
  BY InTheWayOnLists DEF Inv
<1>2. type[n] # IV
  BY <1>1 DEF Inv, DlmInv, OneList, OnLists
<1>3. ASSUME asked[n] = "lock" PROVE FALSE
  <2>1. n \in granted /\ n \notin Range(converting) \union Range(blocked)
    BY <1>1, <1>3 DEF LocksUnconverted, Inv, DlmInv, OneList, OnLists
  <2>2. n \in pendingAsts
    BY <1>1, <1>3, <2>1 DEF Inv, RequestAccounted, Awake
  <2> QED
    BY <2>2 DEF AstsFirst, Awake
<1> QED
  BY <1>2, <1>3 DEF BastFindsLock

\* A higher BAST says at least as much.
LEMMA HigherTellsMore ==
  ASSUME NEW a \in AnyMode, NEW b \in AnyMode, NEW c \in AnyMode,
         a > HighestCompat(b), b =< c
  PROVE  a > HighestCompat(c)
BY DEF AnyMode, Mode, HighestCompat, IV, NL, PR, EX

\* Nobody holds a mode that a BAST of no level forbids.
LEMMA NoLevelSaysNothing ==
  ASSUME NEW a \in AnyMode
  PROVE  ~(a > HighestCompat(IV))
BY DEF AnyMode, Mode, HighestCompat, IV, NL, PR, EX

LEMMA BastKeepsWarned ==
  ASSUME Inv, LocksUnconverted, AstsFirst, ~Awake,
         NEW n \in Node, Bast(n), NEW m \in InTheWay, Warned(m)
  PROVE  Warned(m)'
<1>1. /\ m \in Node
      /\ type[m] \in AnyMode /\ told[m] \in AnyMode
      /\ inflight.level \in AnyMode
      /\ UNCHANGED <<type, highestBlocked>>
  BY InTheWayOnLists
  DEF Inv, TypeOK, DlmTypeOK, NoBast, AnyMode, Bast, DeliverBast
<1>2. told'[m] \in AnyMode /\ told[m] =< told'[m]
  BY <1>1
  DEF Bast, Inv, TypeOK, AnyMode, Mode, IV, NL, PR, EX
<1>3. CASE type[m] > HighestCompat(told[m])
  BY <1>1, <1>2, <1>3, HigherTellsMore DEF Warned
<1>4. CASE type[m] > HighestCompat(highestBlocked[m])
  BY <1>1, <1>4 DEF Warned
<1>5. CASE inflight.node = m /\ type[m] > HighestCompat(inflight.level)
  <2>1. inflight # NoBast
    BY <1>1, <1>5, NoLevelSaysNothing DEF NoBast
  <2>2. n = m /\ BastFindsLock(m)
    BY <1>5, <2>1, BastArrives DEF Bast, DeliverBast
  <2>3. inflight.level =< told'[m]
    BY <1>1, <2>2
    DEF Bast, Inv, TypeOK, AnyMode, Mode, IV, NL, PR, EX
  <2> QED
    BY <1>1, <1>2, <1>5, <2>3, HigherTellsMore DEF Warned
<1> QED
  BY <1>3, <1>4, <1>5 DEF Warned

LEMMA AstKeepsWarned ==
  ASSUME TypeOK, NEW n \in Node, Ast(n), NEW m \in Node, Warned(m)
  PROVE  Warned(m)'
<1>1. UNCHANGED <<type, highestBlocked, inflight>>
  BY DEF Ast, DeliverAst
<1>2. told'[m] = told[m] \/ type[m] <= HighestCompat(told[m])
  BY DEF Ast, TypeOK
<1>3. type[m] \in AnyMode /\ told[m] \in AnyMode
  BY DEF TypeOK, DlmTypeOK
<1>4. type[m] > HighestCompat(told[m]) => told'[m] = told[m]
  BY <1>2, <1>3 DEF AnyMode, Mode, HighestCompat, IV, NL, PR, EX
<1> QED
  BY <1>1, <1>4 DEF Warned

LEMMA TakeBastKeepsWarned ==
  ASSUME TypeOK, NEW n \in Node, TakeBast(n), UNCHANGED told,
         NEW m \in Node, Warned(m)
  PROVE  Warned(m)'
<1>1. /\ inflight = NoBast
      /\ inflight' = [node |-> n, level |-> highestBlocked[n]]
      /\ highestBlocked' = [highestBlocked EXCEPT ![n] = IV]
      /\ UNCHANGED type
  BY DEF TakeBast
<1>2. type[m] \in AnyMode
  BY DEF TypeOK, DlmTypeOK
<1>3. CASE m = n
  BY <1>1, <1>2, <1>3, NoLevelSaysNothing DEF Warned, NoBast
<1>4. CASE m # n
  <2>1. highestBlocked'[m] = highestBlocked[m]
    BY <1>1, <1>4 DEF TypeOK, DlmTypeOK
  <2> QED
    BY <1>1, <1>2, <2>1, NoLevelSaysNothing DEF Warned, NoBast
<1> QED
  BY <1>3, <1>4

LEMMA StepWarned ==
  ASSUME Inv, ToldInv, [Next]_vars
  PROVE  (Awake \/ \A n \in InTheWay : Warned(n))'
<1>1. TypeOK /\ LocksUnconverted /\ AstsFirst
  BY DEF Inv, ToldInv
<1>2. ASSUME NEW n \in Node,
             \/ \E mode \in {PR, EX} : Lock(n, mode)
             \/ \E mode \in Mode : Convert(n, mode)
      PROVE  Awake'
  <2>1. owed'[n] # "none"
    BY <1>1, <1>2 DEF Lock, DlmLock, Convert, DlmConvert, TypeOK, DlmTypeOK
  <2> QED
    BY <2>1 DEF Awake
<1>3. ASSUME NEW n \in Node, Cancel(n) \/ Unlock(n) \/ Post(n)
      PROVE  Awake'
  BY <1>3 DEF Cancel, DlmCancel, Unlock, DlmUnlock, Post, DlmPost, Awake
<1>4. CASE Thread /\ (ShuffleStart \/ ShuffleConvert \/ ShuffleBlocked)
  BY <1>4 DEF ShuffleStart, ShuffleConvert, ShuffleBlocked, Awake
<1>5. CASE Thread /\ ShuffleBasts
  <2>1. InTheWay' = InTheWay
    BY <1>5, InTheWayKeeps DEF ShuffleBasts
  <2> QED
    BY <1>5, <2>1, BastsWarn DEF Thread
<1>6. ASSUME UNCHANGED <<type, convert, granted, converting, blocked>>,
             Awake => Awake',
             \A m \in InTheWay : ~Awake /\ Warned(m) => Warned(m)'
      PROVE  (Awake \/ \A n \in InTheWay : Warned(n))'
  <2>1. InTheWay' = InTheWay
    BY <1>6, InTheWayKeeps
  <2> QED
    BY <1>6, <2>1 DEF ToldInv
<1>7. ASSUME NEW n \in Node, Ast(n) \/ Bast(n)
      PROVE  (Awake \/ \A m \in InTheWay : Warned(m))'
  <2>1. UNCHANGED <<type, convert, granted, converting, blocked>>
    BY <1>7 DEF Ast, DeliverAst, Bast, DeliverBast
  <2>2. Awake => Awake'
    BY <1>7 DEF Ast, DeliverAst, FlushingAsts, Bast, DeliverBast, Awake
  <2>3. ASSUME NEW m \in InTheWay, ~Awake, Warned(m) PROVE Warned(m)'
    BY <1>1, <1>7, <2>3, InTheWayOnLists, AstKeepsWarned, BastKeepsWarned
  <2> QED
    BY <1>6, <2>1, <2>2, <2>3
<1>8. ASSUME NEW n \in Node, Thread, TakeBast(n)
      PROVE  (Awake \/ \A m \in InTheWay : Warned(m))'
  <2>1. UNCHANGED <<type, convert, granted, converting, blocked>>
    BY <1>8 DEF TakeBast
  <2>2. Awake => Awake'
    BY <1>8 DEF TakeBast, FlushingAsts, Awake
  <2>3. ASSUME NEW m \in InTheWay, Warned(m) PROVE Warned(m)'
    BY <1>1, <1>8, <2>3, InTheWayOnLists, TakeBastKeepsWarned DEF Thread
  <2> QED
    BY <1>6, <2>1, <2>2, <2>3
<1>9. ASSUME UNCHANGED <<type, convert, granted, converting, blocked, owed,
                         highestBlocked, inflight, told>>,
             dirty => dirty', thread # "shuffle" \/ thread' = "shuffle"
      PROVE  (Awake \/ \A n \in InTheWay : Warned(n))'
  <2>1. \A m \in InTheWay : Warned(m) => Warned(m)'
    BY <1>9 DEF Warned
  <2>2. Awake => Awake'
    BY <1>9 DEF Awake
  <2> QED
    BY <1>6, <1>9, <2>1, <2>2
<1>10. ASSUME NEW n \in Node, NEW mode \in {PR, EX}, TryFails(n, mode)
       PROVE  (Awake \/ \A m \in InTheWay : Warned(m))'
  BY <1>9, <1>10 DEF TryFails, DlmNotQueued, ResUnlocked
<1>11. CASE Thread /\ FlushDone
  BY <1>9, <1>11 DEF Thread, FlushDone
<1>12. CASE UNCHANGED vars
  BY <1>9, <1>12 DEF vars, dlmVars
<1> QED
  BY <1>2, <1>3, <1>4, <1>5, <1>7, <1>8, <1>10, <1>11, <1>12
  DEF Next, Thread, DlmThread

LEMMA StepToldInv ==
  ASSUME Inv, ToldInv, [Next]_vars
  PROVE  ToldInv'
BY StepLocksUnconverted, StepAstsFirst, StepWarned DEF ToldInv, Inv

-----------------------------------------------------------------------------
(* The theorems                                                            *)

LEMMA InitInv ==
  ASSUME Init
  PROVE  Inv /\ KickInv /\ ToldInv
<1>1. DlmInv
  BY DlmInitInv DEF Init
<1>2. TypeOK
  BY <1>1 DEF Init, DlmInv, TypeOK, AnyMode
<1>3. Range(<<>>) = {}
  BY DEF Range
<1>4. RequestAccounted /\ OneAnswer
  BY <1>3 DEF Init, DlmInit, RequestAccounted, OneAnswer
<1>5. KickInv
  BY DEF Init, DlmInit, KickInv, Obstructed
<1>6. LocksUnconverted /\ AstsFirst
  BY DEF Init, DlmInit, LocksUnconverted, AstsFirst
<1>7. InTheWay = {}
  BY DEF Init, DlmInit, InTheWay, ConvertObstacles, BlockedObstacles
<1> QED
  BY <1>1, <1>2, <1>4, <1>5, <1>6, <1>7 DEF Inv, ToldInv

LEMMA InvHolds == Spec => [](Inv /\ KickInv /\ ToldInv)
<1>1. Init => Inv /\ KickInv /\ ToldInv
  BY InitInv
<1>2. Inv /\ KickInv /\ ToldInv /\ [Next]_vars => (Inv /\ KickInv /\ ToldInv)'
  <2>1. SUFFICES ASSUME Inv, KickInv, ToldInv, [Next]_vars
                 PROVE  (Inv /\ KickInv /\ ToldInv)'
    OBVIOUS
  <2>2. DlmInv' /\ TypeOK'
    BY <2>1, StepDlmInv, StepTypeOK DEF Inv
  <2>3. RequestAccounted' /\ OneAnswer'
    BY <2>1, StepAccounted
  <2>4. KickInv'
    BY <2>1, StepKickInv DEF Inv
  <2>5. ToldInv'
    BY <2>1, StepToldInv
  <2> QED
    BY <2>2, <2>3, <2>4, <2>5 DEF Inv
<1> QED
  BY <1>1, <1>2, PTL DEF Spec

(***************************************************************************)
(* Every variable of the lock resource, and of what its clients remember,  *)
(* keeps its type, whatever legal calls they make.                         *)
(***************************************************************************)
THEOREM TypeCorrect == Spec => []TypeOK
<1>1. Inv => TypeOK
  BY DEF Inv
<1> QED
  BY <1>1, InvHolds, PTL

(***************************************************************************)
(* The three lists of a lock resource share no lock and hold none twice:   *)
(* the list_move_tail() and list_del() calls of the handlers and of        *)
(* dlm_shuffle_lists() agree.                                              *)
(***************************************************************************)
THEOREM ListsDisjoint == Spec => []OneList
<1>1. Inv => OneList
  BY DEF Inv, DlmInv
<1> QED
  BY <1>1, InvHolds, PTL

(***************************************************************************)
(* No two nodes are ever granted incompatible modes: the safety of o2dlm,  *)
(* for any number of nodes.                                                *)
(***************************************************************************)
THEOREM GrantsCompatible == Spec => []GrantedCompatible
<1>1. Inv => GrantedCompatible
  BY DEF Inv, DlmInv
<1> QED
  BY <1>1, InvHolds, PTL

(***************************************************************************)
(* A request waits on one queue or is answered, never both, and an answer  *)
(* is never owed twice: a cancel that races with the grant neither loses   *)
(* the AST nor adds one.                                                   *)
(***************************************************************************)
THEOREM RequestsAnswered == Spec => []RequestAccounted
<1>1. Inv => RequestAccounted
  BY DEF Inv
<1> QED
  BY <1>1, InvHolds, PTL

(***************************************************************************)
(* dlm_thread does not sleep on a request that could be granted: every     *)
(* handler that changes the lists kicks it.                                *)
(***************************************************************************)
THEOREM KicksSuffice == Spec => []NoLostKick
<1>1. KickInv => NoLostKick
  BY DEF KickInv, Awake, Obstructed, NoLostKick, Quiet
<1> QED
  BY <1>1, InvHolds, PTL

(***************************************************************************)
(* dlm_thread never goes to sleep while a node that stands in the way of   *)
(* the next request does not know it: not when dlm_proxy_ast_handler()     *)
(* drops the BAST of a lock without its first AST, not when                *)
(* dlm_should_cancel_bast() cancels one.                                   *)
(***************************************************************************)
THEOREM ObstaclesAreTold == Spec => []ObstaclesTold
<1>1. Inv /\ ToldInv => ObstaclesTold
  <2>1. SUFFICES ASSUME Inv, ToldInv, Quiet, NEW l \in InTheWay
                 PROVE  type[l] > HighestCompat(told[l])
    BY DEF ObstaclesTold, InTheWay
  <2>2. l \in Node /\ type[l] \in AnyMode
    BY <2>1, InTheWayOnLists DEF Inv, TypeOK, DlmTypeOK
  <2>3. Warned(l)
    BY <2>1 DEF ToldInv, Awake, Quiet
  <2>4. highestBlocked[l] = IV /\ inflight.level = IV
    BY <2>1, <2>2 DEF Quiet, PendingBasts, NoBast
  <2> QED
    BY <2>2, <2>3, <2>4, NoLevelSaysNothing DEF Warned
<1> QED
  BY <1>1, InvHolds, PTL
=============================================================================
