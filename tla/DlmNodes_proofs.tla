---------------------------- MODULE DlmNodes_proofs ----------------------------
(***************************************************************************)
(* Proofs about DlmDomain: whoever joins, leaves and dies in whichever     *)
(* order, the members of a domain agree on each other, for any number of   *)
(* nodes.                                                                  *)
(***************************************************************************)
EXTENDS DlmDomain, FiniteSetTheorems, WellFoundedInduction, TLAPS

-----------------------------------------------------------------------------
(* What the nodes that run may rely on.                                    *)

\* A node that has joined, and not told the others yet that it leaves
Settled(n) == ctxt[n] \in {"joined", "shutdown"}

\* The phases of dlm_try_to_join_domain() with joining_node set to the node itself
Matching == {"nodes", "regions"}
Asking == Matching \union {"query", "assert"}
Joiner(n) == call[n].pc \in Asking

\* The message n sent to p, once it is answered
Said(n, p, kind, ans) ==
  /\ msg[n] # NoMsg
  /\ msg[n].kind = kind /\ msg[n].to = p /\ msg[n].ans = ans

\* n still has to tell p whether it joined: p said yes, and keeps others away.
Owes(n, p) ==
  \/ Said(n, p, "query_join", "ok")
  \/ p \in call[n].yes /\ call[n].pc \in Matching \union {"query"}
  \/ /\ p \in call[n].todo /\ call[n].pc \in {"assert", "cancel"}
     /\ ~Said(n, p, "assert_joined", "ok") /\ ~Said(n, p, "cancel_join", "ok")

\* n knows whether p is in the domain.
Passed(n, p) ==
  \/ call[n].pc \in Matching \union {"assert"}
  \/ /\ call[n].pc = "query"
     /\ \/ p \notin call[n].todo
        \/ Said(n, p, "query_join", "ok") \/ Said(n, p, "query_join", "nomap")

PcOf == [none |-> {"idle"}, joined |-> {"idle"}, new |-> Asking \union {"try", "cancel"},
         shutdown |-> {"beginexit", "migrate", "mark"}, leaving |-> {"exit"}]

\* The state of the domain on n says where the task of n is; what the task has
\* to do next and what it waits for go together.
Calls(n) ==
  /\ call[n].pc \in PcOf[ctxt[n]]
  /\ joining[n] = n <=> Joiner(n)
  /\ call[n].pc \in {"try", "query"} => members[n] = {}
  /\ call[n].pc = "cancel" /\ call[n].retry => members[n] = {}
  /\ call[n].pc = "query" => call[n].yes \intersect call[n].todo = {}
  /\ call[n].pc \in Matching \union {"assert", "cancel"} => call[n].todo \subseteq call[n].yes
  /\ call[n].pc \in Matching \union {"assert"} \/ Settled(n) => n \in members[n]
  /\ msg[n] # NoMsg =>
       /\ call[n].pc \in DOMAIN Round
       /\ msg[n].kind = Round[call[n].pc] /\ msg[n].to \in call[n].todo

\* Only a dead node does not answer; who is told that n gives up agrees.
Answers(n) ==
  msg[n] # NoMsg => /\ msg[n].ans = "down" => msg[n].to \notin up
                    /\ msg[n].kind = "cancel_join" => msg[n].ans \in {"none", "ok", "down"}

\* Heartbeat: who runs is seen, and a member is not forgotten before its death
\* is dealt with.
Seen(n) ==
  /\ up \subseteq beat[n] /\ up \subseteq live[n]
  /\ ctxt[n] # "none" => members[n] \subseteq live[n]
  /\ call[n].pc = "query" => call[n].yes \union call[n].todo \subseteq live[n]
  /\ call[n].pc \in Matching \union {"assert"} => members[n] \ {n} \subseteq call[n].yes

\* A member whose death was noticed too early to be dealt with has not heard
\* from n that it joined, and never will.
NoGhosts(n) ==
  \A d \in members[n] \ beat[n] :
    /\ ctxt[n] # "joined"
    /\ call[n].pc = "assert" => d \in call[n].todo /\ ~Said(n, d, "assert_joined", "ok")

\* joining_node of p is the node that owes p an answer.
Promise(n, p) ==
  /\ Owes(n, p) => joining[p] = n /\ Settled(p)
  /\ joining[p] = n /\ ctxt[p] # "none" => Owes(n, p)

\* The protocol n will have, if it joins
Protocol(n, p) ==
  /\ p \in call[n].yes => minor[n] = minor[p]
  /\ \A q \in DomainNode :
       Said(n, q, "query_join", "ok") /\ (p \in call[n].yes \/ p = q) => msg[n].minor = minor[p]

Agreed(a, b) == b \in members[a] /\ minor[a] = minor[b]

\* What n knows of p when it has asked: p is not in the domain and will not get
\* in before n, or p waits for n, or they know each other.
Known(n, p) ==
  \/ ~Settled(p) /\ ~Passed(p, n)
  \/ /\ Settled(p) /\ Owes(n, p) /\ Protocol(n, p)
     /\ call[n].pc \in Matching \union {"assert"} => p \in members[n]
  \/ Settled(p) /\ call[n].pc = "assert" /\ Agreed(n, p) /\ Agreed(p, n)

\* What n has to do with p
Pair(n, p) ==
  /\ Promise(n, p)
  /\ Passed(n, p) => Known(n, p)
  /\ Settled(n) /\ Settled(p) => Agreed(n, p)

Alone(n) == Calls(n) /\ Answers(n) /\ Seen(n) /\ NoGhosts(n)

DomainInv ==
  /\ DomainTypeOK
  /\ \A n \in up : Alone(n)
  /\ \A n, p \in up : n # p => Pair(n, p)
  /\ dbug = {}
-----------------------------------------------------------------------------
(* Types.                                                                  *)

LEMMA Rounds ==
  /\ DOMAIN Round = {"query", "nodes", "regions", "assert", "cancel", "beginexit", "exit"}
  /\ Round["query"] = "query_join" /\ Round["nodes"] = "nodeinfo"
  /\ Round["regions"] = "regions" /\ Round["assert"] = "assert_joined"
  /\ Round["cancel"] = "cancel_join" /\ Round["beginexit"] = "begin_exit"
  /\ Round["exit"] = "exit"
BY DEF Round

LEMMA Kinds ==
  /\ MsgKind = {"query_join", "nodeinfo", "regions", "assert_joined", "cancel_join", "begin_exit", "exit"}
  /\ \A r \in DOMAIN Round : Round[r] \in MsgKind
  /\ NoMsg.kind \notin MsgKind
BY Rounds DEF MsgKind, NoMsg

\* The next node of a round is one of the round.
LEMMA LowestIsOne ==
  ASSUME NEW S \in SUBSET DomainNode, S # {}
  PROVE  Min(S) \in S
<1>1. S \subseteq Nat
  BY NodesAssumption DEF None
<1>2. IsWellFoundedOn(OpToRel(<, Nat), Nat)
  BY NatLessThanWellFounded
<1>3. PICK x \in S : \A y \in S : <<y, x>> \notin OpToRel(<, Nat)
  BY <1>1, <1>2, WFMin
<1>4. \A y \in S : ~(y < x)
  BY <1>1, <1>3 DEF OpToRel
<1>5. \A y \in S : x =< y
  BY <1>1, <1>4
<1> QED
  BY <1>5 DEF Min

\* A message that is waited for has its fields.
LEMMA MsgFields ==
  ASSUME DomainTypeOK, NEW n \in DomainNode, msg[n] # NoMsg
  PROVE  /\ msg[n].kind \in MsgKind /\ msg[n].to \in DomainNode \ {n} /\ msg[n].ans \in JoinAnswer
         /\ msg[n].kind = "query_join" /\ msg[n].ans \notin {"none", "down"} =>
              msg[n].ans \in {"ok", "nomap", "disallow", "mismatch"} /\ msg[n].minor \in Nat
BY Kinds DEF DomainTypeOK, MsgType, JoinAnswer

\* The tasks and their messages, and the rest
TasksOK ==
  /\ call \in [DomainNode -> CallType] /\ msg \in [DomainNode -> MsgType]
  /\ \A n \in DomainNode : /\ n \notin call[n].yes \union call[n].todo
                           /\ msg[n] # NoMsg => msg[n].to # n
ViewsOK ==
  /\ scene \in SceneType /\ up \subseteq DomainNode
  /\ ctxt \in [DomainNode -> {"none", "new", "joined", "shutdown", "leaving"}]
  /\ beat \in [DomainNode -> SUBSET DomainNode] /\ live \in [DomainNode -> SUBSET DomainNode]
  /\ members \in [DomainNode -> SUBSET DomainNode] /\ exiting \in [DomainNode -> SUBSET DomainNode]
  /\ toRecover \in [DomainNode -> SUBSET DomainNode]
  /\ users \in [DomainNode -> Nat] /\ minor \in [DomainNode -> Nat] /\ active \in [DomainNode -> BOOLEAN]
  /\ joining \in [DomainNode -> DomainNode \union {None}]
  /\ dbug \subseteq {"assert", "cancel"}

LEMMA TypeParts == DomainTypeOK <=> TasksOK /\ ViewsOK
BY DEF DomainTypeOK, TasksOK, ViewsOK

\* What happens counts down.
LEMMA SceneTypes ==
  ASSUME DomainTypeOK, NEW n \in DomainNode
  PROVE  /\ scene.minor[n] \in Nat /\ scene.minor \in [DomainNode -> Nat] /\ scene.frail \subseteq DomainNode
         /\ scene.mounts[n] > 0 => [scene EXCEPT !.mounts[n] = @ - 1] \in SceneType
         /\ scene.umounts[n] > 0 => [scene EXCEPT !.umounts[n] = @ - 1] \in SceneType
<1>1. /\ scene.mounts \in [DomainNode -> Nat] /\ scene.umounts \in [DomainNode -> Nat]
      /\ scene.minor \in [DomainNode -> Nat] /\ scene.frail \subseteq DomainNode
      /\ scene \in SceneType
  BY DEF DomainTypeOK, SceneType
<1>2. /\ scene.mounts[n] > 0 => [scene.mounts EXCEPT ![n] = @ - 1] \in [DomainNode -> Nat]
      /\ scene.umounts[n] > 0 => [scene.umounts EXCEPT ![n] = @ - 1] \in [DomainNode -> Nat]
  BY <1>1
<1>3. \A f \in [DomainNode -> Nat] : /\ [scene EXCEPT !.mounts = f] \in SceneType
                                    /\ [scene EXCEPT !.umounts = f] \in SceneType
  BY <1>1 DEF SceneType
<1> QED
  BY <1>1, <1>2, <1>3

LEMMA PostTypes ==
  ASSUME TasksOK, NEW n \in DomainNode, NEW kind \in MsgKind, NEW to \in DomainNode \ {n},
         Post(n, kind, to), UNCHANGED call
  PROVE  TasksOK'
<1>1. [kind |-> kind, to |-> to, ans |-> "none"] \in MsgType
  BY DEF MsgType, JoinAnswer
<1> QED
  BY <1>1 DEF TasksOK, Post

LEMMA ReplyTypes ==
  ASSUME TasksOK, NEW n \in DomainNode, NEW ans \in JoinAnswer, msg[n] # NoMsg, Reply(n, ans),
         msg[n].kind = "query_join" => msg[n].ans = "none" /\ ans = "down", UNCHANGED call
  PROVE  TasksOK'
<1> DEFINE r == [msg[n] EXCEPT !.ans = ans]
<1>1. r \in MsgType /\ r.to = msg[n].to
  <2>1. CASE msg[n] \in [kind : MsgKind \ {"query_join"}, to : DomainNode, ans : JoinAnswer]
    BY <2>1 DEF MsgType
  <2>2. CASE msg[n] \in [kind : {"query_join"}, to : DomainNode, ans : {"none", "down"}]
    BY <2>2 DEF MsgType
  <2>3. CASE msg[n] \in [kind : {"query_join"}, to : DomainNode,
                        ans : {"ok", "nomap", "disallow", "mismatch"}, minor : Nat]
    BY <2>3 DEF MsgType
  <2> QED
    BY <2>1, <2>2, <2>3 DEF TasksOK, MsgType
<1>2. msg' = [msg EXCEPT ![n] = r]
  BY DEF Reply
<1> HIDE DEF r
<1> QED
  BY <1>1, <1>2 DEF TasksOK

\* The task of n goes on, with or without the message it waited for.
LEMMA TaskTypes ==
  ASSUME TasksOK, NEW n \in DomainNode, NEW c \in CallType,
         n \notin c.yes \union c.todo, call' = [call EXCEPT ![n] = c],
         msg' = [msg EXCEPT ![n] = NoMsg] \/ UNCHANGED msg
  PROVE  TasksOK'
BY DEF TasksOK, MsgType

LEMMA NoCallType == NoCall \in CallType /\ NoCall.yes = {} /\ NoCall.todo = {}
BY Rounds DEF NoCall, CallType

\* A step of the joiner's own
LEMMA JoinTypes ==
  ASSUME DomainTypeOK, NEW n \in up, JoinStep(n)
  PROVE  DomainTypeOK'
<1>1. /\ n \in DomainNode /\ call[n] \in CallType /\ msg[n] \in MsgType
      /\ n \notin call[n].yes \union call[n].todo
      /\ msg[n] # NoMsg =>
           /\ msg[n].to \in DomainNode \ {n} /\ msg[n].kind \in MsgKind /\ msg[n].ans \in JoinAnswer
           /\ msg[n].kind = "query_join" /\ msg[n].ans \notin {"none", "down"} => msg[n].minor \in Nat
  BY MsgFields DEF DomainTypeOK
<1>2. TasksOK /\ ViewsOK
  BY TypeParts
<1>3. SUFFICES TasksOK' /\ ViewsOK'
  BY DEF DomainTypeOK, TasksOK, ViewsOK
<1> DEFINE c == call[n]
           p == msg[n].to
<1>4. \A pc \in {"idle", "try", "cancel", "migrate", "mark"} \union DOMAIN Round, T \in SUBSET DomainNode :
        /\ [c EXCEPT !.pc = pc] \in CallType
        /\ [c EXCEPT !.pc = pc, !.todo = T] \in CallType
        /\ [c EXCEPT !.todo = T] \in CallType
  BY <1>1 DEF CallType
<1>5. \A T, Y \in SUBSET DomainNode : [c EXCEPT !.todo = T, !.yes = Y] \in CallType
  BY <1>1 DEF CallType
<1>6. \A d \in CallType, retry \in BOOLEAN :
        /\ Bailed(d, retry) \in CallType
        /\ Bailed(d, retry).yes = d.yes /\ Bailed(d, retry).todo = d.yes
  BY DEF CallType, Bailed
<1>7. CASE Register(n)
  <2>1. UNCHANGED call \/ call' = [call EXCEPT ![n] = [c EXCEPT !.pc = "try"]]
    BY <1>7 DEF Register, Goto
  <2>2. UNCHANGED msg
    BY <1>7 DEF Register
  <2>3. n \notin [c EXCEPT !.pc = "try"].yes \union [c EXCEPT !.pc = "try"].todo
    BY <1>1 DEF CallType
  <2>4. TasksOK'
    BY <1>1, <1>2, <1>4, <2>1, <2>2, <2>3, TaskTypes DEF TasksOK
  <2>5. scene' \in SceneType
    BY <1>1, <1>7, SceneTypes DEF Register
  <2>6. users[n] + 1 \in Nat
    BY <1>1, <1>2 DEF ViewsOK
  <2>7. scene.minor[n] \in Nat
    BY <1>1, SceneTypes
  <2>8. ASSUME ctxt[n] = "joined" PROVE ViewsOK'
    <3>1. users' = [users EXCEPT ![n] = @ + 1]
          /\ UNCHANGED <<up, beat, live, dbug, ctxt, minor, joining, members, exiting, toRecover, active>>
      BY <1>7, <2>8 DEF Register
    <3> QED
      BY <1>1, <1>2, <2>5, <2>6, <3>1 DEF ViewsOK
  <2>9. ASSUME ctxt[n] # "joined" PROVE ViewsOK'
    <3>1. users' \in [DomainNode -> Nat] /\ minor' \in [DomainNode -> Nat]
      BY <1>1, <1>2, <1>7, <2>7, <2>9 DEF Register, ViewsOK
    <3>2. /\ beat' = beat /\ live' = live /\ UNCHANGED <<up, dbug>>
          /\ members' = [members EXCEPT ![n] = {}] /\ exiting' = [exiting EXCEPT ![n] = {}]
          /\ toRecover' = [toRecover EXCEPT ![n] = {}] /\ active' = [active EXCEPT ![n] = FALSE]
          /\ joining' = [joining EXCEPT ![n] = None] /\ ctxt' = [ctxt EXCEPT ![n] = "new"]
      BY <1>7, <2>9 DEF Register
    <3> QED
      BY <1>1, <1>2, <2>5, <3>1, <3>2 DEF ViewsOK
  <2> QED
    BY <2>4, <2>8, <2>9
<1>8. CASE TryToJoin(n)
  <2> DEFINE d == [pc |-> "query", todo |-> Others(n), yes |-> {}, map |-> beat[n], retry |-> FALSE]
  <2>1. d \in CallType /\ n \notin d.yes \union d.todo
    BY <1>1, <1>2, Rounds DEF CallType, Others, ViewsOK
  <2>2. TasksOK'
    BY <1>1, <1>2, <1>8, <2>1, TaskTypes DEF TryToJoin
  <2> QED
    BY <1>1, <1>2, <1>8, <2>2 DEF TryToJoin, ViewsOK, views
<1>9. CASE AskNext(n)
  <2>1. Min(c.todo) \in c.todo
    BY <1>1, <1>9, LowestIsOne DEF AskNext, CallType
  <2>2. Min(c.todo) \in DomainNode \ {n} /\ Round[c.pc] \in MsgKind
    BY <1>1, <1>9, <2>1, Kinds DEF AskNext, CallType
  <2>3. TasksOK'
    BY <1>1, <1>2, <1>9, <2>2, PostTypes DEF AskNext
  <2> QED
    BY <1>2, <1>9, <2>3 DEF AskNext, ViewsOK, views
<1>10. CASE QueryAnswered(n)
  <2> DEFINE T == c.todo \ {p}
             Y == IF msg[n].ans = "ok" THEN c.yes \union {p} ELSE c.yes
             b == [c EXCEPT !.todo = T, !.yes = Y]
  <2>1. p \in DomainNode \ {n} /\ msg' = [msg EXCEPT ![n] = NoMsg]
    BY <1>1, <1>10 DEF QueryAnswered, Waiting
  <2>2. b \in CallType /\ n \notin b.yes \union b.todo
    BY <1>1, <1>5, <2>1 DEF CallType
  <2>3. \E d \in {b, Bailed(b, TRUE), Bailed(c, FALSE), Bailed(b, FALSE)} : call' = [call EXCEPT ![n] = d]
    BY <1>10 DEF QueryAnswered
  <2>4. \A d \in {b, Bailed(b, TRUE), Bailed(c, FALSE), Bailed(b, FALSE)} : d \in CallType /\ n \notin d.yes \union d.todo
    BY <1>1, <1>6, <2>2
  <2>5. TasksOK'
    BY <1>1, <1>2, <2>1, <2>3, <2>4, TaskTypes
  <2>6. minor' \in [DomainNode -> Nat]
    <3>1. minor' = [minor EXCEPT ![n] = IF msg[n].ans = "ok" THEN msg[n].minor ELSE @] \/ UNCHANGED minor
      BY <1>10 DEF QueryAnswered
    <3>2. msg[n].ans = "ok" => msg[n].minor \in Nat
      BY <1>1, <1>10 DEF QueryAnswered, Waiting
    <3> QED
      BY <1>1, <1>2, <3>1, <3>2 DEF ViewsOK
  <2> QED
    BY <1>1, <1>2, <1>10, <2>5, <2>6 DEF QueryAnswered, ViewsOK, views
<1>11. CASE AllAgreed(n)
  <2> DEFINE d == [c EXCEPT !.pc = IF minor[n] > 0 THEN "nodes" ELSE "assert", !.todo = c.yes]
  <2>1. d \in CallType /\ n \notin d.yes \union d.todo
    BY <1>1, <1>4, Rounds DEF CallType
  <2>2. call' = [call EXCEPT ![n] = d] /\ UNCHANGED msg
    BY <1>1, <1>2, <1>11 DEF AllAgreed, TasksOK
  <2>3. TasksOK'
    BY <1>1, <1>2, <2>1, <2>2, TaskTypes
  <2>4. c.yes \subseteq DomainNode
    BY <1>1 DEF CallType
  <2> QED
    BY <1>1, <1>2, <1>11, <2>3, <2>4 DEF AllAgreed, ViewsOK, views
<1>12. ASSUME NEW kind \in MsgKind, MatchAnswered(n, kind) PROVE TasksOK' /\ ViewsOK'
  <2> DEFINE b == [c EXCEPT !.todo = c.todo \ {p}]
  <2>1. msg' = [msg EXCEPT ![n] = NoMsg]
    BY <1>12 DEF MatchAnswered
  <2>2. call' = [call EXCEPT ![n] = b] \/ call' = [call EXCEPT ![n] = Bailed(c, FALSE)]
    BY <1>1, <1>2, <1>12 DEF MatchAnswered, TasksOK
  <2>3. b \in CallType /\ n \notin b.yes \union b.todo
    BY <1>1, <1>4 DEF CallType
  <2>4. Bailed(c, FALSE) \in CallType /\ n \notin Bailed(c, FALSE).yes \union Bailed(c, FALSE).todo
    BY <1>1, <1>6
  <2>5. TasksOK'
    BY <1>1, <1>2, <2>1, <2>2, <2>3, <2>4, TaskTypes
  <2> QED
    BY <1>1, <1>2, <1>12, <2>5 DEF MatchAnswered, ViewsOK, views
<1>13. CASE NextRound(n)
  <2> DEFINE d == [c EXCEPT !.pc = IF c.pc = "nodes" THEN "regions" ELSE "assert", !.todo = c.yes]
  <2>1. d \in CallType /\ n \notin d.yes \union d.todo
    BY <1>1, <1>4, Rounds DEF CallType
  <2>2. call' = [call EXCEPT ![n] = d] /\ UNCHANGED msg
    BY <1>1, <1>2, <1>13 DEF NextRound, TasksOK
  <2>3. TasksOK'
    BY <1>1, <1>2, <2>1, <2>2, TaskTypes
  <2> QED
    BY <1>2, <1>13, <2>3 DEF NextRound, ViewsOK, views
<1>14. ASSUME AssertAnswered(n) \/ \E kind \in MsgKind : Told(n, kind)
       PROVE  TasksOK' /\ ViewsOK'
  <2> DEFINE b == [c EXCEPT !.todo = c.todo \ {p}]
  <2>1. msg' = [msg EXCEPT ![n] = NoMsg]
    BY <1>14 DEF AssertAnswered, Told
  <2>2. call' = [call EXCEPT ![n] = b] \/ call' = [call EXCEPT ![n] = c]
    BY <1>1, <1>2, <1>14 DEF AssertAnswered, Told, TasksOK
  <2>3. b \in CallType /\ n \notin b.yes \union b.todo
    BY <1>1, <1>4 DEF CallType
  <2>4. TasksOK'
    BY <1>1, <1>2, <2>1, <2>2, <2>3, TaskTypes
  <2> QED
    BY <1>1, <1>2, <1>14, <2>4 DEF AssertAnswered, Told, ViewsOK, views
<1>15. CASE Joined(n)
  <2>1. TasksOK'
    BY <1>1, <1>2, <1>15, NoCallType, TaskTypes DEF Joined
  <2> QED
    BY <1>1, <1>2, <1>15, <2>1 DEF Joined, ViewsOK, views
<1>16. CASE JoinGivenUp(n)
  <2>1. [NoCall EXCEPT !.pc = "try"] \in CallType
        /\ [NoCall EXCEPT !.pc = "try"].yes = {} /\ [NoCall EXCEPT !.pc = "try"].todo = {}
    BY NoCallType DEF CallType
  <2>2. /\ call' = [call EXCEPT ![n] = NoCall] \/ call' = [call EXCEPT ![n] = [NoCall EXCEPT !.pc = "try"]]
        /\ UNCHANGED msg
    BY <1>16 DEF JoinGivenUp
  <2>3. TasksOK'
    BY <1>1, <1>2, <2>1, <2>2, NoCallType, TaskTypes
  <2> QED
    BY <1>1, <1>2, <1>16, <2>3 DEF JoinGivenUp, ViewsOK, views
<1> QED
  BY <1>7, <1>8, <1>9, <1>10, <1>11, <1>12, <1>13, <1>14, <1>15, <1>16, Kinds DEF JoinStep

\* A handler of p
LEMMA HandlerTypes ==
  ASSUME DomainTypeOK, NEW n \in up, NEW p \in DomainNode, DomainHandlers(n, p)
  PROVE  DomainTypeOK'
<1>1. n \in DomainNode /\ TasksOK /\ ViewsOK
  BY TypeParts DEF ViewsOK
<1>2. SUFFICES TasksOK' /\ ViewsOK'
  BY DEF DomainTypeOK, TasksOK, ViewsOK
<1>3. CASE QueryJoinHandler(n, p)
  <2> DEFINE code == QueryCode(p, n)
             r == [kind |-> "query_join", to |-> p, ans |-> code, minor |-> minor[p]]
  <2>1. code \in {"ok", "nomap", "disallow", "mismatch"}
    BY DEF QueryCode
  <2>2. msg[n] # NoMsg /\ msg[n].to = p /\ msg' = [msg EXCEPT ![n] = r] /\ UNCHANGED call
    BY <1>3 DEF QueryJoinHandler, Handled
  <2>3. r \in MsgType
    BY <1>1, <2>1 DEF MsgType, ViewsOK
  <2>4. r.to = p
    OBVIOUS
  <2> HIDE DEF r
  <2>5. TasksOK'
    BY <1>1, <2>2, <2>3, <2>4 DEF TasksOK
  <2>6. ViewsOK'
    BY <1>1, <1>3 DEF QueryJoinHandler, ViewsOK, views
  <2> QED
    BY <2>5, <2>6
<1>4. ASSUME NEW kind \in {"nodeinfo", "regions"}, MatchHandler(n, kind, p)
      PROVE  TasksOK' /\ ViewsOK'
  <2>1. /\ msg[n] # NoMsg /\ msg[n].kind # "query_join" /\ UNCHANGED call
        /\ Reply(n, "ok") \/ Reply(n, "einval")
    BY <1>4 DEF MatchHandler, Handled
  <2>2. TasksOK'
    BY <1>1, <2>1, ReplyTypes DEF JoinAnswer
  <2> QED
    BY <1>1, <1>4, <2>2 DEF MatchHandler, ViewsOK, views
<1>5. CASE AssertJoinedHandler(n, p)
  <2>1. /\ msg[n] # NoMsg /\ msg[n].kind # "query_join" /\ UNCHANGED call
        /\ Reply(n, "ok") \/ Reply(n, "eagain")
    BY <1>5 DEF AssertJoinedHandler, Handled
  <2>2. TasksOK'
    BY <1>1, <2>1, ReplyTypes DEF JoinAnswer
  <2>3. ViewsOK'
    BY <1>1, <1>5 DEF AssertJoinedHandler, Failed, ViewsOK, views
  <2> QED
    BY <2>2, <2>3
<1>6. CASE CancelJoinHandler(n, p)
  <2>1. msg[n] # NoMsg /\ msg[n].kind # "query_join" /\ UNCHANGED call /\ Reply(n, "ok")
    BY <1>6 DEF CancelJoinHandler, Handled
  <2>2. TasksOK'
    BY <1>1, <2>1, ReplyTypes DEF JoinAnswer
  <2>3. ViewsOK'
    BY <1>1, <1>6 DEF CancelJoinHandler, Failed, ViewsOK, views
  <2> QED
    BY <2>2, <2>3
<1>7. ASSUME NEW kind \in {"begin_exit", "exit"}, ExitHandler(n, kind, p)
      PROVE  TasksOK' /\ ViewsOK'
  <2>1. msg[n] # NoMsg /\ msg[n].kind # "query_join" /\ UNCHANGED call /\ Reply(n, "ok")
    BY <1>7 DEF ExitHandler, Handled
  <2>2. TasksOK'
    BY <1>1, <2>1, ReplyTypes DEF JoinAnswer
  <2>3. ViewsOK'
    BY <1>1, <1>7 DEF ExitHandler, ViewsOK, views
  <2> QED
    BY <2>2, <2>3
<1> QED
  BY <1>3, <1>4, <1>5, <1>6, <1>7 DEF DomainHandlers

\* The rest: leaving, deaths, recovery
LEMMA LeaveTypes ==
  ASSUME DomainTypeOK, NEW n \in up, LeaveStep(n)
  PROVE  DomainTypeOK'
<1>1. n \in DomainNode /\ TasksOK /\ ViewsOK /\ call[n] \in CallType /\ n \notin call[n].yes \union call[n].todo
  BY TypeParts DEF ViewsOK, TasksOK
<1>2. SUFFICES TasksOK' /\ ViewsOK'
  BY DEF DomainTypeOK, TasksOK, ViewsOK
<1> DEFINE c == call[n]
<1>3. \A pc \in {"idle", "try", "cancel", "migrate", "mark"} \union DOMAIN Round, T \in SUBSET DomainNode :
        /\ [c EXCEPT !.pc = pc] \in CallType
        /\ [c EXCEPT !.pc = pc, !.todo = T] \in CallType
        /\ [c EXCEPT !.pc = pc].yes = c.yes /\ [c EXCEPT !.pc = pc].todo = c.todo
        /\ [c EXCEPT !.pc = pc, !.todo = T].yes = c.yes /\ [c EXCEPT !.pc = pc, !.todo = T].todo = T
  BY <1>1 DEF CallType
<1>4. members[n] \in SUBSET DomainNode
  BY <1>1 DEF ViewsOK
<1>5. CASE Unregister(n)
  <2> DEFINE d == [NoCall EXCEPT !.pc = "beginexit", !.todo = members[n] \ {n}]
  <2>1. d \in CallType /\ n \notin d.yes \union d.todo
    BY <1>4, Rounds, NoCallType DEF CallType
  <2>2. UNCHANGED msg /\ (UNCHANGED call \/ call' = [call EXCEPT ![n] = d])
    BY <1>5 DEF Unregister
  <2>3. TasksOK'
    BY <1>1, <2>1, <2>2, TaskTypes DEF TasksOK
  <2>4. scene' \in SceneType
    BY <1>1, <1>5, SceneTypes DEF Unregister
  <2>5. users[n] - 1 \in Nat
    BY <1>1, <1>5 DEF Unregister, ViewsOK
  <2>6. ViewsOK'
    BY <1>1, <1>5, <2>4, <2>5 DEF Unregister, ViewsOK, views
  <2> QED
    BY <2>3, <2>6
<1>6. CASE BeganExit(n) \/ AllMigrated(n)
  <2>1. UNCHANGED msg /\ \E pc \in {"migrate", "mark"} : call' = [call EXCEPT ![n] = [c EXCEPT !.pc = pc]]
    BY <1>1, <1>6 DEF BeganExit, AllMigrated, Goto, TasksOK
  <2>2. TasksOK'
    BY <1>1, <1>3, <2>1, TaskTypes
  <2> QED
    BY <1>1, <1>6, <2>2 DEF BeganExit, AllMigrated, ViewsOK, views
<1>7. CASE MarkLeaving(n)
  <2> DEFINE d == [c EXCEPT !.pc = "exit", !.todo = members[n] \ {n}]
  <2>1. UNCHANGED msg /\ call' = [call EXCEPT ![n] = d]
    BY <1>1, <1>7 DEF MarkLeaving, TasksOK
  <2>2. "exit" \in DOMAIN Round /\ members[n] \ {n} \in SUBSET DomainNode
    BY <1>4, Rounds
  <2>3. d \in CallType /\ d.yes = c.yes /\ d.todo = members[n] \ {n}
    BY <1>3, <2>2
  <2>4. TasksOK'
    BY <1>1, <2>1, <2>3, TaskTypes
  <2>5. ViewsOK'
    BY <1>1, <1>7 DEF MarkLeaving, ViewsOK, views
  <2> QED
    BY <2>4, <2>5
<1>8. CASE Left(n)
  <2>1. TasksOK'
    BY <1>1, <1>8, NoCallType, TaskTypes DEF Left
  <2>2. ViewsOK'
    BY <1>1, <1>8 DEF Left, ViewsOK, views
  <2> QED
    BY <2>1, <2>2
<1> QED
  BY <1>5, <1>6, <1>7, <1>8 DEF LeaveStep

LEMMA DeathTypes ==
  ASSUME DomainTypeOK,
         \/ \E n \in up : PeerDown(n) \/ \E p \in DomainNode : HbNodeDown(n, p) \/ RecoveryBegins(n, p)
         \/ \E d \in DomainNode : NodeDies(d)
         \/ DeathForgotten
  PROVE  DomainTypeOK'
<1>1. TasksOK /\ ViewsOK /\ up \subseteq DomainNode
  BY TypeParts DEF ViewsOK
<1>2. SUFFICES TasksOK' /\ ViewsOK'
  BY DEF DomainTypeOK, TasksOK, ViewsOK
<1>3. ASSUME NEW n \in up, PeerDown(n) PROVE TasksOK' /\ ViewsOK'
  <2>1. TasksOK'
    BY <1>1, <1>3, ReplyTypes DEF PeerDown, JoinAnswer
  <2> QED
    BY <1>1, <1>3, <2>1 DEF PeerDown, ViewsOK, views
<1>4. ASSUME NEW n \in up, NEW p \in DomainNode, HbNodeDown(n, p) PROVE TasksOK' /\ ViewsOK'
  <2>1. TasksOK'
    BY <1>1, <1>4 DEF HbNodeDown, TasksOK
  <2>2. ViewsOK'
    BY <1>1, <1>4 DEF HbNodeDown, ViewsOK
  <2> QED
    BY <2>1, <2>2
<1>5. ASSUME NEW n \in up, NEW p \in DomainNode, RecoveryBegins(n, p) PROVE TasksOK' /\ ViewsOK'
  BY <1>1, <1>5 DEF RecoveryBegins, TasksOK, ViewsOK
<1>6. ASSUME NEW d \in DomainNode, NodeDies(d) PROVE TasksOK' /\ ViewsOK'
  <2>1. TasksOK'
    BY <1>1, <1>6, NoCallType, TaskTypes DEF NodeDies
  <2> QED
    BY <1>1, <1>6, <2>1 DEF NodeDies, ViewsOK
<1>7. CASE DeathForgotten
  BY <1>1, <1>7 DEF DeathForgotten, TasksOK, ViewsOK
<1> QED
  BY <1>3, <1>4, <1>5, <1>6, <1>7

LEMMA DomainTypes ==
  DomainTypeOK /\ [DNext]_dvars => DomainTypeOK'
<1> SUFFICES ASSUME DomainTypeOK, [DNext]_dvars PROVE DomainTypeOK'
  OBVIOUS
<1>1. CASE UNCHANGED dvars
  BY <1>1 DEF dvars, DomainTypeOK
<1>2. CASE DNext
  BY <1>2, JoinTypes, HandlerTypes, LeaveTypes, DeathTypes DEF DNext
<1> QED
  BY <1>1, <1>2

-----------------------------------------------------------------------------
(* Who does not take part in a step.                                       *)

\* Nothing changes on n.
Still(n) ==
  /\ ctxt'[n] = ctxt[n] /\ minor'[n] = minor[n] /\ joining'[n] = joining[n] /\ live'[n] = live[n]
  /\ beat'[n] = beat[n] /\ members'[n] = members[n] /\ call'[n] = call[n] /\ msg'[n] = msg[n]

LEMMA StillAlone ==
  ASSUME NEW n, Still(n), Alone(n), up' \subseteq up
  PROVE  Alone(n)'
BY DEF Still, Alone, Calls, Answers, Seen, NoGhosts, Joiner, Settled, Said

LEMMA StillPair ==
  ASSUME NEW n, NEW p, Still(n), Still(p), Pair(n, p)
  PROVE  Pair(n, p)'
<1>1. /\ Passed(n, p)' <=> Passed(n, p)
      /\ Passed(p, n)' <=> Passed(p, n)
      /\ Owes(n, p)' <=> Owes(n, p)
      /\ Settled(p)' <=> Settled(p)
      /\ Settled(n)' <=> Settled(n)
  BY DEF Still, Passed, Owes, Said, Settled
<1>2. (Protocol(n, p)' <=> Protocol(n, p)) /\ (Agreed(n, p)' <=> Agreed(n, p)) /\ (Agreed(p, n)' <=> Agreed(p, n))
  BY DEF Still, Protocol, Agreed, Said
<1>3. Known(n, p)' <=> Known(n, p)
  BY <1>1, <1>2 DEF Known, Still
<1>4. Promise(n, p)' <=> Promise(n, p)
  BY <1>1 DEF Promise, Still
<1> QED
  BY <1>1, <1>2, <1>3, <1>4 DEF Pair

\* Only the nodes of S take part in a step: it is enough to look at them.
LEMMA OthersKeep ==
  ASSUME DomainInv, NEW S, UNCHANGED <<up, dbug>>, DomainTypeOK',
         \A m \in up \ S : Still(m),
         \A n \in up \intersect S : Alone(n)',
         \A n \in up \intersect S, p \in up : n # p => Pair(n, p)' /\ Pair(p, n)'
  PROVE  DomainInv'
<1>1. \A m \in up \ S : Alone(m)'
  BY StillAlone DEF DomainInv
<1>2. \A n, p \in up \ S : n # p => Pair(n, p)'
  BY StillPair DEF DomainInv
<1> QED
  BY <1>1, <1>2 DEF DomainInv

LEMMA NobodyKeeps ==
  ASSUME DomainInv, UNCHANGED <<up, dbug>>, DomainTypeOK', \A m \in up : Still(m)
  PROVE  DomainInv'
BY StillAlone, StillPair DEF DomainInv

LEMMA OneKeeps ==
  ASSUME DomainInv, NEW n \in up, UNCHANGED <<up, dbug>>, DomainTypeOK',
         \A m \in up \ {n} : Still(m), Alone(n)',
         \A p \in up : p # n => Pair(n, p)' /\ Pair(p, n)'
  PROVE  DomainInv'
<1>1. up \intersect {n} = {n}
  OBVIOUS
<1>2. \A m \in up \intersect {n} : Alone(m)'
  BY <1>1
<1>3. \A m \in up \intersect {n}, p \in up : m # p => Pair(m, p)' /\ Pair(p, m)'
  BY <1>1
<1> QED
  BY <1>2, <1>3, OthersKeep

\* A step of the task of n that p cannot tell: n owes it what it did before.
LEMMA QuietPair ==
  ASSUME NEW n, NEW p, Pair(n, p), Pair(p, n),
         joining'[n] = joining[n], members'[n] = members[n], Still(p),
         Settled(n)' <=> Settled(n), ctxt'[n] # "none" => ctxt[n] # "none",
         Settled(n) \/ call[n].pc = "assert" => minor'[n] = minor[n],
         Owes(n, p)' <=> Owes(n, p), Passed(n, p)' => Passed(n, p),
         Passed(n, p) /\ Protocol(n, p) => Protocol(n, p)',
         call'[n].pc \in Matching \union {"assert"} => call[n].pc \in Matching \union {"assert"},
         Passed(n, p)' /\ call[n].pc = "assert" => call'[n].pc = "assert"
  PROVE  Pair(n, p)' /\ Pair(p, n)'
<1>1. /\ Settled(p)' <=> Settled(p)
      /\ Settled(n) \/ call[n].pc = "assert" =>
           /\ Agreed(n, p)' <=> Agreed(n, p)
           /\ Agreed(p, n)' <=> Agreed(p, n)
  BY DEF Settled, Agreed, Still
<1>2. /\ Passed(p, n)' <=> Passed(p, n)
      /\ Owes(p, n)' <=> Owes(p, n)
      /\ Settled(n) => (Protocol(p, n)' <=> Protocol(p, n))
  BY DEF Passed, Owes, Protocol, Said, Still
<1>3. Promise(n, p)' /\ Promise(p, n)'
  BY <1>1, <1>2 DEF Promise, Pair, Still
<1>4. Passed(n, p)' => Known(n, p)'
  BY <1>1, <1>2 DEF Known, Pair, Still
<1>5. Passed(p, n)' => Known(p, n)'
  BY <1>1, <1>2 DEF Known, Pair, Still
<1> QED
  BY <1>1, <1>3, <1>4, <1>5 DEF Pair

\* n hears of somebody else than p: they know of each other what they knew.
LEMMA PeerPair ==
  ASSUME NEW n, NEW p, Pair(n, p), Pair(p, n), Still(p),
         ctxt'[n] = ctxt[n], minor'[n] = minor[n], call'[n] = call[n], msg'[n] = msg[n],
         p \in members'[n] <=> p \in members[n],
         joining'[n] = joining[n] \/ (joining'[n] # p /\ ~Owes(p, n))
  PROVE  Pair(n, p)' /\ Pair(p, n)'
<1>1. /\ Passed(n, p)' <=> Passed(n, p)
      /\ Passed(p, n)' <=> Passed(p, n)
      /\ Owes(n, p)' <=> Owes(n, p)
      /\ Owes(p, n)' <=> Owes(p, n)
      /\ Settled(p)' <=> Settled(p)
      /\ Settled(n)' <=> Settled(n)
  BY DEF Still, Passed, Owes, Said, Settled
<1>2. /\ Protocol(n, p)' <=> Protocol(n, p)
      /\ Protocol(p, n)' <=> Protocol(p, n)
      /\ Agreed(n, p)' <=> Agreed(n, p)
      /\ Agreed(p, n)' <=> Agreed(p, n)
  BY DEF Still, Protocol, Agreed, Said
<1>3. /\ Known(n, p)' <=> Known(n, p)
      /\ Known(p, n)' <=> Known(p, n)
  BY <1>1, <1>2 DEF Known, Still
<1>4. Promise(n, p)' /\ Promise(p, n)'
  BY <1>1 DEF Promise, Pair, Still
<1> QED
  BY <1>1, <1>2, <1>3, <1>4 DEF Pair

\* A step of a task that owes p nothing and has not asked it
LEMMA OutsidePair ==
  ASSUME NEW n, NEW p, Pair(n, p), Pair(p, n), Still(p),
         ~Owes(n, p), ~Owes(n, p)', ~Passed(n, p)', ~Settled(n), ~Settled(n)',
         joining'[n] = p /\ ctxt'[n] # "none" => joining[n] = p /\ ctxt[n] # "none"
  PROVE  Pair(n, p)' /\ Pair(p, n)'
<1>1. ~Owes(p, n)
  BY DEF Pair, Promise
<1>2. ~Owes(p, n)'
  BY <1>1 DEF Owes, Said, Still
<1>3. Promise(n, p)' /\ Promise(p, n)'
  BY <1>1, <1>2 DEF Pair, Promise, Still
<1> QED
  BY <1>3 DEF Pair, Known

\* What everybody may use
LEMMA UpNode ==
  ASSUME DomainInv, NEW n \in up
  PROVE  /\ n \in DomainNode /\ Alone(n) /\ n # None
         /\ call[n] \in CallType /\ n \notin call[n].yes \union call[n].todo
         /\ msg[n] # NoMsg => msg[n].to \in DomainNode \ {n} /\ msg[n].kind \in MsgKind
BY MsgFields, NodesAssumption DEF DomainInv, DomainTypeOK, None

\* A node that is not in dlm_try_to_join_domain() owes nobody anything.
LEMMA OutsideOwesNothing ==
  ASSUME NEW n, NEW p, Alone(n), call[n].pc \notin Asking \union {"cancel"}
  PROVE  ~Owes(n, p) /\ ~Passed(n, p)
<1>1. msg[n] # NoMsg => msg[n].kind \in {"begin_exit", "exit"}
  BY Rounds DEF Alone, Calls, Asking, Matching
<1> QED
  BY <1>1 DEF Owes, Passed, Said, Asking, Matching

LEMMA StateOfPc ==
  ASSUME DomainInv, NEW n \in up
  PROVE  /\ call[n].pc = "idle" <=> ctxt[n] \in {"none", "joined"}
         /\ call[n].pc \in {"try", "query", "nodes", "regions", "assert", "cancel"} <=> ctxt[n] = "new"
         /\ call[n].pc \in {"beginexit", "migrate", "mark"} <=> ctxt[n] = "shutdown"
         /\ call[n].pc = "exit" <=> ctxt[n] = "leaving"
<1>1. ctxt[n] \in {"none", "new", "joined", "shutdown", "leaving"} /\ call[n].pc \in PcOf[ctxt[n]]
  BY UpNode DEF Alone, Calls, DomainInv, DomainTypeOK
<1> QED
  BY <1>1 DEF PcOf, Asking, Matching

LEMMA RegisterKeeps ==
  ASSUME DomainInv, NEW n \in up, Register(n), DomainTypeOK'
  PROVE  DomainInv'
<1>1. /\ n \in DomainNode /\ Alone(n) /\ n # None /\ call[n].pc = "idle"
      /\ UNCHANGED <<up, dbug, beat, live, msg>>
  BY UpNode DEF Register
<1>2. CASE ctxt[n] = "joined"
  <2>1. \A m \in up : Still(m)
    BY <1>1, <1>2 DEF Register, Still
  <2> QED
    BY <1>1, <2>1, NobodyKeeps
<1>3. CASE ctxt[n] = "none"
  <2>1. /\ ctxt'[n] = "new" /\ joining'[n] = None /\ members'[n] = {} /\ call'[n].pc = "try"
    BY <1>1, <1>3, UpNode DEF Register, Goto, DomainInv, DomainTypeOK, CallType
  <2>2. \A m \in up \ {n} : Still(m)
    BY <1>1, <1>3 DEF Register, Goto, Still, DomainInv, DomainTypeOK
  <2>3. msg[n] = NoMsg
    BY <1>1, Rounds DEF Alone, Calls
  <2>4. Alone(n)'
    <3>1. Calls(n)'
      BY <1>1, <2>1, <2>3 DEF Calls, Joiner, Asking, Matching, PcOf, Settled
    <3>2. Seen(n)'
      BY <1>1, <2>1 DEF Alone, Seen, Matching
    <3> QED
      BY <1>1, <2>1, <2>3, <3>1, <3>2 DEF Alone, NoGhosts, Answers
  <2>5. ASSUME NEW p \in up, p # n PROVE Pair(n, p)' /\ Pair(p, n)'
    <3>1. ~Owes(n, p) /\ ~Passed(n, p) /\ ~Settled(n) /\ Pair(n, p) /\ Pair(p, n)
      BY <1>1, <1>3, <2>5, OutsideOwesNothing DEF Settled, DomainInv, Asking, Matching
    <3>2. ~Owes(n, p)' /\ ~Passed(n, p)' /\ ~Settled(n)'
      BY <1>1, <2>1, <2>3 DEF Owes, Passed, Said, Settled, Matching
    <3> QED
      BY <2>1, <2>2, <2>5, <3>1, <3>2, UpNode, OutsidePair
  <2> QED
    BY <1>1, <2>2, <2>4, <2>5, OneKeeps
<1> QED
  BY <1>2, <1>3 DEF Register

LEMMA TryToJoinKeeps ==
  ASSUME DomainInv, NEW n \in up, TryToJoin(n), DomainTypeOK'
  PROVE  DomainInv'
<1>1. /\ n \in DomainNode /\ Alone(n) /\ n # None /\ call[n].pc = "try"
      /\ UNCHANGED <<up, dbug, beat, msg, ctxt, minor, members>>
  BY UpNode DEF TryToJoin, views
<1>2. /\ joining'[n] = n /\ live'[n] = beat[n]
      /\ call'[n].pc = "query" /\ call'[n].todo = beat[n] \ {n} /\ call'[n].yes = {}
  BY <1>1 DEF TryToJoin, Others, DomainInv, DomainTypeOK
<1>3. \A m \in up \ {n} : Still(m)
  BY <1>1 DEF TryToJoin, Still, DomainInv, DomainTypeOK, views
<1>4. msg[n] = NoMsg /\ ctxt[n] = "new" /\ members[n] = {}
  BY <1>1, Rounds, StateOfPc DEF Alone, Calls
<1>5. Alone(n)'
  <2>1. Calls(n)'
    BY <1>1, <1>2, <1>4 DEF Calls, Joiner, Asking, Matching, PcOf, Settled
  <2>2. Seen(n)'
    BY <1>1, <1>2, <1>4 DEF Alone, Seen, Matching
  <2> QED
    BY <1>1, <1>4, <2>1, <2>2 DEF Alone, NoGhosts, Answers
<1>6. ASSUME NEW p \in up, p # n PROVE Pair(n, p)' /\ Pair(p, n)'
  <2>1. ~Owes(n, p) /\ ~Passed(n, p) /\ ~Settled(n) /\ Pair(n, p) /\ Pair(p, n)
    BY <1>1, <1>4, <1>6, OutsideOwesNothing DEF Settled, DomainInv, Asking, Matching
  <2>2. p \in call'[n].todo
    BY <1>1, <1>2, <1>6 DEF Alone, Seen
  <2>3. ~Owes(n, p)' /\ ~Passed(n, p)' /\ ~Settled(n)'
    BY <1>1, <1>2, <1>4, <2>2 DEF Owes, Passed, Said, Settled, Matching
  <2> QED
    BY <1>2, <1>3, <1>6, <2>1, <2>3, OutsidePair
<1> QED
  BY <1>1, <1>3, <1>5, <1>6, OneKeeps

\* The phase says what kind of message is under way.
LEMMA KindOfPc ==
  ASSUME DomainInv, NEW n \in up, msg[n] # NoMsg
  PROVE  /\ msg[n].kind = "query_join" <=> call[n].pc = "query"
         /\ msg[n].kind \in {"nodeinfo", "regions"} <=> call[n].pc \in Matching
         /\ msg[n].kind = "assert_joined" <=> call[n].pc = "assert"
         /\ msg[n].kind = "cancel_join" <=> call[n].pc = "cancel"
         /\ msg[n].kind = "begin_exit" <=> call[n].pc = "beginexit"
         /\ msg[n].kind = "exit" <=> call[n].pc = "exit"
         /\ msg[n].to \in call[n].todo /\ msg[n].to # n
<1>1. call[n].pc \in DOMAIN Round /\ msg[n].kind = Round[call[n].pc] /\ msg[n].to \in call[n].todo
  BY UpNode DEF Alone, Calls
<1> QED
  BY <1>1, Rounds, UpNode DEF Matching

\* A message that is asked, or will not be answered, tells n nothing.
LEMMA AskNextKeeps ==
  ASSUME DomainInv, NEW n \in up, AskNext(n) \/ PeerDown(n), DomainTypeOK'
  PROVE  DomainInv'
<1>1. /\ n \in DomainNode /\ Alone(n)
      /\ UNCHANGED <<up, dbug, beat, call, ctxt, minor, members, live, joining>>
  BY UpNode DEF AskNext, PeerDown, views
<1>2. \A m \in up \ {n} : Still(m)
  BY <1>1 DEF AskNext, PeerDown, Post, Reply, Still, DomainInv, DomainTypeOK
<1>3. \A p, kind : /\ ~Said(n, p, kind, "ok") /\ ~Said(n, p, kind, "nomap")
                   /\ ~Said(n, p, kind, "ok")' /\ ~Said(n, p, kind, "nomap")'
  <2>1. CASE AskNext(n)
    <3>1. msg[n] = NoMsg /\ msg'[n].ans = "none"
      BY <1>1, <2>1 DEF AskNext, Post, DomainInv, DomainTypeOK
    <3> QED
      BY <3>1 DEF Said
  <2>2. CASE PeerDown(n)
    <3>1. msg[n].ans = "none" /\ msg'[n].ans = "down"
      BY <1>1, <2>2, TypeParts, MsgFields DEF PeerDown, Reply, DomainInv, DomainTypeOK, MsgType
    <3> QED
      BY <3>1 DEF Said
  <2> QED
    BY <2>1, <2>2
<1>4. Alone(n)'
  <2>1. Calls(n)' /\ Answers(n)'
    <3>1. CASE AskNext(n)
      <4>1. Min(call[n].todo) \in call[n].todo /\ call[n].pc \in DOMAIN Round
        BY <3>1, UpNode, LowestIsOne DEF AskNext, CallType
      <4>2. msg'[n] = [kind |-> Round[call[n].pc], to |-> Min(call[n].todo), ans |-> "none"]
        BY <1>1, <3>1 DEF AskNext, Post, DomainInv, DomainTypeOK
      <4> QED
        BY <1>1, <4>1, <4>2 DEF Alone, Calls, Answers, Joiner, Settled
    <3>2. CASE PeerDown(n)
      <4>1. /\ msg'[n].kind = msg[n].kind /\ msg'[n].to = msg[n].to /\ msg[n] # NoMsg
            /\ msg'[n].ans = "down" /\ msg[n].to \notin up
        BY <1>1, <3>2 DEF PeerDown, Reply, DomainInv, DomainTypeOK, MsgType
      <4> QED
        BY <1>1, <4>1 DEF Alone, Calls, Answers, Joiner, Settled
    <3> QED
      BY <3>1, <3>2
  <2>2. Seen(n)' /\ NoGhosts(n)'
    BY <1>1, <1>3 DEF Alone, Seen, NoGhosts
  <2> QED
    BY <2>1, <2>2 DEF Alone
<1>5. ASSUME NEW p \in up, p # n PROVE Pair(n, p)' /\ Pair(p, n)'
  <2>1. /\ Owes(n, p)' <=> Owes(n, p)
        /\ Passed(n, p)' <=> Passed(n, p)
        /\ Protocol(n, p) => Protocol(n, p)'
    BY <1>1, <1>3 DEF Owes, Passed, Protocol
  <2> QED
    BY <1>1, <1>2, <1>5, <2>1, QuietPair DEF DomainInv, Settled
<1> QED
  BY <1>1, <1>2, <1>4, <1>5, OneKeeps

\* The joiner gives up (the end of dlm_try_to_join_domain()): it owes the same as before.
LEMMA BailKeeps ==
  ASSUME DomainInv, NEW n \in up, DomainTypeOK',
         UNCHANGED <<up, dbug, beat, ctxt, live, members>>,
         \A m \in up \ {n} : Still(m),
         call[n].pc \in Matching \union {"query"},
         call'[n].pc = "cancel", call'[n].todo = call'[n].yes,
         call'[n].retry => members[n] = {},
         joining'[n] = None, msg'[n] = NoMsg,
         \A p : Owes(n, p) <=> p \in call'[n].yes
  PROVE  DomainInv'
<1>1. Alone(n) /\ n # None /\ ctxt[n] = "new"
  BY UpNode, StateOfPc DEF Matching
<1>2. Alone(n)'
  <2>1. Calls(n)' /\ Answers(n)'
    BY <1>1 DEF Calls, Answers, Joiner, Asking, Matching, PcOf, Settled
  <2>2. Seen(n)' /\ NoGhosts(n)'
    BY <1>1 DEF Alone, Seen, NoGhosts, Matching
  <2> QED
    BY <2>1, <2>2 DEF Alone
<1>3. ASSUME NEW p \in up, p # n PROVE Pair(n, p)' /\ Pair(p, n)'
  <2>1. Owes(n, p)' <=> Owes(n, p)
    BY DEF Owes, Said, Matching
  <2>2. ~Passed(n, p)' /\ ~Settled(n)' /\ ~Settled(n) /\ joining[n] = n
    BY <1>1 DEF Passed, Said, Matching, Settled, Alone, Calls, Joiner, Asking
  <2>3. Pair(n, p) /\ Pair(p, n) /\ Still(p)
    BY <1>3 DEF DomainInv
  <2>4. ~Owes(p, n)
    BY <1>3, <2>2, <2>3 DEF Pair, Promise
  <2>5. ~Owes(p, n)'
    BY <2>3, <2>4 DEF Owes, Said, Still
  <2>6. joining'[n] # p
    BY <1>3, UpNode
  <2>7. Settled(p)' <=> Settled(p)
    BY DEF Settled
  <2>8. Promise(n, p)' /\ Promise(p, n)'
    BY <2>1, <2>3, <2>5, <2>6, <2>7 DEF Pair, Promise, Still
  <2> QED
    BY <2>2, <2>8 DEF Pair, Known
<1> QED
  BY <1>2, <1>3, OneKeeps

LEMMA QueryAnsweredKeeps ==
  ASSUME DomainInv, NEW n \in up, QueryAnswered(n), DomainTypeOK'
  PROVE  DomainInv'
<1> DEFINE p == msg[n].to
           ans == msg[n].ans
           c == call[n]
           b == [c EXCEPT !.todo = c.todo \ {p}, !.yes = IF ans = "ok" THEN c.yes \union {p} ELSE c.yes]
<1>1. /\ n \in DomainNode /\ Alone(n) /\ msg[n] # NoMsg /\ msg[n].kind = "query_join" /\ ans # "none"
      /\ c \in CallType /\ msg' = [msg EXCEPT ![n] = NoMsg]
      /\ UNCHANGED <<up, dbug, beat, ctxt, live, members>>
  BY UpNode DEF QueryAnswered, Waiting, views
<1>2. c.pc = "query" /\ p \in c.todo /\ p # n /\ ctxt[n] = "new" /\ members[n] = {} /\ p \notin c.yes
  BY <1>1, KindOfPc, StateOfPc DEF Alone, Calls
<1>3. /\ b \in CallType /\ b.pc = "query" /\ b.todo = c.todo \ {p} /\ b.retry = c.retry
      /\ b.yes = IF ans = "ok" THEN c.yes \union {p} ELSE c.yes
  <2>1. p \in DomainNode /\ c.todo \subseteq DomainNode /\ c.yes \subseteq DomainNode
    BY <1>1, UpNode DEF CallType
  <2> DEFINE S == c.todo \ {p}
             Y == IF ans = "ok" THEN c.yes \union {p} ELSE c.yes
  <2>2. S \in SUBSET DomainNode /\ Y \in SUBSET DomainNode
    BY <2>1
  <2>3. b = [c EXCEPT !.todo = S, !.yes = Y]
    OBVIOUS
  <2> HIDE DEF b, S, Y
  <2>4. b \in CallType /\ b.pc = c.pc /\ b.todo = S /\ b.retry = c.retry /\ b.yes = Y
    BY <1>1, <2>2, <2>3 DEF CallType
  <2> QED
    BY <1>2, <2>4 DEF S, Y
<1>4. \A q : Owes(n, q) <=> q \in b.yes
  BY <1>1, <1>2, <1>3 DEF Owes, Said, Matching
<1>5. \/ /\ \E retry \in BOOLEAN : call' = [call EXCEPT ![n] = Bailed(b, retry)]
         /\ joining' = [joining EXCEPT ![n] = None]
      \/ /\ call' = [call EXCEPT ![n] = b] /\ UNCHANGED joining
         /\ minor' = [minor EXCEPT ![n] = IF ans = "ok" THEN msg[n].minor ELSE @]
         /\ ans \notin {"down", "mismatch", "disallow"}
  <2>1. b = [c EXCEPT !.todo = @ \ {p}, !.yes = IF ans = "ok" THEN @ \union {p} ELSE @]
    OBVIOUS
  <2> HIDE DEF b
  <2>2. CASE ans \in {"down", "mismatch"}
    <3>1. call' = [call EXCEPT ![n] = Bailed(b, FALSE)] /\ joining' = [joining EXCEPT ![n] = None]
      BY <2>1, <2>2 DEF QueryAnswered
    <3> QED
      BY <3>1, <2>2
  <2>3. CASE ans \notin {"down", "mismatch"} /\ (ans = "disallow" \/ call[n].map # live[n])
    <3>1. call' = [call EXCEPT ![n] = Bailed(b, TRUE)] /\ joining' = [joining EXCEPT ![n] = None]
      BY <2>1, <2>3 DEF QueryAnswered
    <3> QED
      BY <3>1
  <2>4. CASE ans \notin {"down", "mismatch"} /\ ~(ans = "disallow" \/ call[n].map # live[n])
    BY <2>1, <2>4 DEF QueryAnswered
  <2> QED
    BY <2>2, <2>3, <2>4
<1> HIDE DEF b
<1>6. \A m \in up \ {n} : Still(m)
  <2>1. /\ \E d : call' = [call EXCEPT ![n] = d]
        /\ \E d : minor' = [minor EXCEPT ![n] = d] \/ UNCHANGED minor
        /\ joining' = [joining EXCEPT ![n] = None] \/ UNCHANGED joining
    BY <1>1 DEF QueryAnswered
  <2> QED
    BY <1>1, <2>1 DEF Still, DomainInv, DomainTypeOK
<1>7. ASSUME NEW retry \in BOOLEAN, joining' = [joining EXCEPT ![n] = None],
             call' = [call EXCEPT ![n] = Bailed(b, retry)]
      PROVE  DomainInv'
  <2>2. call'[n].pc = "cancel" /\ call'[n].todo = call'[n].yes /\ call'[n].yes = b.yes
    BY <1>1, <1>3, <1>7 DEF Bailed, CallType, DomainInv, DomainTypeOK
  <2>3. joining'[n] = None /\ msg'[n] = NoMsg
    BY <1>1, <1>7 DEF DomainInv, DomainTypeOK
  <2>4. members[n] = {} /\ call[n].pc \in Matching \union {"query"}
    BY <1>2
  <2> QED
    BY <1>1, <1>4, <1>6, <2>2, <2>3, <2>4, BailKeeps
<1>8. ASSUME call' = [call EXCEPT ![n] = b], UNCHANGED joining,
             minor' = [minor EXCEPT ![n] = IF ans = "ok" THEN msg[n].minor ELSE @],
             ans \notin {"down", "mismatch", "disallow"}
      PROVE  DomainInv'
  <2>1. /\ call'[n] = b /\ msg'[n] = NoMsg /\ minor'[n] = IF ans = "ok" THEN msg[n].minor ELSE minor[n]
        /\ ans \in {"ok", "nomap"}
    BY <1>1, <1>8, MsgFields DEF DomainInv, DomainTypeOK
  <2>2. Alone(n)'
    <3>1. Calls(n)' /\ Answers(n)'
      BY <1>1, <1>2, <1>3, <1>8, <2>1 DEF Alone, Calls, Answers, Joiner, Settled, Matching
    <3>2. Seen(n)' /\ NoGhosts(n)'
      BY <1>1, <1>2, <1>3, <2>1 DEF Alone, Seen, NoGhosts, Matching
    <3> QED
      BY <3>1, <3>2 DEF Alone
  <2>3. ASSUME NEW q \in up, q # n PROVE Pair(n, q)' /\ Pair(q, n)'
    <3>1. Owes(n, q)' <=> Owes(n, q)
      BY <1>3, <1>4, <2>1 DEF Owes, Said, Matching
    <3>2. Passed(n, q)' => Passed(n, q)
      BY <1>1, <1>2, <1>3, <2>1 DEF Passed, Said, Matching
    <3>3. Protocol(n, q) => Protocol(n, q)'
      <4>1. minor'[q] = minor[q]
        BY <1>6, <2>3 DEF Still
      <4>2. ASSUME Protocol(n, q), q \in b.yes PROVE minor'[n] = minor[q]
        <5>1. CASE ans = "ok"
          <6>1. q \in c.yes \/ q = p
            BY <1>3, <4>2, <5>1
          <6>2. Said(n, p, "query_join", "ok") /\ p \in DomainNode
            BY <1>1, <5>1, UpNode DEF Said
          <6> QED
            BY <2>1, <4>2, <5>1, <6>1, <6>2 DEF Protocol
        <5>2. CASE ans # "ok"
          BY <1>3, <2>1, <4>2, <5>2 DEF Protocol
        <5> QED
          BY <5>1, <5>2
      <4> QED
        BY <2>1, <4>1, <4>2 DEF Protocol, Said
    <3>4. ~Settled(n) /\ Pair(n, q) /\ Pair(q, n)
      BY <1>2, <2>3 DEF Settled, DomainInv
    <3> QED
      BY <1>1, <1>2, <1>3, <1>8, <1>6, <2>1, <2>3, <3>1, <3>2, <3>3, <3>4, QuietPair DEF Matching, Settled
  <2> QED
    BY <1>1, <1>6, <2>2, <2>3, OneKeeps
<1> QED
  BY <1>5, <1>7, <1>8

LEMMA AllAgreedKeeps ==
  ASSUME DomainInv, NEW n \in up, AllAgreed(n), DomainTypeOK'
  PROVE  DomainInv'
<1>1. /\ n \in DomainNode /\ Alone(n) /\ call[n] \in CallType
      /\ call[n].pc = "query" /\ call[n].todo = {} /\ ctxt[n] = "new"
      /\ UNCHANGED <<up, dbug, beat, ctxt, live, minor, joining, msg>>
  BY UpNode, StateOfPc DEF AllAgreed, views
<1>2. msg[n] = NoMsg
  BY <1>1 DEF Alone, Calls
<1>3. /\ call'[n].pc \in {"nodes", "assert"} /\ call'[n].todo = call[n].yes /\ call'[n].yes = call[n].yes
      /\ members'[n] = call[n].yes \union {n}
  BY <1>1 DEF AllAgreed, CallType, DomainInv, DomainTypeOK
<1>4. \A m \in up \ {n} : Still(m)
  BY <1>1 DEF AllAgreed, Still, DomainInv, DomainTypeOK
<1>5. Alone(n)'
  <2>1. Calls(n)' /\ Answers(n)'
    BY <1>1, <1>2, <1>3 DEF Alone, Calls, Answers, Joiner, Settled, Matching, Asking, PcOf
  <2>2. Seen(n)' /\ NoGhosts(n)'
    BY <1>1, <1>2, <1>3 DEF Alone, Seen, NoGhosts, Matching, Said
  <2> QED
    BY <2>1, <2>2 DEF Alone
<1>6. ASSUME NEW p \in up, p # n PROVE Pair(n, p)' /\ Pair(p, n)'
  <2>1. /\ Owes(n, p) <=> p \in call[n].yes
        /\ Owes(n, p)' <=> p \in call[n].yes
        /\ Passed(n, p) /\ Passed(n, p)'
    BY <1>1, <1>2, <1>3 DEF Owes, Passed, Said, Matching
  <2>2. /\ Pair(n, p) /\ Pair(p, n) /\ Still(p) /\ ~Settled(n) /\ ~Settled(n)'
        /\ Settled(p)' <=> Settled(p)
    BY <1>1, <1>4, <1>6 DEF DomainInv, Settled
  <2>3. /\ Owes(p, n)' <=> Owes(p, n)
        /\ Passed(p, n)' <=> Passed(p, n)
    BY <2>2 DEF Owes, Passed, Said, Still
  <2>4. Promise(n, p)' /\ Promise(p, n)'
    BY <1>1, <2>1, <2>2, <2>3 DEF Pair, Promise, Still
  <2>5. ~Passed(p, n)
    BY <2>1, <2>2 DEF Pair, Known
  <2>6. Protocol(n, p) => Protocol(n, p)'
    BY <1>1, <1>3 DEF Protocol, Said
  <2>7. Known(n, p) /\ call[n].pc # "assert"
    BY <1>1, <2>1, <2>2 DEF Pair
  <2>8. Known(n, p)'
    BY <1>3, <2>1, <2>2, <2>3, <2>5, <2>6, <2>7 DEF Known
  <2> QED
    BY <2>2, <2>3, <2>4, <2>5, <2>8 DEF Pair
<1> QED
  BY <1>1, <1>4, <1>5, <1>6, OneKeeps

LEMMA MatchAnsweredKeeps ==
  ASSUME DomainInv, NEW n \in up, NEW kind \in {"nodeinfo", "regions"}, MatchAnswered(n, kind), DomainTypeOK'
  PROVE  DomainInv'
<1>1. /\ n \in DomainNode /\ Alone(n) /\ call[n] \in CallType /\ msg[n] # NoMsg /\ msg[n].kind = kind
      /\ msg' = [msg EXCEPT ![n] = NoMsg] /\ msg'[n] = NoMsg
      /\ UNCHANGED <<up, dbug, beat, ctxt, live, minor, members>>
  BY UpNode DEF MatchAnswered, Waiting, views, DomainInv, DomainTypeOK
<1>2. call[n].pc \in Matching /\ ctxt[n] = "new"
  BY <1>1, KindOfPc, StateOfPc DEF Matching
<1>3. \A m \in up \ {n} : Still(m)
  <2>1. /\ \E d : call' = [call EXCEPT ![n] = d]
        /\ joining' = [joining EXCEPT ![n] = None] \/ UNCHANGED joining
    BY <1>1 DEF MatchAnswered
  <2> QED
    BY <1>1, <2>1 DEF Still, DomainInv, DomainTypeOK
<1>4. \A p : Owes(n, p) <=> p \in call[n].yes
  BY <1>1, <1>2 DEF Owes, Said, Matching
<1>5. CASE msg[n].ans = "ok"
  <2>1. /\ call'[n].pc = call[n].pc /\ call'[n].yes = call[n].yes /\ call'[n].todo \subseteq call[n].todo
        /\ call'[n].retry = call[n].retry /\ UNCHANGED joining
    BY <1>1, <1>5 DEF MatchAnswered, CallType, DomainInv, DomainTypeOK
  <2>2. Alone(n)'
    <3>1. Calls(n)' /\ Answers(n)'
      BY <1>1, <1>2, <2>1 DEF Alone, Calls, Answers, Joiner, Settled, Matching
    <3>2. Seen(n)' /\ NoGhosts(n)'
      BY <1>1, <1>2, <2>1 DEF Alone, Seen, NoGhosts, Matching
    <3> QED
      BY <3>1, <3>2 DEF Alone
  <2>3. ASSUME NEW p \in up, p # n PROVE Pair(n, p)' /\ Pair(p, n)'
    <3>1. /\ Owes(n, p)' <=> Owes(n, p)
          /\ Passed(n, p)' => Passed(n, p)
          /\ Protocol(n, p) => Protocol(n, p)'
      BY <1>1, <1>2, <1>4, <2>1 DEF Owes, Passed, Protocol, Said, Matching
    <3> QED
      BY <1>1, <1>3, <2>1, <2>3, <3>1, QuietPair DEF DomainInv, Settled
  <2> QED
    BY <1>1, <1>3, <2>2, <2>3, OneKeeps
<1>6. CASE msg[n].ans # "ok"
  <2>1. /\ call'[n].pc = "cancel" /\ call'[n].todo = call'[n].yes /\ call'[n].yes = call[n].yes
        /\ call'[n].retry = FALSE /\ joining'[n] = None
    <3>1. call' = [call EXCEPT ![n] = Bailed(call[n], FALSE)] /\ joining' = [joining EXCEPT ![n] = None]
      BY <1>1, <1>6 DEF MatchAnswered
    <3> QED
      BY <1>1, <3>1 DEF Bailed, CallType, DomainInv, DomainTypeOK
  <2> QED
    BY <1>1, <1>2, <1>3, <1>4, <2>1, BailKeeps
<1> QED
  BY <1>5, <1>6

\* The next round, the same nodes
LEMMA NextRoundKeeps ==
  ASSUME DomainInv, NEW n \in up, NextRound(n), DomainTypeOK'
  PROVE  DomainInv'
<1>1. /\ n \in DomainNode /\ Alone(n) /\ call[n] \in CallType
      /\ call[n].pc \in Matching /\ call[n].todo = {} /\ ctxt[n] = "new"
      /\ UNCHANGED <<up, dbug, beat, ctxt, live, minor, joining, members, msg>>
  BY UpNode, StateOfPc DEF NextRound, views, Matching
<1>2. msg[n] = NoMsg
  BY <1>1 DEF Alone, Calls
<1>3. /\ call'[n].pc \in {"regions", "assert"} /\ call'[n].todo = call[n].yes /\ call'[n].yes = call[n].yes
  BY <1>1 DEF NextRound, CallType, DomainInv, DomainTypeOK
<1>4. \A m \in up \ {n} : Still(m)
  BY <1>1 DEF NextRound, Still, DomainInv, DomainTypeOK
<1>5. Alone(n)'
  <2>1. Calls(n)' /\ Answers(n)'
    BY <1>1, <1>2, <1>3 DEF Alone, Calls, Answers, Joiner, Settled, Matching, Asking, PcOf
  <2>2. Seen(n)'
    BY <1>1, <1>2, <1>3 DEF Alone, Seen, Matching
  <2>3. \A d \in members[n] \ beat[n] : d \in call[n].yes
    BY <1>1 DEF Alone, Seen, Matching
  <2>4. NoGhosts(n)'
    BY <1>1, <1>2, <1>3, <2>3 DEF NoGhosts, Said
  <2> QED
    BY <2>1, <2>2, <2>4 DEF Alone
<1>6. ASSUME NEW p \in up, p # n PROVE Pair(n, p)' /\ Pair(p, n)'
  <2>1. /\ Owes(n, p)' <=> Owes(n, p)
        /\ Passed(n, p)' => Passed(n, p)
        /\ Protocol(n, p) => Protocol(n, p)'
        /\ call[n].pc # "assert"
    BY <1>1, <1>2, <1>3 DEF Owes, Passed, Protocol, Said, Matching
  <2> QED
    BY <1>1, <1>4, <1>6, <2>1, QuietPair DEF DomainInv, Settled
<1> QED
  BY <1>1, <1>4, <1>5, <1>6, OneKeeps

\* The member has heard of n, or it is dead: n owes the members that run the same.
LEMMA AssertAnsweredKeeps ==
  ASSUME DomainInv, NEW n \in up, AssertAnswered(n), DomainTypeOK'
  PROVE  DomainInv'
<1> DEFINE p == msg[n].to
<1>1. /\ n \in DomainNode /\ Alone(n) /\ call[n] \in CallType
      /\ msg[n] # NoMsg /\ msg[n].kind = "assert_joined" /\ msg'[n] = NoMsg
      /\ msg' = [msg EXCEPT ![n] = NoMsg]
      /\ UNCHANGED <<up, dbug, beat, ctxt, live, minor, joining, members>>
  BY UpNode DEF AssertAnswered, Waiting, views, DomainInv, DomainTypeOK
<1>2. call[n].pc = "assert" /\ ctxt[n] = "new" /\ p \in call[n].todo /\ p # n
  BY <1>1, KindOfPc, StateOfPc
<1>3. /\ call'[n].pc = call[n].pc /\ call'[n].yes = call[n].yes /\ call'[n].retry = call[n].retry
      /\ \/ call'[n].todo = call[n].todo /\ msg[n].ans # "ok"
         \/ call'[n].todo = call[n].todo \ {p} /\ (msg[n].ans = "ok" \/ p \notin live[n])
  <2>1. CASE msg[n].ans # "ok" /\ p \in live[n]
    BY <2>1 DEF AssertAnswered
  <2>2. CASE ~(msg[n].ans # "ok" /\ p \in live[n])
    <3>1. call' = [call EXCEPT ![n].todo = @ \ {p}]
      BY <2>2 DEF AssertAnswered
    <3> QED
      BY <1>1, <2>2, <3>1 DEF CallType, DomainInv, DomainTypeOK
  <2> QED
    BY <2>1, <2>2
<1>4. \A m \in up \ {n} : Still(m)
  <2>1. \A m \in DomainNode \ {n} : call'[m] = call[m] /\ msg'[m] = msg[m]
    BY <1>1 DEF AssertAnswered, DomainInv, DomainTypeOK
  <2> QED
    BY <1>1, <2>1 DEF Still, DomainInv, DomainTypeOK
<1>5. Alone(n)'
  <2>1. Calls(n)' /\ Answers(n)'
    BY <1>1, <1>2, <1>3 DEF Alone, Calls, Answers, Joiner, Settled, Matching
  <2>2. Seen(n)'
    BY <1>1, <1>2, <1>3 DEF Alone, Seen, Matching
  <2>3. NoGhosts(n)'
    <3>1. ASSUME NEW d \in members[n] \ beat[n] PROVE d \in call'[n].todo
      <4>1. d \in call[n].todo /\ ~Said(n, d, "assert_joined", "ok") /\ d \in live[n]
        BY <1>1, <1>2, <3>1 DEF Alone, NoGhosts, Seen
      <4> QED
        BY <1>1, <1>3, <4>1 DEF Said
    <3> QED
      BY <1>1, <1>2, <3>1 DEF NoGhosts, Said
  <2> QED
    BY <2>1, <2>2, <2>3 DEF Alone
<1>6. ASSUME NEW q \in up, q # n PROVE Pair(n, q)' /\ Pair(q, n)'
  <2>1. Owes(n, q)' <=> Owes(n, q)
    <3>1. q \in live[n]
      BY <1>1, <1>6 DEF Alone, Seen
    <3>2. Owes(n, q) <=> q \in call[n].todo /\ ~Said(n, q, "assert_joined", "ok")
      BY <1>1, <1>2 DEF Owes, Said, Matching
    <3>3. Owes(n, q)' <=> q \in call'[n].todo
      BY <1>1, <1>2, <1>3 DEF Owes, Said, Matching
    <3> QED
      BY <1>1, <1>3, <3>1, <3>2, <3>3 DEF Said
  <2>2. /\ Passed(n, q)' => Passed(n, q)
        /\ Protocol(n, q) => Protocol(n, q)'
    BY <1>1, <1>2, <1>3 DEF Passed, Protocol, Said, Matching
  <2> QED
    BY <1>1, <1>2, <1>3, <1>4, <1>6, <2>1, <2>2, QuietPair DEF DomainInv, Settled
<1> QED
  BY <1>1, <1>4, <1>5, <1>6, OneKeeps

\* Everybody has been told: the members know n, and n knows them.
LEMMA JoinedKeeps ==
  ASSUME DomainInv, NEW n \in up, Joined(n), DomainTypeOK'
  PROVE  DomainInv'
<1>1. /\ n \in DomainNode /\ Alone(n) /\ n # None
      /\ call[n].pc = "assert" /\ call[n].todo = {} /\ ctxt[n] = "new"
      /\ ctxt'[n] = "joined" /\ joining'[n] = None /\ call'[n] = NoCall
      /\ UNCHANGED <<up, dbug, beat, live, minor, members, msg>>
  BY UpNode, StateOfPc DEF Joined, views, DomainInv, DomainTypeOK
<1>2. msg[n] = NoMsg
  BY <1>1 DEF Alone, Calls
<1>3. call'[n].pc = "idle" /\ call'[n].yes = {} /\ call'[n].todo = {}
  BY <1>1 DEF NoCall
<1>4. \A m \in up \ {n} : Still(m)
  BY <1>1 DEF Joined, Still, DomainInv, DomainTypeOK
<1>5. Alone(n)'
  <2>1. Calls(n)' /\ Answers(n)'
    BY <1>1, <1>2, <1>3 DEF Alone, Calls, Answers, Joiner, Settled, Matching, Asking, PcOf
  <2>2. Seen(n)' /\ NoGhosts(n)'
    BY <1>1, <1>2, <1>3 DEF Alone, Seen, NoGhosts, Matching
  <2> QED
    BY <2>1, <2>2 DEF Alone
<1>6. ASSUME NEW p \in up, p # n PROVE Pair(n, p)' /\ Pair(p, n)'
  <2>1. /\ Pair(n, p) /\ Pair(p, n) /\ Still(p) /\ ~Settled(n)
        /\ Settled(p)' <=> Settled(p)
    BY <1>1, <1>4, <1>6 DEF DomainInv, Settled, Still
  <2>2. ~Owes(n, p) /\ ~Owes(n, p)' /\ Passed(n, p) /\ ~Passed(n, p)'
    BY <1>1, <1>2, <1>3 DEF Owes, Passed, Said, Matching
  <2>3. ~Owes(p, n) /\ ~Passed(p, n)
    BY <2>1, <2>2 DEF Pair, Promise, Known
  <2>4. ~Owes(p, n)' /\ ~Passed(p, n)'
    BY <2>1, <2>3 DEF Owes, Passed, Said, Still
  <2>5. Promise(n, p)' /\ Promise(p, n)'
    BY <1>1, <1>6, <2>1, <2>2, <2>4, UpNode DEF Pair, Promise, Still
  <2>6. Settled(p) => Agreed(n, p) /\ Agreed(p, n)
    BY <2>1, <2>2 DEF Pair, Known
  <2>7. Settled(p) => Agreed(n, p)' /\ Agreed(p, n)'
    BY <1>1, <2>6 DEF Agreed
  <2> QED
    BY <2>1, <2>2, <2>4, <2>5, <2>7 DEF Pair
<1> QED
  BY <1>1, <1>4, <1>5, <1>6, OneKeeps

\* Who is told that n gives up or begins to leave, and who is told that it has left
LEMMA ToldKeeps ==
  ASSUME DomainInv, NEW n \in up, NEW kind \in {"cancel_join", "begin_exit", "exit"}, Told(n, kind),
         DomainTypeOK'
  PROVE  DomainInv'
<1> DEFINE p == msg[n].to
<1>1. /\ n \in DomainNode /\ Alone(n) /\ call[n] \in CallType
      /\ msg[n] # NoMsg /\ msg[n].kind = kind /\ msg[n].ans # "none" /\ msg'[n] = NoMsg
      /\ UNCHANGED <<up, dbug, beat, ctxt, live, minor, joining>>
  BY UpNode DEF Told, Waiting, views, DomainInv, DomainTypeOK
<1>2. /\ call[n].pc \in {"cancel", "beginexit", "exit"} /\ p # n
      /\ kind = "cancel_join" <=> call[n].pc = "cancel"
      /\ kind = "exit" <=> call[n].pc = "exit"
  BY <1>1, KindOfPc
<1>3. /\ call'[n].pc = call[n].pc /\ call'[n].yes = call[n].yes /\ call'[n].retry = call[n].retry
      /\ call'[n].todo = call[n].todo \ {p}
  BY <1>1 DEF Told, CallType, DomainInv, DomainTypeOK
<1>4. \A m \in up \ {n} : Still(m)
  BY <1>1 DEF Told, Still, DomainInv, DomainTypeOK
<1>5. members'[n] = IF kind = "exit" THEN members[n] \ {p} ELSE members[n]
  BY <1>1 DEF Told, DomainInv, DomainTypeOK
<1>6. call[n].pc = "exit" => ctxt[n] = "leaving"
  BY StateOfPc
<1>7. Alone(n)'
  <2>1. Calls(n)' /\ Answers(n)'
    BY <1>1, <1>2, <1>3, <1>5, <1>6 DEF Alone, Calls, Answers, Joiner, Settled, Matching, Asking
  <2>2. Seen(n)' /\ NoGhosts(n)'
    BY <1>1, <1>2, <1>3, <1>5, <1>6 DEF Alone, Seen, NoGhosts, Matching
  <2> QED
    BY <2>1, <2>2 DEF Alone
<1>8. ASSUME NEW q \in up, q # n PROVE Pair(n, q)' /\ Pair(q, n)'
  <2>1. Pair(n, q) /\ Pair(q, n) /\ Still(q)
    BY <1>4, <1>8 DEF DomainInv
  <2>2. ~Passed(n, q)'
    BY <1>2, <1>3 DEF Passed, Matching
  <2>3. CASE kind = "exit"
    <3>1. ~Owes(n, q) /\ ~Owes(n, q)' /\ ~Settled(n) /\ ~Settled(n)'
      BY <1>1, <1>2, <1>3, <1>6, <2>3 DEF Owes, Said, Settled, Matching
    <3> QED
      BY <1>1, <2>1, <2>2, <3>1, OutsidePair
  <2>4. CASE kind # "exit"
    <3>1. UNCHANGED members
      BY <2>4 DEF Told
    <3>2. Owes(n, q)' <=> Owes(n, q)
      <4>1. kind = "cancel_join" /\ q = p => msg[n].ans = "ok"
        BY <1>1, <1>8, MsgFields DEF Alone, Answers
      <4> QED
        BY <1>1, <1>2, <1>3, <4>1 DEF Owes, Said, Matching
    <3>3. Protocol(n, q) => Protocol(n, q)'
      BY <1>1, <1>3 DEF Protocol, Said
    <3> QED
      BY <1>1, <1>2, <1>3, <1>8, <2>1, <2>2, <3>1, <3>2, <3>3, QuietPair DEF Matching, Settled
  <2> QED
    BY <2>3, <2>4
<1> QED
  BY <1>1, <1>4, <1>7, <1>8, OneKeeps

LEMMA JoinGivenUpKeeps ==
  ASSUME DomainInv, NEW n \in up, JoinGivenUp(n), DomainTypeOK'
  PROVE  DomainInv'
<1>1. /\ n \in DomainNode /\ Alone(n) /\ call[n].pc = "cancel" /\ call[n].todo = {} /\ ctxt[n] = "new"
      /\ UNCHANGED <<up, dbug, beat, live, minor, joining, members, msg>>
  BY UpNode, StateOfPc DEF JoinGivenUp, views
<1>2. msg[n] = NoMsg
  BY <1>1 DEF Alone, Calls
<1>3. \/ ctxt'[n] = "new" /\ call'[n].pc = "try" /\ call[n].retry
      \/ ctxt'[n] = "none" /\ call'[n].pc = "idle"
  BY <1>1 DEF JoinGivenUp, NoCall, DomainInv, DomainTypeOK
<1>4. \A m \in up \ {n} : Still(m)
  <2>1. /\ \E d : call' = [call EXCEPT ![n] = d]
        /\ UNCHANGED ctxt \/ ctxt' = [ctxt EXCEPT ![n] = "none"]
    BY DEF JoinGivenUp
  <2> QED
    BY <1>1, <2>1 DEF Still, DomainInv, DomainTypeOK
<1>5. Alone(n)'
  <2>1. Calls(n)' /\ Answers(n)'
    BY <1>1, <1>2, <1>3 DEF Alone, Calls, Answers, Joiner, Settled, Matching, Asking, PcOf
  <2>2. Seen(n)' /\ NoGhosts(n)'
    BY <1>1, <1>2, <1>3 DEF Alone, Seen, NoGhosts, Matching
  <2> QED
    BY <2>1, <2>2 DEF Alone
<1>6. ASSUME NEW p \in up, p # n PROVE Pair(n, p)' /\ Pair(p, n)'
  <2>1. ~Owes(n, p) /\ ~Owes(n, p)' /\ ~Passed(n, p)' /\ ~Settled(n) /\ ~Settled(n)'
    BY <1>1, <1>2, <1>3 DEF Owes, Passed, Said, Settled, Matching
  <2>2. Pair(n, p) /\ Pair(p, n) /\ Still(p)
    BY <1>4, <1>6 DEF DomainInv
  <2> QED
    BY <1>1, <2>1, <2>2, OutsidePair
<1> QED
  BY <1>1, <1>4, <1>5, <1>6, OneKeeps

-----------------------------------------------------------------------------
(* The handlers.                                                           *)

\* Only n, that asked, and p, that answers, take part.
LEMMA TwoKeep ==
  ASSUME DomainInv, NEW n \in up, NEW p \in up, n # p, UNCHANGED <<up, dbug>>, DomainTypeOK',
         \A m \in up \ {n, p} : Still(m),
         Alone(n)', Alone(p)', Pair(n, p)', Pair(p, n)',
         \A q \in up \ {n, p} : Pair(n, q)' /\ Pair(q, n)' /\ Pair(p, q)' /\ Pair(q, p)'
  PROVE  DomainInv'
<1>1. up \intersect {n, p} = {n, p}
  OBVIOUS
<1>2. \A m \in up \intersect {n, p} : Alone(m)'
  BY <1>1
<1>3. \A m \in up \intersect {n, p}, q \in up : m # q => Pair(m, q)' /\ Pair(q, m)'
  BY <1>1
<1> QED
  BY <1>2, <1>3, OthersKeep

LEMMA HandledIs ==
  ASSUME DomainInv, NEW n \in up, NEW p \in DomainNode, NEW kind, Handled(n, kind, p)
  PROVE  /\ p \in up /\ n # p /\ msg[n] # NoMsg
         /\ msg[n].kind = kind /\ msg[n].to = p /\ msg[n].ans = "none" /\ p \in call[n].todo
         /\ Alone(n) /\ Alone(p) /\ Pair(n, p) /\ Pair(p, n)
         /\ p \in live[n] /\ p \in beat[n] /\ n \in live[p] /\ n \in beat[p]
<1>1. p \in up /\ msg[n] # NoMsg /\ msg[n].kind = kind /\ msg[n].to = p /\ msg[n].ans = "none"
  BY DEF Handled
<1>2. p \in call[n].todo /\ n # p
  BY <1>1, KindOfPc
<1> QED
  BY <1>1, <1>2, UpNode DEF DomainInv, Alone, Seen

LEMMA Replied ==
  ASSUME DomainInv, NEW n \in up, msg[n] # NoMsg, NEW a, Reply(n, a)
  PROVE  /\ msg'[n].kind = msg[n].kind /\ msg'[n].to = msg[n].to /\ msg'[n].ans = a /\ msg'[n] # NoMsg
         /\ \A m \in DomainNode \ {n} : msg'[m] = msg[m]
<1>1. n \in DomainNode /\ msg[n].kind \in MsgKind
  BY UpNode
<1>2. msg' = [msg EXCEPT ![n] = [msg[n] EXCEPT !.ans = a]] /\ msg \in [DomainNode -> MsgType]
  BY DEF Reply, DomainInv, DomainTypeOK
<1>3. msg'[n] = [msg[n] EXCEPT !.ans = a] /\ \A m \in DomainNode \ {n} : msg'[m] = msg[m]
  BY <1>1, <1>2
<1>4. /\ "kind" \in DOMAIN msg[n] /\ "to" \in DOMAIN msg[n] /\ "ans" \in DOMAIN msg[n]
  BY <1>1, <1>2 DEF MsgType
<1>5. msg'[n].kind = msg[n].kind /\ msg'[n].to = msg[n].to /\ msg'[n].ans = a
  BY <1>3, <1>4
<1> QED
  BY <1>1, <1>3, <1>5, Kinds

\* An answer of p that changes nothing on p, and from which n does not learn
\* whether p is in the domain
LEMMA AnswerKeeps ==
  ASSUME DomainInv, NEW n \in up, NEW p \in DomainNode, NEW kind, Handled(n, kind, p), DomainTypeOK',
         UNCHANGED <<up, dbug, beat, ctxt, live, minor, joining, members, call>>,
         \A m \in DomainNode \ {n} : msg'[m] = msg[m],
         msg'[n] # NoMsg, msg'[n].kind = kind, msg'[n].to = p, msg'[n].ans # "down",
         kind = "cancel_join" => msg'[n].ans = "ok",
         kind \in {"assert_joined", "cancel_join"} /\ msg'[n].ans = "ok" => ~Owes(n, p),
         kind = "query_join" => msg'[n].ans \notin {"ok", "nomap"}
  PROVE  DomainInv'
<1>1. /\ n \in DomainNode /\ p \in up /\ n # p /\ msg[n] # NoMsg
      /\ msg[n].kind = kind /\ msg[n].to = p /\ msg[n].ans = "none" /\ p \in call[n].todo
      /\ Alone(n) /\ p \in beat[n]
  BY HandledIs, UpNode
<1>2. \A m \in up \ {n} : Still(m)
  BY <1>1 DEF Still, DomainInv, DomainTypeOK
<1>3. Alone(n)'
  <2>1. Calls(n)' /\ Answers(n)' /\ Seen(n)'
    BY <1>1 DEF Alone, Calls, Answers, Seen, Joiner, Settled
  <2>2. NoGhosts(n)'
    BY <1>1 DEF Alone, NoGhosts, Said
  <2> QED
    BY <2>1, <2>2 DEF Alone
<1>4. ASSUME NEW q \in up, q # n PROVE Pair(n, q)' /\ Pair(q, n)'
  <2>1. Owes(n, q)' <=> Owes(n, q)
    <3>1. \A k : Said(n, q, k, "ok")' => k = kind /\ q = p /\ msg'[n].ans = "ok"
      BY <1>1 DEF Said
    <3>2. \A k : ~Said(n, q, k, "ok")
      BY <1>1 DEF Said
    <3> QED
      BY <3>1, <3>2 DEF Owes
  <2>2. /\ Passed(n, q)' => Passed(n, q)
        /\ Protocol(n, q) => Protocol(n, q)'
        /\ Settled(n)' <=> Settled(n)
    BY <1>1 DEF Passed, Protocol, Said, Settled
  <2> QED
    BY <1>1, <1>2, <1>4, <2>1, <2>2, QuietPair DEF DomainInv
<1> QED
  BY <1>1, <1>2, <1>3, <1>4, OneKeeps

LEMMA MatchHandlerKeeps ==
  ASSUME DomainInv, NEW n \in up, NEW p \in DomainNode, NEW kind \in {"nodeinfo", "regions"},
         MatchHandler(n, kind, p), DomainTypeOK'
  PROVE  DomainInv'
<1>1. \E a \in {"ok", "einval"} : Reply(n, a)
  BY DEF MatchHandler
<1>2. Handled(n, kind, p) /\ UNCHANGED <<up, dbug, beat, ctxt, live, minor, joining, members, call>>
  BY DEF MatchHandler, views
<1>3. /\ msg'[n] # NoMsg /\ msg'[n].kind = kind /\ msg'[n].to = p /\ msg'[n].ans # "down"
      /\ \A m \in DomainNode \ {n} : msg'[m] = msg[m]
  BY <1>1, <1>2, HandledIs, Replied
<1> QED
  BY <1>2, <1>3, AnswerKeeps

\* Who leaves is told that it is known; the member forgets it.
LEMMA ExitHandlerKeeps ==
  ASSUME DomainInv, NEW n \in up, NEW p \in DomainNode, NEW kind \in {"begin_exit", "exit"},
         ExitHandler(n, kind, p), DomainTypeOK'
  PROVE  DomainInv'
<1>1. /\ n \in DomainNode /\ p \in up /\ n # p /\ msg[n] # NoMsg /\ msg[n].kind = kind
      /\ msg[n].to = p /\ Alone(n) /\ Alone(p) /\ Pair(n, p) /\ Pair(p, n)
      /\ Handled(n, kind, p) /\ Reply(n, "ok")
      /\ UNCHANGED <<up, dbug, beat, ctxt, live, minor, joining, call>>
  BY HandledIs, UpNode DEF ExitHandler, views
<1>2. /\ msg'[n] # NoMsg /\ msg'[n].kind = kind /\ msg'[n].to = p /\ msg'[n].ans = "ok"
      /\ \A m \in DomainNode \ {n} : msg'[m] = msg[m]
  BY <1>1, Replied
<1>3. CASE UNCHANGED members
  BY <1>1, <1>2, <1>3, AnswerKeeps
<1>4. CASE kind = "exit" /\ members' = [members EXCEPT ![p] = @ \ {n}]
  <2>1. /\ members'[p] = members[p] \ {n} /\ \A m \in DomainNode \ {p} : members'[m] = members[m]
    BY <1>1, <1>4 DEF DomainInv, DomainTypeOK
  <2>2. call[n].pc = "exit" /\ ctxt[n] = "leaving"
    BY <1>1, <1>4, KindOfPc, StateOfPc
  <2>3. \A m \in up \ {n, p} : Still(m)
    BY <1>1, <1>2, <2>1 DEF Still, DomainInv, DomainTypeOK
  <2>4. Alone(n)'
    BY <1>1, <1>2, <2>1, <2>2 DEF Alone, Calls, Answers, Seen, NoGhosts, Joiner, Settled
  <2>5. Alone(p)'
    <3>1. Calls(p)' /\ Answers(p)'
      BY <1>1, <1>2, <2>1 DEF Alone, Calls, Answers, Joiner, Settled
    <3>2. Seen(p)' /\ NoGhosts(p)'
      BY <1>1, <1>2, <2>1 DEF Alone, Seen, NoGhosts, Said
    <3> QED
      BY <3>1, <3>2 DEF Alone
  <2>6. \A q \in up : /\ ~Owes(n, q) /\ ~Passed(n, q) /\ ~Owes(n, q)' /\ ~Passed(n, q)'
                      /\ ~Settled(n) /\ ~Settled(n)'
    BY <1>1, <1>4, <1>2, <2>2 DEF Owes, Passed, Said, Settled, Matching
  <2>7. ASSUME NEW q \in up \ {n, p} PROVE Pair(n, q)' /\ Pair(q, n)' /\ Pair(p, q)' /\ Pair(q, p)'
    <3>1. Pair(n, q)' /\ Pair(q, n)'
      BY <1>1, <2>3, <2>6, <2>7, OutsidePair DEF DomainInv
    <3>2. call'[p] = call[p] /\ msg'[p] = msg[p] /\ Pair(p, q) /\ Pair(q, p)
      BY <1>1, <1>2, <2>7 DEF DomainInv, DomainTypeOK
    <3>3. Pair(p, q)' /\ Pair(q, p)'
      BY <1>1, <2>1, <2>3, <2>7, <3>2, PeerPair
    <3> QED
      BY <3>1, <3>3
  <2>8. Pair(n, p)' /\ Pair(p, n)'
    <3>1. ~Owes(p, n)
      BY <1>1, <2>6 DEF Pair, Promise
    <3>2. ~Owes(p, n)'
      BY <1>1, <1>2, <3>1 DEF Owes, Said, DomainInv, DomainTypeOK
    <3>3. Promise(n, p)' /\ Promise(p, n)'
      BY <1>1, <2>6, <3>1, <3>2 DEF Pair, Promise
    <3> QED
      BY <1>1, <2>6, <3>3 DEF Pair, Known
  <2> QED
    BY <1>1, <2>3, <2>4, <2>5, <2>7, <2>8, TwoKeep
<1> QED
  BY <1>1, <1>3, <1>4 DEF ExitHandler

\* dlm_query_join_handler(): a member that says yes keeps others away from then on.
LEMMA QueryJoinHandlerKeeps ==
  ASSUME DomainInv, NEW n \in up, NEW p \in DomainNode, QueryJoinHandler(n, p), DomainTypeOK'
  PROVE  DomainInv'
<1> DEFINE code == QueryCode(p, n)
<1>1. /\ n \in DomainNode /\ p \in up /\ n # p /\ msg[n] # NoMsg /\ msg[n].kind = "query_join"
      /\ msg[n].to = p /\ msg[n].ans = "none" /\ p \in call[n].todo /\ n # None /\ p # None
      /\ Alone(n) /\ Alone(p) /\ Pair(n, p) /\ Pair(p, n) /\ Handled(n, "query_join", p)
      /\ UNCHANGED <<up, dbug, beat, ctxt, live, minor, members, call>>
  BY HandledIs, UpNode DEF QueryJoinHandler, views
<1>2. call[n].pc = "query" /\ ctxt[n] = "new" /\ members[n] = {} /\ joining[n] = n /\ p \notin call[n].yes
  BY <1>1, KindOfPc, StateOfPc DEF Alone, Calls, Joiner, Asking
<1>3. /\ msg'[n] = [kind |-> "query_join", to |-> p, ans |-> code, minor |-> minor[p]]
      /\ \A m \in DomainNode \ {n} : msg'[m] = msg[m]
  BY <1>1 DEF QueryJoinHandler, DomainInv, DomainTypeOK
<1>4. /\ msg'[n].kind = "query_join" /\ msg'[n].to = p /\ msg'[n].ans = code /\ msg'[n].minor = minor[p]
      /\ msg'[n] # NoMsg
  BY <1>3 DEF NoMsg
<1>5. code \in {"ok", "nomap", "disallow", "mismatch"}
  BY DEF QueryCode
<1>6. code = "ok" => joining[p] = None /\ ctxt[p] \in {"joined", "shutdown"}
  <2>1. ctxt[p] \in {"none", "new", "joined", "shutdown", "leaving"}
    BY DEF DomainInv, DomainTypeOK
  <2> QED
    BY <2>1 DEF QueryCode
<1>7. code = "nomap" => ctxt[p] \in {"none", "leaving"} \/ (ctxt[p] = "new" /\ joining[p] = None)
  BY DEF QueryCode
<1>8. joining' = IF code = "ok" THEN [joining EXCEPT ![p] = n] ELSE joining
  BY DEF QueryJoinHandler
<1> HIDE DEF code
<1>9. CASE code \in {"disallow", "mismatch"}
  BY <1>1, <1>3, <1>4, <1>8, <1>9, AnswerKeeps
<1>10. Alone(n)'
  <2>1. joining'[n] = joining[n]
    BY <1>1, <1>8 DEF DomainInv, DomainTypeOK
  <2>2. Calls(n)' /\ Answers(n)'
    BY <1>1, <1>2, <1>4, <1>5, <2>1 DEF Alone, Calls, Answers, Joiner, Settled
  <2>3. Seen(n)' /\ NoGhosts(n)'
    BY <1>1, <1>2 DEF Alone, Seen, NoGhosts
  <2> QED
    BY <2>2, <2>3 DEF Alone
<1>11. /\ ~Settled(n) /\ ~Settled(n)'
       /\ Passed(n, p)' <=> code \in {"ok", "nomap"}
  BY <1>1, <1>2, <1>4 DEF Settled, Passed, Said, Matching
<1>12. CASE code = "nomap"
  <2>1. \A m \in up \ {n} : Still(m)
    BY <1>1, <1>3, <1>8, <1>12 DEF Still, DomainInv, DomainTypeOK
  <2>2. ~Settled(p) /\ ~Passed(p, n)
    BY <1>1, <1>7, <1>12 DEF Alone, Calls, Settled, Passed, PcOf, Asking, Matching, Joiner
  <2>3. ASSUME NEW q \in up, q # n PROVE Pair(n, q)' /\ Pair(q, n)'
    <3>1. /\ Owes(n, q)' <=> Owes(n, q)
          /\ q # p => (Passed(n, q)' => Passed(n, q))
          /\ Protocol(n, q) => Protocol(n, q)'
      BY <1>1, <1>2, <1>4, <1>12 DEF Owes, Passed, Protocol, Said, Matching
    <3>2. Pair(n, q) /\ Pair(q, n) /\ Still(q)
      BY <2>1, <2>3 DEF DomainInv
    <3>3. CASE q # p
      BY <1>1, <1>2, <1>8, <1>11, <1>12, <2>3, <3>1, <3>2, <3>3, QuietPair DEF Matching
    <3>4. CASE q = p
      <4>1. ~Settled(p)' /\ ~Passed(p, n)'
        BY <2>2, <3>2, <3>4 DEF Settled, Passed, Said, Still
      <4>2. Promise(n, p)' /\ Promise(p, n)'
        <5>1. Owes(p, n)' <=> Owes(p, n)
          BY <3>2, <3>4 DEF Owes, Said, Still
        <5> QED
          BY <1>1, <1>8, <1>11, <1>12, <2>2, <3>1, <3>4, <4>1, <5>1 DEF Promise, Pair
      <4> QED
        BY <1>11, <3>4, <4>1, <4>2 DEF Pair, Known
    <3> QED
      BY <3>3, <3>4
  <2> QED
    BY <1>1, <1>10, <2>1, <2>3, OneKeeps
<1>13. CASE code = "ok"
  <2>1. joining'[p] = n /\ (\A m \in DomainNode \ {p} : joining'[m] = joining[m])
    BY <1>1, <1>8, <1>13 DEF DomainInv, DomainTypeOK
  <2>2. \A m \in up \ {n, p} : Still(m)
    BY <1>1, <1>3, <2>1 DEF Still, DomainInv, DomainTypeOK
  <2>3. Settled(p) /\ Settled(p)' /\ joining[p] = None /\ ~Joiner(p)
    BY <1>1, <1>6, <1>13 DEF Settled, Alone, Calls
  <2>4. Alone(p)'
    <3>1. msg'[p] = msg[p]
      BY <1>1, <1>3
    <3>2. Calls(p)' /\ Answers(p)'
      BY <1>1, <2>1, <2>3, <3>1 DEF Alone, Calls, Answers, Joiner, Settled
    <3>3. Seen(p)' /\ NoGhosts(p)'
      BY <1>1, <3>1 DEF Alone, Seen, NoGhosts, Said
    <3> QED
      BY <3>2, <3>3 DEF Alone
  <2>5. Owes(n, p)'
    BY <1>4, <1>13 DEF Owes, Said
  <2>6. ~Passed(p, n) /\ ~Owes(p, n)
    BY <1>1, <1>2, <1>11, <2>3 DEF Pair, Promise, Passed, Joiner, Asking
  <2>7. ~Passed(p, n)' /\ ~Owes(p, n)'
    BY <1>1, <1>3, <2>6 DEF Passed, Owes, Said
  <2>8. Pair(n, p)' /\ Pair(p, n)'
    <3>1. Protocol(n, p)'
      BY <1>1, <1>2, <1>4, <2>3 DEF Protocol, Said
    <3>2. Known(n, p)'
      BY <1>1, <1>2, <2>3, <2>5, <3>1 DEF Known, Matching
    <3>3. Promise(n, p)' /\ Promise(p, n)'
      BY <1>1, <1>2, <2>1, <2>3, <2>5, <2>7 DEF Promise
    <3> QED
      BY <1>11, <2>7, <3>2, <3>3 DEF Pair
  <2>9. ASSUME NEW q \in up \ {n, p} PROVE Pair(n, q)' /\ Pair(q, n)' /\ Pair(p, q)' /\ Pair(q, p)'
    <3>1. Still(q) /\ Pair(n, q) /\ Pair(q, n) /\ Pair(p, q) /\ Pair(q, p)
      BY <1>1, <2>2, <2>9 DEF DomainInv
    <3>2. ~Owes(q, p)
      BY <2>3, <2>9, <3>1, UpNode DEF Pair, Promise
    <3>3. Pair(p, q)' /\ Pair(q, p)'
      BY <1>1, <1>3, <2>1, <2>9, <3>1, <3>2, PeerPair
    <3>4. /\ Owes(n, q)' <=> Owes(n, q)
          /\ Passed(n, q)' => Passed(n, q)
      BY <1>1, <1>2, <1>4, <2>9 DEF Owes, Passed, Said, Matching
    <3>5. Protocol(n, q) => Protocol(n, q)'
      <4>1. q \in call[n].yes => minor[p] = minor[q]
        <5>1. q \in call[n].yes => Settled(q)
          BY <1>2, <3>1 DEF Pair, Promise, Owes
        <5> QED
          BY <2>3, <3>1, <5>1 DEF Pair, Agreed
      <4> QED
        BY <1>1, <1>4, <2>9, <4>1 DEF Protocol, Said
    <3>6. Pair(n, q)' /\ Pair(q, n)'
      BY <1>1, <1>2, <1>11, <2>1, <2>9, <3>1, <3>4, <3>5, QuietPair DEF Matching
    <3> QED
      BY <3>3, <3>6
  <2> QED
    BY <1>1, <1>10, <2>2, <2>4, <2>8, <2>9, TwoKeep
<1> QED
  BY <1>5, <1>9, <1>12, <1>13

\* dlm_assert_joined_handler(): the member waits for nobody but n.
LEMMA AssertJoinedHandlerKeeps ==
  ASSUME DomainInv, NEW n \in up, NEW p \in DomainNode, AssertJoinedHandler(n, p), DomainTypeOK'
  PROVE  DomainInv'
<1>1. /\ n \in DomainNode /\ p \in up /\ n # p /\ msg[n] # NoMsg /\ msg[n].kind = "assert_joined"
      /\ msg[n].to = p /\ msg[n].ans = "none" /\ p \in call[n].todo /\ n # None /\ p # None
      /\ Alone(n) /\ Alone(p) /\ Pair(n, p) /\ Pair(p, n) /\ Handled(n, "assert_joined", p)
      /\ p \in beat[n] /\ n \in beat[p] /\ n \in live[p]
      /\ UNCHANGED <<up, beat, ctxt, live, minor, call>>
  BY HandledIs, UpNode DEF AssertJoinedHandler, views
<1>2. /\ call[n].pc = "assert" /\ ctxt[n] = "new" /\ joining[n] = n /\ call[n].todo \subseteq call[n].yes
      /\ ~Settled(n) /\ ~Settled(n)'
  BY <1>1, KindOfPc, StateOfPc DEF Alone, Calls, Joiner, Asking, Settled
<1>3. Owes(n, p)
  BY <1>1, <1>2 DEF Owes, Said
<1>4. joining[p] = n /\ Settled(p) /\ Settled(p)' /\ ctxt[p] # "none"
  BY <1>1, <1>3 DEF Pair, Promise, Settled
<1>5. UNCHANGED dbug
  BY <1>4 DEF AssertJoinedHandler, Failed
<1>6. CASE active[p]
  <2>1. Reply(n, "eagain") /\ UNCHANGED <<members, joining>>
    BY <1>4, <1>6 DEF AssertJoinedHandler
  <2> QED
    BY <1>1, <1>5, <2>1, Replied, AnswerKeeps
<1>7. CASE ~active[p]
  <2>1. /\ Reply(n, "ok") /\ joining' = [joining EXCEPT ![p] = None]
        /\ members' = [members EXCEPT ![p] = @ \union {n}]
    BY <1>4, <1>7 DEF AssertJoinedHandler
  <2>2. /\ msg'[n] # NoMsg /\ msg'[n].kind = "assert_joined" /\ msg'[n].to = p /\ msg'[n].ans = "ok"
        /\ \A m \in DomainNode \ {n} : msg'[m] = msg[m]
    BY <1>1, <2>1, Replied
  <2>3. /\ joining'[p] = None /\ members'[p] = members[p] \union {n}
        /\ \A m \in DomainNode \ {p} : joining'[m] = joining[m] /\ members'[m] = members[m]
    BY <1>1, <2>1 DEF DomainInv, DomainTypeOK
  <2>4. \A m \in up \ {n, p} : Still(m)
    BY <1>1, <2>2, <2>3 DEF Still, DomainInv, DomainTypeOK
  <2>5. Alone(n)'
    <3>1. Calls(n)' /\ Answers(n)' /\ Seen(n)'
      BY <1>1, <1>2, <2>2, <2>3 DEF Alone, Calls, Answers, Seen, Joiner, Settled
    <3>2. NoGhosts(n)'
      BY <1>1, <1>2, <2>2, <2>3 DEF Alone, NoGhosts, Said
    <3> QED
      BY <3>1, <3>2 DEF Alone
  <2>6. Alone(p)'
    <3>1. ~Joiner(p) /\ call[p].pc \notin {"try", "query", "cancel", "nodes", "regions", "assert"}
      BY <1>1, <1>4, StateOfPc DEF Alone, Calls, Settled
    <3>2. Calls(p)' /\ Answers(p)'
      BY <1>1, <1>4, <2>2, <2>3, <3>1 DEF Alone, Calls, Answers, Joiner, Settled
    <3>3. Seen(p)' /\ NoGhosts(p)'
      BY <1>1, <2>2, <2>3, <3>1 DEF Alone, Seen, NoGhosts, Said, Matching
    <3> QED
      BY <3>2, <3>3 DEF Alone
  <2>7. ~Passed(p, n) /\ ~Owes(p, n)
    <3>1. call[p].pc \notin Asking
      BY <1>1, <1>4, StateOfPc DEF Settled, Asking, Matching
    <3> QED
      BY <1>1, <1>2, <3>1 DEF Pair, Promise, Passed, Asking
  <2>8. ~Passed(p, n)' /\ ~Owes(p, n)' /\ ~Owes(n, p)'
    BY <1>1, <1>2, <2>2, <2>7 DEF Passed, Owes, Said, Matching
  <2>9. Pair(n, p)' /\ Pair(p, n)'
    <3>1. Passed(n, p) /\ Known(n, p)
      BY <1>1, <1>2 DEF Passed, Pair
    <3>2. minor[n] = minor[p] /\ p \in members[n]
      BY <1>1, <1>2, <1>4, <3>1 DEF Known, Protocol, Agreed
    <3>3. Known(n, p)'
      BY <1>1, <1>2, <1>4, <2>3, <3>2 DEF Known, Agreed
    <3>4. Promise(n, p)' /\ Promise(p, n)'
      BY <1>1, <1>2, <2>3, <2>8 DEF Promise
    <3> QED
      BY <1>2, <2>8, <3>3, <3>4 DEF Pair
  <2>10. ASSUME NEW q \in up \ {n, p} PROVE Pair(n, q)' /\ Pair(q, n)' /\ Pair(p, q)' /\ Pair(q, p)'
    <3>1. Still(q) /\ Pair(n, q) /\ Pair(q, n) /\ Pair(p, q) /\ Pair(q, p)
      BY <1>1, <2>4, <2>10 DEF DomainInv
    <3>2. ~Owes(q, p)
      BY <1>4, <2>10, <3>1 DEF Pair, Promise
    <3>3. Pair(p, q)' /\ Pair(q, p)'
      <4>1. call'[p] = call[p] /\ msg'[p] = msg[p] /\ joining'[p] # q /\ (q \in members'[p] <=> q \in members[p])
        BY <1>1, <2>2, <2>3, <2>10, UpNode
      <4> QED
        BY <1>1, <2>10, <3>1, <3>2, <4>1, PeerPair
    <3>4. /\ Owes(n, q)' <=> Owes(n, q)
          /\ Passed(n, q)' => Passed(n, q)
          /\ Protocol(n, q) => Protocol(n, q)'
      BY <1>1, <1>2, <2>2, <2>10, <3>1 DEF Owes, Passed, Protocol, Said, Matching
    <3>5. Pair(n, q)' /\ Pair(q, n)'
      BY <1>1, <1>2, <2>3, <2>10, <3>1, <3>4, QuietPair DEF Matching
    <3> QED
      BY <3>3, <3>5
  <2> QED
    BY <1>1, <1>5, <2>4, <2>5, <2>6, <2>9, <2>10, TwoKeep
<1> QED
  BY <1>6, <1>7

\* dlm_cancel_join_handler(): likewise
LEMMA CancelJoinHandlerKeeps ==
  ASSUME DomainInv, NEW n \in up, NEW p \in DomainNode, CancelJoinHandler(n, p), DomainTypeOK'
  PROVE  DomainInv'
<1>1. /\ n \in DomainNode /\ p \in up /\ n # p /\ msg[n] # NoMsg /\ msg[n].kind = "cancel_join"
      /\ msg[n].to = p /\ msg[n].ans = "none" /\ p \in call[n].todo /\ n # None /\ p # None
      /\ Alone(n) /\ Alone(p) /\ Pair(n, p) /\ Pair(p, n) /\ Handled(n, "cancel_join", p)
      /\ Reply(n, "ok") /\ UNCHANGED <<up, beat, ctxt, live, minor, members, call>>
  BY HandledIs, UpNode DEF CancelJoinHandler, views
<1>2. /\ call[n].pc = "cancel" /\ ctxt[n] = "new" /\ joining[n] # n
      /\ ~Settled(n) /\ ~Settled(n)'
  BY <1>1, KindOfPc, StateOfPc DEF Alone, Calls, Joiner, Asking, Matching, Settled
<1>3. Owes(n, p)
  BY <1>1, <1>2 DEF Owes, Said
<1>4. joining[p] = n /\ Settled(p) /\ Settled(p)' /\ ctxt[p] # "none"
  BY <1>1, <1>3 DEF Pair, Promise, Settled
<1>5. UNCHANGED dbug /\ joining' = [joining EXCEPT ![p] = None]
  BY <1>4 DEF CancelJoinHandler, Failed
<1>6. /\ msg'[n] # NoMsg /\ msg'[n].kind = "cancel_join" /\ msg'[n].to = p /\ msg'[n].ans = "ok"
      /\ \A m \in DomainNode \ {n} : msg'[m] = msg[m]
  BY <1>1, Replied
<1>7. joining'[p] = None /\ \A m \in DomainNode \ {p} : joining'[m] = joining[m]
  BY <1>1, <1>5 DEF DomainInv, DomainTypeOK
<1>8. \A m \in up \ {n, p} : Still(m)
  BY <1>1, <1>6, <1>7 DEF Still, DomainInv, DomainTypeOK
<1>9. Alone(n)'
  <2>1. Calls(n)' /\ Answers(n)'
    BY <1>1, <1>2, <1>6, <1>7 DEF Alone, Calls, Answers, Joiner, Settled
  <2>2. Seen(n)' /\ NoGhosts(n)'
    BY <1>1, <1>2 DEF Alone, Seen, NoGhosts
  <2> QED
    BY <2>1, <2>2 DEF Alone
<1>10. Alone(p)'
  <2>1. Calls(p)' /\ Answers(p)'
    BY <1>1, <1>4, <1>6, <1>7 DEF Alone, Calls, Answers, Joiner, Settled
  <2>2. Seen(p)' /\ NoGhosts(p)'
    BY <1>1, <1>6 DEF Alone, Seen, NoGhosts, Said
  <2> QED
    BY <2>1, <2>2 DEF Alone
<1>11. ~Passed(p, n)' /\ ~Owes(p, n)' /\ ~Owes(n, p)' /\ ~Passed(n, p)'
  <2>1. call[p].pc \notin Asking \union {"cancel"}
    BY <1>1, <1>4, StateOfPc DEF Settled, Asking, Matching
  <2>2. ~Passed(p, n) /\ ~Owes(p, n)
    BY <1>1, <2>1, OutsideOwesNothing
  <2> QED
    BY <1>1, <1>2, <1>6, <2>2 DEF Passed, Owes, Said, Matching
<1>12. Pair(n, p)' /\ Pair(p, n)'
  <2>1. Promise(n, p)' /\ Promise(p, n)'
    <3>1. joining[n] # p
      BY <1>1, <1>2, <1>11 DEF Pair, Promise, Owes, Said
    <3> QED
      BY <1>1, <1>7, <1>11, <3>1 DEF Promise
  <2> QED
    BY <1>2, <1>11, <2>1 DEF Pair
<1>13. ASSUME NEW q \in up \ {n, p} PROVE Pair(n, q)' /\ Pair(q, n)' /\ Pair(p, q)' /\ Pair(q, p)'
  <2>1. Still(q) /\ Pair(n, q) /\ Pair(q, n) /\ Pair(p, q) /\ Pair(q, p)
    BY <1>1, <1>8, <1>13 DEF DomainInv
  <2>2. ~Owes(q, p)
    BY <1>4, <1>13, <2>1 DEF Pair, Promise
  <2>3. Pair(p, q)' /\ Pair(q, p)'
    <3>1. call'[p] = call[p] /\ msg'[p] = msg[p] /\ joining'[p] # q
      BY <1>1, <1>6, <1>7, <1>13, UpNode
    <3> QED
      BY <1>1, <1>13, <2>1, <2>2, <3>1, PeerPair
  <2>4. /\ Owes(n, q)' <=> Owes(n, q)
        /\ Passed(n, q)' => Passed(n, q)
        /\ Protocol(n, q) => Protocol(n, q)'
    BY <1>1, <1>2, <1>6, <1>13, <2>1 DEF Owes, Passed, Protocol, Said, Matching
  <2>5. Pair(n, q)' /\ Pair(q, n)'
    BY <1>1, <1>2, <1>7, <1>13, <2>1, <2>4, QuietPair DEF Matching
  <2> QED
    BY <2>3, <2>5
<1> QED
  BY <1>1, <1>5, <1>8, <1>9, <1>10, <1>12, <1>13, TwoKeep

-----------------------------------------------------------------------------
(* Leaving, deaths and recovery.                                           *)

\* The task of a settled node that goes on to leave: nothing the others know changes.
LEMMA LeavingKeeps ==
  ASSUME DomainInv, NEW n \in up, DomainTypeOK', Settled(n), Settled(n)',
         UNCHANGED <<up, dbug, beat, live, minor, joining, members>>, \A m \in up \ {n} : Still(m),
         msg[n] = NoMsg, msg'[n] = NoMsg, ctxt'[n] = "shutdown",
         call'[n].pc \in {"beginexit", "migrate", "mark"}
  PROVE  DomainInv'
<1>1. /\ n \in DomainNode /\ Alone(n) /\ ctxt[n] # "none"
      /\ call[n].pc \in {"idle", "beginexit", "migrate", "mark"}
  BY UpNode, StateOfPc DEF Settled
<1>2. Alone(n)'
  <2>1. Calls(n)' /\ Answers(n)'
    BY <1>1 DEF Alone, Calls, Answers, Joiner, Settled, Matching, Asking, PcOf
  <2>2. Seen(n)' /\ NoGhosts(n)'
    BY <1>1 DEF Alone, Seen, NoGhosts, Matching
  <2> QED
    BY <2>1, <2>2 DEF Alone
<1>3. ASSUME NEW p \in up, p # n PROVE Pair(n, p)' /\ Pair(p, n)'
  <2>1. ~Owes(n, p) /\ ~Owes(n, p)' /\ ~Passed(n, p) /\ ~Passed(n, p)'
    BY <1>1 DEF Owes, Passed, Said, Matching
  <2>2. Pair(n, p) /\ Pair(p, n) /\ Still(p)
    BY <1>3 DEF DomainInv
  <2> QED
    BY <1>1, <1>3, <2>1, <2>2, QuietPair DEF Matching
<1> QED
  BY <1>2, <1>3, OneKeeps

LEMMA LeaveStepKeeps ==
  ASSUME DomainInv, NEW n \in up, LeaveStep(n), DomainTypeOK'
  PROVE  DomainInv'
<1>1. n \in DomainNode /\ Alone(n) /\ n # None /\ call[n] \in CallType
  BY UpNode
<1>2. CASE Unregister(n)
  <2>1. /\ UNCHANGED <<up, dbug, beat, live, minor, joining, members, msg>>
        /\ ctxt[n] = "joined" /\ call[n].pc = "idle"
    BY <1>2 DEF Unregister, views
  <2>2. CASE users[n] > 1
    <3>1. \A m \in up : Still(m)
      BY <1>2, <2>1, <2>2 DEF Unregister, Still
    <3> QED
      BY <2>1, <3>1, NobodyKeeps
  <2>3. CASE ~(users[n] > 1)
    <3>1. /\ ctxt' = [ctxt EXCEPT ![n] = "shutdown"]
          /\ call' = [call EXCEPT ![n] = [NoCall EXCEPT !.pc = "beginexit", !.todo = members[n] \ {n}]]
      BY <1>2, <2>3 DEF Unregister
    <3>2. ctxt'[n] = "shutdown" /\ call'[n].pc = "beginexit"
      BY <1>1, <3>1 DEF NoCall, DomainInv, DomainTypeOK
    <3>3. \A m \in up \ {n} : Still(m)
      BY <1>1, <2>1, <3>1 DEF Still, DomainInv, DomainTypeOK
    <3>4. msg[n] = NoMsg
      BY <1>1, <2>1, Rounds DEF Alone, Calls
    <3> QED
      BY <2>1, <3>2, <3>3, <3>4, LeavingKeeps DEF Settled
  <2> QED
    BY <2>2, <2>3
<1>3. CASE BeganExit(n) \/ AllMigrated(n)
  <2>1. /\ UNCHANGED <<up, dbug, beat, live, minor, joining, members, msg, ctxt>>
        /\ call[n].pc \in {"beginexit", "migrate"} /\ (call[n].pc = "beginexit" => call[n].todo = {})
    BY <1>3 DEF BeganExit, AllMigrated, views
  <2>2. ctxt[n] = "shutdown" /\ msg[n] = NoMsg
    BY <1>1, <2>1, StateOfPc, Rounds DEF Alone, Calls
  <2>3. call'[n].pc \in {"migrate", "mark"}
    BY <1>1, <1>3 DEF BeganExit, AllMigrated, Goto, CallType, DomainInv, DomainTypeOK
  <2>4. \A m \in up \ {n} : Still(m)
    BY <1>1, <1>3, <2>1 DEF BeganExit, AllMigrated, Goto, Still, DomainInv, DomainTypeOK
  <2> QED
    BY <2>1, <2>2, <2>3, <2>4, LeavingKeeps DEF Settled
<1>4. CASE MarkLeaving(n)
  <2>1. /\ UNCHANGED <<up, dbug, beat, live, minor, joining, msg>>
        /\ call[n].pc = "mark" /\ joining[n] = None /\ ctxt'[n] = "leaving"
        /\ members'[n] = members[n] \ {n}
    BY <1>1, <1>4 DEF MarkLeaving, views, DomainInv, DomainTypeOK
  <2>2. call'[n].pc = "exit"
    BY <1>1, <1>4 DEF MarkLeaving, CallType, DomainInv, DomainTypeOK
  <2>3. ctxt[n] = "shutdown" /\ msg[n] = NoMsg
    BY <1>1, <2>1, StateOfPc, Rounds DEF Alone, Calls
  <2>4. \A m \in up \ {n} : Still(m)
    BY <1>1, <1>4, <2>1 DEF MarkLeaving, Still, DomainInv, DomainTypeOK
  <2>5. Alone(n)'
    <3>1. Calls(n)' /\ Answers(n)'
      BY <1>1, <2>1, <2>2, <2>3 DEF Alone, Calls, Answers, Joiner, Settled, Matching, Asking, PcOf
    <3>2. Seen(n)' /\ NoGhosts(n)'
      BY <1>1, <2>1, <2>2, <2>3 DEF Alone, Seen, NoGhosts, Matching
    <3> QED
      BY <3>1, <3>2 DEF Alone
  <2>6. ASSUME NEW p \in up, p # n PROVE Pair(n, p)' /\ Pair(p, n)'
    <3>1. Pair(n, p) /\ Pair(p, n) /\ Still(p) /\ p # None
      BY <2>4, <2>6, UpNode DEF DomainInv
    <3>2. ~Owes(n, p) /\ ~Owes(n, p)' /\ ~Passed(n, p) /\ ~Passed(n, p)' /\ ~Settled(n)'
      BY <2>1, <2>2, <2>3 DEF Owes, Passed, Said, Settled, Matching
    <3>3. ~Owes(p, n)
      BY <2>1, <3>1 DEF Pair, Promise
    <3>4. ~Owes(p, n)'
      BY <3>1, <3>3 DEF Owes, Said, Still
    <3>5. Promise(n, p)' /\ Promise(p, n)'
      BY <2>1, <3>1, <3>2, <3>4 DEF Pair, Promise, Still
    <3> QED
      BY <3>2, <3>5 DEF Pair, Known
  <2> QED
    BY <2>1, <2>4, <2>5, <2>6, OneKeeps
<1>5. CASE Left(n)
  <2>1. /\ UNCHANGED <<up, dbug, beat, live, minor, joining, msg>>
        /\ call[n].pc = "exit" /\ msg[n] = NoMsg /\ ctxt'[n] = "none" /\ members'[n] = {}
        /\ call'[n] = NoCall
    BY <1>1, <1>5 DEF Left, views, DomainInv, DomainTypeOK
  <2>2. ctxt[n] = "leaving" /\ call'[n].pc = "idle"
    BY <2>1, StateOfPc DEF NoCall
  <2>3. \A m \in up \ {n} : Still(m)
    BY <1>1, <1>5, <2>1 DEF Left, Still, DomainInv, DomainTypeOK
  <2>4. Alone(n)'
    <3>1. Calls(n)' /\ Answers(n)'
      BY <1>1, <2>1, <2>2 DEF Alone, Calls, Answers, Joiner, Settled, Matching, Asking, PcOf
    <3>2. Seen(n)' /\ NoGhosts(n)'
      BY <1>1, <2>1, <2>2 DEF Alone, Seen, NoGhosts, Matching
    <3> QED
      BY <3>1, <3>2 DEF Alone
  <2>5. ASSUME NEW p \in up, p # n PROVE Pair(n, p)' /\ Pair(p, n)'
    <3>1. Pair(n, p) /\ Pair(p, n) /\ Still(p)
      BY <2>3, <2>5 DEF DomainInv
    <3>2. ~Owes(n, p) /\ ~Owes(n, p)' /\ ~Passed(n, p)' /\ ~Settled(n) /\ ~Settled(n)'
      BY <2>1, <2>2 DEF Owes, Passed, Said, Settled, Matching
    <3> QED
      BY <2>1, <3>1, <3>2, OutsidePair
  <2> QED
    BY <2>1, <2>3, <2>4, <2>5, OneKeeps
<1> QED
  BY <1>2, <1>3, <1>4, <1>5 DEF LeaveStep

\* __dlm_hb_node_down(): nothing between nodes that run changes.
LEMMA HbNodeDownKeeps ==
  ASSUME DomainInv, NEW n \in up, NEW d \in DomainNode, HbNodeDown(n, d), DomainTypeOK'
  PROVE  DomainInv'
<1>1. /\ n \in DomainNode /\ Alone(n) /\ n # None /\ d \notin up /\ d # n /\ d \in beat[n]
      /\ UNCHANGED <<up, dbug, ctxt, minor, call, msg>>
      /\ beat'[n] = beat[n] \ {d}
      /\ joining'[n] = IF joining[n] = d THEN None ELSE joining[n]
  BY UpNode DEF HbNodeDown, DomainInv, DomainTypeOK
<1>2. \/ /\ Cares(n, d) /\ live'[n] = live[n] \ {d} /\ members'[n] = members[n] \ {d}
      \/ /\ ~Cares(n, d) /\ live'[n] = live[n] /\ members'[n] = members[n]
  BY <1>1 DEF HbNodeDown, DomainInv, DomainTypeOK
<1>3. \A m \in up \ {n} : Still(m)
  <2>1. /\ \E x : live' = [live EXCEPT ![n] = x] \/ UNCHANGED live
        /\ \E x : members' = [members EXCEPT ![n] = x] \/ UNCHANGED members
        /\ \E x : joining' = [joining EXCEPT ![n] = x] \/ UNCHANGED joining
        /\ \E x : beat' = [beat EXCEPT ![n] = x]
    BY DEF HbNodeDown
  <2> QED
    BY <1>1, <2>1 DEF Still, DomainInv, DomainTypeOK
<1>4. call[n].pc = "query" => members[n] = {}
  BY <1>1 DEF Alone, Calls
<1>5. Alone(n)'
  <2>1. Calls(n)' /\ Answers(n)'
    BY <1>1, <1>2 DEF Alone, Calls, Answers, Joiner, Settled
  <2>2. Seen(n)'
    BY <1>1, <1>2, <1>4 DEF Alone, Seen, Cares
  <2>3. d \in members'[n] => ctxt[n] = "none"
    BY <1>1, <1>2 DEF Alone, Seen, Cares
  <2>4. NoGhosts(n)'
    <3>1. ASSUME NEW x \in members'[n] \ beat'[n]
          PROVE  ctxt[n] # "joined" /\ (call[n].pc = "assert" => x \in call[n].todo /\ ~Said(n, x, "assert_joined", "ok"))
      <4>1. CASE x = d
        BY <2>3, <3>1, <4>1, StateOfPc
      <4>2. CASE x # d
        <5>1. x \in members[n] \ beat[n]
          BY <1>1, <1>2, <3>1, <4>2
        <5> QED
          BY <1>1, <5>1 DEF Alone, NoGhosts
      <4> QED
        BY <4>1, <4>2
    <3> QED
      BY <1>1, <3>1 DEF NoGhosts, Said
  <2> QED
    BY <2>1, <2>2, <2>4 DEF Alone
<1>6. ASSUME NEW p \in up, p # n PROVE Pair(n, p)' /\ Pair(p, n)'
  <2>1. Pair(n, p) /\ Pair(p, n) /\ Still(p) /\ p # d /\ p # None
    BY <1>1, <1>3, <1>6, UpNode DEF DomainInv
  <2>2. joining[n] = d => ~Owes(p, n)
    BY <2>1 DEF Pair, Promise
  <2>3. joining'[n] = joining[n] \/ (joining'[n] # p /\ ~Owes(p, n))
    BY <1>1, <2>1, <2>2
  <2>4. p \in members'[n] <=> p \in members[n]
    BY <1>2, <2>1
  <2> QED
    BY <1>1, <2>1, <2>3, <2>4, PeerPair
<1> QED
  BY <1>1, <1>3, <1>5, <1>6, OneKeeps

\* Who dies takes what it knew and owed along.
LEMMA NodeDiesKeeps ==
  ASSUME DomainInv, NEW d \in DomainNode, NodeDies(d), DomainTypeOK'
  PROVE  DomainInv'
<1>1. up' = up \ {d} /\ UNCHANGED dbug
  BY DEF NodeDies
<1>2. \A m \in up' : m \in up /\ Still(m)
  BY <1>1 DEF NodeDies, Still, DomainInv, DomainTypeOK
<1>3. \A m \in up' : Alone(m)'
  BY <1>1, <1>2, StillAlone DEF DomainInv
<1>4. \A m, q \in up' : m # q => Pair(m, q)'
  BY <1>2, StillPair DEF DomainInv
<1> QED
  BY <1>1, <1>3, <1>4 DEF DomainInv

LEMMA RecoveryKeeps ==
  ASSUME DomainInv, DomainTypeOK',
         (\E n \in up, m \in DomainNode : RecoveryBegins(n, m)) \/ DeathForgotten \/ UNCHANGED dvars
  PROVE  DomainInv'
<1>1. UNCHANGED <<up, dbug, beat, ctxt, minor, joining, live, members, call, msg>>
  BY DEF RecoveryBegins, DeathForgotten, dvars
<1>2. \A m \in up : Still(m)
  BY <1>1 DEF Still
<1> QED
  BY <1>1, <1>2, NobodyKeeps

-----------------------------------------------------------------------------
(* The invariant and the properties.                                       *)

LEMMA DomainInitially == DInit => DomainInv
<1> SUFFICES ASSUME DInit PROVE DomainInv
  OBVIOUS
<1>1. /\ scene \in SceneType /\ scene.members \in [DomainNode -> Nat] /\ scene.minor \in [DomainNode -> Nat]
      /\ \A a, b \in DomainNode : scene.members[a] > 0 /\ scene.members[b] > 0 => scene.minor[a] = scene.minor[b]
  BY ScenesAssumption DEF DInit, SceneType
<1>2. /\ up = DomainNode /\ users = scene.members /\ minor = scene.minor /\ dbug = {}
      /\ beat = [n \in DomainNode |-> DomainNode] /\ live = beat
      /\ joining = [n \in DomainNode |-> None] /\ exiting = [n \in DomainNode |-> {}]
      /\ toRecover = [n \in DomainNode |-> {}] /\ active = [n \in DomainNode |-> FALSE]
      /\ call = [n \in DomainNode |-> NoCall] /\ msg = [n \in DomainNode |-> NoMsg]
  BY DEF DInit
<1> DEFINE start == {n \in DomainNode : scene.members[n] > 0}
<1>3. /\ ctxt = [n \in DomainNode |-> IF n \in start THEN "joined" ELSE "none"]
      /\ members = [n \in DomainNode |-> IF n \in start THEN start ELSE {}]
  BY DEF DInit
<1>4. start \subseteq DomainNode
  OBVIOUS
<1> HIDE DEF start
<1>5. TasksOK
  BY <1>2, NoCallType DEF TasksOK, MsgType
<1>6. ViewsOK
  BY <1>1, <1>2, <1>3, <1>4 DEF ViewsOK
<1>7. \A n \in DomainNode : call[n].pc = "idle" /\ msg[n] = NoMsg /\ joining[n] = None /\ n # None
  BY <1>2, NodesAssumption DEF NoCall, None
<1>8. ASSUME NEW n \in up PROVE Alone(n)
  <2>1. Calls(n) /\ Answers(n)
    BY <1>2, <1>3, <1>4, <1>7, <1>8 DEF Calls, Answers, Joiner, Asking, Matching, PcOf, Settled
  <2>2. Seen(n) /\ NoGhosts(n)
    BY <1>2, <1>3, <1>4, <1>7, <1>8 DEF Seen, NoGhosts, Matching
  <2> QED
    BY <2>1, <2>2 DEF Alone
<1>9. ASSUME NEW n \in up, NEW p \in up, n # p PROVE Pair(n, p)
  <2>1. Promise(n, p) /\ ~Passed(n, p)
    BY <1>2, <1>7, <1>9 DEF Promise, Owes, Passed, Said, Matching
  <2>2. Settled(n) /\ Settled(p) => Agreed(n, p)
    BY <1>1, <1>2, <1>3, <1>9 DEF Settled, Agreed, start
  <2> QED
    BY <2>1, <2>2 DEF Pair
<1> QED
  BY <1>2, <1>5, <1>6, <1>8, <1>9, TypeParts DEF DomainInv

LEMMA DomainSteps == DomainInv /\ [DNext]_dvars => DomainInv'
<1> SUFFICES ASSUME DomainInv, [DNext]_dvars PROVE DomainInv'
  OBVIOUS
<1>1. DomainTypeOK'
  BY DomainTypes DEF DomainInv
<1>2. ASSUME NEW n \in up, JoinStep(n) PROVE DomainInv'
  BY <1>1, <1>2, RegisterKeeps, TryToJoinKeeps, AskNextKeeps, QueryAnsweredKeeps, AllAgreedKeeps,
     MatchAnsweredKeeps, NextRoundKeeps, AssertAnsweredKeeps, JoinedKeeps, ToldKeeps, JoinGivenUpKeeps
     DEF JoinStep
<1>3. ASSUME NEW n \in up, NEW p \in DomainNode, DomainHandlers(n, p) PROVE DomainInv'
  BY <1>1, <1>3, QueryJoinHandlerKeeps, AssertJoinedHandlerKeeps, CancelJoinHandlerKeeps,
     MatchHandlerKeeps, ExitHandlerKeeps DEF DomainHandlers
<1>4. ASSUME NEW n \in up, LeaveStep(n) \/ PeerDown(n) \/ \E p \in DomainNode : HbNodeDown(n, p)
      PROVE  DomainInv'
  BY <1>1, <1>4, LeaveStepKeeps, AskNextKeeps, HbNodeDownKeeps
<1>5. CASE (\E n \in up, m \in DomainNode : RecoveryBegins(n, m)) \/ DeathForgotten \/ UNCHANGED dvars
  BY <1>1, <1>5, RecoveryKeeps
<1>6. ASSUME NEW d \in DomainNode, NodeDies(d) PROVE DomainInv'
  BY <1>1, <1>6, NodeDiesKeeps
<1> QED
  BY <1>2, <1>3, <1>4, <1>5, <1>6 DEF DNext

\* Type correctness: the maps of every node, the tasks and the messages under way
\* keep their types, however many nodes there are.
THEOREM DomainTyped == DSpec => []DomainTypeOK
<1>1. DInit => DomainTypeOK
  BY DomainInitially DEF DomainInv
<1> QED
  BY <1>1, DomainTypes, PTL DEF DSpec

LEMMA DomainInvariant == DSpec => []DomainInv
BY DomainInitially, DomainSteps, PTL DEF DSpec

\* The BUG_ON()s of dlm_assert_joined_handler and dlm_cancel_join_handler are not
\* reached: who asserts or cancels is the node the member said yes to.
THEOREM NoJoinBugs == DSpec => []NoJoinBug
<1>1. DomainInv => NoJoinBug
  BY DEF DomainInv, NoJoinBug
<1> QED
  BY <1>1, DomainInvariant, PTL

\* Members know each other and speak one protocol; joining_node is never left
\* set for a joiner that has forgotten the member; no dead node stays in the
\* domain_map of a member.
THEOREM DomainIsSound == DSpec => []DomainSound
<1>1. ASSUME DomainInv PROVE MembersAgree
  <2>1. ASSUME NEW a \in up, NEW b \in up, ctxt[a] = "joined", ctxt[b] = "joined"
        PROVE  b \in members[a] /\ minor[a] = minor[b]
    <3>1. CASE a = b
      BY <1>1, <2>1, <3>1, UpNode DEF Alone, Calls, Settled
    <3>2. CASE a # b
      BY <1>1, <2>1, <3>2 DEF DomainInv, Pair, Settled, Agreed
    <3> QED
      BY <3>1, <3>2
  <2> QED
    BY <2>1 DEF MembersAgree
<1>2. ASSUME DomainInv PROVE JoinerMinded
  <2>1. ASSUME NEW n \in up, joining[n] # None, ctxt[n] # "none", joining[n] \in up, joining[n] # n
        PROVE  \/ n \in call[joining[n]].yes
               \/ /\ msg[joining[n]] # NoMsg
                  /\ msg[joining[n]].to = n /\ msg[joining[n]].kind = "query_join"
    <3> DEFINE j == joining[n]
    <3>1. Owes(j, n)
      BY <1>2, <2>1 DEF DomainInv, Pair, Promise
    <3>2. call[j].pc \in {"assert", "cancel"} => call[j].todo \subseteq call[j].yes
      BY <1>2, <2>1, UpNode DEF Alone, Calls
    <3> QED
      BY <3>1, <3>2 DEF Owes, Said
  <2>2. ASSUME NEW n \in up, joining[n] = n PROVE call[n].pc \in {"query", "nodes", "regions", "assert"}
    BY <1>2, <2>2, UpNode DEF Alone, Calls, Joiner, Asking, Matching
  <2> QED
    BY <2>1, <2>2 DEF JoinerMinded
<1>3. ASSUME DomainInv PROVE NoGhost
  BY <1>3, UpNode DEF NoGhost, Alone, NoGhosts
<1> QED
  BY <1>1, <1>2, <1>3, DomainInvariant, PTL DEF DomainSound
=============================================================================
