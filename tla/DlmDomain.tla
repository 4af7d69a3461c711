------------------------------- MODULE DlmDomain -------------------------------
(***************************************************************************)
(* dlmdomain.c: the nodes of a cluster join and leave a domain.  A joiner  *)
(* asks every node that heartbeats (query_join), compares its idea of the  *)
(* cluster with the members (nodeinfo, regions), then tells them it has    *)
(* joined (assert_joined).  joining_node, one per domain and node, keeps a *)
(* second joiner out.                                                      *)
(*                                                                         *)
(* A node that dies does not come back; nodes heartbeat before they join.  *)
(* Recovery of a dead member and the migration of what a leaving node      *)
(* masters are events here: DlmRecovery and DlmMaster model them.          *)
(***************************************************************************)
EXTENDS Integers, Sequences, FiniteSets, FiniteSetsExt

CONSTANTS
  DomainNode,     \* nodes of the cluster, numbered
  Scenes          \* what happens: members[n] is how often n has the domain
                  \* registered at first, mounts[n] how often it registers it,
                  \* umounts[n] how often it drops it, minor[n] its protocol,
                  \* config[n] its nodes and regions, frail the nodes that may die

None == 255     \* DLM_LOCK_RES_OWNER_UNKNOWN, which is O2NM_MAX_NODES
SceneType ==
  [members : [DomainNode -> Nat], mounts : [DomainNode -> Nat], umounts : [DomainNode -> Nat],
   minor : [DomainNode -> Nat], config : [DomainNode -> [nodeinfo : Nat, regions : Nat]],
   frail : SUBSET DomainNode]

ASSUME NodesAssumption == DomainNode \subseteq 0 .. None - 1
\* The members of a domain use one protocol.
ASSUME ScenesAssumption ==
  \A s \in Scenes :
    /\ s \in SceneType
    /\ \A a, b \in DomainNode : s.members[a] > 0 /\ s.members[b] > 0 => s.minor[a] = s.minor[b]

VARIABLES
  scene,      \* the scene, counting down
  up,         \* nodes that run
  beat,       \* beat[n]: nodes whose heartbeat n sees
  ctxt,       \* ctxt[n]: dlm_state, or "none"
  users,      \* num_joins
  minor,      \* dlm_locking_proto.pv_minor
  joining,    \* joining_node
  live,       \* live_nodes_map
  members,    \* domain_map
  exiting,    \* exit_domain_map
  toRecover,  \* recovery_map
  active,     \* DLM_RECO_STATE_ACTIVE
  call,       \* call[n]: where n's task is in dlm_try_to_join_domain() or
              \* dlm_unregister_domain()
  msg,        \* msg[n]: the message n waits for
  dbug        \* the BUG()s reached

dvars == <<scene, up, beat, ctxt, users, minor, joining, live, members, exiting,
           toRecover, active, call, msg, dbug>>
views == <<up, beat, toRecover, active>>

NoMsg == [kind |-> "none"]
NoCall == [pc |-> "idle", todo |-> {}, yes |-> {}, map |-> {}, retry |-> FALSE]

DInit ==
  /\ scene \in Scenes
  /\ LET start == {n \in DomainNode : scene.members[n] > 0} IN
       /\ ctxt = [n \in DomainNode |-> IF n \in start THEN "joined" ELSE "none"]
       /\ members = [n \in DomainNode |-> IF n \in start THEN start ELSE {}]
  /\ users = scene.members
  /\ minor = scene.minor
  /\ up = DomainNode
  /\ beat = [n \in DomainNode |-> DomainNode]
  /\ live = beat
  /\ joining = [n \in DomainNode |-> None]
  /\ exiting = [n \in DomainNode |-> {}]
  /\ toRecover = [n \in DomainNode |-> {}]
  /\ active = [n \in DomainNode |-> FALSE]
  /\ call = [n \in DomainNode |-> NoCall]
  /\ msg = [n \in DomainNode |-> NoMsg]
  /\ dbug = {}

Failed(site, cond) == dbug' = IF cond THEN dbug \union {site} ELSE dbug
Post(n, kind, to) == msg' = [msg EXCEPT ![n] = [kind |-> kind, to |-> to, ans |-> "none"]]
Goto(n, pc) == call' = [call EXCEPT ![n].pc = pc]
Waiting(n, kind) == msg[n] # NoMsg /\ msg[n].kind = kind /\ msg[n].ans # "none"

----------------------------------------------------------------------------
(* dlm_register_domain() and dlm_try_to_join_domain().                     *)

\* The first registration joins, one that finds the domain joined shares it;
\* one that finds it on its way in or out waits.
Register(n) ==
  /\ scene.mounts[n] > 0 /\ call[n].pc = "idle" /\ ctxt[n] \in {"none", "joined"}
  /\ scene' = [scene EXCEPT !.mounts[n] = @ - 1]
  /\ IF ctxt[n] = "joined"
       THEN /\ users' = [users EXCEPT ![n] = @ + 1]
            /\ UNCHANGED <<ctxt, minor, joining, members, exiting, toRecover, active, call>>
       ELSE /\ ctxt' = [ctxt EXCEPT ![n] = "new"]
            /\ minor' = [minor EXCEPT ![n] = scene.minor[n]]
            /\ joining' = [joining EXCEPT ![n] = None]
            /\ members' = [members EXCEPT ![n] = {}]
            /\ exiting' = [exiting EXCEPT ![n] = {}]
            /\ toRecover' = [toRecover EXCEPT ![n] = {}]
            /\ active' = [active EXCEPT ![n] = FALSE]
            /\ Goto(n, "try")
            /\ UNCHANGED users
  /\ UNCHANGED <<up, beat, live, msg, dbug>>

Others(n) == beat[n] \ {n}

TryToJoin(n) ==
  /\ call[n].pc = "try"
  /\ live' = [live EXCEPT ![n] = beat[n]]
  /\ joining' = [joining EXCEPT ![n] = n]
  /\ call' = [call EXCEPT ![n] = [pc |-> "query", todo |-> Others(n), yes |-> {},
                                    map |-> beat[n], retry |-> FALSE]]
  /\ UNCHANGED <<scene, views, ctxt, users, minor, members, exiting, msg, dbug>>

\* The rounds of messages: each to the lowest node of the round
Round == [query |-> "query_join", nodes |-> "nodeinfo", regions |-> "regions",
          assert |-> "assert_joined", cancel |-> "cancel_join",
          beginexit |-> "begin_exit", exit |-> "exit"]
AskNext(n) ==
  /\ call[n].pc \in DOMAIN Round /\ call[n].todo # {} /\ msg[n] = NoMsg
  /\ Post(n, Round[call[n].pc], Min(call[n].todo))
  /\ UNCHANGED <<scene, views, ctxt, users, minor, joining, live, members, exiting, call, dbug>>

\* Mutant: the nodes that said yes are not told
BailedQuietly(c, retry) == [c EXCEPT !.pc = "cancel", !.todo = {}, !.retry = retry]

\* bail: the nodes that said yes are told.
Bailed(c, retry) == [c EXCEPT !.pc = "cancel", !.todo = c.yes, !.retry = retry]

\* dlm_request_join() returns
QueryAnswered(n) ==
  /\ Waiting(n, "query_join")
  /\ LET p == msg[n].to
         ans == msg[n].ans
         c == [call[n] EXCEPT !.todo = @ \ {p}, !.yes = IF ans = "ok" THEN @ \union {p} ELSE @]
     IN CASE ans \in {"down", "mismatch"} ->
               /\ call' = [call EXCEPT ![n] = Bailed(c, FALSE)]
               /\ joining' = [joining EXCEPT ![n] = None]
               /\ UNCHANGED minor
          [] ans \notin {"down", "mismatch"} /\ (ans = "disallow" \/ call[n].map # live[n]) ->
               /\ call' = [call EXCEPT ![n] = Bailed(c, TRUE)]
               /\ joining' = [joining EXCEPT ![n] = None]
               /\ minor' = [minor EXCEPT ![n] = IF ans = "ok" THEN msg[n].minor ELSE @]
          [] OTHER ->
               /\ call' = [call EXCEPT ![n] = c]
               /\ minor' = [minor EXCEPT ![n] = IF ans = "ok" THEN msg[n].minor ELSE @]
               /\ UNCHANGED joining
  /\ msg' = [msg EXCEPT ![n] = NoMsg]
  /\ UNCHANGED <<scene, views, ctxt, users, live, members, exiting, dbug>>

\* All have answered: the map of the domain, then the rounds over its members
AllAgreed(n) ==
  /\ call[n].pc = "query" /\ call[n].todo = {}
  /\ members' = [members EXCEPT ![n] = call[n].yes \union {n}]
  /\ call' = [call EXCEPT ![n].pc = IF minor[n] > 0 THEN "nodes" ELSE "assert", ![n].todo = call[n].yes]
  /\ UNCHANGED <<scene, views, ctxt, users, minor, joining, live, exiting, msg, dbug>>

MatchAnswered(n, kind) ==
  /\ Waiting(n, kind)
  /\ IF msg[n].ans = "ok"
       THEN /\ call' = [call EXCEPT ![n].todo = @ \ {msg[n].to}]
            /\ UNCHANGED joining
       ELSE /\ call' = [call EXCEPT ![n] = Bailed(@, FALSE)]
            /\ joining' = [joining EXCEPT ![n] = None]
  /\ msg' = [msg EXCEPT ![n] = NoMsg]
  /\ UNCHANGED <<scene, views, ctxt, users, minor, live, members, exiting, dbug>>

NextRound(n) ==
  /\ call[n].pc \in {"nodes", "regions"} /\ call[n].todo = {}
  /\ call' = [call EXCEPT ![n].pc = IF @ = "nodes" THEN "regions" ELSE "assert", ![n].todo = call[n].yes]
  /\ UNCHANGED <<scene, views, ctxt, users, minor, joining, live, members, exiting, msg, dbug>>

\* dlm_send_join_asserts(): again while the member recovers another one
AssertAnswered(n) ==
  /\ Waiting(n, "assert_joined")
  /\ call' = IF msg[n].ans # "ok" /\ msg[n].to \in live[n] THEN call
               ELSE [call EXCEPT ![n].todo = @ \ {msg[n].to}]
  /\ msg' = [msg EXCEPT ![n] = NoMsg]
  /\ UNCHANGED <<scene, views, ctxt, users, minor, joining, live, members, exiting, dbug>>

Joined(n) ==
  /\ call[n].pc = "assert" /\ call[n].todo = {}
  /\ ctxt' = [ctxt EXCEPT ![n] = "joined"]
  /\ users' = [users EXCEPT ![n] = 1]
  /\ joining' = [joining EXCEPT ![n] = None]
  /\ call' = [call EXCEPT ![n] = NoCall]
  /\ UNCHANGED <<scene, views, minor, live, members, exiting, msg, dbug>>

Told(n, kind) ==
  /\ Waiting(n, kind)
  /\ call' = [call EXCEPT ![n].todo = @ \ {msg[n].to}]
  /\ members' = IF kind = "exit" THEN [members EXCEPT ![n] = @ \ {msg[n].to}] ELSE members
  /\ msg' = [msg EXCEPT ![n] = NoMsg]
  /\ UNCHANGED <<scene, views, ctxt, users, minor, joining, live, exiting, dbug>>

\* Again after a while, or the registration fails and the domain is freed.
JoinGivenUp(n) ==
  /\ call[n].pc = "cancel" /\ call[n].todo = {}
  /\ call' = [call EXCEPT ![n] = IF call[n].retry THEN [NoCall EXCEPT !.pc = "try"] ELSE NoCall]
  /\ ctxt' = IF call[n].retry THEN ctxt ELSE [ctxt EXCEPT ![n] = "none"]
  /\ UNCHANGED <<scene, views, users, minor, joining, live, members, exiting, msg, dbug>>

----------------------------------------------------------------------------
(* The handlers of p, for a message of n.                                  *)

Handled(n, kind, p) == p \in up /\ msg[n] # NoMsg /\ msg[n].kind = kind /\ msg[n].to = p /\ msg[n].ans = "none"
Reply(n, ans) == msg' = [msg EXCEPT ![n].ans = ans]

\* Mutant: a member that is being joined by another node says yes as well
QueryCodeShared(p, n) ==
  CASE ctxt[p] \in {"none", "leaving"} -> "nomap"
    [] ctxt[p] = "new" /\ joining[p] = None -> "nomap"
    [] active[p] \/ n \in toRecover[p] \/ n \in members[p] -> "disallow"
    [] OTHER -> "ok"

\* dlm_query_join_handler(): what p answers
QueryCode(p, n) ==
  CASE n \notin beat[p] -> "disallow"
    [] n \in beat[p] /\ ctxt[p] = "none" -> "nomap"
    [] OTHER ->
         CASE ~(members[p] \subseteq live[n]) -> "disallow"
           [] members[p] \subseteq live[n] /\ ctxt[p] = "leaving" -> "nomap"
           [] members[p] \subseteq live[n] /\ ctxt[p] = "new" /\ joining[p] = None -> "nomap"
           [] OTHER -> IF joining[p] # None \/ active[p] \/ n \in toRecover[p] \/ n \in members[p]
                         THEN "disallow"
                       ELSE IF minor[p] > minor[n] THEN "mismatch" ELSE "ok"

QueryJoinHandler(n, p) ==
  /\ Handled(n, "query_join", p)
  /\ LET code == QueryCode(p, n) IN
       /\ msg' = [msg EXCEPT ![n] = [kind |-> "query_join", to |-> p, ans |-> code, minor |-> minor[p]]]
       /\ joining' = IF code = "ok" THEN [joining EXCEPT ![p] = n] ELSE joining
  /\ UNCHANGED <<scene, views, ctxt, users, minor, live, members, exiting, call, dbug>>

\* dlm_query_nodeinfo_handler() and dlm_query_region_handler()
MatchHandler(n, kind, p) ==
  /\ Handled(n, kind, p)
  /\ Reply(n, IF /\ ctxt[p] # "none" /\ joining[p] = n /\ minor[p] > 0
                 /\ scene.config[p][kind] = scene.config[n][kind]
                THEN "ok" ELSE "einval")
  /\ UNCHANGED <<scene, views, ctxt, users, minor, joining, live, members, exiting, call, dbug>>

\* dlm_assert_joined_handler()
AssertJoinedHandler(n, p) ==
  /\ Handled(n, "assert_joined", p)
  /\ Failed("assert", ctxt[p] # "none" /\ joining[p] # n)
  /\ IF ctxt[p] # "none" /\ active[p]
       THEN /\ Reply(n, "eagain")
            /\ UNCHANGED <<members, exiting, joining>>
       ELSE /\ Reply(n, "ok")
            /\ IF ctxt[p] = "none" THEN UNCHANGED <<members, exiting, joining>>
               ELSE /\ members' = [members EXCEPT ![p] = @ \union {n}]
                    /\ exiting' = [exiting EXCEPT ![p] = @ \ {n}]
                    /\ joining' = [joining EXCEPT ![p] = None]
  /\ UNCHANGED <<scene, views, ctxt, users, minor, live, call>>

\* dlm_cancel_join_handler()
CancelJoinHandler(n, p) ==
  /\ Handled(n, "cancel_join", p)
  /\ Failed("cancel", ctxt[p] # "none" /\ joining[p] # n)
  /\ joining' = IF ctxt[p] = "none" THEN joining ELSE [joining EXCEPT ![p] = None]
  /\ Reply(n, "ok")
  /\ UNCHANGED <<scene, views, ctxt, users, minor, live, members, exiting, call>>

\* dlm_begin_exit_domain_handler() and dlm_exit_domain_handler()
ExitHandler(n, kind, p) ==
  /\ Handled(n, kind, p)
  /\ exiting' = CASE ctxt[p] = "none" -> exiting
                  [] ctxt[p] # "none" /\ kind = "begin_exit" -> [exiting EXCEPT ![p] = @ \union {n}]
                  [] OTHER -> [exiting EXCEPT ![p] = @ \ {n}]
  /\ members' = IF ctxt[p] # "none" /\ kind = "exit" THEN [members EXCEPT ![p] = @ \ {n}] ELSE members
  /\ Reply(n, "ok")
  /\ UNCHANGED <<scene, views, ctxt, users, minor, joining, live, call, dbug>>

----------------------------------------------------------------------------
(* dlm_unregister_domain().                                                *)

Unregister(n) ==
  /\ scene.umounts[n] > 0 /\ ctxt[n] = "joined" /\ users[n] > 0 /\ call[n].pc = "idle"
  /\ scene' = [scene EXCEPT !.umounts[n] = @ - 1]
  /\ users' = [users EXCEPT ![n] = @ - 1]
  /\ IF users[n] > 1 THEN UNCHANGED <<ctxt, call>>
     ELSE /\ ctxt' = [ctxt EXCEPT ![n] = "shutdown"]
          /\ call' = [call EXCEPT ![n] = [NoCall EXCEPT !.pc = "beginexit", !.todo = members[n] \ {n}]]
  /\ UNCHANGED <<views, minor, joining, live, members, exiting, msg, dbug>>

BeganExit(n) ==
  /\ call[n].pc = "beginexit" /\ call[n].todo = {}
  /\ Goto(n, "migrate")
  /\ UNCHANGED <<scene, views, ctxt, users, minor, joining, live, members, exiting, msg, dbug>>

\* dlm_migrate_all_locks(): not while recovery may bring locks
AllMigrated(n) ==
  /\ call[n].pc = "migrate" /\ ~active[n]
  /\ Goto(n, "mark")
  /\ UNCHANGED <<scene, views, ctxt, users, minor, joining, live, members, exiting, msg, dbug>>

\* dlm_mark_domain_leaving() and dlm_leave_domain()
MarkLeaving(n) ==
  /\ call[n].pc = "mark" /\ joining[n] = None
  /\ ctxt' = [ctxt EXCEPT ![n] = "leaving"]
  /\ members' = [members EXCEPT ![n] = @ \ {n}]
  /\ call' = [call EXCEPT ![n].pc = "exit", ![n].todo = members[n] \ {n}]
  /\ UNCHANGED <<scene, views, users, minor, joining, live, exiting, msg, dbug>>

Left(n) ==
  /\ call[n].pc = "exit" /\ call[n].todo \intersect members[n] = {} /\ msg[n] = NoMsg
  /\ ctxt' = [ctxt EXCEPT ![n] = "none"]
  /\ members' = [members EXCEPT ![n] = {}]
  /\ call' = [call EXCEPT ![n] = NoCall]
  /\ UNCHANGED <<scene, views, users, minor, joining, live, exiting, msg, dbug>>

----------------------------------------------------------------------------
(* Deaths and recovery.                                                    *)

NodeDies(d) ==
  /\ d \in up \intersect scene.frail
  /\ up' = up \ {d}
  /\ msg' = [msg EXCEPT ![d] = NoMsg]
  /\ call' = [call EXCEPT ![d] = NoCall]
  /\ UNCHANGED <<scene, beat, ctxt, users, minor, joining, live, members, exiting, toRecover, active, dbug>>

\* The connection is gone before the answer.
PeerDown(n) ==
  /\ msg[n] # NoMsg /\ msg[n].to \notin up /\ msg[n].ans = "none"
  /\ Reply(n, "down")
  /\ UNCHANGED <<scene, views, ctxt, users, minor, joining, live, members, exiting, call, dbug>>

\* Mutant: a death during a join is lost
CaresJoined(n, d) == ctxt[n] = "joined" /\ d \in live[n] \intersect members[n]

Cares(n, d) == ctxt[n] # "none" /\ d \in live[n] \intersect members[n]

\* __dlm_hb_node_down(): live_nodes_map keeps a node that is not a member.
HbNodeDown(n, d) ==
  /\ n \in up /\ d \in beat[n] \ up
  /\ beat' = [beat EXCEPT ![n] = @ \ {d}]
  /\ joining' = IF joining[n] = d THEN [joining EXCEPT ![n] = None] ELSE joining
  /\ IF Cares(n, d)
       THEN /\ live' = [live EXCEPT ![n] = @ \ {d}]
            /\ members' = [members EXCEPT ![n] = @ \ {d}]
            /\ exiting' = [exiting EXCEPT ![n] = @ \ {d}]
            /\ toRecover' = [toRecover EXCEPT ![n] = @ \union {d}]
       ELSE UNCHANGED <<live, members, exiting, toRecover>>
  /\ UNCHANGED <<scene, up, ctxt, users, minor, active, call, msg, dbug>>

\* begin_reco reaches the members of a node that recovers, then all is done.
RecoveryBegins(n, m) ==
  /\ {n, m} \subseteq up /\ toRecover[m] # {} /\ n \in members[m] /\ ctxt[n] # "none" /\ ~active[n]
  /\ active' = [active EXCEPT ![n] = TRUE]
  /\ UNCHANGED <<scene, up, beat, ctxt, users, minor, joining, live, members, exiting, toRecover, call, msg, dbug>>
DeathForgotten ==
  /\ \E n \in up : active[n]
  /\ \A n \in up : beat[n] = up
  /\ toRecover' = [n \in DomainNode |-> {}]
  /\ active' = [n \in DomainNode |-> FALSE]
  /\ UNCHANGED <<scene, up, beat, ctxt, users, minor, joining, live, members, exiting, call, msg, dbug>>

----------------------------------------------------------------------------
JoinStep(n) ==
  \/ Register(n) \/ TryToJoin(n) \/ AskNext(n) \/ QueryAnswered(n) \/ AllAgreed(n)
  \/ MatchAnswered(n, "nodeinfo") \/ MatchAnswered(n, "regions") \/ NextRound(n)
  \/ AssertAnswered(n) \/ Joined(n) \/ JoinGivenUp(n)
  \/ Told(n, "cancel_join") \/ Told(n, "begin_exit") \/ Told(n, "exit")
LeaveStep(n) ==
  \/ Unregister(n) \/ BeganExit(n) \/ AllMigrated(n) \/ MarkLeaving(n) \/ Left(n)
DomainHandlers(n, p) ==
  \/ QueryJoinHandler(n, p) \/ AssertJoinedHandler(n, p) \/ CancelJoinHandler(n, p)
  \/ MatchHandler(n, "nodeinfo", p) \/ MatchHandler(n, "regions", p)
  \/ ExitHandler(n, "begin_exit", p) \/ ExitHandler(n, "exit", p)

DNext ==
  \/ \E n \in up : \/ JoinStep(n) \/ LeaveStep(n) \/ PeerDown(n)
                   \/ \E p \in DomainNode : DomainHandlers(n, p) \/ HbNodeDown(n, p) \/ RecoveryBegins(n, p)
  \/ \E d \in DomainNode : NodeDies(d)
  \/ DeathForgotten

DSpec == DInit /\ [][DNext]_dvars

----------------------------------------------------------------------------
CallType ==
  [pc : {"idle", "try", "cancel", "migrate", "mark"} \union DOMAIN Round, todo : SUBSET DomainNode,
   yes : SUBSET DomainNode, map : SUBSET DomainNode, retry : BOOLEAN]
MsgKind == {Round[r] : r \in DOMAIN Round}
JoinAnswer == {"none", "ok", "nomap", "disallow", "mismatch", "einval", "eagain", "down"}
MsgType ==
  {NoMsg} \union [kind : MsgKind \ {"query_join"}, to : DomainNode, ans : JoinAnswer]
          \union [kind : {"query_join"}, to : DomainNode, ans : {"none", "down"}]
          \union [kind : {"query_join"}, to : DomainNode,
                      ans : {"ok", "nomap", "disallow", "mismatch"}, minor : Nat]

DomainTypeOK ==
  /\ scene \in SceneType /\ up \subseteq DomainNode
  /\ ctxt \in [DomainNode -> {"none", "new", "joined", "shutdown", "leaving"}]
  /\ {beat, live, members, exiting, toRecover} \subseteq [DomainNode -> SUBSET DomainNode]
  /\ {users, minor} \subseteq [DomainNode -> Nat] /\ active \in [DomainNode -> BOOLEAN]
  /\ joining \in [DomainNode -> DomainNode \union {None}]
  /\ call \in [DomainNode -> CallType] /\ msg \in [DomainNode -> MsgType]
  /\ \A n \in DomainNode : /\ n \notin call[n].yes \union call[n].todo
                           /\ msg[n] # NoMsg => msg[n].to # n
  /\ dbug \subseteq {"assert", "cancel"}

\* The BUG_ON()s of dlm_assert_joined_handler and dlm_cancel_join_handler: who
\* asserts or cancels is the node the member said yes to.
NoJoinBug == dbug = {}

\* One domain, not two: nodes that have joined and not begun to leave know each
\* other, with the same protocol, unless one of them is dead.
MembersAgree ==
  \A a, b \in up : ctxt[a] = "joined" /\ ctxt[b] = "joined"
                     => b \in members[a] /\ minor[a] = minor[b]

\* joining_node is never left set: the joiner's task is there to assert or to
\* cancel, or its death is still to be noticed.
JoinerMinded ==
  \A n \in up : joining[n] # None /\ ctxt[n] # "none"
    => LET j == joining[n] IN
       \/ j \notin up
       \/ j = n /\ call[n].pc \in {"query", "nodes", "regions", "assert"}
       \/ j # n /\ \/ n \in call[j].yes
                   \/ msg[j] # NoMsg /\ msg[j].to = n /\ msg[j].kind = "query_join"

\* Who has joined has been told of each death among the members it knows, or
\* will be: no dead node stays in domain_map for ever.
NoGhost ==
  \A n \in up : ctxt[n] = "joined" => \A d \in members[n] : d \in up \/ d \in beat[n]

\* Members and joiners: all three.
DomainSound == MembersAgree /\ JoinerMinded /\ NoGhost
===============================================================================
