------------------------------ MODULE MC_DlmNodes ------------------------------
(***************************************************************************)
(* The nodes of a domain: how they join and leave it, who masters a        *)
(* resource, and the recovery of nodes that died.  The three share no      *)
(* state here, so that a behaviour has one of them.                        *)
(***************************************************************************)
EXTENDS DlmMaster, DlmDomain, DlmRecovery, TLC

Three == 1 .. 3
Four == 1 .. 4
Of3(a, b, c) == 1 :> a @@ 2 :> b @@ 3 :> c

\* How often each node asks for the resource, who may die, who leaves.
Case(asks, dies, leaver) == [asks |-> asks, mortal |-> dies, leaves |-> leaver]
NoCase == Case(Of3(0, 0, 0), {}, {})
\* Two askers that meet while a third node, one of them, or nobody dies; one of
\* them leaves the domain.
MasterCases ==
  {NoCase,
   Case(Of3(1, 1, 0), {2}, {}), Case(Of3(1, 0, 1), {1}, {}), Case(Of3(0, 1, 1), {1}, {}), Case(Of3(2, 1, 0), {}, {}),
   Case(Of3(1, 1, 0), {}, {1}), Case(Of3(1, 1, 0), {}, {2}), Case(Of3(1, 2, 0), {}, {1}), Case(Of3(2, 1, 0), {}, {2})}

\* How often each node has the domain, mounts and unmounts; minor protocol; who
\* may die; whether the nodes agree on the heartbeat regions.
Agree == [nodeinfo |-> 0, regions |-> 0]
Scene(have, mounts, umounts, protocols, dies) ==
  [members |-> have, mounts |-> mounts, umounts |-> umounts, minor |-> protocols,
   config |-> Of3(Agree, Agree, Agree), frail |-> dies]
NoScene == Scene(Of3(0, 0, 0), Of3(0, 0, 0), Of3(0, 0, 0), Of3(0, 0, 0), {})
DomainScenes ==
  {NoScene,
   Scene(Of3(0, 0, 0), Of3(1, 1, 0), Of3(0, 0, 0), Of3(2, 2, 2), {}),      \* two join, nobody is there
   Scene(Of3(1, 0, 0), Of3(0, 1, 1), Of3(1, 0, 0), Of3(1, 2, 2), {}),      \* the only member leaves
   Scene(Of3(1, 1, 0), Of3(0, 0, 1), Of3(0, 1, 0), Of3(1, 1, 2), {1}),
   [Scene(Of3(1, 1, 0), Of3(0, 0, 1), Of3(0, 0, 0), Of3(1, 1, 1), {2})     \* other regions than the members
      EXCEPT !.config[3].regions = 1],
   Scene(Of3(1, 0, 0), Of3(0, 1, 1), Of3(0, 0, 0), Of3(1, 1, 1), {2}),     \* one of two joiners dies
   Scene(Of3(1, 1, 0), Of3(0, 1, 1), Of3(0, 2, 0), Of3(1, 1, 0), {3})}     \* the joiner is too old

\* Who is in the domain, masters the resource, has a lock, may die.
Plight(in, m, locked, dies, many) ==
  [nodes |-> in, master |-> m, frail |-> dies, deaths |-> many, locks |-> locked]
NoPlight == Plight({}, 1, {}, {}, 0)
\* Any two of three nodes die, whichever masters the resource; one of four.
RecoveryPlights ==
  {NoPlight, Plight(Four, 2, {1, 3}, {2}, 1)} \union
  {Plight(Three, m, Three, f, 2) : m \in Three, f \in {S \in SUBSET Three : Cardinality(S) = 2}}
\* The first master dies, then the node that takes its place.
TwoOfFour == {NoPlight, Plight(Four, 1, {1, 3, 4}, {1, 2}, 2)}

OnlyNoCase == {NoCase}
OnlyNoScene == {NoScene}

\* What a behaviour is about
VARIABLE about
allVars == <<about, mvars, dvars, rvars>>

Init ==
  /\ about \in {"mastery", "domain", "recovery"}
  /\ MInit /\ DInit /\ RInit
  /\ about = "mastery" <=> \E n \in Three : task[n].asks > 0
  /\ about = "domain" <=> scene # NoScene
  /\ about = "recovery" <=> plight # NoPlight
Next ==
  \/ about = "mastery" /\ MNext /\ UNCHANGED <<about, dvars, rvars>>
  \/ about = "domain" /\ DNext /\ UNCHANGED <<about, mvars, rvars>>
  \/ about = "recovery" /\ RNext /\ UNCHANGED <<about, mvars, dvars>>
Spec == Init /\ [][Next]_allVars /\ RFair

\* Types, and no BUG() of the three is reached.
BugFree == MasterTypeOK /\ DomainTypeOK /\ NoBug /\ NoJoinBug /\ RecoveryBugFree
===============================================================================
