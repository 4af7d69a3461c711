------------------------------ MODULE MC_FsRecovery ------------------------------
(***************************************************************************)
(* Mounts and recovery, and the life of inodes: the two are independent    *)
(* of each other here, so that a behaviour has one of them.                *)
(***************************************************************************)
EXTENDS FsRecovery, Orphans

\* Three nodes, two slots; a story says what each node does.
ThreeNodes == 1..3
Mounts(mounts, umounts, uses, deaths) ==
  [mounts |-> mounts, umounts |-> umounts, uses |-> uses, frail |-> {1}, deaths |-> deaths]

NoMounts == Mounts(<<0, 0, 0>>, <<0, 0, 0>>, <<0, 0, 0>>, 0)
FsStories == {NoMounts,
              Mounts(<<2, 1, 0>>, <<1, 1, 0>>, <<1, 1, 0>>, 1),  \* the one that died comes back, both unmount
              Mounts(<<1, 1, 1>>, <<0, 0, 0>>, <<1, 1, 0>>, 1),  \* a third node mounts meanwhile
              Mounts(<<2, 1, 0>>, <<0, 0, 0>>, <<1, 0, 0>>, 2)}  \* it dies again

\* Two nodes, two names, two inodes.
TwoNodes == {1, 2}
Nothing == [create |-> 0, open |-> 0, link |-> 0, unlink |-> 0, rename |-> 0, reflink |-> 0, scan |-> 0, dio |-> 0]
Ops(one, two, dies, dirs) == [ops |-> <<one, two>>, dies |-> dies, dirs |-> dirs]
NoOps == Ops(Nothing, Nothing, {}, {})
FileOps == [Nothing EXCEPT !.create = 1, !.open = 1, !.unlink = 1]
ScanOps == [Nothing EXCEPT !.scan = 1]
OnlyNoOps == {NoOps}
InoStories ==
  {NoOps,
   Ops([FileOps EXCEPT !.link = 1, !.unlink = 2], [ScanOps EXCEPT !.open = 1, !.unlink = 1], {}, {}),
   Ops([FileOps EXCEPT !.dio = 1], [Nothing EXCEPT !.open = 1, !.unlink = 1, !.scan = 2], {1}, {}),
   Ops([Nothing EXCEPT !.create = 2, !.rename = 1], ScanOps, {}, {1, 2}),
   Ops([Nothing EXCEPT !.reflink = 1, !.unlink = 1], [ScanOps EXCEPT !.open = 1], {1}, {}),
   Ops([FileOps EXCEPT !.open = 0], [ScanOps EXCEPT !.create = 1], {}, {1}),
   Ops([Nothing EXCEPT !.create = 1, !.reflink = 1], [Nothing EXCEPT !.create = 1], {1}, {})}

\* Neither kind of work stops before its end.
NoStandstill == FsNoStandstill /\ OStandstill

\* What a behaviour is about
VARIABLE about
allVars == <<about, fsvars, ovars>>

Init ==
  /\ about \in {"mounts", "inodes"}
  /\ FsInit /\ OInit
  /\ about = "mounts" <=> story # NoMounts
  /\ about = "inodes" <=> ostory # NoOps
Next ==
  \/ about = "mounts" /\ FsNext /\ UNCHANGED <<about, ovars>>
  \/ about = "inodes" /\ ONext /\ UNCHANGED <<about, fsvars>>
Spec == Init /\ [][Next]_allVars
===============================================================================
