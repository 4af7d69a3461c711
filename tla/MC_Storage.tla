------------------------------- MODULE MC_Storage -------------------------------
(***************************************************************************)
(* Clusters, blocks and inodes, and directories: the three are independent *)
(* of each other here, so that a behaviour has one of them.                *)
(***************************************************************************)
EXTENDS Space, Suballoc, Dir

TwoNodes == {1, 2}

\* Five clusters, two nodes; how many clusters each write wants.
Space2(writes, truncs, umounts, dies, grows) ==
  [writes |-> writes, truncs |-> truncs, umounts |-> umounts, dies |-> dies, grows |-> grows]
NoSpaceStory == Space2(<<<<>>, <<>>>>, <<0, 0>>, {}, {}, 0)
SpaceStories ==
  {NoSpaceStory,
   Space2(<<<<3, 3>>, <<>>>>, <<1, 0>>, {}, {}, 0),
   Space2(<<<<3, 2, 1>>, <<>>>>, <<1, 0>>, {}, {}, 0),
   Space2(<<<<2>>, <<1>>>>, <<2, 1>>, {}, {}, 0),
   Space2(<<<<1, 3>>, <<2>>>>, <<1, 1>>, {}, {}, 0),
   Space2(<<<<1>>, <<>>>>, <<1, 0>>, {1}, {2}, 1),      \* the volume grows, a node unmounts, the other dies
   Space2(<<<<1, 1>>, <<>>>>, <<2, 0>>, {}, {1, 2}, 0)} \* both die

\* Twelve clusters, some of them taken; what each node asks its allocators for.
Inode1 == [kind |-> "inode", want |-> 1]
Reflink1 == [kind |-> "reflink", want |-> 1]
Meta(k) == [kind |-> "meta", want |-> k]
Alloc2(chains, busy, reqs, cuts, reuses, dies) ==
  [chains |-> chains, busy |-> busy, reqs |-> reqs, cuts |-> cuts, reuses |-> reuses, dies |-> dies,
   reusing |-> [n \in {1, 2} |-> FALSE]]
NoBlocks == Alloc2(1, {}, <<<<>>, <<>>>>, <<0, 0>>, <<0, 0>>, {})
BlockStories ==
  {NoBlocks,
   Alloc2(2, {3, 5}, <<<<Inode1, Inode1, Reflink1>>, <<Inode1>>>>, <<1, 0>>, <<0, 0>>, {}),
   Alloc2(2, {3, 6, 9}, <<<<Meta(3), Meta(1)>>, <<Meta(2)>>>>, <<2, 1>>, <<2, 0>>, {}),
   Alloc2(2, 9 .. 12, <<<<Meta(3), Meta(1), Meta(1)>>, <<Meta(2)>>>>, <<2, 0>>, <<1, 0>>, {}),
   Alloc2(1, {}, <<<<Meta(3), Meta(3), Meta(1), Meta(1)>>, <<>>>>, <<3, 0>>, <<0, 0>>, {}),
   Alloc2(1, {}, <<<<Inode1, Inode1, Inode1, Inode1, Reflink1>>, <<>>>>, <<2, 0>>, <<0, 0>>, {}),
   Alloc2(2, {3, 5}, <<<<Meta(3), Meta(3), Meta(2)>>, <<>>>>, <<2, 0>>, <<0, 0>>, {1})}

\* Names whose hashes meet; a, b, c, f and g have the same major hash.
De(s, major, minor) == [size |-> s, major |-> major, minor |-> minor]
Dirents ==
  ("." :> De(1, 7, 0)) @@ (".." :> De(1, 3, 2)) @@
  ("a" :> De(1, 5, 0)) @@ ("b" :> De(2, 5, 2)) @@ ("c" :> De(1, 5, 2)) @@ ("f" :> De(1, 5, 4)) @@
  ("g" :> De(1, 5, 0)) @@ ("d" :> De(2, 9, 1)) @@ ("e" :> De(1, 2, 1)) @@ ("k" :> De(3, 9, 2))
Directory(indexed, inline, space, ops, nms, writer, kinds, reads) ==
  [indexed |-> indexed, inline |-> inline, room |-> space, ops |-> ops, names |-> nms, writers |-> {writer},
   kinds |-> kinds, reads |-> reads]
Changes == {"unlink", "rename"}
Everything == Changes \cup {"rmdir", "fail"}
NoDirectory == Directory(FALSE, TRUE, 0, 0, {}, 1, {}, {})
Directories ==
  {NoDirectory,
   Directory(TRUE, FALSE, 7, 5, {"a", "b", "c", "f", "g"}, 1, {}, {}),  \* a leaf of one hash
   Directory(TRUE, TRUE, 7, 4, {"a", "b", "c", "d"}, 1, Everything, {}),
   Directory(TRUE, FALSE, 7, 5, {"a", "b", "c", "d"}, 1, Everything, {}),
   Directory(TRUE, FALSE, 4, 4, {"a", "k", "e", "d"}, 1, Everything, {}),        \* two blocks with holes
   Directory(TRUE, FALSE, 4, 3, {"b", "c", "d"}, 1, Everything, 0 .. 3),
   Directory(FALSE, TRUE, 3, 3, {"a", "b", "d"}, 1, Everything, 0 .. 3),
   Directory(FALSE, FALSE, 1, 5, {"a", "c", "e", "d"}, 1, Changes \cup {"fail"}, {2})}
\* Node 1 reads what node 2 changes
RemoteDirectories == {Directory(FALSE, FALSE, 1, 5, {"a", "c", "e", "d"}, 2, Changes \cup {"fail"}, {2})}

OnlyNoSpaceStory == {NoSpaceStory}
OnlyNoBlocks == {NoBlocks}
OnlyNoDirectory == {NoDirectory}

\* What a behaviour is about
VARIABLE about
allVars == <<about, spvars, subvars, dirvars>>

Init ==
  /\ about \in {"clusters", "blocks", "directory"}
  /\ SpInit /\ SubInit /\ DirInit
  /\ about = "clusters" <=> sstory # NoSpaceStory
  /\ about = "blocks" <=> bstory # NoBlocks
  /\ about = "directory" <=> dstory # NoDirectory
Next ==
  \/ about = "clusters" /\ SpNext /\ UNCHANGED <<about, subvars, dirvars>>
  \/ about = "blocks" /\ SubNext /\ UNCHANGED <<about, spvars, dirvars>>
  \/ about = "directory" /\ DirNext /\ UNCHANGED <<about, spvars, subvars>>
Spec == Init /\ [][Next]_allVars
===============================================================================
