----------------------------- MODULE Orphans_proofs -----------------------------
(***************************************************************************)
(* Proofs about Orphans: an inode has as many links as names, one without  *)
(* links is in one orphan directory, and nobody uses an inode that was     *)
(* wiped: for any number of nodes, inodes and names, whoever opens, links, *)
(* unlinks, scans and dies.                                                *)
(***************************************************************************)
EXTENDS Orphans, FiniteSetTheorems, TLAPS

OpNames == {"create", "open", "link", "unlink", "rename", "reflink", "scan", "dio"}
Stories == [ops : [ONode -> [OpNames -> Int]], dies : SUBSET ONode, dirs : SUBSET Ino]
NodeOr0 == ONode \union {0}
InoOr0 == Ino \union {0}
NameOr0 == Name \union {0}
States == {"none", "in", "evict", "wipe", "wiping", "clear"}
Inode == [st : States, links : Nat, maybe : BOOLEAN, skip : BOOLEAN, deleted : BOOLEAN,
          opens : Nat, dio : BOOLEAN, olk : {"NL", "PR", "EX"}, life : Nat]
Dinode == [valid : BOOLEAN, links : Nat, orphan : NodeOr0, dio : NodeOr0, life : Nat]
Entries == Ino \X BOOLEAN
NameOps == {"link", "unlink", "rename"}
Tasks == [op : {"none", "lookup", "reflink"} \union NameOps, from : NameOr0, to : NameOr0, ino : InoOr0, old : InoOr0]
Scans == [pc : {"none", "mark", "dir", "list"}, slot : NodeOr0, todo : SUBSET Entries, list : SUBSET Entries, trunc : BOOLEAN]
Holders == {Free} \union (ONode \X {"task", "evict"})

Shape ==
  /\ ostory \in Stories /\ oalive \subseteq ONode
  /\ names \in [Name -> InoOr0] /\ dinode \in [Ino -> Dinode] /\ orphanDir \in [ONode -> SUBSET Entries]
  /\ core \in [ONode -> [Ino -> Inode]] /\ dent \in [ONode -> [Name -> InoOr0]]
  /\ task \in [ONode -> Tasks] /\ scan \in [ONode -> Scans]
  /\ lockedBy \in [Ino -> Holders] /\ dirBy \in NodeOr0

\* An inode that somebody on node n refers to is in memory, and is not evicted.
RefOK(n) == \A i \in Ino : Referred(n, i) => core[n][i].st = "in"

\* Inode i in the memory of node n
CoreOK(n, i) ==
  LET c == core[n][i]
      d == dinode[i]
  IN /\ c.st = "none" <=> c.olk = "NL"
     /\ c.st = "none" => ~c.skip
     /\ c.st \in {"in", "evict", "wipe", "wiping"} => d.valid /\ c.life = d.life
     /\ c.st \in {"wipe", "wiping"} => /\ c.olk = "EX" /\ lockedBy[i] = <<n, "evict">>
                                      /\ d.links = 0 /\ d.dio = 0 /\ (c.skip \/ d.orphan # 0)
     /\ c.dio => d.dio = n /\ c.opens > 0
     /\ c.skip => /\ d.orphan = 0 /\ d.dio = 0 /\ c.links = 0 /\ c.opens = 0
                  /\ d.valid => d.links = 0 /\ c.st # "clear"
                  /\ \A m \in ONode \ {n} : core[m][i].olk = "NL"

\* The open lock: who has EX is alone, and nobody else has one that was wiped.
OpenOK(i) ==
  /\ \A n, m \in ONode : n # m /\ core[n][i].olk = "EX" => core[m][i].olk = "NL"
  /\ ~dinode[i].valid => \A n \in ONode : core[n][i].olk # "PR"

\* A dentry says what the directory says.
DentOK(n) == \A nm \in Name : dent[n][nm] # 0 => names[nm] = dent[n][nm] /\ n \in oalive

\* What a task found when it had the directory's lock is so still.
TaskOK(n) ==
  LET t == task[n] IN
  /\ t.op \in {"lookup"} \union NameOps => dirBy = n /\ t.from \in Name /\ names[t.from] # 0
  /\ t.op \notin NameOps => t.old = 0
  /\ t.op \in {"none", "lookup"} => t.ino = 0
  /\ t.op \in NameOps => t.ino = names[t.from]
  /\ t.op = "link" => t.to \in Name /\ names[t.to] = 0 /\ ~IsDir(t.ino) /\ t.old = 0
  /\ t.op = "unlink" => t.old = 0
  /\ t.op = "rename" => /\ t.to \in Name /\ names[t.to] = t.old /\ t.old # t.ino
                        /\ t.old # 0 => IsDir(t.old) = IsDir(t.ino)
  /\ t.op = "reflink" => t.to \in Name /\ t.ino # 0 /\ dinode[t.ino].orphan = n /\ ~IsDir(t.ino)

\* A task that has the inode's lock has read the inode.
LockOK(i) ==
  \A n \in ONode : lockedBy[i] = <<n, "task">> =>
    core[n][i].links = dinode[i].links /\ task[n].op \in NameOps /\ i \in {task[n].ino, task[n].old}

\* What the scan has before it is in the directory still.
ScanOK(n) ==
  LET c == scan[n] IN
  /\ c.pc # "none" => c.slot \in ONode
  /\ c.pc = "dir" => c.todo \subseteq orphanDir[c.slot]

NamesOf(i) == {nm \in Name : names[nm] = i}
DirNames == {nm \in Name : names[nm] # 0 /\ IsDir(names[nm])}

\* What the disk says of inode i: its links, and its places in the orphan directories
DiskOK(i) ==
  LET d == dinode[i] IN
  /\ d.valid => d.links = Cardinality(NamesOf(i)) * Links(i)
  /\ d.valid /\ IsDir(i) => d.links \in {0, 2}
  /\ \A s \in ONode : /\ <<i, FALSE>> \in orphanDir[s] <=> s = d.orphan
                      /\ <<i, TRUE>> \in orphanDir[s] <=> s = d.dio
  /\ d.orphan # 0 => d.links = 0 /\ d.valid
  /\ d.dio # 0 => d.valid
DirOK ==
  /\ \A nm \in Name : names[nm] # 0 => dinode[names[nm]].valid
  /\ dirLinks = 2 + Cardinality(DirNames)

\* An inode without links is not forgotten while nobody dies.
KeptOK(i) ==
  dinode[i].valid /\ dinode[i].links = 0 /\ oalive = ONode => dinode[i].orphan # 0 \/ \E n \in ONode : core[n][i].skip

OInv ==
  /\ Shape
  /\ \A n \in ONode : RefOK(n) /\ DentOK(n) /\ TaskOK(n) /\ ScanOK(n)
  /\ \A i \in Ino : OpenOK(i) /\ LockOK(i) /\ \A n \in ONode : CoreOK(n, i)
  /\ DirOK /\ \A i \in Ino : DiskOK(i) /\ KeptOK(i)

-----------------------------------------------------------------------------
(* Counting names.                                                         *)

\* One more name
LEMMA OneMore ==
  ASSUME NEW S \in SUBSET Name, NEW T \in SUBSET Name, NEW a \in Name, a \notin S,
         \A x \in Name : x \in T <=> x \in S \/ x = a
  PROVE  Cardinality(T) = Cardinality(S) + 1 /\ Cardinality(S) \in Nat
<1>1. IsFiniteSet(S)
  BY NameAssumption, FS_Subset
<1>2. T = S \union {a}
  OBVIOUS
<1>3. Cardinality(S \union {a}) = Cardinality(S) + 1 /\ Cardinality(S) \in Nat
  BY <1>1, FS_AddElement, FS_CardinalityType
<1> QED
  BY <1>2, <1>3

\* A name for another
LEMMA OneForOne ==
  ASSUME NEW S \in SUBSET Name, NEW T \in SUBSET Name, NEW a \in Name, NEW b \in Name, a \in S, b \notin S,
         \A x \in Name : x \in T <=> (x \in S /\ x # a) \/ x = b
  PROVE  Cardinality(T) = Cardinality(S)
<1> DEFINE R == S \ {a}
<1>1. R \in SUBSET Name /\ b \notin R /\ a \notin R
  OBVIOUS
<1>2. \A x \in Name : x \in T <=> x \in R \/ x = b
  OBVIOUS
<1>3. \A x \in Name : x \in S <=> x \in R \/ x = a
  OBVIOUS
<1> HIDE DEF R
<1>4. Cardinality(T) = Cardinality(R) + 1
  BY <1>1, <1>2, OneMore
<1>5. Cardinality(S) = Cardinality(R) + 1
  BY <1>1, <1>3, OneMore
<1> QED
  BY <1>4, <1>5

\* No name
LEMMA NoneAtAll ==
  ASSUME NEW S \in SUBSET Name
  PROVE  /\ Cardinality(S) \in Nat
         /\ Cardinality(S) = 0 <=> \A x \in Name : x \notin S
<1>1. IsFiniteSet(S)
  BY NameAssumption, FS_Subset
<1>2. Cardinality(S) \in Nat /\ (Cardinality(S) = 0 <=> S = {})
  BY <1>1, FS_CardinalityType, FS_EmptySet
<1> QED
  BY <1>2

LEMMA NamesFacts ==
  ASSUME NEW i \in Ino
  PROVE  /\ NamesOf(i) \in SUBSET Name /\ \A x \in Name : x \in NamesOf(i) <=> names[x] = i
         /\ DirNames \in SUBSET Name /\ \A x \in Name : x \in DirNames <=> names[x] # 0 /\ IsDir(names[x])
         /\ NamesOf(i)' \in SUBSET Name /\ \A x \in Name : x \in NamesOf(i)' <=> names'[x] = i
         /\ DirNames' \in SUBSET Name /\ \A x \in Name : x \in DirNames' <=> names'[x] # 0 /\ names'[x] \in ostory'.dirs
<1>1. NamesOf(i) \in SUBSET Name /\ \A x \in Name : x \in NamesOf(i) <=> names[x] = i
  BY DEF NamesOf
<1>2. DirNames \in SUBSET Name /\ \A x \in Name : x \in DirNames <=> names[x] # 0 /\ IsDir(names[x])
  BY DEF DirNames
<1>3. NamesOf(i)' \in SUBSET Name /\ \A x \in Name : x \in NamesOf(i)' <=> names'[x] = i
  BY DEF NamesOf
<1>4. DirNames' \in SUBSET Name /\ \A x \in Name : x \in DirNames' <=> names'[x] # 0 /\ names'[x] \in ostory'.dirs
  BY DEF DirNames, IsDir
<1> QED
  BY <1>1, <1>2, <1>3, <1>4

-----------------------------------------------------------------------------
(* The parts of the invariant that a step leaves alone.                    *)

SameStory == ostory' \in Stories /\ ostory'.dirs = ostory.dirs

\* The disk as it was
LEMMA DiskStays ==
  ASSUME SameStory, UNCHANGED <<names, dirLinks, dinode, orphanDir>>, DirOK, \A i \in Ino : DiskOK(i)
  PROVE  DirOK' /\ \A i \in Ino : DiskOK(i)'
<1>1. ASSUME NEW i \in Ino PROVE NamesOf(i)' = NamesOf(i)
  BY DEF NamesOf
<1>2. DirNames' = DirNames
  BY DEF DirNames, IsDir, SameStory
<1>3. ASSUME NEW i \in Ino PROVE DiskOK(i)'
  <2>1. DiskOK(i) /\ NamesOf(i)' = NamesOf(i)
    BY <1>1
  <2> QED
    BY <2>1 DEF DiskOK, IsDir, Links, SameStory
<1>4. DirOK'
  BY <1>2 DEF DirOK
<1> QED
  BY <1>3, <1>4

\* An inode that has a name has a link, and is no orphan.
LEMMA NamedLives ==
  ASSUME OInv, NEW nm \in Name, names[nm] # 0
  PROVE  /\ names[nm] \in Ino /\ dinode[names[nm]].valid /\ dinode[names[nm]].links > 0
         /\ dinode[names[nm]].orphan = 0 /\ \A m \in ONode : ~core[m][names[nm]].skip
<1>1. PICK i \in Ino : i = names[nm]
  BY DEF OInv, Shape, InoOr0
<1>2. DiskOK(i) /\ dinode[i].valid /\ dinode[i] \in Dinode
  BY <1>1 DEF OInv, Shape, DirOK
<1>3. NamesOf(i) \in SUBSET Name /\ nm \in NamesOf(i)
  BY <1>1, NamesFacts
<1>4. Cardinality(NamesOf(i)) \in Nat /\ Cardinality(NamesOf(i)) # 0
  BY <1>3, NoneAtAll
<1>5. dinode[i].links > 0
  <2>1. Links(i) \in {1, 2}
    BY DEF Links
  <2> DEFINE c == Cardinality(NamesOf(i))
  <2>2. c \in Nat /\ c > 0
    BY <1>4
  <2>3. dinode[i].links = c * Links(i)
    BY <1>2 DEF DiskOK
  <2> HIDE DEF c
  <2> QED
    BY <2>1, <2>2, <2>3
<1>6. dinode[i].orphan = 0
  BY <1>2, <1>5 DEF DiskOK
<1>7. \A m \in ONode : ~core[m][i].skip
  BY <1>2, <1>5 DEF OInv, CoreOK
<1> QED
  BY <1>1, <1>2, <1>5, <1>6, <1>7

LEMMA NamelessInode ==
  ASSUME OInv, NEW i \in Ino, ~dinode[i].valid \/ dinode[i].links = 0
  PROVE  \A nm \in Name : names[nm] # i
<1>1. SUFFICES ASSUME NEW nm \in Name, names[nm] = i PROVE FALSE
  OBVIOUS
<1>2. names[nm] # 0
  BY <1>1, InoAssumption
<1> QED
  BY <1>1, <1>2, NamedLives

\* An operation is counted.
LEMMA DidStays ==
  ASSUME Shape, NEW n \in ONode, NEW op \in OpNames, Did(n, op)
  PROVE  SameStory
<1> DEFINE o == ostory.ops
           p == [o EXCEPT ![n][op] = @ - 1]
<1>1. ostory \in Stories /\ o \in [ONode -> [OpNames -> Int]]
  BY DEF Shape, Stories
<1>2. ostory' = [ostory EXCEPT !.ops = p]
  BY <1>1 DEF Did, Stories
<1>3. [o[n] EXCEPT ![op] = @ - 1] \in [OpNames -> Int]
  BY <1>1
<1>4. p = [o EXCEPT ![n] = [o[n] EXCEPT ![op] = @ - 1]]
  BY <1>1
<1>5. p \in [ONode -> [OpNames -> Int]]
  BY <1>1, <1>3, <1>4
<1> HIDE DEF o, p
<1> QED
  BY <1>1, <1>2, <1>5 DEF SameStory, Stories

LEMMA StoryStays == Shape /\ UNCHANGED ostory => SameStory
BY DEF Shape, SameStory

\* An inode in memory with one thing changed
LEMMA InodeEdit ==
  ASSUME NEW c \in Inode
  PROVE  /\ \A x \in States : [c EXCEPT !.st = x] \in Inode
         /\ \A x \in Nat : [c EXCEPT !.links = x] \in Inode /\ [c EXCEPT !.opens = x] \in Inode /\ [c EXCEPT !.life = x] \in Inode
         /\ \A x \in BOOLEAN : [c EXCEPT !.maybe = x] \in Inode /\ [c EXCEPT !.skip = x] \in Inode
                              /\ [c EXCEPT !.deleted = x] \in Inode /\ [c EXCEPT !.dio = x] \in Inode
         /\ \A x \in {"NL", "PR", "EX"} : [c EXCEPT !.olk = x] \in Inode
<1>1. \A x \in States : [c EXCEPT !.st = x] \in Inode
  BY DEF Inode
<1>2. \A x \in Nat : [c EXCEPT !.links = x] \in Inode /\ [c EXCEPT !.opens = x] \in Inode /\ [c EXCEPT !.life = x] \in Inode
  BY DEF Inode
<1>3. \A x \in BOOLEAN : [c EXCEPT !.maybe = x] \in Inode /\ [c EXCEPT !.skip = x] \in Inode
  BY DEF Inode
<1>4. \A x \in BOOLEAN : [c EXCEPT !.deleted = x] \in Inode /\ [c EXCEPT !.dio = x] \in Inode
  BY DEF Inode
<1>5. \A x \in {"NL", "PR", "EX"} : [c EXCEPT !.olk = x] \in Inode
  BY DEF Inode
<1> QED
  BY <1>1, <1>2, <1>3, <1>4, <1>5

\* An inode on disk with one thing changed
LEMMA DinodeEdit ==
  ASSUME NEW d \in Dinode
  PROVE  /\ \A x \in BOOLEAN : [d EXCEPT !.valid = x] \in Dinode
         /\ \A x \in Nat : [d EXCEPT !.links = x] \in Dinode
         /\ \A x \in NodeOr0 : [d EXCEPT !.orphan = x] \in Dinode /\ [d EXCEPT !.dio = x] \in Dinode
<1>1. \A x \in BOOLEAN : [d EXCEPT !.valid = x] \in Dinode
  BY DEF Dinode
<1>2. \A x \in Nat : [d EXCEPT !.links = x] \in Dinode
  BY DEF Dinode
<1>3. \A x \in NodeOr0 : [d EXCEPT !.orphan = x] \in Dinode /\ [d EXCEPT !.dio = x] \in Dinode
  BY DEF Dinode
<1> QED
  BY <1>1, <1>2, <1>3

\* One inode in the memory of one node is set.
CoreOnly(n, i) ==
  /\ core' \in [ONode -> [Ino -> Inode]]
  /\ \A m \in ONode, j \in Ino : m # n \/ j # i => core'[m][j] = core[m][j]
LEMMA CoreSet ==
  ASSUME Shape, NEW n \in ONode, NEW i \in Ino, NEW v \in Inode, core' = [core EXCEPT ![n][i] = v]
  PROVE  CoreOnly(n, i) /\ core'[n][i] = v
<1>1. core \in [ONode -> [Ino -> Inode]]
  BY DEF Shape
<1>2. [core[n] EXCEPT ![i] = v] \in [Ino -> Inode]
  BY <1>1
<1>3. core' = [core EXCEPT ![n] = [core[n] EXCEPT ![i] = v]]
  BY <1>1
<1> QED
  BY <1>1, <1>2, <1>3 DEF CoreOnly

-----------------------------------------------------------------------------
(* Steps that change nothing that counts, and steps of one inode in the    *)
(* memory of one node.                                                     *)

\* Its state, its flags and its open lock are as they were.
Alike(m, j) ==
  LET a == core[m][j]
      b == core'[m][j]
  IN /\ b.st = a.st /\ b.olk = a.olk /\ b.links = a.links /\ b.life = a.life
     /\ b.skip <=> a.skip
     /\ b.dio <=> a.dio
     /\ a.dio /\ a.opens > 0 => b.opens > 0
     /\ a.skip /\ a.opens = 0 => b.opens = 0

LEMMA AlikeStep ==
  ASSUME OInv, SameStory, Shape', UNCHANGED <<oalive, names, dirLinks, dinode, orphanDir, task, lockedBy, dirBy>>,
         \A m \in ONode, j \in Ino : Alike(m, j) /\ (Referred(m, j)' => core[m][j].st = "in"),
         \A m \in ONode : ScanOK(m)',
         \A m \in ONode, nm \in Name : dent'[m][nm] = 0 \/ dent'[m][nm] = dent[m][nm]
  PROVE  OInv'
<1>1. \A m \in ONode : RefOK(m)'
  BY DEF RefOK, Alike
<1>2. \A m \in ONode : DentOK(m)'
  BY DEF OInv, DentOK
<1>3. \A m \in ONode : TaskOK(m)'
  BY DEF OInv, TaskOK, SameStory, IsDir
<1>4. \A j \in Ino : OpenOK(j)' /\ LockOK(j)'
  BY DEF OInv, OpenOK, LockOK, Alike
<1>5. ASSUME NEW j \in Ino, NEW m \in ONode PROVE CoreOK(m, j)'
  <2>1. CoreOK(m, j) /\ Alike(m, j) /\ \A k \in ONode : core'[k][j].olk = core[k][j].olk
    BY DEF OInv, Alike
  <2> QED
    BY <2>1 DEF CoreOK, Alike
<1>6. DirOK' /\ \A j \in Ino : DiskOK(j)'
  BY DiskStays DEF OInv
<1>7. \A j \in Ino : KeptOK(j)'
  BY DEF OInv, KeptOK, Alike
<1> QED
  BY <1>1, <1>2, <1>3, <1>4, <1>5, <1>6, <1>7 DEF OInv

LEMMA InodeStep ==
  ASSUME OInv, SameStory, Shape', UNCHANGED <<oalive, names, dirLinks, dinode, orphanDir, dent, task, dirBy>>,
         NEW n \in ONode, NEW i \in Ino, CoreOnly(n, i),
         \A j \in Ino : j # i => lockedBy'[j] = lockedBy[j],
         \A m \in ONode : m # n /\ lockedBy[i] = <<m, "evict">> => lockedBy'[i] = lockedBy[i],
         \A m \in ONode : m # n /\ core[m][i].skip => core'[n][i].olk = "NL",
         \A m \in ONode : ScanOK(m)' /\ \A j \in Ino : Referred(m, j)' => core'[m][j].st = "in",
         CoreOK(n, i)', OpenOK(i)', LockOK(i)', KeptOK(i)'
  PROVE  OInv'
<1>1. \A m \in ONode : RefOK(m)'
  BY DEF RefOK
<1>2. \A m \in ONode : DentOK(m)'
  BY DEF OInv, DentOK
<1>3. \A m \in ONode : TaskOK(m)'
  BY DEF OInv, TaskOK, SameStory, IsDir
<1>4. \A j \in Ino, m \in ONode : j # i => core'[m][j] = core[m][j]
  BY DEF CoreOnly
<1>5. ASSUME NEW j \in Ino, j # i PROVE OpenOK(j)' /\ LockOK(j)' /\ KeptOK(j)'
  BY <1>4, <1>5 DEF OInv, OpenOK, LockOK, KeptOK
<1>6. ASSUME NEW j \in Ino, NEW m \in ONode PROVE CoreOK(m, j)'
  <2>1. CASE j # i
    BY <1>4, <2>1 DEF OInv, CoreOK
  <2>2. CASE j = i /\ m # n
    <3>1. CoreOK(m, j) /\ core'[m][j] = core[m][j]
      BY <2>2 DEF OInv, CoreOnly
    <3>2. \A k \in ONode : k # n => core'[k][i] = core[k][i]
      BY DEF CoreOnly
    <3> QED
      BY <2>2, <3>1, <3>2 DEF CoreOK
  <2> QED
    BY <2>1, <2>2
<1>7. DirOK' /\ \A j \in Ino : DiskOK(j)'
  BY DiskStays DEF OInv
<1> QED
  BY <1>1, <1>2, <1>3, <1>5, <1>6, <1>7 DEF OInv

-----------------------------------------------------------------------------
(* Opening, closing, the dentry cache.                                     *)

LEMMA FileOpenStep ==
  ASSUME OInv, NEW n \in oalive, NEW nm \in Name, FileOpen(n, nm)
  PROVE  OInv'
<1>1. PICK i \in Ino : i = dent[n][nm]
  BY DEF OInv, Shape, FileOpen, InoOr0
<1>2. n \in ONode
  BY DEF OInv, Shape
<1>3. PICK c \in Inode : c = core[n][i]
  BY <1>2 DEF OInv, Shape
<1>4. PICK v \in Inode : v = [c EXCEPT !.opens = c.opens + 1]
  <2>1. c.opens + 1 \in Nat
    BY DEF Inode
  <2>2. [c EXCEPT !.opens = c.opens + 1] \in Inode
    BY <2>1, InodeEdit
  <2> QED
    BY <2>2
<1>5. core' = [core EXCEPT ![n][i] = v]
  BY <1>1, <1>3, <1>4 DEF FileOpen
<1>6. CoreOnly(n, i) /\ core'[n][i] = v
  BY <1>2, <1>5, CoreSet DEF OInv
<1>7. \A m \in ONode, j \in Ino : Alike(m, j)
  <2>1. names[nm] = i /\ i # 0
    BY <1>1, <1>2, InoAssumption DEF OInv, DentOK
  <2>2. ~c.skip
    BY <2>1, <1>2, <1>3, NamedLives
  <2> QED
    BY <2>2, <1>3, <1>4, <1>6 DEF CoreOnly, Inode, Alike
<1>8. SameStory
  BY <1>2, DidStays DEF OInv, FileOpen, OpNames
<1>9. \A m \in ONode, j \in Ino : Referred(m, j)' => core[m][j].st = "in"
  <2>1. Referred(n, i)
    BY <1>1 DEF Referred
  <2>2. ASSUME NEW m \in ONode, NEW j \in Ino, Referred(m, j)'
        PROVE  Referred(m, j)
    BY <2>1, <2>2, <1>6 DEF Referred, FileOpen, CoreOnly
  <2> QED
    BY <2>2 DEF OInv, RefOK
<1>10. Shape'
  BY <1>6, <1>8 DEF OInv, Shape, FileOpen, SameStory, CoreOnly
<1>11. \A m \in ONode : ScanOK(m)'
  BY DEF OInv, ScanOK, FileOpen
<1> QED
  BY <1>7, <1>8, <1>9, <1>10, <1>11, AlikeStep DEF FileOpen

LEMMA FileCloseStep ==
  ASSUME OInv, NEW n \in oalive, NEW i \in Ino, FileClose(n, i)
  PROVE  OInv'
<1>2. n \in ONode
  BY DEF OInv, Shape
<1>3. PICK c \in Inode : c = core[n][i]
  BY <1>2 DEF OInv, Shape
<1>4. PICK v \in Inode : v = [c EXCEPT !.opens = c.opens - 1]
  <2>1. c.opens - 1 \in Nat
    BY <1>3 DEF Inode, FileClose
  <2>2. [c EXCEPT !.opens = c.opens - 1] \in Inode
    BY <2>1, InodeEdit
  <2> QED
    BY <2>2
<1>5. core' = [core EXCEPT ![n][i] = v]
  BY <1>3, <1>4 DEF FileClose
<1>6. CoreOnly(n, i) /\ core'[n][i] = v
  BY <1>2, <1>5, CoreSet DEF OInv
<1>7. \A m \in ONode, j \in Ino : Alike(m, j)
  <2>1. ~c.dio
    BY <1>3 DEF FileClose
  <2> QED
    BY <2>1, <1>3, <1>4, <1>6 DEF CoreOnly, Inode, Alike
<1>8. SameStory
  BY StoryStays DEF OInv, FileClose
<1>9. \A m \in ONode, j \in Ino : Referred(m, j)' => core[m][j].st = "in"
  <2>1. Referred(n, i)
    BY DEF Referred, FileClose
  <2>2. ASSUME NEW m \in ONode, NEW j \in Ino, Referred(m, j)'
        PROVE  Referred(m, j)
    BY <2>1, <2>2, <1>6 DEF Referred, FileClose, CoreOnly
  <2> QED
    BY <2>2 DEF OInv, RefOK
<1>10. Shape'
  BY <1>6, <1>8 DEF OInv, Shape, FileClose, SameStory, CoreOnly
<1>11. \A m \in ONode : ScanOK(m)'
  BY DEF OInv, ScanOK, FileClose
<1> QED
  BY <1>7, <1>8, <1>9, <1>10, <1>11, AlikeStep DEF FileClose

LEMMA CoreUnchanged ==
  ASSUME UNCHANGED core
  PROVE  \A m \in ONode, j \in Ino : Alike(m, j)
BY DEF Alike

LEMMA DentryDropStep ==
  ASSUME OInv, NEW n \in oalive, NEW nm \in Name, DentryDrop(n, nm)
  PROVE  OInv'
<1>1. n \in ONode /\ dent \in [ONode -> [Name -> InoOr0]]
  BY DEF OInv, Shape
<1>2. /\ dent' \in [ONode -> [Name -> InoOr0]]
      /\ \A m \in ONode, x \in Name : dent'[m][x] = 0 \/ dent'[m][x] = dent[m][x]
  <2>1. [dent[n] EXCEPT ![nm] = 0] \in [Name -> InoOr0]
    BY <1>1 DEF InoOr0
  <2>2. dent' = [dent EXCEPT ![n] = [dent[n] EXCEPT ![nm] = 0]]
    BY <1>1 DEF DentryDrop
  <2> QED
    BY <1>1, <2>1, <2>2
<1>3. SameStory
  BY StoryStays DEF OInv, DentryDrop
<1>4. \A m \in ONode, j \in Ino : Referred(m, j)' => core[m][j].st = "in"
  <2>1. ASSUME NEW m \in ONode, NEW j \in Ino, Referred(m, j)'
        PROVE  Referred(m, j)
    BY <2>1, <1>2, InoAssumption DEF Referred, DentryDrop
  <2> QED
    BY <2>1 DEF OInv, RefOK
<1>5. Shape'
  BY <1>2, <1>3 DEF OInv, Shape, DentryDrop, SameStory
<1>6. \A m \in ONode : ScanOK(m)'
  BY DEF OInv, ScanOK, DentryDrop
<1>7. \A m \in ONode, j \in Ino : Alike(m, j)
  BY CoreUnchanged DEF DentryDrop
<1> QED
  BY <1>2, <1>3, <1>4, <1>5, <1>6, <1>7, AlikeStep DEF DentryDrop

LEMMA DentryConvertStep ==
  ASSUME OInv, NEW n \in oalive, NEW m \in oalive, DentryConvert(n, m)
  PROVE  OInv'
<1>1. n \in ONode /\ dent \in [ONode -> [Name -> InoOr0]] /\ core \in [ONode -> [Ino -> Inode]]
  BY DEF OInv, Shape
<1>2. PICK i \in Ino : /\ core' = [core EXCEPT ![n][i].maybe = TRUE]
                       /\ dent' = [dent EXCEPT ![n] = [nm \in Name |-> IF @[nm] = i THEN 0 ELSE @[nm]]]
  <2>1. PICK i \in {task[m].ino, task[m].old} \ {0} :
          /\ core' = [core EXCEPT ![n][i].maybe = TRUE]
          /\ dent' = [dent EXCEPT ![n] = [nm \in Name |-> IF @[nm] = i THEN 0 ELSE @[nm]]]
    BY DEF DentryConvert
  <2>2. task[m] \in Tasks
    BY DEF OInv, Shape
  <2>3. i \in Ino
    BY <2>2 DEF Tasks, InoOr0
  <2> QED
    BY <2>1, <2>3
<1>3. PICK c \in Inode : c = core[n][i]
  BY <1>1
<1>4. PICK v \in Inode : v = [c EXCEPT !.maybe = TRUE]
  BY InodeEdit
<1>5. core' = [core EXCEPT ![n][i] = v]
  BY <1>2, <1>3, <1>4
<1>6. CoreOnly(n, i) /\ core'[n][i] = v
  BY <1>1, <1>5, CoreSet DEF OInv
<1>7. \A k \in ONode, j \in Ino : Alike(k, j)
  BY <1>3, <1>4, <1>6 DEF CoreOnly, Inode, Alike
<1>8. /\ dent' \in [ONode -> [Name -> InoOr0]]
      /\ \A k \in ONode, x \in Name : dent'[k][x] = 0 \/ dent'[k][x] = dent[k][x]
  <2>1. [nm \in Name |-> IF dent[n][nm] = i THEN 0 ELSE dent[n][nm]] \in [Name -> InoOr0]
    BY <1>1 DEF InoOr0
  <2>2. dent' = [dent EXCEPT ![n] = [nm \in Name |-> IF dent[n][nm] = i THEN 0 ELSE dent[n][nm]]]
    BY <1>2
  <2> QED
    BY <1>1, <2>1, <2>2
<1>9. SameStory
  BY StoryStays DEF OInv, DentryConvert
<1>10. \A k \in ONode, j \in Ino : Referred(k, j)' => core[k][j].st = "in"
  <2>0. \A k \in ONode, j \in Ino : core'[k][j].opens = core[k][j].opens
    BY <1>3, <1>4, <1>6 DEF CoreOnly, Inode
  <2>1. ASSUME NEW k \in ONode, NEW j \in Ino, Referred(k, j)'
        PROVE  Referred(k, j)
    BY <2>0, <2>1, <1>8, InoAssumption DEF Referred, DentryConvert
  <2> QED
    BY <2>1 DEF OInv, RefOK
<1>11. Shape'
  BY <1>6, <1>8, <1>9 DEF OInv, Shape, DentryConvert, SameStory, CoreOnly
<1>12. \A k \in ONode : ScanOK(k)'
  BY DEF OInv, ScanOK, DentryConvert
<1> QED
  BY <1>7, <1>8, <1>9, <1>10, <1>11, <1>12, AlikeStep DEF DentryConvert

-----------------------------------------------------------------------------
(* Eviction.                                                               *)

LEMMA EvictStartStep ==
  ASSUME OInv, NEW n \in oalive, NEW i \in Ino, EvictStart(n, i)
  PROVE  OInv'
<1>1. n \in ONode
  BY DEF OInv, Shape
<1>2. PICK c \in Inode : c = core[n][i]
  BY <1>1 DEF OInv, Shape
<1>3. PICK st \in {"evict", "clear"} : st = IF c.links = 0 \/ c.maybe THEN "evict" ELSE "clear"
  OBVIOUS
<1>4. PICK v \in Inode : v = [c EXCEPT !.st = st]
  BY InodeEdit DEF States
<1>5. core' = [core EXCEPT ![n][i] = v]
  BY <1>2, <1>3, <1>4 DEF EvictStart
<1>6. CoreOnly(n, i) /\ core'[n][i] = v
  BY <1>1, <1>5, CoreSet DEF OInv
<1>7. /\ v.st = st /\ v.olk = c.olk /\ v.links = c.links /\ v.life = c.life /\ v.opens = c.opens
      /\ v.skip <=> c.skip
      /\ v.dio <=> c.dio
  BY <1>4 DEF Inode
<1>8. c.st = "in" /\ ~Referred(n, i) /\ c.opens \in Nat /\ c.opens = 0
  BY <1>2 DEF EvictStart, Referred, Inode
<1>9. SameStory
  BY StoryStays DEF OInv, EvictStart
<1>10. Shape'
  BY <1>6, <1>9 DEF OInv, Shape, EvictStart, SameStory, CoreOnly
<1>11. \A m \in ONode : ScanOK(m)' /\ \A j \in Ino : Referred(m, j)' => core'[m][j].st = "in"
  <2>1. ASSUME NEW m \in ONode, NEW j \in Ino, Referred(m, j)'
        PROVE  core'[m][j].st = "in"
    <3>1. Referred(m, j)
      BY <2>1, <1>2, <1>6, <1>7 DEF Referred, EvictStart, CoreOnly
    <3> QED
      BY <3>1, <1>6, <1>8 DEF OInv, RefOK, CoreOnly
  <2> QED
    BY <2>1 DEF OInv, ScanOK, EvictStart
<1>12. CoreOK(n, i)'
  <2>1. CoreOK(n, i)
    BY <1>1 DEF OInv
  <2> QED
    BY <2>1, <1>2, <1>3, <1>6, <1>7, <1>8 DEF CoreOK, EvictStart, CoreOnly
<1>13. OpenOK(i)' /\ KeptOK(i)'
  <2>1. \A m \in ONode : core'[m][i].olk = core[m][i].olk /\ (core'[m][i].skip <=> core[m][i].skip)
    BY <1>2, <1>6, <1>7 DEF CoreOnly
  <2> QED
    BY <2>1 DEF OInv, OpenOK, KeptOK, EvictStart
<1>14. LockOK(i)'
  <2>1. \A m \in ONode : core'[m][i].links = core[m][i].links
    BY <1>2, <1>6, <1>7 DEF CoreOnly
  <2> QED
    BY <2>1 DEF OInv, LockOK, EvictStart
<1>15. \A m \in ONode : m # n /\ core[m][i].skip => core'[n][i].olk = "NL"
  BY <1>1, <1>2, <1>6, <1>7 DEF OInv, CoreOK
<1> QED
  BY <1>1, <1>6, <1>9, <1>10, <1>11, <1>12, <1>13, <1>14, <1>15, InodeStep DEF EvictStart

LEMMA DeleteQueryStep ==
  ASSUME OInv, NEW n \in oalive, NEW i \in Ino, DeleteQuery(n, i)
  PROVE  OInv'
<1>1. n \in ONode
  BY DEF OInv, Shape
<1>2. PICK c \in Inode : c = core[n][i]
  BY <1>1 DEF OInv, Shape
<1>0. SameStory
  BY StoryStays DEF OInv, DeleteQuery
<1>k. CoreOK(n, i) /\ c.st = "evict" /\ lockedBy[i] = Free
  BY <1>1, <1>2 DEF OInv, DeleteQuery
<1>r. ASSUME NEW v \in Inode, core' = [core EXCEPT ![n][i] = v], v.opens = c.opens
      PROVE  \A m \in ONode : ScanOK(m)' /\ \A j \in Ino : Referred(m, j)' => core'[m][j].st = "in"
  <2>1. CoreOnly(n, i) /\ core'[n][i] = v
    BY <1>1, <1>r, CoreSet DEF OInv
  <2>2. ASSUME NEW m \in ONode, NEW j \in Ino, Referred(m, j)'
        PROVE  core'[m][j].st = "in"
    <3>1. Referred(m, j)
      BY <2>1, <2>2, <1>2, <1>r DEF Referred, DeleteQuery, CoreOnly
    <3>2. core[m][j].st = "in"
      BY <3>1 DEF OInv, RefOK
    <3> QED
      BY <3>2, <2>1, <1>2, <1>k DEF CoreOnly
  <2> QED
    BY <2>2 DEF OInv, ScanOK, DeleteQuery
<1>3. CASE MayWipe(n, i)
  <2>1. PICK w \in Inode : w = [c EXCEPT !.st = "wipe"]
    BY InodeEdit DEF States
  <2>2. PICK v \in Inode : v = [w EXCEPT !.olk = "EX"]
    BY InodeEdit
  <2>3. core' = [core EXCEPT ![n][i] = v] /\ lockedBy' = [lockedBy EXCEPT ![i] = <<n, "evict">>]
    <3>1. /\ core' = [core EXCEPT ![n][i].st = "wipe", ![n][i].olk = "EX"]
          /\ lockedBy' = [lockedBy EXCEPT ![i] = <<n, "evict">>]
      BY <1>3 DEF DeleteQuery
    <3>2. core \in [ONode -> [Ino -> Inode]]
      BY DEF OInv, Shape
    <3> DEFINE x == [core EXCEPT ![n][i] = w]
    <3>3. x = [core EXCEPT ![n][i].st = "wipe"]
      BY <1>2, <2>1
    <3>4. [x EXCEPT ![n][i].olk = "EX"] = [core EXCEPT ![n][i] = v]
      BY <1>1, <2>2, <3>2
    <3> QED
      BY <3>1, <3>3, <3>4
  <2>4. CoreOnly(n, i) /\ core'[n][i] = v
    BY <1>1, <2>3, CoreSet DEF OInv
  <2>5. /\ v.st = "wipe" /\ v.olk = "EX" /\ v.links = c.links /\ v.life = c.life /\ v.opens = c.opens
        /\ v.skip <=> c.skip
        /\ v.dio <=> c.dio
    BY <2>1, <2>2 DEF Inode
  <2>6. /\ lockedBy' \in [Ino -> Holders] /\ lockedBy'[i] = <<n, "evict">>
        /\ \A j \in Ino : j # i => lockedBy'[j] = lockedBy[j]
    BY <1>1, <2>3 DEF OInv, Shape, Holders
  <2>7. Shape'
    BY <2>4, <2>6, <1>0 DEF OInv, Shape, DeleteQuery, SameStory, CoreOnly
  <2>8. /\ \A m \in ONode : m # n => core[m][i].olk = "NL"
        /\ dinode[i].dio = 0 /\ dinode[i].links = 0 /\ dinode[i].valid
        /\ dinode[i].orphan # 0 \/ c.skip
    BY <1>2, <1>3 DEF MayWipe, OpenElsewhere
  <2>9. CoreOK(n, i)'
    BY <1>2, <1>k, <2>4, <2>5, <2>6, <2>8 DEF CoreOK, DeleteQuery, CoreOnly
  <2>10. OpenOK(i)' /\ KeptOK(i)'
    <3>1. \A m \in ONode : core'[m][i].skip <=> core[m][i].skip
      BY <1>2, <2>4, <2>5 DEF CoreOnly
    <3>2. \A m \in ONode : m # n => core'[m][i].olk = "NL"
      BY <2>4, <2>8 DEF CoreOnly
    <3>3. OpenOK(i)'
      BY <2>4, <2>5, <2>8, <3>2 DEF OpenOK, DeleteQuery
    <3> QED
      BY <3>1, <3>3 DEF OInv, KeptOK, DeleteQuery
  <2>11. LockOK(i)'
    BY <2>6 DEF LockOK
  <2>12. \A m \in ONode : m # n => ~core[m][i].skip
    BY <2>8 DEF OInv, CoreOK
  <2>13. \A m \in ONode : m # n => lockedBy[i] # <<m, "evict">>
    BY <1>k, ONodeAssumption DEF Free
  <2> QED
    BY <1>0, <1>1, <1>r, <2>3, <2>4, <2>5, <2>6, <2>7, <2>9, <2>10, <2>11, <2>12, <2>13, InodeStep DEF DeleteQuery
<1>4. CASE ~MayWipe(n, i)
  <2>1. PICK v \in Inode : v = [c EXCEPT !.st = "clear"]
    BY InodeEdit DEF States
  <2>3. core' = [core EXCEPT ![n][i] = v] /\ lockedBy' = lockedBy
    BY <1>2, <1>4, <2>1 DEF DeleteQuery
  <2>4. CoreOnly(n, i) /\ core'[n][i] = v
    BY <1>1, <2>3, CoreSet DEF OInv
  <2>5. /\ v.st = "clear" /\ v.olk = c.olk /\ v.links = c.links /\ v.life = c.life /\ v.opens = c.opens
        /\ v.skip <=> c.skip
        /\ v.dio <=> c.dio
    BY <2>1 DEF Inode
  <2>7. Shape'
    BY <2>3, <2>4, <1>0 DEF OInv, Shape, DeleteQuery, SameStory, CoreOnly
  <2>8. ~c.skip
    BY <1>1, <1>2, <1>4, <1>k DEF CoreOK, MayWipe, OpenElsewhere
  <2>9. CoreOK(n, i)'
    BY <1>2, <1>k, <2>3, <2>4, <2>5, <2>8 DEF CoreOK, DeleteQuery, CoreOnly
  <2>10. OpenOK(i)' /\ KeptOK(i)'
    <3>1. \A m \in ONode : core'[m][i].olk = core[m][i].olk /\ (core'[m][i].skip <=> core[m][i].skip)
      BY <1>2, <2>4, <2>5 DEF CoreOnly
    <3> QED
      BY <3>1 DEF OInv, OpenOK, KeptOK, DeleteQuery
  <2>11. LockOK(i)'
    BY <2>3, <1>k, ONodeAssumption DEF LockOK, Free
  <2>12. \A m \in ONode : m # n /\ core[m][i].skip => core'[n][i].olk = "NL"
    BY <1>1, <1>2, <2>4, <2>5 DEF OInv, CoreOK
  <2> QED
    BY <1>0, <1>1, <1>r, <2>3, <2>4, <2>5, <2>7, <2>9, <2>10, <2>11, <2>12, InodeStep DEF DeleteQuery
<1> QED
  BY <1>3, <1>4

LEMMA WipeStartStep ==
  ASSUME OInv, NEW n \in oalive, NEW i \in Ino, WipeStart(n, i)
  PROVE  OInv'
<1>1. n \in ONode
  BY DEF OInv, Shape
<1>2. PICK c \in Inode : c = core[n][i]
  BY <1>1 DEF OInv, Shape
<1>3. SameStory
  BY StoryStays DEF OInv, WipeStart
<1>4. /\ CoreOK(n, i) /\ c.st = "wipe" /\ lockedBy[i] = <<n, "evict">>
      /\ dinode[i].links = 0 /\ dinode[i].dio = 0 /\ (c.skip \/ dinode[i].orphan # 0) /\ c.olk = "EX"
  BY <1>1, <1>2 DEF OInv, WipeStart, CoreOK
<1>5. PICK st \in {"wiping", "clear"} :
        /\ core' = [core EXCEPT ![n][i].st = st]
        /\ lockedBy' = [lockedBy EXCEPT ![i] = IF st = "clear" THEN Free ELSE @]
        /\ st = "clear" => ~c.skip
  <2>0. lockedBy = [lockedBy EXCEPT ![i] = @]
    BY DEF OInv, Shape
  <2>1. CASE c.skip
    BY <1>2, <2>0, <2>1 DEF WipeStart
  <2>2. CASE ~c.skip /\ DeadlockAhead(n, dinode[i].orphan)
    BY <1>2, <2>2 DEF WipeStart
  <2>3. CASE ~c.skip /\ ~DeadlockAhead(n, dinode[i].orphan)
    BY <1>2, <2>0, <2>3 DEF WipeStart
  <2> QED
    BY <2>1, <2>2, <2>3
<1>6. PICK v \in Inode : v = [c EXCEPT !.st = st]
  BY InodeEdit DEF States
<1>7. core' = [core EXCEPT ![n][i] = v]
  BY <1>2, <1>5, <1>6
<1>8. CoreOnly(n, i) /\ core'[n][i] = v
  BY <1>1, <1>7, CoreSet DEF OInv
<1>9. /\ v.st = st /\ v.olk = c.olk /\ v.links = c.links /\ v.life = c.life /\ v.opens = c.opens
      /\ v.skip <=> c.skip
      /\ v.dio <=> c.dio
  BY <1>6 DEF Inode
<1>10. /\ lockedBy' \in [Ino -> Holders] /\ \A j \in Ino : j # i => lockedBy'[j] = lockedBy[j]
       /\ lockedBy'[i] = IF st = "clear" THEN Free ELSE <<n, "evict">>
  BY <1>4, <1>5 DEF OInv, Shape, Holders
<1>11. Shape'
  BY <1>3, <1>8, <1>10 DEF OInv, Shape, WipeStart, SameStory, CoreOnly
<1>12. \A m \in ONode : ScanOK(m)' /\ \A j \in Ino : Referred(m, j)' => core'[m][j].st = "in"
  <2>1. ASSUME NEW m \in ONode, NEW j \in Ino, Referred(m, j)'
        PROVE  core'[m][j].st = "in"
    <3>1. Referred(m, j)
      BY <2>1, <1>2, <1>8, <1>9 DEF Referred, WipeStart, CoreOnly
    <3>2. core[m][j].st = "in"
      BY <3>1 DEF OInv, RefOK
    <3> QED
      BY <3>2, <1>2, <1>4, <1>8 DEF CoreOnly
  <2> QED
    BY <2>1 DEF OInv, ScanOK, WipeStart
<1>13. CoreOK(n, i)'
  BY <1>2, <1>4, <1>5, <1>8, <1>9, <1>10 DEF CoreOK, WipeStart, CoreOnly
<1>14. OpenOK(i)' /\ KeptOK(i)'
  <2>1. \A m \in ONode : core'[m][i].olk = core[m][i].olk /\ (core'[m][i].skip <=> core[m][i].skip)
    BY <1>2, <1>8, <1>9 DEF CoreOnly
  <2> QED
    BY <2>1 DEF OInv, OpenOK, KeptOK, WipeStart
<1>15. LockOK(i)'
  BY <1>10, ONodeAssumption DEF LockOK, Free
<1>16. \A m \in ONode : m # n /\ core[m][i].skip => core'[n][i].olk = "NL"
  BY <1>1, <1>2, <1>4 DEF OInv, CoreOK
<1>17. \A m \in ONode : m # n => lockedBy[i] # <<m, "evict">>
  BY <1>4
<1> QED
  BY <1>1, <1>3, <1>8, <1>10, <1>11, <1>12, <1>13, <1>14, <1>15, <1>16, <1>17, InodeStep DEF WipeStart

LEMMA ClearInodeStep ==
  ASSUME OInv, NEW n \in oalive, NEW i \in Ino, ClearInode(n, i)
  PROVE  OInv'
<1>1. n \in ONode
  BY DEF OInv, Shape
<1>2. PICK c \in Inode : c = core[n][i]
  BY <1>1 DEF OInv, Shape
<1>3. SameStory
  BY StoryStays DEF OInv, ClearInode
<1>4. CoreOK(n, i) /\ c.st = "clear" /\ ~Referred(n, i)
  BY <1>1, <1>2 DEF OInv, ClearInode, RefOK
<1>5. Absent \in Inode
  BY DEF Absent, Inode, States
<1>6. CoreOnly(n, i) /\ core'[n][i] = Absent
  BY <1>1, <1>5, CoreSet DEF OInv, ClearInode
<1>7. Shape'
  BY <1>3, <1>6 DEF OInv, Shape, ClearInode, SameStory, CoreOnly
<1>8. \A m \in ONode : ScanOK(m)' /\ \A j \in Ino : Referred(m, j)' => core'[m][j].st = "in"
  <2>1. ASSUME NEW m \in ONode, NEW j \in Ino, Referred(m, j)'
        PROVE  core'[m][j].st = "in"
    <3>1. Referred(m, j)
      BY <2>1, <1>2, <1>6 DEF Referred, ClearInode, CoreOnly, Absent
    <3>2. core[m][j].st = "in"
      BY <3>1 DEF OInv, RefOK
    <3> QED
      BY <3>2, <1>2, <1>4, <1>6 DEF CoreOnly
  <2> QED
    BY <2>1 DEF OInv, ScanOK, ClearInode
<1>9. CoreOK(n, i)'
  BY <1>6 DEF CoreOK, Absent
<1>10. OpenOK(i)'
  <2>1. \A m \in ONode : m # n => core'[m][i] = core[m][i]
    BY <1>6 DEF CoreOnly
  <2> QED
    BY <2>1, <1>6 DEF OInv, OpenOK, ClearInode, Absent
<1>11. KeptOK(i)'
  <2>1. dinode[i].valid => ~c.skip
    BY <1>2, <1>4 DEF CoreOK
  <2>2. dinode[i].valid => \A m \in ONode : core[m][i].skip => core'[m][i].skip
    BY <2>1, <1>2, <1>6 DEF CoreOnly
  <2> QED
    BY <2>2 DEF OInv, KeptOK, ClearInode
<1>12. LockOK(i)'
  <2>1. lockedBy[i] # <<n, "task">>
    BY <1>1, <1>4 DEF OInv, LockOK, Referred
  <2> QED
    BY <2>1, <1>6 DEF OInv, LockOK, ClearInode, CoreOnly
<1>13. core'[n][i].olk = "NL"
  BY <1>6 DEF Absent
<1> QED
  BY <1>1, <1>3, <1>6, <1>7, <1>8, <1>9, <1>10, <1>11, <1>12, <1>13, InodeStep DEF ClearInode

-----------------------------------------------------------------------------
(* Operations on names begin.                                              *)

LEMMA TaskStep ==
  ASSUME OInv, SameStory, Shape', UNCHANGED <<oalive, names, dirLinks, dinode, orphanDir, core, dent, scan, lockedBy>>,
         \A m \in ONode : TaskOK(m)' /\ \A j \in Ino : Referred(m, j)' => core[m][j].st = "in",
         \A j \in Ino : LockOK(j)'
  PROVE  OInv'
<1>1. \A m \in ONode : RefOK(m)'
  BY DEF RefOK
<1>2. \A m \in ONode : DentOK(m)' /\ ScanOK(m)'
  BY DEF OInv, DentOK, ScanOK
<1>3. \A j \in Ino : OpenOK(j)' /\ KeptOK(j)'
  BY DEF OInv, OpenOK, KeptOK
<1>4. ASSUME NEW j \in Ino, NEW m \in ONode PROVE CoreOK(m, j)'
  <2>1. CoreOK(m, j)
    BY DEF OInv
  <2> QED
    BY <2>1 DEF CoreOK
<1>5. DirOK' /\ \A j \in Ino : DiskOK(j)'
  BY DiskStays DEF OInv
<1> QED
  BY <1>1, <1>2, <1>3, <1>4, <1>5 DEF OInv

\* Nobody has an inode's lock who has not begun an operation on names.
LEMMA NoTaskNoLock ==
  ASSUME OInv, NEW n \in ONode, task[n].op \notin NameOps, NEW i \in Ino
  PROVE  lockedBy[i] # <<n, "task">>
BY DEF OInv, LockOK

LEMMA LookupStartStep ==
  ASSUME OInv, NEW n \in oalive, NEW nm \in Name, LookupStart(n, nm)
  PROVE  OInv'
<1>1. n \in ONode /\ task \in [ONode -> Tasks] /\ dirBy = 0 /\ names[nm] # 0 /\ task[n] = NoTask
  BY DEF OInv, Shape, LookupStart, Idle
<1>2. PICK v \in Tasks : v = [op |-> "lookup", from |-> nm, to |-> 0, ino |-> 0, old |-> 0]
  BY DEF Tasks, NameOr0, InoOr0
<1>3. task' = [task EXCEPT ![n] = v] /\ dirBy' = n
  BY <1>2 DEF LookupStart, Begin
<1>4. task' \in [ONode -> Tasks] /\ task'[n] = v /\ \A m \in ONode : m # n => task'[m] = task[m]
  BY <1>1, <1>3
<1>5. SameStory
  BY StoryStays DEF OInv, LookupStart
<1>6. Shape'
  BY <1>1, <1>3, <1>4, <1>5 DEF OInv, Shape, LookupStart, SameStory, NodeOr0
<1>7. ASSUME NEW m \in ONode, NEW j \in Ino, Referred(m, j)'
      PROVE  core[m][j].st = "in"
  <2>1. Referred(m, j)
    BY <1>2, <1>4, <1>7, InoAssumption DEF Referred, LookupStart
  <2> QED
    BY <2>1 DEF OInv, RefOK
<1>8. ASSUME NEW m \in ONode PROVE TaskOK(m)'
  <2>1. CASE m = n
    BY <2>1, <1>1, <1>2, <1>3, <1>4 DEF TaskOK, LookupStart, NameOps
  <2>2. CASE m # n
    <3>1. TaskOK(m) /\ task'[m] = task[m] /\ m # 0
      BY <2>2, <1>4, ONodeAssumption DEF OInv
    <3> QED
      BY <3>1, <1>1, <1>5 DEF TaskOK, LookupStart, SameStory, IsDir, NameOps
  <2> QED
    BY <2>1, <2>2
<1>9. ASSUME NEW j \in Ino PROVE LockOK(j)'
  <2>1. task[n].op \notin NameOps
    BY <1>1 DEF NoTask, NameOps
  <2>2. lockedBy[j] # <<n, "task">>
    BY <2>1, <1>1, NoTaskNoLock
  <2> QED
    BY <2>2, <1>4 DEF OInv, LockOK, LookupStart
<1> QED
  BY <1>5, <1>6, <1>7, <1>8, <1>9, TaskStep DEF LookupStart

LEMMA NameStartStep ==
  ASSUME OInv, NEW n \in oalive, NEW op \in NameOps, NEW from \in Name, NEW to \in NameOr0,
         op # "unlink" => to \in Name, NameStart(n, op, from, to)
  PROVE  OInv'
<1>1. n \in ONode /\ task \in [ONode -> Tasks] /\ dirBy = 0 /\ task[n] = NoTask
  BY DEF OInv, Shape, NameStart, Idle
<1>2. SameStory
  BY <1>1, DidStays DEF OInv, NameStart, OpNames, NameOps
<1>3. CASE names[from] # dent[n][from]
  <2>1. UNCHANGED <<task, dirBy>>
    BY <1>3 DEF NameStart
  <2>2. Shape'
    BY <2>1, <1>2 DEF OInv, Shape, NameStart, SameStory
  <2>3. ASSUME NEW m \in ONode, NEW j \in Ino, Referred(m, j)'
        PROVE  core[m][j].st = "in"
    <3>1. Referred(m, j)
      BY <2>1, <2>3 DEF Referred, NameStart
    <3> QED
      BY <3>1 DEF OInv, RefOK
  <2>4. \A m \in ONode : TaskOK(m)'
    BY <2>1, <1>2 DEF OInv, TaskOK, NameStart, SameStory, IsDir
  <2>5. \A j \in Ino : LockOK(j)'
    BY <2>1 DEF OInv, LockOK, NameStart
  <2> QED
    BY <1>2, <2>2, <2>3, <2>4, <2>5, TaskStep DEF NameStart
<1>4. CASE names[from] = dent[n][from]
  <2>1. PICK i \in Ino : i = dent[n][from] /\ names[from] = i
    BY <1>1, <1>4 DEF OInv, Shape, NameStart, InoOr0
  <2>2. PICK old \in InoOr0 : old = IF op = "rename" THEN names[to] ELSE 0
    BY DEF OInv, Shape, InoOr0, NameOps
  <2>3. PICK v \in Tasks : v = [op |-> op, from |-> from, to |-> to, ino |-> i, old |-> old]
    BY DEF Tasks, NameOr0, InoOr0
  <2>4. task' = [task EXCEPT ![n] = v] /\ dirBy' = n
    BY <1>4, <2>1, <2>2, <2>3 DEF NameStart, Begin
  <2>5. task' \in [ONode -> Tasks] /\ task'[n] = v /\ \A m \in ONode : m # n => task'[m] = task[m]
    BY <1>1, <2>4
  <2>6. Shape'
    BY <1>1, <1>2, <2>4, <2>5 DEF OInv, Shape, NameStart, SameStory, NodeOr0
  <2>7. ASSUME NEW m \in ONode, NEW j \in Ino, Referred(m, j)'
        PROVE  core[m][j].st = "in"
    <3>1. Referred(m, j) \/ (m = n /\ (j = i \/ j = old))
      BY <2>3, <2>5, <2>7 DEF Referred, NameStart
    <3>2. Referred(n, i)
      BY <2>1 DEF Referred
    <3>3. j = old => Referred(n, j)
      <4>1. CASE op = "rename"
        BY <4>1, <2>2 DEF Referred, NameStart
      <4>2. CASE op # "rename"
        BY <4>2, <2>2, InoAssumption
      <4> QED
        BY <4>1, <4>2
    <3> QED
      BY <1>1, <3>1, <3>2, <3>3 DEF OInv, RefOK
  <2>8. ASSUME NEW m \in ONode PROVE TaskOK(m)'
    <3>1. CASE m = n
      <4>1. names[from] = i /\ i # 0 /\ v.op = op /\ v.from = from /\ v.to = to /\ v.ino = i /\ v.old = old
        BY <2>1, <2>3, InoAssumption
      <4>2. op = "link" => to \in Name /\ names[to] = 0 /\ ~IsDir(i) /\ old = 0
        BY <2>1, <2>2 DEF NameStart
      <4>3. op = "unlink" => old = 0
        BY <2>2
      <4>4. op = "rename" => to \in Name /\ names[to] = old /\ old # i /\ (old # 0 => IsDir(old) = IsDir(i))
        BY <2>1, <2>2 DEF NameStart
      <4> QED
        BY <3>1, <1>2, <2>4, <2>5, <4>1, <4>2, <4>3, <4>4 DEF TaskOK, NameStart, NameOps, SameStory, IsDir
    <3>2. CASE m # n
      <4>1. TaskOK(m) /\ task'[m] = task[m] /\ m # 0
        BY <3>2, <2>5, ONodeAssumption DEF OInv
      <4> QED
        BY <4>1, <1>1, <1>2 DEF TaskOK, NameStart, SameStory, IsDir, NameOps
    <3> QED
      BY <3>1, <3>2
  <2>9. ASSUME NEW j \in Ino PROVE LockOK(j)'
    <3>1. task[n].op \notin NameOps
      BY <1>1 DEF NoTask, NameOps
    <3>2. lockedBy[j] # <<n, "task">>
      BY <3>1, <1>1, NoTaskNoLock
    <3> QED
      BY <3>2, <2>5 DEF OInv, LockOK, NameStart
  <2> QED
    BY <1>2, <2>6, <2>7, <2>8, <2>9, TaskStep DEF NameStart
<1> QED
  BY <1>3, <1>4

LEMMA NameLockStep ==
  ASSUME OInv, NEW n \in oalive, NameLock(n)
  PROVE  OInv'
<1>1. n \in ONode /\ task[n] \in Tasks /\ task[n].op \in NameOps
  BY DEF OInv, Shape, NameLock, NameOps
<1>2. PICK i \in Ino : /\ i \in {task[n].ino, task[n].old} /\ lockedBy[i] = Free
                       /\ lockedBy' = [lockedBy EXCEPT ![i] = <<n, "task">>]
                       /\ core' = [core EXCEPT ![n][i].links = dinode[i].links]
  <2> DEFINE j == IF lockedBy[task[n].ino] # <<n, "task">> THEN task[n].ino ELSE task[n].old
  <2>1. j \in {task[n].ino, task[n].old} /\ j # 0
    BY DEF NameLock
  <2>2. j \in Ino
    BY <1>1, <2>1 DEF Tasks, InoOr0
  <2> QED
    BY <2>1, <2>2 DEF NameLock, Fresh
<1>0. UNCHANGED <<ostory, oalive, names, dirLinks, dinode, orphanDir, dent, task, scan, wipes, dirBy>>
  BY DEF NameLock
<1>3. PICK c \in Inode : c = core[n][i]
  BY <1>1 DEF OInv, Shape
<1>4. PICK d \in Dinode : d = dinode[i]
  BY DEF OInv, Shape
<1>5. PICK v \in Inode : v = [c EXCEPT !.links = d.links]
  <2>1. d.links \in Nat
    BY DEF Dinode
  <2> QED
    BY <2>1, InodeEdit
<1>6. core' = [core EXCEPT ![n][i] = v]
  BY <1>2, <1>3, <1>4, <1>5
<1>7. CoreOnly(n, i) /\ core'[n][i] = v
  BY <1>1, <1>6, CoreSet DEF OInv
<1>8. /\ v.st = c.st /\ v.olk = c.olk /\ v.links = d.links /\ v.life = c.life /\ v.opens = c.opens
      /\ v.skip <=> c.skip
      /\ v.dio <=> c.dio
  BY <1>5 DEF Inode
<1>9. SameStory
  BY <1>0, StoryStays DEF OInv
<1>10. /\ lockedBy' \in [Ino -> Holders] /\ lockedBy'[i] = <<n, "task">>
       /\ \A j \in Ino : j # i => lockedBy'[j] = lockedBy[j]
  BY <1>1, <1>2 DEF OInv, Shape, Holders
<1>11. Shape'
  BY <1>0, <1>7, <1>9, <1>10 DEF OInv, Shape, SameStory, CoreOnly
<1>12. \A m \in ONode : ScanOK(m)' /\ \A j \in Ino : Referred(m, j)' => core'[m][j].st = "in"
  <2>1. ASSUME NEW m \in ONode, NEW j \in Ino, Referred(m, j)'
        PROVE  core'[m][j].st = "in"
    <3>1. Referred(m, j)
      BY <1>0, <2>1, <1>3, <1>7, <1>8 DEF Referred, CoreOnly
    <3>2. core[m][j].st = "in"
      BY <3>1 DEF OInv, RefOK
    <3> QED
      BY <3>2, <1>3, <1>7, <1>8 DEF CoreOnly
  <2> QED
    BY <1>0, <2>1 DEF OInv, ScanOK
<1>13. c.st = "in"
  <2>1. Referred(n, i)
    BY <1>2 DEF Referred
  <2> QED
    BY <1>1, <1>3, <2>1 DEF OInv, RefOK
<1>14. CoreOK(n, i)'
  <2>1. CoreOK(n, i)
    BY <1>1 DEF OInv
  <2> QED
    BY <1>0, <2>1, <1>3, <1>4, <1>7, <1>8, <1>13 DEF CoreOK, CoreOnly
<1>15. OpenOK(i)' /\ KeptOK(i)'
  <2>1. \A m \in ONode : core'[m][i].olk = core[m][i].olk /\ (core'[m][i].skip <=> core[m][i].skip)
    BY <1>3, <1>7, <1>8 DEF CoreOnly
  <2> QED
    BY <1>0, <2>1 DEF OInv, OpenOK, KeptOK
<1>16. LockOK(i)'
  BY <1>0, <1>1, <1>2, <1>4, <1>7, <1>8, <1>10 DEF LockOK
<1>17. \A m \in ONode : m # n /\ core[m][i].skip => core'[n][i].olk = "NL"
  BY <1>1, <1>3, <1>7, <1>8 DEF OInv, CoreOK
<1>18. \A m \in ONode : m # n => lockedBy[i] # <<m, "evict">>
  BY <1>2, ONodeAssumption DEF Free
<1> QED
  BY <1>0, <1>1, <1>7, <1>9, <1>10, <1>11, <1>12, <1>14, <1>15, <1>16, <1>17, <1>18, InodeStep

\* An inode that is read
LEMMA FromDiskIs ==
  ASSUME Shape, NEW i \in Ino
  PROVE  /\ FromDisk(i) \in Inode
         /\ FromDisk(i).st = "in" /\ FromDisk(i).olk = "PR" /\ FromDisk(i).opens = 0
         /\ FromDisk(i).links = dinode[i].links /\ FromDisk(i).life = dinode[i].life
         /\ ~FromDisk(i).skip /\ ~FromDisk(i).dio
<1>1. PICK d \in Dinode : d = dinode[i]
  BY DEF Shape
<1>2. d.links \in Nat /\ d.life \in Nat
  BY DEF Dinode
<1>3. PICK a \in Inode : a = Absent
  BY DEF Absent, Inode, States
<1>4. PICK b \in Inode : b = [a EXCEPT !.st = "in"]
  BY InodeEdit DEF States
<1>5. PICK c \in Inode : c = [b EXCEPT !.links = d.links]
  BY <1>2, InodeEdit
<1>6. PICK e \in Inode : e = [c EXCEPT !.olk = "PR"]
  BY InodeEdit
<1>7. PICK f \in Inode : f = [e EXCEPT !.life = d.life]
  BY <1>2, InodeEdit
<1>8. FromDisk(i) = f
  BY <1>1, <1>3, <1>4, <1>5, <1>6, <1>7 DEF FromDisk
<1>9. a.opens = 0 /\ ~a.skip /\ ~a.dio
  BY <1>3 DEF Absent
<1>10. /\ f.st = "in" /\ f.olk = "PR" /\ f.links = d.links /\ f.life = d.life /\ f.opens = a.opens
       /\ f.skip <=> a.skip
       /\ f.dio <=> a.dio
  BY <1>4, <1>5, <1>6, <1>7 DEF Inode
<1> QED
  BY <1>1, <1>8, <1>9, <1>10

LEMMA LookupGetStep ==
  ASSUME OInv, NEW n \in oalive, LookupGet(n)
  PROVE  OInv'
<1>1. n \in ONode /\ task \in [ONode -> Tasks] /\ dent \in [ONode -> [Name -> InoOr0]] /\ task[n].op = "lookup"
  BY DEF OInv, Shape, LookupGet
<1>2. PICK nm \in Name : nm = task[n].from /\ names[nm] # 0 /\ dirBy = n
  BY <1>1 DEF OInv, TaskOK
<1>3. PICK i \in Ino : /\ i = names[nm] /\ dinode[i].valid /\ \A m \in ONode : ~core[m][i].skip
  BY <1>2, NamedLives
<1>4. PICK c \in Inode : c = core[n][i]
  BY <1>1 DEF OInv, Shape
<1>5. /\ \/ c.st = "in" /\ core' = [core EXCEPT ![n][i].maybe = FALSE]
         \/ c.st = "none" /\ OpenLockable(i) /\ core' = [core EXCEPT ![n][i] = FromDisk(i)]
      /\ dent' = [dent EXCEPT ![n][nm] = i] /\ dirBy' = 0 /\ task' = [task EXCEPT ![n] = NoTask]
      /\ UNCHANGED <<ostory, oalive, names, dirLinks, dinode, orphanDir, scan, wipes, lockedBy>>
  BY <1>2, <1>3, <1>4 DEF LookupGet, Done
<1>6. PICK v \in Inode :
        /\ core' = [core EXCEPT ![n][i] = v]
        /\ v.st = "in" /\ v.life = dinode[i].life /\ v.olk # "NL" /\ ~v.skip
        /\ v.dio => c.dio /\ v.opens = c.opens
        /\ v.olk = c.olk \/ (v.olk = "PR" /\ OpenLockable(i))
        /\ v.links = c.links \/ c.st = "none"
  <2>1. CASE c.st = "in" /\ core' = [core EXCEPT ![n][i].maybe = FALSE]
    <3>1. PICK v \in Inode : v = [c EXCEPT !.maybe = FALSE]
      BY InodeEdit
    <3>2. /\ v.st = "in" /\ v.life = c.life /\ v.olk = c.olk /\ v.links = c.links /\ v.opens = c.opens
          /\ v.skip <=> c.skip
          /\ v.dio <=> c.dio
      BY <2>1, <3>1 DEF Inode
    <3>3. core' = [core EXCEPT ![n][i] = v]
      BY <2>1, <1>4, <3>1
    <3>4. CoreOK(n, i)
      BY <1>1 DEF OInv
    <3>5. c.olk # "NL" /\ c.life = dinode[i].life /\ ~c.skip
      BY <1>1, <1>3, <1>4, <2>1, <3>4 DEF CoreOK
    <3> QED
      BY <3>2, <3>3, <3>5
  <2>2. CASE c.st = "none" /\ OpenLockable(i) /\ core' = [core EXCEPT ![n][i] = FromDisk(i)]
    <3>1. PICK v \in Inode : v = FromDisk(i)
      BY FromDiskIs DEF OInv
    <3>2. v.st = "in" /\ v.life = dinode[i].life /\ v.olk = "PR" /\ ~v.skip /\ ~v.dio
      BY <3>1, FromDiskIs DEF OInv
    <3> QED
      BY <2>2, <3>1, <3>2
  <2> QED
    BY <1>5, <2>1, <2>2
<1>7. CoreOnly(n, i) /\ core'[n][i] = v
  BY <1>1, <1>6, CoreSet DEF OInv
<1>8. dent' \in [ONode -> [Name -> InoOr0]] /\ dent'[n][nm] = i
      /\ \A m \in ONode, x \in Name : m # n \/ x # nm => dent'[m][x] = dent[m][x]
  <2>1. [dent[n] EXCEPT ![nm] = i] \in [Name -> InoOr0]
    BY <1>1 DEF InoOr0
  <2>2. dent' = [dent EXCEPT ![n] = [dent[n] EXCEPT ![nm] = i]]
    BY <1>1, <1>5
  <2> QED
    BY <1>1, <2>1, <2>2
<1>9. task' \in [ONode -> Tasks] /\ task'[n] = NoTask /\ \A m \in ONode : m # n => task'[m] = task[m]
  <2>1. NoTask \in Tasks
    BY DEF NoTask, Tasks, NameOr0, InoOr0
  <2> QED
    BY <1>1, <1>5, <2>1
<1>10. SameStory
  BY <1>5, StoryStays DEF OInv
<1>11. Shape'
  BY <1>5, <1>7, <1>8, <1>9, <1>10 DEF OInv, Shape, SameStory, CoreOnly, NodeOr0
<1>12. \A m \in ONode : RefOK(m)'
  <2>1. ASSUME NEW m \in ONode, NEW j \in Ino, Referred(m, j)' PROVE core'[m][j].st = "in"
    <3>1. Referred(m, j) \/ (m = n /\ j = i)
      BY <2>1, <1>4, <1>5, <1>6, <1>7, <1>8, <1>9, InoAssumption DEF Referred, CoreOnly, NoTask
    <3>2. Referred(m, j) => core[m][j].st = "in"
      BY DEF OInv, RefOK
    <3> QED
      BY <3>1, <3>2, <1>6, <1>7 DEF CoreOnly
  <2> QED
    BY <2>1 DEF RefOK
<1>13. \A m \in ONode : DentOK(m)' /\ ScanOK(m)'
  BY <1>1, <1>3, <1>5, <1>8 DEF OInv, DentOK, ScanOK
<1>14. ASSUME NEW m \in ONode PROVE TaskOK(m)'
  <2>1. CASE m = n
    BY <2>1, <1>9 DEF TaskOK, NoTask, NameOps
  <2>2. CASE m # n
    <3>1. TaskOK(m) /\ task'[m] = task[m]
      BY <2>2, <1>9 DEF OInv
    <3> QED
      BY <2>2, <3>1, <1>2, <1>5, <1>10 DEF TaskOK, SameStory, IsDir, NameOps
  <2> QED
    BY <2>1, <2>2
<1>15. \A j \in Ino, m \in ONode : m # n \/ j # i => core'[m][j] = core[m][j]
  BY <1>7 DEF CoreOnly
<1>16. \A j \in Ino : OpenOK(j)'
  BY <1>1, <1>3, <1>4, <1>5, <1>6, <1>7, <1>15 DEF OInv, OpenOK, OpenLockable
<1>17. \A j \in Ino : LockOK(j)'
  <2>1. \A j \in Ino : lockedBy[j] # <<n, "task">>
    BY <1>1, NoTaskNoLock DEF NameOps
  <2> QED
    BY <2>1, <1>5, <1>9, <1>15 DEF OInv, LockOK
<1>18. ASSUME NEW j \in Ino, NEW m \in ONode PROVE CoreOK(m, j)'
  <2>0. CoreOK(m, j) /\ CoreOK(n, i)
    BY <1>1 DEF OInv
  <2>1. CASE m = n /\ j = i
    BY <2>0, <2>1, <1>3, <1>4, <1>5, <1>6, <1>7 DEF CoreOK
  <2>2. CASE m # n /\ j = i
    BY <2>0, <2>2, <1>3, <1>5, <1>15 DEF CoreOK
  <2>3. CASE j # i
    BY <2>0, <2>3, <1>5, <1>15 DEF CoreOK
  <2> QED
    BY <2>1, <2>2, <2>3
<1>19. DirOK' /\ \A j \in Ino : DiskOK(j)'
  BY <1>5, <1>10, DiskStays DEF OInv
<1>20. \A j \in Ino : KeptOK(j)'
  <2>1. \A m \in ONode, j \in Ino : core[m][j].skip => core'[m][j].skip
    BY <1>3, <1>15
  <2> QED
    BY <2>1, <1>5 DEF OInv, KeptOK
<1> QED
  BY <1>11, <1>12, <1>13, <1>14, <1>16, <1>17, <1>18, <1>19, <1>20 DEF OInv

-----------------------------------------------------------------------------
(* The scan of an orphan directory.                                        *)

LEMMA EntryIs ==
  ASSUME NEW e \in Entries
  PROVE  e[1] \in Ino /\ (e = <<e[1], TRUE>> \/ e = <<e[1], FALSE>>)
<1>1. PICK i \in Ino, b \in BOOLEAN : e = <<i, b>>
  BY DEF Entries
<1>2. b = TRUE \/ b = FALSE
  OBVIOUS
<1> QED
  BY <1>1, <1>2

\* One thing of a scan changed
LEMMA ScanEdit ==
  ASSUME NEW c \in Scans
  PROVE  /\ \A x \in {"none", "mark", "dir", "list"} : [c EXCEPT !.pc = x] \in Scans
         /\ \A x \in SUBSET Entries : [c EXCEPT !.todo = x] \in Scans /\ [c EXCEPT !.list = x] \in Scans
         /\ \A x \in ONode : [c EXCEPT !.slot = x] \in Scans
         /\ \A x \in BOOLEAN : [c EXCEPT !.trunc = x] \in Scans
<1>1. \A x \in {"none", "mark", "dir", "list"} : [c EXCEPT !.pc = x] \in Scans
  BY DEF Scans
<1>2. \A x \in SUBSET Entries : [c EXCEPT !.todo = x] \in Scans
  BY DEF Scans
<1>3. \A x \in SUBSET Entries : [c EXCEPT !.list = x] \in Scans
  BY DEF Scans
<1>4. \A x \in ONode : [c EXCEPT !.slot = x] \in Scans
  BY DEF Scans, NodeOr0
<1>5. \A x \in BOOLEAN : [c EXCEPT !.trunc = x] \in Scans
  BY DEF Scans
<1> QED
  BY <1>1, <1>2, <1>3, <1>4, <1>5

\* A scan that has no more on its list than before
LEMMA ScanStep ==
  ASSUME OInv, SameStory, UNCHANGED <<oalive, names, dirLinks, dinode, orphanDir, core, dent, task, lockedBy, dirBy>>,
         NEW n \in ONode, NEW v \in Scans, scan' = [scan EXCEPT ![n] = v], v.list \subseteq scan[n].list,
         v.pc # "none" => v.slot \in ONode,
         v.pc = "dir" => v.todo \subseteq orphanDir[v.slot]
  PROVE  OInv'
<1>1. scan \in [ONode -> Scans]
  BY DEF OInv, Shape
<1>2. scan' \in [ONode -> Scans] /\ scan'[n] = v /\ \A m \in ONode : m # n => scan'[m] = scan[m]
  BY <1>1
<1>3. Shape'
  BY <1>2 DEF OInv, Shape, SameStory
<1>4. \A m \in ONode, j \in Ino : Alike(m, j)
  BY CoreUnchanged
<1>5. ASSUME NEW m \in ONode, NEW j \in Ino, Referred(m, j)'
      PROVE  core[m][j].st = "in"
  <2>1. scan'[m].list \subseteq scan[m].list
    BY <1>2
  <2>2. Referred(m, j)
    BY <1>5, <2>1 DEF Referred
  <2> QED
    BY <2>2 DEF OInv, RefOK
<1>6. \A m \in ONode : ScanOK(m)'
  BY <1>2 DEF OInv, ScanOK
<1> QED
  BY <1>3, <1>4, <1>5, <1>6, AlikeStep

LEMMA ScanStartStep ==
  ASSUME OInv, NEW n \in oalive, NEW s \in ONode, ScanStart(n, s)
  PROVE  OInv'
<1>1. n \in ONode
  BY DEF OInv, Shape
<1>2. PICK b \in BOOLEAN : b = (s \notin oalive)
  OBVIOUS
<1>3. PICK a \in Scans : a = NoScan
  BY DEF NoScan, Scans, NodeOr0
<1>4. PICK c \in Scans : c = [a EXCEPT !.pc = "mark"]
  BY ScanEdit
<1>5. PICK d \in Scans : d = [c EXCEPT !.slot = s]
  BY ScanEdit
<1>6. PICK v \in Scans : v = [d EXCEPT !.trunc = b]
  BY ScanEdit
<1>7. scan' = [scan EXCEPT ![n] = v]
  BY <1>2, <1>3, <1>4, <1>5, <1>6 DEF ScanStart
<1>8. v.pc = "mark" /\ v.list = {} /\ v.slot = s
  BY <1>3, <1>4, <1>5, <1>6 DEF Scans, NoScan
<1>9. SameStory
  BY <1>1, DidStays DEF OInv, ScanStart, OpNames
<1> QED
  BY <1>1, <1>7, <1>8, <1>9, ScanStep DEF ScanStart

LEMMA ScanDirStep ==
  ASSUME OInv, NEW n \in oalive, ScanDir(n)
  PROVE  OInv'
<1>1. n \in ONode
  BY DEF OInv, Shape
<1>2. PICK a \in Scans : a = scan[n]
  BY <1>1 DEF OInv, Shape
<1>3. a.pc = "mark" /\ a.slot \in ONode
  BY <1>1, <1>2 DEF OInv, ScanOK, ScanDir
<1>4. PICK S \in SUBSET Entries : S = {e \in orphanDir[a.slot] : a.trunc \/ ~e[2]} /\ S \subseteq orphanDir[a.slot]
  BY <1>3 DEF OInv, Shape
<1>5. PICK c \in Scans : c = [a EXCEPT !.pc = "dir"]
  BY ScanEdit
<1>6. PICK v \in Scans : v = [c EXCEPT !.todo = S]
  BY ScanEdit
<1>7. scan' = [scan EXCEPT ![n] = v]
  <2>1. scan' = [scan EXCEPT ![n].pc = "dir", ![n].todo = S]
    BY <1>2, <1>4 DEF ScanDir
  <2>2. scan \in [ONode -> Scans]
    BY DEF OInv, Shape
  <2> DEFINE x == [scan EXCEPT ![n] = c]
  <2>3. x = [scan EXCEPT ![n].pc = "dir"]
    BY <1>2, <1>5
  <2>4. [x EXCEPT ![n].todo = S] = [scan EXCEPT ![n] = v]
    BY <1>1, <1>6, <2>2
  <2> QED
    BY <2>1, <2>3, <2>4
<1>8. v.pc = "dir" /\ v.list = a.list /\ v.slot = a.slot /\ v.todo = S
  BY <1>5, <1>6 DEF Scans
<1>9. SameStory
  BY StoryStays DEF OInv, ScanDir
<1> QED
  BY <1>1, <1>2, <1>3, <1>4, <1>7, <1>8, <1>9, ScanStep DEF ScanDir

LEMMA ScanListedStep ==
  ASSUME OInv, NEW n \in oalive, ScanListed(n)
  PROVE  OInv'
<1>1. n \in ONode
  BY DEF OInv, Shape
<1>2. PICK a \in Scans : a = scan[n]
  BY <1>1 DEF OInv, Shape
<1>3. PICK v \in Scans : v = [a EXCEPT !.pc = "list"]
  BY ScanEdit
<1>4. scan' = [scan EXCEPT ![n] = v]
  BY <1>2, <1>3 DEF ScanListed
<1>5. v.pc = "list" /\ v.list = a.list /\ v.slot = a.slot
  BY <1>3 DEF Scans
<1>6. a.slot \in ONode
  BY <1>1, <1>2 DEF OInv, ScanOK, ScanListed
<1>7. SameStory
  BY StoryStays DEF OInv, ScanListed
<1> QED
  BY <1>1, <1>2, <1>4, <1>5, <1>6, <1>7, ScanStep DEF ScanListed

LEMMA ScanEndStep ==
  ASSUME OInv, NEW n \in oalive, ScanEnd(n)
  PROVE  OInv'
<1>1. n \in ONode
  BY DEF OInv, Shape
<1>2. NoScan \in Scans /\ NoScan.pc = "none" /\ NoScan.list = {}
  BY DEF NoScan, Scans, NodeOr0
<1>3. SameStory
  BY StoryStays DEF OInv, ScanEnd
<1> QED
  BY <1>1, <1>2, <1>3, ScanStep DEF ScanEnd

LEMMA ScanGetStep ==
  ASSUME OInv, NEW n \in oalive, ScanGet(n)
  PROVE  OInv'
<1>0. UNCHANGED <<ostory, oalive, names, dirLinks, dinode, orphanDir, dent, task, wipes, lockedBy, dirBy>>
  BY DEF ScanGet
<1>1. n \in ONode /\ scan \in [ONode -> Scans]
  BY DEF OInv, Shape
<1>2. PICK a \in Scans : a = scan[n]
  BY <1>1
<1>3. PICK e \in a.todo : LET i == e[1]
                              c == core[n][i]
                              got == c.st = "in" \/ (dinode[i].valid /\ OpenLockable(i))
                          IN /\ c.st \in {"none", "in"}
                             /\ scan' = [scan EXCEPT ![n].todo = @ \ {e}, ![n].list = IF got THEN @ \union {e} ELSE @]
                             /\ core' = IF c.st = "none" /\ got
                                          THEN [core EXCEPT ![n][i] = FromDisk(i)]
                                          ELSE core
  BY <1>2 DEF ScanGet
<1>4. a.pc = "dir" /\ a.slot \in ONode /\ a.todo \subseteq orphanDir[a.slot] /\ a.todo \subseteq Entries /\ a.list \subseteq Entries
  BY <1>1, <1>2 DEF OInv, ScanOK, ScanGet, Scans
<1>5. PICK i \in Ino : i = e[1]
  BY <1>3, <1>4 DEF Entries
<1>6. PICK c \in Inode : c = core[n][i]
  BY <1>1 DEF OInv, Shape
<1>7. PICK got \in BOOLEAN : got = (c.st = "in" \/ (dinode[i].valid /\ OpenLockable(i)))
  OBVIOUS
<1>8. PICK list \in SUBSET Entries : list = IF got THEN a.list \union {e} ELSE a.list
  BY <1>3, <1>4
<1>9. PICK d \in Scans : d = [a EXCEPT !.todo = a.todo \ {e}]
  <2>1. a.todo \ {e} \in SUBSET Entries
    BY <1>4
  <2> QED
    BY <2>1, ScanEdit
<1>10. PICK v \in Scans : v = [d EXCEPT !.list = list]
  BY ScanEdit
<1>11. scan' = [scan EXCEPT ![n] = v]
  <2>1. scan' = [scan EXCEPT ![n].todo = a.todo \ {e}, ![n].list = list]
    BY <1>2, <1>3, <1>5, <1>6, <1>7, <1>8
  <2> DEFINE x == [scan EXCEPT ![n] = d]
  <2>2. x = [scan EXCEPT ![n].todo = a.todo \ {e}]
    BY <1>2, <1>9
  <2>3. [x EXCEPT ![n].list = list] = [scan EXCEPT ![n] = v]
    BY <1>1, <1>10
  <2> QED
    BY <2>1, <2>2, <2>3
<1>12. scan' \in [ONode -> Scans] /\ scan'[n] = v /\ \A m \in ONode : m # n => scan'[m] = scan[m]
  BY <1>1, <1>11
<1>13. v.pc = "dir" /\ v.slot = a.slot /\ v.list = list /\ v.todo = a.todo \ {e}
  BY <1>4, <1>9, <1>10 DEF Scans
<1>14. SameStory
  BY <1>0, StoryStays DEF OInv
<1>15. \A m \in ONode : ScanOK(m)'
  BY <1>0, <1>4, <1>12, <1>13 DEF OInv, ScanOK
<1>16. CASE ~(c.st = "none" /\ got)
  <2>1. core' = core /\ (got => c.st = "in")
    BY <1>3, <1>5, <1>6, <1>7, <1>16
  <2>2. Shape'
    BY <2>1, <1>0, <1>12, <1>14 DEF OInv, Shape, SameStory
  <2>3. ASSUME NEW m \in ONode, NEW j \in Ino, Referred(m, j)'
        PROVE  core[m][j].st = "in"
    <3>1. Referred(m, j) \/ (m = n /\ j = i /\ got)
      BY <2>1, <2>3, <1>0, <1>2, <1>5, <1>8, <1>12, <1>13 DEF Referred
    <3>2. Referred(m, j) => core[m][j].st = "in"
      BY DEF OInv, RefOK
    <3> QED
      BY <3>1, <3>2, <2>1, <1>6
  <2>4. \A m \in ONode, j \in Ino : Alike(m, j)
    BY <2>1, CoreUnchanged
  <2> QED
    BY <2>2, <2>3, <2>4, <1>0, <1>14, <1>15, AlikeStep
<1>17. CASE c.st = "none" /\ got
  <2>1. core' = [core EXCEPT ![n][i] = FromDisk(i)] /\ dinode[i].valid /\ OpenLockable(i)
    BY <1>3, <1>5, <1>6, <1>7, <1>17
  <2>2. PICK w \in Inode : /\ w = FromDisk(i) /\ w.st = "in" /\ w.olk = "PR" /\ w.opens = 0
                           /\ w.links = dinode[i].links /\ w.life = dinode[i].life /\ ~w.skip /\ ~w.dio
    BY FromDiskIs DEF OInv
  <2>3. CoreOnly(n, i) /\ core'[n][i] = w
    BY <2>1, <2>2, <1>1, CoreSet DEF OInv
  <2>4. Shape'
    BY <2>3, <1>0, <1>12, <1>14 DEF OInv, Shape, SameStory, CoreOnly
  <2>5. ASSUME NEW m \in ONode, NEW j \in Ino, Referred(m, j)'
        PROVE  core'[m][j].st = "in"
    <3>1. Referred(m, j) \/ (m = n /\ j = i)
      BY <2>3, <2>5, <1>0, <1>2, <1>5, <1>8, <1>12, <1>13 DEF Referred, CoreOnly
    <3>2. Referred(m, j) => core[m][j].st = "in"
      BY DEF OInv, RefOK
    <3> QED
      BY <3>1, <3>2, <2>2, <2>3 DEF CoreOnly
  <2>6. \A m \in ONode : ~core[m][i].skip
    <3>1. e \in orphanDir[a.slot] /\ DiskOK(i) /\ e \in Entries
      BY <1>3, <1>4 DEF OInv
    <3>2. e = <<i, TRUE>> \/ e = <<i, FALSE>>
      BY <3>1, <1>5, EntryIs
    <3>3. a.slot # 0
      BY <1>4, ONodeAssumption
    <3>4. dinode[i].orphan # 0 \/ dinode[i].dio # 0
      BY <3>1, <3>2, <3>3, <1>4 DEF DiskOK
    <3> QED
      BY <3>4 DEF OInv, CoreOK
  <2>7. CoreOK(n, i)'
    BY <2>1, <2>2, <2>3, <1>0 DEF CoreOK
  <2>8. OpenOK(i)'
    BY <2>1, <2>2, <2>3, <1>0, <1>1 DEF OInv, OpenOK, OpenLockable, CoreOnly
  <2>9. KeptOK(i)'
    BY <2>6, <1>0 DEF OInv, KeptOK
  <2>10. LockOK(i)'
    <3>1. \A m \in ONode : lockedBy[i] = <<m, "task">> => core[m][i].st = "in"
      BY DEF OInv, LockOK, RefOK, Referred
    <3>2. lockedBy[i] # <<n, "task">>
      BY <3>1, <1>1, <1>6, <1>17
    <3> QED
      BY <3>2, <2>3, <1>0 DEF OInv, LockOK, CoreOnly
  <2> QED
    BY <2>3, <2>4, <2>5, <2>6, <2>7, <2>8, <2>9, <2>10, <1>0, <1>1, <1>14, <1>15, InodeStep
<1> QED
  BY <1>16, <1>17

\* A direct write, its end and its recovery set the slot on disk, read the inode, ...
FreshAt(n, i) ==
  /\ CoreOnly(n, i)
  /\ core'[n][i].st = core[n][i].st /\ core'[n][i].olk = core[n][i].olk /\ core'[n][i].life = core[n][i].life
  /\ core'[n][i].opens = core[n][i].opens /\ core'[n][i].links = dinode[i].links
  /\ core'[n][i].skip <=> core[n][i].skip
DioIs(i, dio) ==
  /\ dinode' \in [Ino -> Dinode] /\ \A j \in Ino : j # i => dinode'[j] = dinode[j]
  /\ dinode'[i].valid <=> dinode[i].valid
  /\ dinode'[i].links = dinode[i].links /\ dinode'[i].orphan = dinode[i].orphan /\ dinode'[i].life = dinode[i].life
  /\ dinode'[i].dio = dio
\* ... and enter it in that slot's orphan directory and in no other.
DioIn(i, dio) ==
  /\ orphanDir' \in [ONode -> SUBSET Entries]
  /\ \A s \in ONode, j \in Ino : /\ <<j, FALSE>> \in orphanDir'[s] <=> <<j, FALSE>> \in orphanDir[s]
                                 /\ j # i => (<<j, TRUE>> \in orphanDir'[s] <=> <<j, TRUE>> \in orphanDir[s])
  /\ \A s \in ONode : <<i, TRUE>> \in orphanDir'[s] <=> s = dio
Alright == \A m \in ONode : ScanOK(m)' /\ \A j \in Ino : Referred(m, j)' => core[m][j].st = "in"

LEMMA DioStep ==
  ASSUME OInv, SameStory, Shape', UNCHANGED <<oalive, names, dirLinks, dent, task, lockedBy, dirBy>>,
         NEW n \in ONode, NEW i \in Ino, NEW dio \in NodeOr0, FreshAt(n, i), DioIs(i, dio), DioIn(i, dio), Alright,
         core[n][i].st = "in", dio # 0 => ~core[n][i].skip, lockedBy[i] = Free,
         \A m \in ONode : core'[m][i].dio => dio = m /\ core'[m][i].opens > 0
  PROVE  OInv'
<1>1. \A m \in ONode, j \in Ino : m # n \/ j # i => core'[m][j] = core[m][j]
  BY DEF CoreOnly, FreshAt
<1>2. \A m \in ONode, j \in Ino : /\ core'[m][j].st = core[m][j].st /\ core'[m][j].olk = core[m][j].olk
                                  /\ core'[m][j].skip <=> core[m][j].skip
  BY <1>1 DEF FreshAt
<1>3. dinode[i].valid /\ CoreOK(n, i)
  BY DEF OInv, CoreOK
<1>4. \A m \in ONode : RefOK(m)'
  BY <1>2 DEF RefOK, Alright
<1>d. /\ \A j \in Ino : /\ dinode'[j].valid <=> dinode[j].valid
                        /\ dinode'[j].links = dinode[j].links /\ dinode'[j].orphan = dinode[j].orphan
                        /\ dinode'[j].life = dinode[j].life
                        /\ j # i => dinode'[j].dio = dinode[j].dio
      /\ dinode'[i].dio = dio
  BY DEF DioIs
<1>5. \A m \in ONode : DentOK(m)'
  BY DEF OInv, DentOK
<1>6. \A j \in Ino : dinode'[j].orphan = dinode[j].orphan
  BY <1>d
<1>7. ASSUME NEW m \in ONode PROVE TaskOK(m)'
  <2>1. task[m].ino \in InoOr0 /\ TaskOK(m)
    BY DEF OInv, Shape, Tasks
  <2>2. task[m].ino # 0 => dinode'[task[m].ino].orphan = dinode[task[m].ino].orphan
    BY <2>1, <1>6 DEF InoOr0
  <2> QED
    BY <2>1, <2>2 DEF TaskOK, SameStory, IsDir
<1>8. \A j \in Ino : OpenOK(j)'
  BY <1>2, <1>d DEF OInv, OpenOK
<1>9. ASSUME NEW j \in Ino PROVE LockOK(j)'
  <2>1. CASE j = i
    BY <2>1, ONodeAssumption DEF LockOK, Free
  <2>2. CASE j # i
    BY <2>2, <1>1, <1>d DEF OInv, LockOK
  <2> QED
    BY <2>1, <2>2
<1>10. ASSUME NEW j \in Ino, NEW m \in ONode PROVE CoreOK(m, j)'
  <2>0. CoreOK(m, j)
    BY DEF OInv
  <2>1. CASE j # i
    BY <2>0, <2>1, <1>1, <1>d DEF CoreOK
  <2>2. CASE j = i /\ m # n
    <3>1. ~core[m][i].skip
      BY <2>2, <1>3 DEF OInv, CoreOK
    <3>2. core[m][i].st \notin {"wipe", "wiping"}
      BY <2>0, <2>2, ONodeAssumption DEF CoreOK, Free
    <3> QED
      BY <2>0, <2>2, <3>1, <3>2, <1>1, <1>d DEF CoreOK
  <2>3. CASE j = i /\ m = n
    <3>1. core[n][i].skip => dinode[i].links = 0 /\ dio = 0
      BY <1>3 DEF CoreOK
    <3> QED
      BY <2>0, <2>3, <3>1, <1>2, <1>3, <1>d DEF CoreOK, FreshAt
  <2> QED
    BY <2>1, <2>2, <2>3
<1>11. ASSUME NEW j \in Ino PROVE DiskOK(j)'
  <2>1. DiskOK(j) /\ NamesOf(j)' = NamesOf(j) /\ Links(j)' = Links(j) /\ (IsDir(j)' <=> IsDir(j))
    BY DEF OInv, NamesOf, Links, IsDir, SameStory
  <2>2. \A s \in ONode : <<j, FALSE>> \in orphanDir'[s] <=> <<j, FALSE>> \in orphanDir[s]
    BY DEF DioIn
  <2>3. \A s \in ONode : <<j, TRUE>> \in orphanDir'[s] <=> s = dinode'[j].dio
    <3>1. CASE j = i
      BY <3>1, <1>d DEF DioIn
    <3>2. CASE j # i
      BY <3>2, <2>1, <1>d DEF DioIn, DiskOK
    <3> QED
      BY <3>1, <3>2
  <2>4. dinode'[j].dio # 0 => dinode'[j].valid
    BY <2>1, <1>3, <1>d DEF DiskOK
  <2> QED
    BY <2>1, <2>2, <2>3, <2>4, <1>d DEF DiskOK
<1>12. DirOK'
  <2>1. DirNames' = DirNames
    BY DEF DirNames, SameStory, IsDir
  <2>2. \A j \in Ino : dinode'[j].valid <=> dinode[j].valid
    BY <1>d
  <2>3. \A nm \in Name : names[nm] # 0 => names[nm] \in Ino /\ dinode[names[nm]].valid
    BY DEF OInv, Shape, DirOK, InoOr0
  <2>4. \A nm \in Name : names[nm] # 0 => dinode'[names[nm]].valid
    BY <2>2, <2>3
  <2> QED
    BY <2>1, <2>4 DEF OInv, DirOK
<1>13. \A j \in Ino : KeptOK(j)'
  <2>1. \A j \in Ino : (dinode'[j].valid <=> dinode[j].valid) /\ dinode'[j].links = dinode[j].links
    BY <1>d
  <2> QED
    BY <2>1, <1>2, <1>6 DEF OInv, KeptOK
<1> QED
  BY <1>4, <1>5, <1>7, <1>8, <1>9, <1>10, <1>11, <1>12, <1>13 DEF OInv, Alright

\* Fresh() and the flag of a direct write
LEMMA FreshIs ==
  ASSUME Shape, NEW n \in ONode, NEW i \in Ino, NEW b \in BOOLEAN,
         core' = [[core EXCEPT ![n][i].links = dinode[i].links] EXCEPT ![n][i].dio = b]
  PROVE  FreshAt(n, i) /\ (core'[n][i].dio <=> b)
<1>1. PICK c \in Inode : c = core[n][i]
  BY DEF Shape
<1>2. PICK x \in Nat : x = dinode[i].links
  BY DEF Shape, Dinode
<1>3. PICK w \in Inode : w = [c EXCEPT !.links = x]
  BY InodeEdit
<1>4. PICK v \in Inode : v = [w EXCEPT !.dio = b]
  BY InodeEdit
<1>5. core' = [core EXCEPT ![n][i] = v]
  <2>1. core \in [ONode -> [Ino -> Inode]]
    BY DEF Shape
  <2> DEFINE y == [core EXCEPT ![n][i] = w]
  <2>2. y = [core EXCEPT ![n][i].links = dinode[i].links]
    BY <1>1, <1>2, <1>3
  <2>3. [y EXCEPT ![n][i].dio = b] = [core EXCEPT ![n][i] = v]
    BY <1>4, <2>1
  <2> QED
    BY <2>2, <2>3
<1>6. CoreOnly(n, i) /\ core'[n][i] = v
  BY ONLY Shape, n \in ONode, i \in Ino, v \in Inode, <1>5, CoreSet
<1>7. /\ v.st = c.st /\ v.olk = c.olk /\ v.life = c.life /\ v.opens = c.opens /\ v.links = x
      /\ v.skip <=> c.skip
      /\ v.dio <=> b
  BY <1>3, <1>4 DEF Inode
<1> QED
  BY <1>1, <1>2, <1>6, <1>7 DEF FreshAt

\* The inode on disk with another slot for its direct write
LEMMA DioSet ==
  ASSUME Shape, NEW i \in Ino, NEW dio \in NodeOr0, dinode' = [dinode EXCEPT ![i].dio = dio]
  PROVE  DioIs(i, dio)
<1>1. PICK d \in Dinode : d = dinode[i]
  BY DEF Shape
<1>2. PICK v \in Dinode : v = [d EXCEPT !.dio = dio]
  BY DinodeEdit
<1>3. dinode' = [dinode EXCEPT ![i] = v] /\ dinode \in [Ino -> Dinode]
  BY <1>1, <1>2 DEF Shape
<1>4. dinode' \in [Ino -> Dinode] /\ dinode'[i] = v /\ \A j \in Ino : j # i => dinode'[j] = dinode[j]
  BY <1>3
<1>5. /\ v.valid <=> d.valid
      /\ v.links = d.links /\ v.orphan = d.orphan /\ v.life = d.life /\ v.dio = dio
  BY <1>2 DEF Dinode
<1> QED
  BY <1>1, <1>4, <1>5 DEF DioIs

\* Who begins a direct write, ends one or undoes that of another, refers to what it did.
LEMMA DioRefers ==
  ASSUME OInv, NEW n \in ONode, NEW i \in Ino, CoreOnly(n, i), core'[n][i].opens = core[n][i].opens,
         UNCHANGED <<dent, task>>, \A m \in ONode : scan'[m].list \subseteq scan[m].list
  PROVE  \A m \in ONode, j \in Ino : Referred(m, j)' => core[m][j].st = "in"
<1>1. \A m \in ONode, j \in Ino : core'[m][j].opens = core[m][j].opens
  BY DEF CoreOnly
<1>2. ASSUME NEW m \in ONode, NEW j \in Ino, Referred(m, j)'
      PROVE  Referred(m, j)
  <2>1. scan'[m].list \subseteq scan[m].list
    OBVIOUS
  <2> QED
    BY <1>1, <1>2, <2>1 DEF Referred
<1> QED
  BY <1>2 DEF OInv, RefOK

LEMMA DioStartStep ==
  ASSUME OInv, NEW n \in oalive, NEW i \in Ino, DioStart(n, i)
  PROVE  OInv'
<1>1. n \in ONode /\ n # 0 /\ n \in NodeOr0
  BY ONodeAssumption DEF OInv, Shape, NodeOr0
<1>2. SameStory
  BY <1>1, DidStays DEF OInv, DioStart, OpNames
<1>3. /\ UNCHANGED <<oalive, names, dirLinks, dent, task, scan, wipes, lockedBy, dirBy>>
      /\ core[n][i].opens > 0 /\ lockedBy[i] = Free
      /\ core' = [[core EXCEPT ![n][i].links = dinode[i].links] EXCEPT ![n][i].dio = TRUE]
      /\ dinode' = [dinode EXCEPT ![i].dio = n]
      /\ orphanDir' = [s \in ONode |-> (orphanDir[s] \ {<<i, TRUE>>}) \union (IF s = n THEN {<<i, TRUE>>} ELSE {})]
  BY DEF DioStart, Fresh
<1>4. \A m \in ONode : ~core[m][i].dio
  BY DEF DioStart, RwFree
<1>5. TRUE \in BOOLEAN
  OBVIOUS
<1>6. FreshAt(n, i)
  BY <1>1, <1>3, <1>5, FreshIs DEF OInv
<1>7. core[n][i].st = "in" /\ ~core[n][i].skip
  <2>1. Referred(n, i)
    BY <1>3 DEF Referred
  <2>2. core[n][i].st = "in" /\ CoreOK(n, i)
    BY <1>1, <2>1 DEF OInv, RefOK
  <2> QED
    BY <2>2, <1>3 DEF CoreOK
<1>8. DioIs(i, n)
  BY <1>1, <1>3, DioSet DEF OInv
<1>9. orphanDir \in [ONode -> SUBSET Entries]
  BY DEF OInv, Shape
<1>11. \A s \in ONode : orphanDir'[s] = (orphanDir[s] \ {<<i, TRUE>>}) \union (IF s = n THEN {<<i, TRUE>>} ELSE {})
  BY <1>3
<1>12. DioIn(i, n)
  <2>1. <<i, TRUE>> \in Entries
    BY <1>5 DEF Entries
  <2>2. \A s \in ONode : orphanDir'[s] \in SUBSET Entries
    BY <2>1, <1>9, <1>11
  <2>3. orphanDir' = [s \in ONode |-> orphanDir'[s]]
    BY <1>3
  <2>4. orphanDir' \in [ONode -> SUBSET Entries]
    BY <2>2, <2>3
  <2> QED
    BY <1>11, <2>4 DEF DioIn
<1>14. \A m \in ONode : core'[m][i].dio => n = m /\ core'[m][i].opens > 0
  BY <1>3, <1>4, <1>6 DEF CoreOnly, FreshAt
<1>15. ASSUME NEW m \in ONode PROVE ScanOK(m)'
  <2>1. ScanOK(m)
    BY DEF OInv
  <2>2. ASSUME scan[m].pc = "dir" PROVE scan[m].todo \subseteq orphanDir'[scan[m].slot]
    <3>1. scan[m].slot # n /\ scan[m].slot \in ONode /\ scan[m].todo \subseteq orphanDir[scan[m].slot]
      BY <2>1, <2>2 DEF ScanOK, DioStart, OrphanDirFree
    <3>2. DiskOK(i) /\ dinode[i].dio # scan[m].slot
      <4>1. dinode[i].dio # 0 => OrphanDirFree(dinode[i].dio)
        BY DEF DioStart
      <4>2. scan[m].slot # 0
        BY <3>1, ONodeAssumption
      <4> QED
        BY <2>2, <4>1, <4>2 DEF OInv, OrphanDirFree
    <3>3. <<i, TRUE>> \notin orphanDir[scan[m].slot]
      BY <3>1, <3>2 DEF DiskOK
    <3> QED
      BY <3>1, <3>3, <1>11
  <2> QED
    BY <2>1, <2>2, <1>3 DEF ScanOK
<1>16. Shape'
  BY <1>2, <1>3, <1>6, <1>8, <1>12 DEF OInv, Shape, SameStory, CoreOnly, FreshAt, DioIs, DioIn
<1>17. \A m \in ONode, j \in Ino : Referred(m, j)' => core[m][j].st = "in"
  BY <1>1, <1>3, <1>6, DioRefers DEF FreshAt
<1>18. Alright
  BY <1>15, <1>17 DEF Alright
<1> QED
  <2>1. lockedBy[i] = Free /\ UNCHANGED <<oalive, names, dirLinks, dent, task, lockedBy, dirBy>>
    BY <1>3
  <2> QED
    BY <1>1, <1>2, <1>6, <1>7, <1>8, <1>12, <1>14, <1>16, <1>18, <2>1, DioStep

\* Its entry is taken out of the directory that has it.
LEMMA DioEntryGone ==
  ASSUME OInv, NEW i \in Ino,
         \/ dinode[i].dio # 0 /\ orphanDir' = OrphanDel(dinode[i].dio, <<i, TRUE>>)
         \/ dinode[i].dio = 0 /\ orphanDir' = orphanDir
  PROVE  DioIn(i, 0) /\ \A s \in ONode : s # dinode[i].dio => orphanDir'[s] = orphanDir[s]
<1>1. orphanDir \in [ONode -> SUBSET Entries] /\ DiskOK(i)
  BY DEF OInv, Shape
<1>2. \A s \in ONode : <<i, TRUE>> \in orphanDir[s] <=> s = dinode[i].dio
  BY <1>1 DEF DiskOK
<1>3. CASE dinode[i].dio # 0 /\ orphanDir' = OrphanDel(dinode[i].dio, <<i, TRUE>>)
  <2>1. dinode[i].dio \in ONode
    BY <1>3 DEF OInv, Shape, Dinode, NodeOr0
  <2>2. orphanDir' = [orphanDir EXCEPT ![dinode[i].dio] = orphanDir[dinode[i].dio] \ {<<i, TRUE>>}]
    BY <1>3 DEF OrphanDel
  <2>3. \A s \in ONode : orphanDir'[s] = IF s = dinode[i].dio THEN orphanDir[s] \ {<<i, TRUE>>} ELSE orphanDir[s]
    BY <1>1, <2>1, <2>2
  <2>4. orphanDir' \in [ONode -> SUBSET Entries]
    BY <1>1, <2>1, <2>2
  <2> QED
    BY <1>2, <2>3, <2>4, ONodeAssumption DEF DioIn
<1>4. CASE dinode[i].dio = 0 /\ orphanDir' = orphanDir
  BY <1>1, <1>2, <1>4, ONodeAssumption DEF DioIn
<1> QED
  BY <1>3, <1>4

LEMMA DioEndStep ==
  ASSUME OInv, NEW n \in oalive, NEW i \in Ino, DioEnd(n, i)
  PROVE  OInv'
<1>1. n \in ONode /\ n # 0 /\ 0 \in NodeOr0
  BY ONodeAssumption DEF OInv, Shape, NodeOr0
<1>2. SameStory
  BY StoryStays DEF OInv, DioEnd
<1>3. /\ UNCHANGED <<oalive, names, dirLinks, dent, task, scan, wipes, lockedBy, dirBy>>
      /\ core[n][i].dio /\ lockedBy[i] = Free
      /\ core' = [[core EXCEPT ![n][i].links = dinode[i].links] EXCEPT ![n][i].dio = FALSE]
      /\ dinode' = [dinode EXCEPT ![i].dio = 0]
      /\ orphanDir' = OrphanDel(dinode[i].dio, <<i, TRUE>>)
  BY DEF DioEnd, Fresh
<1>4. CoreOK(n, i) /\ dinode[i].dio = n /\ core[n][i].opens > 0
  BY <1>1, <1>3 DEF OInv, CoreOK
<1>5. FALSE \in BOOLEAN
  OBVIOUS
<1>6. FreshAt(n, i) /\ (core'[n][i].dio <=> FALSE)
  BY <1>1, <1>3, <1>5, FreshIs DEF OInv
<1>7. core[n][i].st = "in"
  <2>1. Referred(n, i)
    BY <1>4 DEF Referred
  <2> QED
    BY <1>1, <2>1 DEF OInv, RefOK
<1>8. DioIs(i, 0)
  BY <1>1, <1>3, DioSet DEF OInv
<1>9. DioIn(i, 0) /\ \A s \in ONode : s # dinode[i].dio => orphanDir'[s] = orphanDir[s]
  BY <1>1, <1>3, <1>4, DioEntryGone
<1>11. \A m \in ONode : ~core'[m][i].dio
  <2>1. \A m \in ONode : core[m][i].dio => m = n
    BY <1>4 DEF OInv, CoreOK
  <2> QED
    BY <2>1, <1>6 DEF CoreOnly, FreshAt
<1>12. ASSUME NEW m \in ONode PROVE ScanOK(m)'
  <2>1. ScanOK(m)
    BY DEF OInv
  <2>2. scan[m].pc = "dir" => scan[m].slot # dinode[i].dio
    BY <1>4 DEF DioEnd, OrphanDirFree
  <2> QED
    BY <2>1, <2>2, <1>3, <1>9 DEF ScanOK
<1>13. Shape'
  BY <1>2, <1>3, <1>6, <1>8, <1>9 DEF OInv, Shape, SameStory, CoreOnly, FreshAt, DioIs, DioIn
<1>14. Alright
  BY <1>1, <1>3, <1>6, <1>12, DioRefers DEF Alright, FreshAt
<1> QED
  BY <1>1, <1>2, <1>3, <1>6, <1>7, <1>8, <1>9, <1>11, <1>13, <1>14, DioStep

LEMMA ScanPutStep ==
  ASSUME OInv, NEW n \in oalive, ScanPut(n)
  PROVE  OInv'
<1>1. n \in ONode /\ 0 \in NodeOr0 /\ scan \in [ONode -> Scans]
  BY DEF OInv, Shape, NodeOr0
<1>2. PICK a \in Scans : a = scan[n]
  BY <1>1
<1>3. PICK e \in a.list : LET i == e[1] IN
        /\ scan' = [scan EXCEPT ![n].list = @ \ {e}]
        /\ IF <<i, TRUE>> \in scan[n].list
             THEN /\ lockedBy[i] = Free /\ RwFree(i)
                  /\ core' = Fresh(n, i)
                  /\ IF dinode[i].dio # 0
                       THEN /\ OrphanDirFree(dinode[i].dio)
                            /\ dinode' = [dinode EXCEPT ![i].dio = 0]
                            /\ orphanDir' = OrphanDel(dinode[i].dio, <<i, TRUE>>)
                       ELSE UNCHANGED <<dinode, orphanDir>>
             ELSE /\ core' = [core EXCEPT ![n][i].maybe = TRUE]
                  /\ UNCHANGED <<dinode, orphanDir>>
  BY <1>2 DEF ScanPut
<1>4. /\ UNCHANGED <<ostory, oalive, names, dirLinks, dent, task, wipes, lockedBy, dirBy>>
      /\ a.pc = "list"
  BY <1>2 DEF ScanPut
<1>5. PICK i \in Ino : i = e[1] /\ Referred(n, i)
  BY <1>2, <1>3, EntryIs DEF Scans, Referred
<1>6. core[n][i].st = "in"
  BY <1>1, <1>5 DEF OInv, RefOK
<1>7. PICK v \in Scans : v = [a EXCEPT !.list = a.list \ {e}]
  <2>1. a.list \ {e} \in SUBSET Entries
    BY DEF Scans
  <2> QED
    BY <2>1, ScanEdit
<1>8. scan' = [scan EXCEPT ![n] = v]
  BY <1>2, <1>3, <1>7
<1>9. scan' \in [ONode -> Scans] /\ scan'[n] = v /\ \A m \in ONode : m # n => scan'[m] = scan[m]
  BY <1>1, <1>8
<1>10. v.pc = "list" /\ v.slot = a.slot /\ v.list \subseteq a.list
  BY <1>4, <1>7 DEF Scans
<1>11. \A m \in ONode : scan'[m].list \subseteq scan[m].list
  BY <1>2, <1>9, <1>10
<1>12. SameStory
  BY <1>4, StoryStays DEF OInv
<1>13. CASE <<i, TRUE>> \notin scan[n].list
  <2>1. core' = [core EXCEPT ![n][i].maybe = TRUE] /\ UNCHANGED <<dinode, orphanDir>>
    BY <1>3, <1>5, <1>13
  <2>2. PICK c \in Inode : c = core[n][i]
    BY <1>1 DEF OInv, Shape
  <2>3. PICK w \in Inode : w = [c EXCEPT !.maybe = TRUE]
    BY InodeEdit
  <2>4. core' = [core EXCEPT ![n][i] = w]
    BY <2>1, <2>2, <2>3
  <2>5. CoreOnly(n, i) /\ core'[n][i] = w
    BY <1>1, <2>4, CoreSet DEF OInv
  <2>6. \A m \in ONode, j \in Ino : Alike(m, j)
    BY <2>2, <2>3, <2>5 DEF CoreOnly, Inode, Alike
  <2>7. w.opens = c.opens
    BY <2>3 DEF Inode
  <2>8. \A m \in ONode, j \in Ino : Referred(m, j)' => core[m][j].st = "in"
    BY <1>1, <1>4, <1>11, <2>2, <2>5, <2>7, DioRefers
  <2>9. Shape'
    BY <1>4, <1>9, <1>12, <2>1, <2>5 DEF OInv, Shape, SameStory, CoreOnly
  <2>10. \A m \in ONode : ScanOK(m)'
    BY <1>2, <1>4, <1>9, <1>10, <2>1 DEF OInv, ScanOK
  <2> QED
    BY <1>4, <1>12, <2>1, <2>6, <2>8, <2>9, <2>10, AlikeStep
<1>14. CASE <<i, TRUE>> \in scan[n].list
  <2>1. /\ lockedBy[i] = Free /\ RwFree(i)
        /\ core' = [core EXCEPT ![n][i].links = dinode[i].links]
    BY <1>3, <1>5, <1>14 DEF Fresh
  <2>2. \/ /\ dinode[i].dio # 0 /\ OrphanDirFree(dinode[i].dio)
           /\ dinode' = [dinode EXCEPT ![i].dio = 0]
           /\ orphanDir' = OrphanDel(dinode[i].dio, <<i, TRUE>>)
        \/ dinode[i].dio = 0 /\ UNCHANGED <<dinode, orphanDir>>
    BY <1>3, <1>5, <1>14
  <2>3. PICK c \in Inode : c = core[n][i]
    BY <1>1 DEF OInv, Shape
  <2>4. PICK x \in Nat : x = dinode[i].links
    BY DEF OInv, Shape, Dinode
  <2>5. PICK w \in Inode : w = [c EXCEPT !.links = x]
    BY InodeEdit
  <2>6. core' = [core EXCEPT ![n][i] = w]
    BY <2>1, <2>3, <2>4, <2>5
  <2>7. CoreOnly(n, i) /\ core'[n][i] = w
    BY <1>1, <2>6, CoreSet DEF OInv
  <2>8. /\ w.st = c.st /\ w.olk = c.olk /\ w.life = c.life /\ w.opens = c.opens /\ w.links = x
        /\ w.skip <=> c.skip
        /\ w.dio <=> c.dio
    BY <2>5 DEF Inode
  <2>9. DioIs(i, 0)
    <3>1. CASE dinode' = [dinode EXCEPT ![i].dio = 0]
      BY <1>1, <3>1, DioSet DEF OInv
    <3>2. CASE dinode[i].dio = 0 /\ dinode' = dinode
      BY <3>2 DEF OInv, Shape, DioIs
    <3> QED
      BY <2>2, <3>1, <3>2
  <2>10. DioIn(i, 0) /\ \A s \in ONode : s # dinode[i].dio => orphanDir'[s] = orphanDir[s]
    BY <2>2, DioEntryGone
  <2>12. \A m \in ONode : ~core'[m][i].dio
    BY <2>1, <2>3, <2>7, <2>8 DEF CoreOnly, RwFree
  <2>13. ASSUME NEW m \in ONode PROVE ScanOK(m)'
    <3>1. ScanOK(m)
      BY DEF OInv
    <3>2. CASE m = n
      BY <3>1, <3>2, <1>2, <1>4, <1>9, <1>10 DEF ScanOK
    <3>3. CASE m # n
      <4>1. scan'[m] = scan[m]
        BY <3>3, <1>9
      <4>2. scan[m].pc = "dir" => scan[m].slot # dinode[i].dio
        BY <2>2, <3>1, ONodeAssumption DEF OrphanDirFree, ScanOK
      <4> QED
        BY <3>1, <4>1, <4>2, <2>10 DEF ScanOK
    <3> QED
      BY <3>2, <3>3
  <2>14. Shape'
    BY <1>4, <1>9, <1>12, <2>7, <2>9, <2>10 DEF OInv, Shape, SameStory, CoreOnly, DioIs, DioIn
  <2>15. FreshAt(n, i)
    BY <2>3, <2>4, <2>7, <2>8 DEF FreshAt
  <2>16. Alright
    <3>1. \A m \in ONode, j \in Ino : Referred(m, j)' => core[m][j].st = "in"
      BY <1>1, <1>4, <1>11, <2>15, DioRefers DEF FreshAt
    <3> QED
      BY <3>1, <2>13 DEF Alright
  <2> QED
    BY <1>1, <1>4, <1>6, <1>12, <2>1, <2>9, <2>10, <2>12, <2>14, <2>15, <2>16, DioStep
<1> QED
  BY <1>13, <1>14

-----------------------------------------------------------------------------
(* Steps that write an inode on disk.                                      *)

\* On disk only inode i changes, and directories of orphans that nobody reads.
DiskOnly(i) ==
  /\ \A j \in Ino : j # i => dinode'[j] = dinode[j] /\ Cardinality(NamesOf(j)') = Cardinality(NamesOf(j))
  /\ \A s \in ONode, j \in Ino, b \in BOOLEAN : j # i => (<<j, b>> \in orphanDir'[s] <=> <<j, b>> \in orphanDir[s])
  /\ \A s \in ONode : orphanDir'[s] = orphanDir[s] \/ OrphanDirFree(s)

\* The operation is node n's.
NodeOnly(n) ==
  /\ \A m \in ONode : m # n => task'[m] = task[m] /\ dent'[m] = dent[m]
  /\ dirBy' = dirBy \/ dirBy = n
  /\ names' = names \/ dirBy \in {0, n}

\* It has let go of the locks it had for a task, and of that of i.
LocksGo(n, i) ==
  /\ \A j \in Ino : lockedBy'[j] = lockedBy[j] \/ (lockedBy'[j] = Free /\ (j = i \/ lockedBy[j] = <<n, "task">>))
  /\ \A m \in ONode : lockedBy'[i] # <<m, "task">>
  /\ task'[n] = task[n] \/ \A j \in Ino : lockedBy'[j] # <<n, "task">>

\* No other node has i in memory, or i keeps what the others know of it.
Alone(n, i) == \A m \in ONode : m # n => core[m][i].olk = "NL"
Known(n, i) ==
  /\ \A m \in ONode : m # n => ~core[m][i].skip /\ lockedBy[i] # <<m, "evict">>
  /\ dinode'[i].valid <=> dinode[i].valid
  /\ dinode'[i].life = dinode[i].life /\ dinode'[i].dio = dinode[i].dio
  /\ dinode[i].orphan \in {0, n} /\ core'[n][i].olk = core[n][i].olk

\* What is right of node n and of inode i after it
Fine(n, i) ==
  /\ RefOK(n)' /\ TaskOK(n)' /\ CoreOK(n, i)' /\ DiskOK(i)' /\ KeptOK(i)' /\ OpenOK(i)'
  /\ DirOK' /\ \A m \in ONode : DentOK(m)'

\* Another node that has nothing of an inode in memory does not refer to it.
LEMMA AloneFacts ==
  ASSUME OInv, NEW n \in ONode, NEW i \in Ino, Alone(n, i), NEW m \in ONode, m # n
  PROVE  core[m][i].st = "none" /\ ~core[m][i].skip /\ ~core[m][i].dio /\ ~Referred(m, i)
<1>1. CoreOK(m, i) /\ RefOK(m) /\ core[m][i].olk = "NL"
  BY DEF OInv, Alone
<1>2. core[m][i].st = "none" /\ ~core[m][i].skip
  BY <1>1 DEF CoreOK
<1>3. ~Referred(m, i)
  BY <1>1, <1>2 DEF RefOK
<1>4. ~core[m][i].dio
  BY <1>1, <1>3 DEF CoreOK, Referred
<1> QED
  BY <1>2, <1>3, <1>4

LEMMA WriteStep ==
  ASSUME OInv, SameStory, Shape', UNCHANGED <<oalive, scan>>, NEW n \in ONode, NEW i \in Ino,
         CoreOnly(n, i), DiskOnly(i), NodeOnly(n), LocksGo(n, i), Alone(n, i) \/ Known(n, i), Fine(n, i)
  PROVE  OInv'
<1>1. \A m \in ONode, j \in Ino : m # n \/ j # i => core'[m][j] = core[m][j]
  BY DEF CoreOnly
<1>2. ASSUME NEW m \in ONode PROVE RefOK(m)'
  <2>1. CASE m = n
    BY <2>1 DEF Fine
  <2>2. CASE m # n
    <3>1. task'[m] = task[m] /\ dent'[m] = dent[m] /\ RefOK(m)
      BY <2>2 DEF NodeOnly, OInv
    <3> QED
      BY <2>2, <3>1, <1>1 DEF RefOK, Referred
  <2> QED
    BY <2>1, <2>2
<1>3. ASSUME NEW m \in ONode, m # n PROVE task[m].op = "reflink" => task[m].ino \in Ino \ {i}
  <2>1. TaskOK(m) /\ task[m].ino \in InoOr0
    BY DEF OInv, Shape, Tasks
  <2>2. CASE Alone(n, i)
    BY <2>1, <2>2, <1>3, AloneFacts DEF TaskOK, Referred, InoOr0
  <2>3. CASE Known(n, i)
    <3>1. m # 0
      BY ONodeAssumption
    <3> QED
      BY <2>1, <2>3, <3>1, <1>3 DEF TaskOK, Known, InoOr0
  <2> QED
    BY <2>2, <2>3
<1>4. ASSUME NEW m \in ONode PROVE TaskOK(m)'
  <2>1. CASE m = n
    BY <2>1 DEF Fine
  <2>2. CASE m # n
    <3>1. task'[m] = task[m] /\ TaskOK(m) /\ m # 0
      BY <2>2, ONodeAssumption DEF NodeOnly, OInv
    <3>2. dirBy = m => dirBy' = m /\ names' = names
      BY <2>2, <3>1 DEF NodeOnly
    <3>3. task[m].op = "reflink" => dinode'[task[m].ino] = dinode[task[m].ino]
      BY <2>2, <1>3 DEF DiskOnly
    <3> QED
      BY <3>1, <3>2, <3>3 DEF TaskOK, SameStory, IsDir, NameOps
  <2> QED
    BY <2>1, <2>2
<1>5. \A m \in ONode : ScanOK(m)'
  BY DEF OInv, ScanOK, DiskOnly, OrphanDirFree
<1>6. ASSUME NEW j \in Ino PROVE OpenOK(j)'
  <2>1. CASE j = i
    BY <2>1 DEF Fine
  <2>2. CASE j # i
    BY <2>2, <1>1 DEF OInv, OpenOK, DiskOnly
  <2> QED
    BY <2>1, <2>2
<1>7. ASSUME NEW j \in Ino PROVE LockOK(j)'
  <2>1. CASE j = i
    BY <2>1 DEF LocksGo, LockOK
  <2>2. CASE j # i
    <3>1. ASSUME NEW m \in ONode, lockedBy'[j] = <<m, "task">>
          PROVE  core'[m][j].links = dinode'[j].links /\ task'[m].op \in NameOps /\ j \in {task'[m].ino, task'[m].old}
      <4>1. lockedBy[j] = <<m, "task">>
        BY <3>1, ONodeAssumption DEF LocksGo, Free
      <4>2. task'[m] = task[m]
        BY <3>1 DEF LocksGo, NodeOnly
      <4>3. core[m][j].links = dinode[j].links /\ task[m].op \in NameOps /\ j \in {task[m].ino, task[m].old}
        BY <4>1 DEF OInv, LockOK
      <4> QED
        BY <2>2, <4>2, <4>3, <1>1 DEF DiskOnly
    <3> QED
      BY <3>1 DEF LockOK
  <2> QED
    BY <2>1, <2>2
<1>8. ASSUME NEW j \in Ino, NEW m \in ONode PROVE CoreOK(m, j)'
  <2>0. CoreOK(m, j)
    BY DEF OInv
  <2>1. CASE j # i
    <3>1. dinode'[j] = dinode[j] /\ \A k \in ONode : core'[k][j] = core[k][j]
      BY <2>1, <1>1 DEF DiskOnly
    <3>2. lockedBy[j] = <<m, "evict">> => lockedBy'[j] = lockedBy[j]
      BY <2>1 DEF LocksGo
    <3> QED
      BY <2>0, <3>1, <3>2 DEF CoreOK
  <2>2. CASE j = i /\ m = n
    BY <2>2 DEF Fine
  <2>3. CASE j = i /\ m # n /\ Alone(n, i)
    <3>1. core'[m][i] = core[m][i]
      BY <2>3, <1>1
    <3>2. core[m][i].st = "none" /\ ~core[m][i].skip /\ ~core[m][i].dio /\ core[m][i].olk = "NL"
      BY <2>3, AloneFacts DEF Alone
    <3> QED
      BY <2>3, <3>1, <3>2 DEF CoreOK
  <2>4. CASE j = i /\ m # n /\ Known(n, i)
    <3>1. core'[m][i] = core[m][i]
      BY <2>4, <1>1
    <3>2. ~core[m][i].skip /\ core[m][i].st \notin {"wipe", "wiping"}
      BY <2>0, <2>4 DEF Known, CoreOK
    <3> QED
      BY <2>0, <2>4, <3>1, <3>2 DEF CoreOK, Known
  <2> QED
    BY <2>1, <2>2, <2>3, <2>4
<1>9. ASSUME NEW j \in Ino PROVE DiskOK(j)'
  <2>1. CASE j = i
    BY <2>1 DEF Fine
  <2>2. CASE j # i
    <3>1. DiskOK(j) /\ Links(j)' = Links(j) /\ (IsDir(j)' <=> IsDir(j))
      BY DEF OInv, Links, IsDir, SameStory
    <3>2. dinode'[j] = dinode[j] /\ Cardinality(NamesOf(j)') = Cardinality(NamesOf(j))
      BY <2>2 DEF DiskOnly
    <3>3. \A s \in ONode : /\ <<j, FALSE>> \in orphanDir'[s] <=> <<j, FALSE>> \in orphanDir[s]
                           /\ <<j, TRUE>> \in orphanDir'[s] <=> <<j, TRUE>> \in orphanDir[s]
      BY <2>2 DEF DiskOnly
    <3> QED
      BY <3>1, <3>2, <3>3 DEF DiskOK
  <2> QED
    BY <2>1, <2>2
<1>10. ASSUME NEW j \in Ino PROVE KeptOK(j)'
  <2>1. CASE j = i
    BY <2>1 DEF Fine
  <2>2. CASE j # i
    <3>1. KeptOK(j) /\ dinode'[j] = dinode[j] /\ \A m \in ONode : core'[m][j] = core[m][j]
      BY <2>2, <1>1 DEF OInv, DiskOnly
    <3> QED
      BY <3>1 DEF KeptOK
  <2> QED
    BY <2>1, <2>2
<1>11. DirOK' /\ \A m \in ONode : DentOK(m)'
  BY DEF Fine
<1> QED
  BY <1>2, <1>4, <1>5, <1>6, <1>7, <1>8, <1>9, <1>10, <1>11 DEF OInv

-----------------------------------------------------------------------------
(* Names come and go.                                                      *)

LEMMA NamesStay ==
  ASSUME SameStory, UNCHANGED names
  PROVE  DirNames' = DirNames /\ \A j \in Ino : NamesOf(j)' = NamesOf(j)
BY DEF DirNames, NamesOf, SameStory, IsDir

LEMMA NameAdded ==
  ASSUME Shape, SameStory, NEW nm \in Name, NEW i \in Ino, names[nm] = 0, names' = [names EXCEPT ![nm] = i]
  PROVE  /\ names' \in [Name -> InoOr0] /\ names'[nm] = i /\ \A x \in Name : x # nm => names'[x] = names[x]
         /\ Cardinality(NamesOf(i)) \in Nat /\ Cardinality(NamesOf(i)') = Cardinality(NamesOf(i)) + 1
         /\ \A j \in Ino : j # i => Cardinality(NamesOf(j)') = Cardinality(NamesOf(j))
         /\ Cardinality(DirNames) \in Nat
         /\ Cardinality(DirNames') = Cardinality(DirNames) + IF IsDir(i) THEN 1 ELSE 0
<1>1. /\ names' \in [Name -> InoOr0] /\ names'[nm] = i /\ i # 0
      /\ \A x \in Name : x # nm => names'[x] = names[x]
  BY InoAssumption DEF Shape, InoOr0
<1>2. Cardinality(NamesOf(i)) \in Nat /\ Cardinality(NamesOf(i)') = Cardinality(NamesOf(i)) + 1
  <2>1. NamesOf(i) \in SUBSET Name /\ NamesOf(i)' \in SUBSET Name /\ nm \notin NamesOf(i)
    BY <1>1, NamesFacts
  <2>2. \A x \in Name : x \in NamesOf(i)' <=> x \in NamesOf(i) \/ x = nm
    BY <1>1, NamesFacts
  <2> QED
    BY <2>1, <2>2, OneMore
<1>3. ASSUME NEW j \in Ino, j # i PROVE Cardinality(NamesOf(j)') = Cardinality(NamesOf(j))
  <2>1. NamesOf(j) \in SUBSET Name /\ NamesOf(j)' \in SUBSET Name /\ j # 0
    BY NamesFacts, InoAssumption
  <2>2. \A x \in Name : x \in NamesOf(j)' <=> x \in NamesOf(j)
    BY <1>1, <1>3, <2>1, NamesFacts
  <2>3. NamesOf(j)' = NamesOf(j)
    BY <2>1, <2>2
  <2> QED
    BY <2>3
<1>4. Cardinality(DirNames) \in Nat
      /\ Cardinality(DirNames') = Cardinality(DirNames) + IF IsDir(i) THEN 1 ELSE 0
  <2>1. DirNames \in SUBSET Name /\ DirNames' \in SUBSET Name /\ nm \notin DirNames
    BY NamesFacts
  <2>2. \A x \in Name : x \in DirNames' <=> x \in DirNames \/ (x = nm /\ IsDir(i))
    BY <1>1, NamesFacts DEF SameStory, IsDir
  <2>3. CASE IsDir(i)
    BY <2>1, <2>2, <2>3, OneMore
  <2>4. CASE ~IsDir(i)
    <3>1. DirNames' = DirNames
      BY <2>1, <2>2, <2>4
    <3> QED
      BY <2>1, <2>4, <3>1, NoneAtAll
  <2> QED
    BY <2>3, <2>4
<1> QED
  BY <1>1, <1>2, <1>3, <1>4

LEMMA NameGone ==
  ASSUME Shape, SameStory, NEW nm \in Name, NEW i \in Ino, names[nm] = i, names' = [names EXCEPT ![nm] = 0]
  PROVE  /\ names' \in [Name -> InoOr0] /\ names'[nm] = 0 /\ \A x \in Name : x # nm => names'[x] = names[x]
         /\ Cardinality(NamesOf(i)') \in Nat /\ Cardinality(NamesOf(i)) = Cardinality(NamesOf(i)') + 1
         /\ \A j \in Ino : j # i => Cardinality(NamesOf(j)') = Cardinality(NamesOf(j))
         /\ Cardinality(DirNames') \in Nat
         /\ Cardinality(DirNames) = Cardinality(DirNames') + IF IsDir(i) THEN 1 ELSE 0
<1>1. /\ names' \in [Name -> InoOr0] /\ names'[nm] = 0 /\ i # 0
      /\ \A x \in Name : x # nm => names'[x] = names[x]
  BY InoAssumption DEF Shape, InoOr0
<1>2. Cardinality(NamesOf(i)') \in Nat /\ Cardinality(NamesOf(i)) = Cardinality(NamesOf(i)') + 1
  <2>1. NamesOf(i) \in SUBSET Name /\ NamesOf(i)' \in SUBSET Name /\ nm \notin NamesOf(i)'
    BY <1>1, NamesFacts
  <2>2. \A x \in Name : x \in NamesOf(i) <=> x \in NamesOf(i)' \/ x = nm
    BY <1>1, NamesFacts
  <2> QED
    BY <2>1, <2>2, OneMore
<1>3. ASSUME NEW j \in Ino, j # i PROVE Cardinality(NamesOf(j)') = Cardinality(NamesOf(j))
  <2>1. NamesOf(j) \in SUBSET Name /\ NamesOf(j)' \in SUBSET Name /\ j # 0
    BY NamesFacts, InoAssumption
  <2>2. \A x \in Name : x \in NamesOf(j)' <=> x \in NamesOf(j)
    BY <1>1, <1>3, <2>1, NamesFacts
  <2>3. NamesOf(j)' = NamesOf(j)
    BY <2>1, <2>2
  <2> QED
    BY <2>3
<1>4. Cardinality(DirNames') \in Nat
      /\ Cardinality(DirNames) = Cardinality(DirNames') + IF IsDir(i) THEN 1 ELSE 0
  <2>1. DirNames \in SUBSET Name /\ DirNames' \in SUBSET Name /\ nm \notin DirNames'
    BY <1>1, NamesFacts
  <2>2. \A x \in Name : x \in DirNames <=> x \in DirNames' \/ (x = nm /\ IsDir(i))
    BY <1>1, NamesFacts DEF SameStory, IsDir
  <2>3. CASE IsDir(i)
    BY <2>1, <2>2, <2>3, OneMore
  <2>4. CASE ~IsDir(i)
    <3>1. DirNames' = DirNames
      BY <2>1, <2>2, <2>4
    <3> QED
      BY <2>1, <2>4, <3>1, NoneAtAll
  <2> QED
    BY <2>3, <2>4
<1> QED
  BY <1>1, <1>2, <1>3, <1>4

LEMMA DinodeSet ==
  ASSUME Shape, NEW i \in Ino, NEW v \in Dinode, dinode' = [dinode EXCEPT ![i] = v]
  PROVE  dinode' \in [Ino -> Dinode] /\ dinode'[i] = v /\ \A j \in Ino : j # i => dinode'[j] = dinode[j]
BY DEF Shape

\* Who has an inode's lock for a task refers to the inode.
LEMMA LockRefers ==
  ASSUME OInv, NEW m \in ONode, NEW i \in Ino, lockedBy[i] = <<m, "task">>
  PROVE  Referred(m, i) /\ core[m][i].st = "in"
<1>1. Referred(m, i)
  BY DEF OInv, LockOK, Referred
<1> QED
  BY <1>1 DEF OInv, RefOK

\* An inode that is free on disk, and can be had, is in nobody's memory.
LEMMA FreeInode ==
  ASSUME OInv, NEW n \in ONode, NEW i \in Ino, ~dinode[i].valid, core[n][i].st = "none", OpenLockable(i)
  PROVE  /\ Alone(n, i) /\ \A m \in ONode : lockedBy[i] # <<m, "task">>
         /\ dinode[i].orphan = 0 /\ dinode[i].dio = 0 /\ dinode[i].life \in Nat
         /\ Cardinality(NamesOf(i)) = 0 /\ \A x \in Name : names[x] # i
         /\ \A m \in ONode : ~Referred(m, i)
<1>1. Alone(n, i)
  <2>1. \A m \in ONode : core[m][i].olk \in {"NL", "PR", "EX"}
    BY DEF OInv, Shape, Inode
  <2> QED
    BY <2>1 DEF Alone, OpenLockable, OInv, OpenOK
<1>2. \A m \in ONode : ~Referred(m, i)
  <2>1. ~Referred(n, i)
    BY DEF OInv, RefOK
  <2> QED
    BY <2>1, <1>1, AloneFacts
<1>3. \A m \in ONode : lockedBy[i] # <<m, "task">>
  BY <1>2, LockRefers
<1>4. DiskOK(i) /\ dinode[i].life \in Nat
  BY DEF OInv, Shape, Dinode
<1>5. dinode[i].orphan = 0 /\ dinode[i].dio = 0
  BY <1>4 DEF DiskOK
<1>6. \A x \in Name : names[x] # i
  BY NamelessInode
<1>7. Cardinality(NamesOf(i)) = 0
  <2>1. NamesOf(i) \in SUBSET Name /\ \A x \in Name : x \notin NamesOf(i)
    BY <1>6, NamesFacts
  <2> QED
    BY <2>1, NoneAtAll
<1> QED
  BY <1>1, <1>2, <1>3, <1>4, <1>5, <1>6, <1>7

LEMMA CreateStep ==
  ASSUME OInv, NEW n \in oalive, NEW nm \in Name, NEW i \in Ino, NEW ok \in BOOLEAN, Create(n, nm, i, ok)
  PROVE  OInv'
<1>1. n \in ONode /\ n # 0
  BY ONodeAssumption DEF OInv, Shape
<1>2. SameStory
  BY <1>1, DidStays DEF OInv, Create, OpNames
<1>3. /\ task[n] = NoTask /\ dirBy = 0 /\ names[nm] = 0 /\ ~dinode[i].valid /\ core[n][i].st = "none" /\ OpenLockable(i)
      /\ UNCHANGED <<oalive, orphanDir, task, scan, wipes, lockedBy, dirBy>>
  BY DEF Create, Idle
<1>4. PICK links \in Nat : links = (IF ok THEN Links(i) ELSE 0) /\ (ok => links # 0)
  BY DEF Links
<1>5. PICK life \in Nat : life = dinode[i].life + 1
  BY <1>1, <1>3, FreeInode
<1>6. PICK d \in Dinode : d = [valid |-> TRUE, links |-> links, orphan |-> 0, dio |-> 0, life |-> life]
  BY DEF Dinode, NodeOr0
<1>7. dinode' = [dinode EXCEPT ![i] = d]
  BY <1>4, <1>5, <1>6 DEF Create
<1>8. /\ dinode' \in [Ino -> Dinode] /\ dinode'[i] = d /\ \A j \in Ino : j # i => dinode'[j] = dinode[j]
      /\ d.valid /\ d.links = links /\ d.orphan = 0 /\ d.dio = 0 /\ d.life = life
  BY <1>6, <1>7, DinodeSet DEF OInv
<1>9. PICK skip \in BOOLEAN : skip = ~ok /\ (skip <=> ~ok)
  OBVIOUS
<1>10. PICK v \in Inode : v = [Absent EXCEPT !.st = "in", !.links = links, !.skip = skip, !.olk = "PR", !.life = life]
         /\ v.st = "in" /\ v.links = links /\ v.olk = "PR" /\ v.life = life /\ v.opens = 0 /\ ~v.dio
         /\ (v.skip <=> ~ok)
  <2>1. PICK a \in Inode : a = Absent
    BY DEF Absent, Inode, States
  <2>10. a.opens = 0 /\ ~a.dio
    BY <2>1 DEF Absent
  <2>2. PICK b \in Inode : b = [a EXCEPT !.st = "in"]
    BY InodeEdit DEF States
  <2>3. PICK c \in Inode : c = [b EXCEPT !.links = links]
    BY InodeEdit
  <2>4. PICK e \in Inode : e = [c EXCEPT !.skip = skip]
    BY InodeEdit
  <2>5. PICK f \in Inode : f = [e EXCEPT !.olk = "PR"]
    BY InodeEdit
  <2>6. PICK g \in Inode : g = [f EXCEPT !.life = life]
    BY InodeEdit
  <2>7. g = [Absent EXCEPT !.st = "in", !.links = links, !.skip = skip, !.olk = "PR", !.life = life]
    BY <2>1, <2>2, <2>3, <2>4, <2>5, <2>6
  <2>8. /\ g.st = "in" /\ g.links = links /\ g.olk = "PR" /\ g.life = life /\ g.opens = a.opens
        /\ g.dio <=> a.dio
        /\ g.skip <=> skip
    BY <2>2, <2>3, <2>4, <2>5, <2>6 DEF Inode
  <2>9. g.opens = 0 /\ ~g.dio /\ (g.skip <=> ~ok)
    BY <2>8, <2>10, <1>9
  <2> QED
    BY <2>7, <2>8, <2>9
<1>12. core' = [core EXCEPT ![n][i] = v]
  BY <1>4, <1>5, <1>9, <1>10 DEF Create
<1>13. CoreOnly(n, i) /\ core'[n][i] = v
  <2>1. Shape
    BY DEF OInv
  <2> QED
    BY ONLY i \in Ino, v \in Inode, <2>1, <1>1, <1>12, CoreSet
<1>14. /\ Alone(n, i) /\ \A m \in ONode : lockedBy[i] # <<m, "task">> /\ ~Referred(m, i)
       /\ dinode[i].orphan = 0 /\ dinode[i].dio = 0 /\ Cardinality(NamesOf(i)) = 0 /\ \A x \in Name : names[x] # i
  BY <1>1, <1>3, FreeInode
<1>15. /\ names' \in [Name -> InoOr0] /\ \A x \in Name : names'[x] = IF ok /\ x = nm THEN i ELSE names[x]
       /\ Cardinality(NamesOf(i)') * Links(i) = links
       /\ \A j \in Ino : j # i => Cardinality(NamesOf(j)') = Cardinality(NamesOf(j))
       /\ dirLinks' = 2 + Cardinality(DirNames')
       /\ dent' = IF ok THEN [dent EXCEPT ![n][nm] = i] ELSE dent
  <2>0. dirLinks = 2 + Cardinality(DirNames) /\ Links(i) \in Nat
    BY DEF OInv, DirOK, Links
  <2>1. CASE ok
    <3>1. names' = [names EXCEPT ![nm] = i] /\ dent' = [dent EXCEPT ![n][nm] = i]
          /\ dirLinks' = IF IsDir(i) THEN dirLinks + 1 ELSE dirLinks
      BY <2>1 DEF Create, Named
    <3>2. /\ names' \in [Name -> InoOr0] /\ names'[nm] = i /\ \A x \in Name : x # nm => names'[x] = names[x]
          /\ Cardinality(NamesOf(i)') = Cardinality(NamesOf(i)) + 1
          /\ \A j \in Ino : j # i => Cardinality(NamesOf(j)') = Cardinality(NamesOf(j))
          /\ Cardinality(DirNames) \in Nat
          /\ Cardinality(DirNames') = Cardinality(DirNames) + IF IsDir(i) THEN 1 ELSE 0
      BY <3>1, <1>2, <1>3, NameAdded DEF OInv
    <3>3. Cardinality(NamesOf(i)') = 1
      BY <3>2, <1>14
    <3>4. dirLinks' = 2 + Cardinality(DirNames')
      BY <2>0, <3>1, <3>2
    <3> QED
      BY <2>0, <2>1, <3>1, <3>2, <3>3, <3>4, <1>4
  <2>2. CASE ~ok
    <3>1. UNCHANGED <<names, dent, dirLinks>>
      BY <2>2 DEF Create
    <3>2. DirNames' = DirNames /\ \A j \in Ino : NamesOf(j)' = NamesOf(j)
      BY <3>1, <1>2, NamesStay
    <3>3. names \in [Name -> InoOr0]
      BY DEF OInv, Shape
    <3> QED
      BY <2>0, <2>2, <3>1, <3>2, <3>3, <1>4, <1>14
  <2> QED
    BY <2>1, <2>2
<1>16. /\ dent' \in [ONode -> [Name -> InoOr0]]
       /\ \A m \in ONode, x \in Name : dent'[m][x] = IF m = n /\ ok /\ x = nm THEN i ELSE dent[m][x]
       /\ \A m \in ONode : m # n => dent'[m] = dent[m]
  <2>1. dent \in [ONode -> [Name -> InoOr0]]
    BY DEF OInv, Shape
  <2>2. [dent[n] EXCEPT ![nm] = i] \in [Name -> InoOr0]
    BY <1>1, <2>1 DEF InoOr0
  <2>3. [dent EXCEPT ![n][nm] = i] = [dent EXCEPT ![n] = [dent[n] EXCEPT ![nm] = i]]
    BY <1>1, <2>1
  <2> QED
    BY <1>1, <1>15, <2>1, <2>2, <2>3
<1>17. Shape'
  BY <1>2, <1>3, <1>8, <1>13, <1>15, <1>16 DEF OInv, Shape, SameStory, CoreOnly
<1>18. DiskOnly(i)
  BY <1>3, <1>8, <1>15 DEF DiskOnly
<1>19. NodeOnly(n)
  BY <1>3, <1>16 DEF NodeOnly
<1>20. LocksGo(n, i)
  BY <1>3, <1>14 DEF LocksGo
<1>21. RefOK(n)'
  <2>1. ASSUME NEW j \in Ino, Referred(n, j)' PROVE core'[n][j].st = "in"
    <3>1. CASE j = i
      BY <3>1, <1>10, <1>13
    <3>2. CASE j # i
      <4>1. core'[n][j] = core[n][j]
        BY <1>1, <3>2, <1>13 DEF CoreOnly
      <4>2. \A x \in Name : dent'[n][x] = j => dent[n][x] = j
        BY <1>1, <3>2, <1>16
      <4>3. Referred(n, j)
        BY <2>1, <4>1, <4>2, <1>3 DEF Referred
      <4> QED
        BY <1>1, <4>1, <4>3 DEF OInv, RefOK
    <3> QED
      BY <3>1, <3>2
  <2> QED
    BY <2>1 DEF RefOK
<1>22. \A m \in ONode : DentOK(m)'
  <2>1. ASSUME NEW m \in ONode, NEW x \in Name, dent'[m][x] # 0
        PROVE  names'[x] = dent'[m][x] /\ m \in oalive
    <3>1. CASE m = n /\ ok /\ x = nm
      BY <3>1, <1>1, <1>15, <1>16
    <3>2. CASE ~(m = n /\ ok /\ x = nm)
      <4>1. dent'[m][x] = dent[m][x]
        BY <3>2, <1>16
      <4>2. names[x] = dent[m][x] /\ m \in oalive
        BY <2>1, <4>1 DEF OInv, DentOK
      <4>3. names'[x] = names[x]
        BY <2>1, <4>1, <4>2, <1>3, <1>15
      <4> QED
        BY <4>1, <4>2, <4>3
    <3> QED
      BY <3>1, <3>2
  <2> QED
    BY <2>1, <1>3 DEF DentOK
<1>23. TaskOK(n)'
  BY <1>3 DEF TaskOK, NoTask, NameOps
<1>24. CoreOK(n, i)'
  <2>1. \A m \in ONode : m # n => core'[m][i].olk = "NL"
    BY <1>13, <1>14 DEF CoreOnly, Alone
  <2> QED
    BY <2>1, <1>4, <1>6, <1>8, <1>10, <1>13 DEF CoreOK
<1>25. DiskOK(i)' /\ OpenOK(i)' /\ KeptOK(i)'
  <2>1. DiskOK(i)'
    <3>1. DiskOK(i) /\ Links(i)' = Links(i) /\ (IsDir(i)' <=> IsDir(i))
      BY <1>2 DEF OInv, Links, IsDir, SameStory
    <3>2. IsDir(i) => links \in {0, 2}
      BY <1>4 DEF Links
    <3> QED
      BY <3>1, <3>2, <1>3, <1>6, <1>8, <1>14, <1>15 DEF DiskOK
  <2>2. OpenOK(i)'
    <3>1. \A m \in ONode : m # n => core'[m][i].olk = "NL"
      BY <1>13, <1>14 DEF CoreOnly, Alone
    <3> QED
      BY <3>1, <1>6, <1>8, <1>10, <1>13 DEF OpenOK
  <2>3. KeptOK(i)'
    BY <1>1, <1>4, <1>6, <1>8, <1>10, <1>13 DEF KeptOK
  <2> QED
    BY <2>1, <2>2, <2>3
<1>26. DirOK'
  <2>1. ASSUME NEW x \in Name, names'[x] # 0 PROVE dinode'[names'[x]].valid
    <3>1. CASE ok /\ x = nm
      BY <3>1, <1>6, <1>8, <1>15
    <3>2. CASE ~(ok /\ x = nm)
      <4>1. names'[x] = names[x] /\ names[x] # i
        BY <3>2, <1>14, <1>15
      <4>2. names[x] \in Ino /\ dinode[names[x]].valid
        BY <2>1, <4>1 DEF OInv, Shape, InoOr0, DirOK
      <4> QED
        BY <4>1, <4>2, <1>8
    <3> QED
      BY <3>1, <3>2
  <2> QED
    BY <2>1, <1>15 DEF DirOK
<1>27. Fine(n, i)
  BY <1>21, <1>22, <1>23, <1>24, <1>25, <1>26 DEF Fine
<1>28. Alone(n, i) /\ UNCHANGED <<oalive, scan>>
  BY <1>3, <1>14
<1> QED
  BY <1>1, <1>2, <1>13, <1>17, <1>18, <1>19, <1>20, <1>27, <1>28, WriteStep

\* An orphan more in a directory of orphans, and one less
LEMMA OrphanAdded ==
  ASSUME Shape, NEW n \in ONode, NEW i \in Ino, orphanDir' = [orphanDir EXCEPT ![n] = @ \union {<<i, FALSE>>}]
  PROVE  /\ orphanDir' \in [ONode -> SUBSET Entries]
         /\ \A s \in ONode : s # n => orphanDir'[s] = orphanDir[s]
         /\ \A s \in ONode, j \in Ino, b \in BOOLEAN : j # i => (<<j, b>> \in orphanDir'[s] <=> <<j, b>> \in orphanDir[s])
         /\ \A s \in ONode : <<i, TRUE>> \in orphanDir'[s] <=> <<i, TRUE>> \in orphanDir[s]
         /\ \A s \in ONode : <<i, FALSE>> \in orphanDir'[s] <=> <<i, FALSE>> \in orphanDir[s] \/ s = n
<1>1. orphanDir \in [ONode -> SUBSET Entries]
  BY DEF Shape
<1>2. <<i, FALSE>> \in Entries
  BY DEF Entries
<1>3. orphanDir'[n] = orphanDir[n] \union {<<i, FALSE>>} /\ \A s \in ONode : s # n => orphanDir'[s] = orphanDir[s]
  BY <1>1
<1>4. orphanDir' \in [ONode -> SUBSET Entries]
  <2>1. orphanDir[n] \union {<<i, FALSE>>} \in SUBSET Entries
    BY <1>1, <1>2
  <2>2. orphanDir' = [orphanDir EXCEPT ![n] = orphanDir[n] \union {<<i, FALSE>>}]
    OBVIOUS
  <2> QED
    BY ONLY <2>1, <2>2, <1>1
<1> QED
  BY <1>3, <1>4

LEMMA OrphanGone ==
  ASSUME Shape, NEW n \in ONode, NEW i \in Ino, orphanDir' = OrphanDel(n, <<i, FALSE>>)
  PROVE  /\ orphanDir' \in [ONode -> SUBSET Entries]
         /\ \A s \in ONode : s # n => orphanDir'[s] = orphanDir[s]
         /\ \A s \in ONode, j \in Ino, b \in BOOLEAN : j # i => (<<j, b>> \in orphanDir'[s] <=> <<j, b>> \in orphanDir[s])
         /\ \A s \in ONode : <<i, TRUE>> \in orphanDir'[s] <=> <<i, TRUE>> \in orphanDir[s]
         /\ \A s \in ONode : <<i, FALSE>> \in orphanDir'[s] <=> <<i, FALSE>> \in orphanDir[s] /\ s # n
<1>1. orphanDir \in [ONode -> SUBSET Entries]
  BY DEF Shape
<1>2. orphanDir' = [orphanDir EXCEPT ![n] = orphanDir[n] \ {<<i, FALSE>>}]
  BY DEF OrphanDel
<1>3. orphanDir'[n] = orphanDir[n] \ {<<i, FALSE>>} /\ \A s \in ONode : s # n => orphanDir'[s] = orphanDir[s]
  BY <1>1, <1>2
<1>4. orphanDir' \in [ONode -> SUBSET Entries]
  <2>1. orphanDir[n] \ {<<i, FALSE>>} \in SUBSET Entries
    BY <1>1
  <2> QED
    BY ONLY <2>1, <1>1, <1>2
<1> QED
  BY <1>3, <1>4

LEMMA ReflinkCreateStep ==
  ASSUME OInv, NEW n \in oalive, NEW nm \in Name, NEW i \in Ino, ReflinkCreate(n, nm, i)
  PROVE  OInv'
<1>1. n \in ONode /\ n # 0
  BY ONodeAssumption DEF OInv, Shape
<1>2. SameStory
  BY <1>1, DidStays DEF OInv, ReflinkCreate, OpNames
<1>3. /\ task[n] = NoTask /\ dirBy = 0 /\ ~dinode[i].valid /\ core[n][i].st = "none" /\ OpenLockable(i)
      /\ ~IsDir(i) /\ OrphanDirFree(n)
      /\ orphanDir' = [orphanDir EXCEPT ![n] = @ \union {<<i, FALSE>>}]
      /\ task' = [task EXCEPT ![n] = [op |-> "reflink", from |-> 0, to |-> nm, ino |-> i, old |-> 0]]
      /\ UNCHANGED <<oalive, names, dirLinks, dent, scan, wipes, lockedBy, dirBy>>
  BY DEF ReflinkCreate, Idle, Begin
<1>4. Shape
  BY DEF OInv
<1>5. PICK life \in Nat : life = dinode[i].life + 1
  BY <1>1, <1>3, FreeInode
<1>6. PICK d \in Dinode : d = [valid |-> TRUE, links |-> 0, orphan |-> n, dio |-> 0, life |-> life]
  BY <1>1 DEF Dinode, NodeOr0
<1>7. dinode' = [dinode EXCEPT ![i] = d]
  BY <1>5, <1>6 DEF ReflinkCreate
<1>8. /\ dinode' \in [Ino -> Dinode] /\ dinode'[i] = d /\ \A j \in Ino : j # i => dinode'[j] = dinode[j]
      /\ d.valid /\ d.links = 0 /\ d.orphan = n /\ d.dio = 0 /\ d.life = life
  BY <1>6, <1>7, DinodeSet DEF OInv
<1>9. PICK v \in Inode : v = [Absent EXCEPT !.st = "in", !.olk = "PR", !.life = life]
         /\ v.st = "in" /\ v.links = 0 /\ v.olk = "PR" /\ v.life = life /\ v.opens = 0 /\ ~v.dio /\ ~v.skip
  <2>1. PICK a \in Inode : a = Absent
    BY DEF Absent, Inode, States
  <2>2. a.opens = 0 /\ ~a.dio /\ ~a.skip /\ a.links = 0
    BY <2>1 DEF Absent
  <2>3. PICK b \in Inode : b = [a EXCEPT !.st = "in"]
    BY InodeEdit DEF States
  <2>4. PICK f \in Inode : f = [b EXCEPT !.olk = "PR"]
    BY InodeEdit
  <2>5. PICK g \in Inode : g = [f EXCEPT !.life = life]
    BY InodeEdit
  <2>6. g = [Absent EXCEPT !.st = "in", !.olk = "PR", !.life = life]
    BY <2>1, <2>3, <2>4, <2>5
  <2>7. /\ g.st = "in" /\ g.links = a.links /\ g.olk = "PR" /\ g.life = life /\ g.opens = a.opens
        /\ g.dio <=> a.dio
        /\ g.skip <=> a.skip
    BY <2>3, <2>4, <2>5 DEF Inode
  <2> QED
    BY <2>2, <2>6, <2>7
<1>10. core' = [core EXCEPT ![n][i] = v]
  BY <1>5, <1>9 DEF ReflinkCreate
<1>11. CoreOnly(n, i) /\ core'[n][i] = v
  BY ONLY i \in Ino, v \in Inode, <1>4, <1>1, <1>10, CoreSet
<1>12. /\ Alone(n, i) /\ \A m \in ONode : lockedBy[i] # <<m, "task">> /\ ~Referred(m, i)
       /\ dinode[i].orphan = 0 /\ dinode[i].dio = 0 /\ Cardinality(NamesOf(i)) = 0 /\ \A x \in Name : names[x] # i
  BY <1>1, <1>3, FreeInode
<1>13. DirNames' = DirNames /\ \A j \in Ino : NamesOf(j)' = NamesOf(j)
  BY <1>2, <1>3, NamesStay
<1>14. PICK t \in Tasks : t = [op |-> "reflink", from |-> 0, to |-> nm, ino |-> i, old |-> 0]
  BY DEF Tasks, NameOr0, InoOr0
<1>15. task' \in [ONode -> Tasks] /\ task'[n] = t /\ \A m \in ONode : m # n => task'[m] = task[m]
  <2>1. task \in [ONode -> Tasks] /\ task' = [task EXCEPT ![n] = t]
    BY <1>3, <1>4, <1>14 DEF Shape
  <2> QED
    BY ONLY <2>1, <1>1, t \in Tasks
<1>16. /\ orphanDir' \in [ONode -> SUBSET Entries]
       /\ \A s \in ONode : s # n => orphanDir'[s] = orphanDir[s]
       /\ \A s \in ONode, j \in Ino, b \in BOOLEAN : j # i => (<<j, b>> \in orphanDir'[s] <=> <<j, b>> \in orphanDir[s])
       /\ \A s \in ONode : <<i, TRUE>> \in orphanDir'[s] <=> <<i, TRUE>> \in orphanDir[s]
       /\ \A s \in ONode : <<i, FALSE>> \in orphanDir'[s] <=> <<i, FALSE>> \in orphanDir[s] \/ s = n
  BY <1>1, <1>3, <1>4, OrphanAdded
<1>17. Shape'
  BY <1>2, <1>3, <1>8, <1>11, <1>15, <1>16 DEF OInv, Shape, SameStory, CoreOnly
<1>18. DiskOnly(i)
  BY <1>3, <1>8, <1>13, <1>16 DEF DiskOnly
<1>19. NodeOnly(n)
  BY <1>3, <1>15 DEF NodeOnly
<1>20. LocksGo(n, i)
  <2>1. \A j \in Ino : lockedBy[j] # <<n, "task">>
    BY <1>1, <1>3, NoTaskNoLock DEF NoTask, NameOps
  <2> QED
    BY <2>1, <1>3, <1>12 DEF LocksGo
<1>21. RefOK(n)'
  <2>1. ASSUME NEW j \in Ino, Referred(n, j)' PROVE core'[n][j].st = "in"
    <3>1. CASE j = i
      BY <3>1, <1>9, <1>11
    <3>2. CASE j # i
      <4>1. core'[n][j] = core[n][j]
        BY <1>1, <3>2, <1>11 DEF CoreOnly
      <4>2. t.ino # j /\ t.old # j
        BY <3>2, <1>14, InoAssumption
      <4>3. Referred(n, j)
        BY <2>1, <4>1, <4>2, <1>3, <1>15 DEF Referred
      <4> QED
        BY <1>1, <4>1, <4>3 DEF OInv, RefOK
    <3> QED
      BY <3>1, <3>2
  <2> QED
    BY <2>1 DEF RefOK
<1>22. \A m \in ONode : DentOK(m)'
  BY <1>3 DEF OInv, DentOK
<1>23. TaskOK(n)'
  BY <1>2, <1>3, <1>8, <1>14, <1>15, InoAssumption DEF TaskOK, NameOps, SameStory, IsDir
<1>24. CoreOK(n, i)'
  BY <1>8, <1>9, <1>11 DEF CoreOK
<1>25. DiskOK(i)' /\ OpenOK(i)' /\ KeptOK(i)'
  <2>1. DiskOK(i)'
    <3>1. DiskOK(i) /\ Links(i)' = 1 /\ ~IsDir(i)'
      BY <1>2, <1>3 DEF OInv, Links, IsDir, SameStory
    <3>2. \A s \in ONode : <<i, FALSE>> \notin orphanDir[s]
      BY <3>1, <1>12, ONodeAssumption DEF DiskOK
    <3>3. Cardinality(NamesOf(i)') = 0
      BY <1>12, <1>13
    <3>4. dinode'[i].links = Cardinality(NamesOf(i)') * Links(i)'
      BY <3>1, <3>3, <1>8
    <3>5. ASSUME NEW s \in ONode
          PROVE  /\ <<i, FALSE>> \in orphanDir'[s] <=> s = dinode'[i].orphan
                 /\ <<i, TRUE>> \in orphanDir'[s] <=> s = dinode'[i].dio
      <4>1. <<i, FALSE>> \notin orphanDir[s] /\ <<i, TRUE>> \notin orphanDir[s] /\ s # 0
        BY <3>1, <3>2, <1>12, ONodeAssumption DEF DiskOK
      <4>2. dinode'[i].orphan = n /\ dinode'[i].dio = 0
        BY <1>8
      <4> QED
        BY <4>1, <4>2, <1>16
    <3> QED
      BY <3>1, <3>4, <3>5, <1>8 DEF DiskOK
  <2>2. OpenOK(i)'
    <3>1. \A m \in ONode : m # n => core'[m][i].olk = "NL"
      BY <1>11, <1>12 DEF CoreOnly, Alone
    <3> QED
      BY <3>1, <1>8, <1>9, <1>11 DEF OpenOK
  <2>3. KeptOK(i)'
    BY <1>1, <1>8 DEF KeptOK
  <2> QED
    BY <2>1, <2>2, <2>3
<1>26. DirOK'
  <2>1. ASSUME NEW x \in Name, names'[x] # 0 PROVE dinode'[names'[x]].valid
    <3>1. names'[x] = names[x] /\ names[x] # i
      BY <1>3, <1>12
    <3>2. names[x] \in Ino /\ dinode[names[x]].valid
      BY <2>1, <3>1 DEF OInv, Shape, InoOr0, DirOK
    <3> QED
      BY <3>1, <3>2, <1>8
  <2> QED
    BY <2>1, <1>3, <1>13 DEF OInv, DirOK
<1>27. Fine(n, i)
  BY <1>21, <1>22, <1>23, <1>24, <1>25, <1>26 DEF Fine
<1>28. Alone(n, i) /\ UNCHANGED <<oalive, scan>>
  BY <1>3, <1>12
<1> QED
  BY <1>1, <1>2, <1>11, <1>17, <1>18, <1>19, <1>20, <1>27, <1>28, WriteStep

-----------------------------------------------------------------------------
(* Operations on names commit.                                             *)

LEMMA DentSet ==
  ASSUME Shape, NEW n \in ONode, NEW nm \in Name, NEW j \in InoOr0, dent' = [dent EXCEPT ![n][nm] = j]
  PROVE  /\ dent' \in [ONode -> [Name -> InoOr0]]
         /\ \A m \in ONode, x \in Name : dent'[m][x] = IF m = n /\ x = nm THEN j ELSE dent[m][x]
         /\ \A m \in ONode : m # n => dent'[m] = dent[m]
<1>1. dent \in [ONode -> [Name -> InoOr0]]
  BY DEF Shape
<1>2. [dent[n] EXCEPT ![nm] = j] \in [Name -> InoOr0]
  BY <1>1
<1>3. dent' = [dent EXCEPT ![n] = [dent[n] EXCEPT ![nm] = j]]
  BY <1>1
<1> QED
  BY ONLY <1>1, <1>2, <1>3, n \in ONode, nm \in Name, j \in InoOr0

LEMMA TaskDone ==
  ASSUME Shape, NEW n \in ONode, Done(n)
  PROVE  task' \in [ONode -> Tasks] /\ task'[n] = NoTask /\ (\A m \in ONode : m # n => task'[m] = task[m]) /\ TaskOK(n)'
<1>1. NoTask \in Tasks
  BY DEF NoTask, Tasks, NameOr0, InoOr0
<1>2. task' \in [ONode -> Tasks] /\ task'[n] = NoTask /\ \A m \in ONode : m # n => task'[m] = task[m]
  BY <1>1 DEF Shape, Done
<1> QED
  BY <1>2 DEF TaskOK, NoTask, NameOps

LEMMA UnlockFacts ==
  ASSUME Shape, NEW n \in ONode, UnlockAll(n)
  PROVE  /\ lockedBy' \in [Ino -> Holders]
         /\ \A j \in Ino : lockedBy'[j] = lockedBy[j] \/ (lockedBy'[j] = Free /\ lockedBy[j] = <<n, "task">>)
         /\ \A j \in Ino : lockedBy'[j] # <<n, "task">>
         /\ \A j \in Ino, m \in ONode : lockedBy[j] = <<n, "task">> => lockedBy'[j] # <<m, "task">>
         /\ dirBy' = 0 /\ Done(n)
<1>1. lockedBy \in [Ino -> Holders] /\ Free \in Holders /\ \A m \in ONode : Free # <<m, "task">>
  BY ONodeAssumption DEF Shape, Holders, Free
<1>2. lockedBy' = [j \in Ino |-> IF lockedBy[j] = <<n, "task">> THEN Free ELSE lockedBy[j]] /\ dirBy' = 0 /\ Done(n)
  BY DEF UnlockAll
<1> HIDE DEF Free
<1>3. \A j \in Ino : lockedBy'[j] = IF lockedBy[j] = <<n, "task">> THEN Free ELSE lockedBy[j]
  BY <1>2
<1>4. lockedBy' \in [Ino -> Holders]
  BY <1>1, <1>2
<1> QED
  BY <1>1, <1>2, <1>3, <1>4

\* An operation on names that has its locks
LEMMA NameTask ==
  ASSUME OInv, NEW n \in ONode, NEW op \in NameOps, AllLocked(n, op)
  PROVE  /\ dirBy = n /\ task[n].from \in Name /\ task[n].ino \in Ino /\ names[task[n].from] = task[n].ino
         /\ op \in {"link", "rename"} => task[n].to \in Name /\ names[task[n].to] = task[n].old /\ task[n].to # task[n].from
         /\ op \in {"link", "unlink"} => task[n].old = 0
         /\ op = "link" => ~IsDir(task[n].ino)
         /\ task[n].old \in InoOr0 /\ task[n].old # task[n].ino
         /\ task[n].old # 0 => IsDir(task[n].old) = IsDir(task[n].ino)
         /\ \A i \in Ino : i \in {task[n].ino, task[n].old} =>
              /\ lockedBy[i] = <<n, "task">> /\ core[n][i].st = "in" /\ core[n][i].links = dinode[i].links
              /\ dinode[i].valid /\ dinode[i].links > 0 /\ dinode[i].orphan = 0 /\ \A m \in ONode : ~core[m][i].skip
<1>1. task[n] \in Tasks /\ task[n].op = op /\ TaskOK(n)
  BY DEF OInv, Shape, AllLocked
<1>2. /\ dirBy = n /\ task[n].from \in Name /\ names[task[n].from] = task[n].ino /\ task[n].ino # 0
      /\ task[n].ino \in InoOr0 /\ task[n].old \in InoOr0
  BY <1>1 DEF TaskOK, Tasks
<1>3. task[n].ino \in Ino
  BY <1>2 DEF InoOr0
<1>4. /\ op = "link" => task[n].to \in Name /\ names[task[n].to] = 0 /\ ~IsDir(task[n].ino) /\ task[n].old = 0
      /\ op = "unlink" => task[n].old = 0
      /\ op = "rename" => /\ task[n].to \in Name /\ names[task[n].to] = task[n].old /\ task[n].old # task[n].ino
                          /\ task[n].old # 0 => IsDir(task[n].old) = IsDir(task[n].ino)
  BY <1>1 DEF TaskOK
<1>5. task[n].old # task[n].ino
  BY <1>2, <1>4 DEF NameOps
<1>6. op \in {"link", "rename"} => task[n].to # task[n].from
  BY <1>2, <1>4
<1>7. ASSUME NEW i \in Ino, i \in {task[n].ino, task[n].old}
      PROVE  /\ lockedBy[i] = <<n, "task">> /\ core[n][i].st = "in" /\ core[n][i].links = dinode[i].links
             /\ dinode[i].valid /\ dinode[i].links > 0 /\ dinode[i].orphan = 0 /\ \A m \in ONode : ~core[m][i].skip
  <2>1. i # 0 /\ lockedBy[i] = <<n, "task">>
    BY <1>7, InoAssumption DEF AllLocked
  <2>2. core[n][i].st = "in" /\ core[n][i].links = dinode[i].links
    BY <2>1, LockRefers DEF OInv, LockOK
  <2>3. \E x \in Name : names[x] = i
    BY <1>2, <1>4, <1>7, <2>1 DEF NameOps
  <2> QED
    BY <2>1, <2>2, <2>3, NamedLives
<1> QED
  BY <1>2, <1>3, <1>4, <1>5, <1>6, <1>7 DEF NameOps

\* What a commit does to an inode in memory
CommitAt(n, i) ==
  /\ CoreOnly(n, i) /\ core[n][i].st = "in"
  /\ core'[n][i].st = core[n][i].st /\ core'[n][i].olk = core[n][i].olk /\ core'[n][i].life = core[n][i].life
  /\ core'[n][i].opens = core[n][i].opens
  /\ core'[n][i].dio <=> core[n][i].dio
  /\ ~core'[n][i].skip

LEMMA CommitMemory ==
  ASSUME OInv, NEW n \in ONode, NEW i \in Ino, CommitAt(n, i), Known(n, i), task'[n] = NoTask, UNCHANGED scan,
         \A x \in Name : dent'[n][x] \in {0, dent[n][x], task[n].ino}
  PROVE  RefOK(n)' /\ CoreOK(n, i)' /\ OpenOK(i)'
<1>1. ASSUME NEW j \in Ino, Referred(n, j)' PROVE core'[n][j].st = "in"
  <2>1. core'[n][j].opens = core[n][j].opens /\ core'[n][j].st = core[n][j].st
    BY DEF CommitAt, CoreOnly
  <2>2. (\E x \in Name : dent'[n][x] = j) => task[n].ino = j \/ \E x \in Name : dent[n][x] = j
    BY InoAssumption
  <2>3. Referred(n, j)
    BY <1>1, <2>1, <2>2, InoAssumption DEF Referred, NoTask
  <2> QED
    BY <2>1, <2>3 DEF OInv, RefOK
<1>2. CoreOK(n, i)'
  <2>1. CoreOK(n, i)
    BY DEF OInv
  <2> QED
    BY <2>1 DEF CoreOK, CommitAt, Known
<1>3. OpenOK(i)'
  <2>1. \A m \in ONode : core'[m][i].olk = core[m][i].olk
    BY DEF CommitAt, CoreOnly
  <2> QED
    BY <2>1 DEF OInv, OpenOK, Known
<1> QED
  BY <1>1, <1>2, <1>3 DEF RefOK

LEMMA LinkCommitStep ==
  ASSUME OInv, NEW n \in oalive, LinkCommit(n)
  PROVE  OInv'
<1>1. n \in ONode /\ n # 0 /\ Shape
  BY ONodeAssumption DEF OInv, Shape
<1>2. SameStory
  BY StoryStays DEF OInv, LinkCommit
<1>3. PICK i \in Ino, to \in Name :
        /\ i = task[n].ino /\ to = task[n].to /\ names[to] = 0 /\ dirBy = n /\ ~IsDir(i)
        /\ lockedBy[i] = <<n, "task">> /\ core[n][i].st = "in" /\ core[n][i].links = dinode[i].links
        /\ dinode[i].valid /\ dinode[i].links > 0 /\ dinode[i].orphan = 0 /\ \A m \in ONode : ~core[m][i].skip
  <2>1. AllLocked(n, "link") /\ "link" \in NameOps
    BY DEF LinkCommit, NameOps
  <2> QED
    BY <1>1, <2>1, NameTask
<1>4. /\ names' = [names EXCEPT ![to] = i]
      /\ dent' = [dent EXCEPT ![n][to] = i]
      /\ dinode' = [dinode EXCEPT ![i].links = @ + 1]
      /\ core' = [core EXCEPT ![n][i].links = @ + 1]
      /\ UnlockAll(n)
      /\ UNCHANGED <<ostory, oalive, dirLinks, orphanDir, scan, wipes>>
  BY <1>3 DEF LinkCommit
<1>5. PICK links \in Nat : links = dinode[i].links /\ links + 1 \in Nat
  BY <1>1 DEF Shape, Dinode
<1>6. PICK d \in Dinode : d = dinode[i]
  BY <1>1 DEF Shape
<1>7. PICK e \in Dinode : e = [d EXCEPT !.links = links + 1]
  BY <1>5, DinodeEdit
<1>8. dinode' = [dinode EXCEPT ![i] = e]
  BY <1>4, <1>5, <1>6, <1>7
<1>9. /\ dinode' \in [Ino -> Dinode] /\ dinode'[i] = e /\ \A j \in Ino : j # i => dinode'[j] = dinode[j]
  BY ONLY i \in Ino, e \in Dinode, <1>1, <1>8, DinodeSet
<1>10. /\ dinode'[i].valid <=> dinode[i].valid
       /\ dinode'[i].links = links + 1 /\ dinode'[i].orphan = 0
       /\ dinode'[i].dio = dinode[i].dio /\ dinode'[i].life = dinode[i].life
  BY <1>3, <1>6, <1>7, <1>9 DEF Dinode
<1>11. PICK c \in Inode : c = core[n][i]
  BY <1>1 DEF Shape
<1>12. PICK v \in Inode : v = [c EXCEPT !.links = links + 1]
  BY <1>5, InodeEdit
<1>13. core' = [core EXCEPT ![n][i] = v]
  BY <1>3, <1>4, <1>5, <1>11, <1>12
<1>14. CoreOnly(n, i) /\ core'[n][i] = v
  BY ONLY i \in Ino, v \in Inode, <1>1, <1>13, CoreSet
<1>15. CommitAt(n, i)
  <2>1. /\ v.st = c.st /\ v.olk = c.olk /\ v.life = c.life /\ v.opens = c.opens
        /\ v.dio <=> c.dio
        /\ v.skip <=> c.skip
    BY <1>12 DEF Inode
  <2> QED
    BY <2>1, <1>1, <1>3, <1>11, <1>14 DEF CommitAt
<1>16. /\ names' \in [Name -> InoOr0] /\ names'[to] = i /\ \A x \in Name : x # to => names'[x] = names[x]
       /\ Cardinality(NamesOf(i)) \in Nat /\ Cardinality(NamesOf(i)') = Cardinality(NamesOf(i)) + 1
       /\ \A j \in Ino : j # i => Cardinality(NamesOf(j)') = Cardinality(NamesOf(j))
       /\ Cardinality(DirNames') = Cardinality(DirNames)
  <2>1. /\ names' \in [Name -> InoOr0] /\ names'[to] = i /\ \A x \in Name : x # to => names'[x] = names[x]
        /\ Cardinality(NamesOf(i)) \in Nat /\ Cardinality(NamesOf(i)') = Cardinality(NamesOf(i)) + 1
        /\ \A j \in Ino : j # i => Cardinality(NamesOf(j)') = Cardinality(NamesOf(j))
        /\ Cardinality(DirNames) \in Nat
        /\ Cardinality(DirNames') = Cardinality(DirNames) + IF IsDir(i) THEN 1 ELSE 0
    BY <1>1, <1>2, <1>3, <1>4, NameAdded
  <2> QED
    BY <2>1, <1>3
<1>17. /\ dent' \in [ONode -> [Name -> InoOr0]]
       /\ \A m \in ONode, x \in Name : dent'[m][x] = IF m = n /\ x = to THEN i ELSE dent[m][x]
       /\ \A m \in ONode : m # n => dent'[m] = dent[m]
  BY <1>1, <1>4, DentSet DEF InoOr0
<1>18. /\ lockedBy' \in [Ino -> Holders]
       /\ \A j \in Ino : lockedBy'[j] = lockedBy[j] \/ (lockedBy'[j] = Free /\ lockedBy[j] = <<n, "task">>)
       /\ \A j \in Ino : lockedBy'[j] # <<n, "task">>
       /\ \A j \in Ino, m \in ONode : lockedBy[j] = <<n, "task">> => lockedBy'[j] # <<m, "task">>
       /\ dirBy' = 0 /\ Done(n)
  BY <1>1, <1>4, UnlockFacts
<1>19. task' \in [ONode -> Tasks] /\ task'[n] = NoTask /\ (\A m \in ONode : m # n => task'[m] = task[m]) /\ TaskOK(n)'
  BY <1>1, <1>18, TaskDone
<1>20. Shape'
  BY <1>1, <1>2, <1>4, <1>9, <1>14, <1>16, <1>17, <1>18, <1>19 DEF Shape, SameStory, CoreOnly, NodeOr0
<1>21. DiskOnly(i)
  BY <1>4, <1>9, <1>16 DEF DiskOnly
<1>22. NodeOnly(n)
  BY <1>3, <1>17, <1>18, <1>19 DEF NodeOnly
<1>23. LocksGo(n, i)
  BY <1>3, <1>18 DEF LocksGo
<1>24. Known(n, i)
  BY <1>3, <1>10, <1>15 DEF Known, CommitAt
<1>25. RefOK(n)' /\ CoreOK(n, i)' /\ OpenOK(i)'
  BY <1>1, <1>3, <1>4, <1>15, <1>17, <1>19, <1>24, CommitMemory
<1>26. \A m \in ONode : DentOK(m)'
  BY <1>1, <1>3, <1>4, <1>16, <1>17 DEF OInv, DentOK
<1>27. DiskOK(i)'
  <2>1. DiskOK(i) /\ Links(i) = 1 /\ Links(i)' = 1 /\ ~IsDir(i)'
    BY <1>2, <1>3 DEF OInv, Links, IsDir, SameStory
  <2>2. dinode'[i].links = Cardinality(NamesOf(i)') * Links(i)'
    BY <2>1, <1>3, <1>5, <1>10, <1>16 DEF DiskOK
  <2>3. ASSUME NEW s \in ONode
        PROVE  /\ <<i, FALSE>> \in orphanDir'[s] <=> s = dinode'[i].orphan
               /\ <<i, TRUE>> \in orphanDir'[s] <=> s = dinode'[i].dio
    <3>1. dinode'[i].orphan = dinode[i].orphan /\ dinode'[i].dio = dinode[i].dio /\ orphanDir' = orphanDir
      BY <1>3, <1>4, <1>10
    <3>2. /\ <<i, FALSE>> \in orphanDir[s] <=> s = dinode[i].orphan
          /\ <<i, TRUE>> \in orphanDir[s] <=> s = dinode[i].dio
      BY <2>1 DEF DiskOK
    <3> QED
      BY <3>1, <3>2
  <2>4. dinode'[i].valid /\ dinode'[i].orphan = 0
    BY <1>3, <1>10
  <2> QED
    BY <2>1, <2>2, <2>3, <2>4 DEF DiskOK
<1>28. KeptOK(i)'
  BY <1>10 DEF KeptOK
<1>29. DirOK'
  <2>1. ASSUME NEW x \in Name, names'[x] # 0 PROVE dinode'[names'[x]].valid
    <3>1. names'[x] \in Ino /\ dinode[names'[x]].valid
      BY <2>1, <1>1, <1>3, <1>16 DEF OInv, Shape, InoOr0, DirOK
    <3> QED
      BY <3>1, <1>9, <1>10
  <2> QED
    BY <2>1, <1>4, <1>16 DEF OInv, DirOK
<1>30. Fine(n, i)
  BY <1>19, <1>25, <1>26, <1>27, <1>28, <1>29 DEF Fine
<1>31. UNCHANGED <<oalive, scan>>
  BY <1>4
<1> QED
  BY <1>1, <1>2, <1>14, <1>20, <1>21, <1>22, <1>23, <1>24, <1>30, <1>31, WriteStep

\* An inode that loses a name, and becomes an orphan when it was the last
DroppedIs(n, i) ==
  /\ dinode' \in [Ino -> Dinode] /\ \A j \in Ino : j # i => dinode'[j] = dinode[j]
  /\ dinode'[i].valid <=> dinode[i].valid
  /\ dinode'[i].links = IF IsDir(i) THEN 0 ELSE dinode[i].links - 1
  /\ dinode'[i].orphan = IF dinode[i].links = Links(i) THEN n ELSE 0
  /\ dinode'[i].dio = dinode[i].dio /\ dinode'[i].life = dinode[i].life
  /\ orphanDir' \in [ONode -> SUBSET Entries]
  /\ \A s \in ONode, j \in Ino, b \in BOOLEAN : j # i => (<<j, b>> \in orphanDir'[s] <=> <<j, b>> \in orphanDir[s])
  /\ \A s \in ONode : orphanDir'[s] = orphanDir[s] \/ OrphanDirFree(s)
  /\ \A s \in ONode : /\ <<i, TRUE>> \in orphanDir'[s] <=> <<i, TRUE>> \in orphanDir[s]
                      /\ <<i, FALSE>> \in orphanDir'[s] <=>
                           <<i, FALSE>> \in orphanDir[s] \/ (dinode[i].links = Links(i) /\ s = n)
LEMMA DroppedFacts ==
  ASSUME Shape, NEW n \in ONode, NEW i \in Ino, Dropped(n, i),
         core[n][i].st = "in", core[n][i].links = dinode[i].links, dinode[i].links > 0, dinode[i].orphan = 0,
         \A m \in ONode : ~core[m][i].skip /\ (m = n \/ lockedBy[i] # <<m, "evict">>)
  PROVE  CommitAt(n, i) /\ Known(n, i) /\ DroppedIs(n, i)
<1>1. PICK last \in BOOLEAN : last = (dinode[i].links = Links(i)) /\ (last <=> dinode[i].links = Links(i))
  OBVIOUS
<1>2. PICK links \in Nat : links = dinode[i].links
  BY DEF Shape, Dinode
<1>3. PICK left \in Nat : left = IF IsDir(i) THEN 0 ELSE dinode[i].links - 1
  BY <1>2
<1>4. /\ last => OrphanDirFree(n)
      /\ dinode' = [dinode EXCEPT ![i].links = left, ![i].orphan = IF last THEN n ELSE @]
      /\ core' = [core EXCEPT ![n][i].links = left, ![n][i].skip = FALSE]
      /\ orphanDir' = IF last THEN [orphanDir EXCEPT ![n] = @ \union {<<i, FALSE>>}] ELSE orphanDir
  BY <1>1, <1>3 DEF Dropped, Unlinkable
<1>5. PICK d \in Dinode : d = dinode[i]
  BY DEF Shape
<1>6. PICK o \in NodeOr0 : o = IF last THEN n ELSE 0
  BY DEF NodeOr0
<1>7. PICK e \in Dinode : e = [d EXCEPT !.links = left]
  BY DinodeEdit
<1>8. PICK f \in Dinode : f = [e EXCEPT !.orphan = o]
  BY DinodeEdit
<1>9. dinode' = [dinode EXCEPT ![i] = f]
  <2>1. dinode \in [Ino -> Dinode]
    BY DEF Shape
  <2> DEFINE y == [dinode EXCEPT ![i] = e]
  <2>2. y = [dinode EXCEPT ![i].links = left]
    BY <1>5, <1>7
  <2>4. [y EXCEPT ![i].orphan = o] = [dinode EXCEPT ![i] = f]
    BY <2>1, <1>8
  <2>5. CASE last
    <3>1. dinode' = [dinode EXCEPT ![i].links = left, ![i].orphan = n]
      BY <2>5, <1>4
    <3>2. o = n
      BY <2>5, <1>6
    <3> QED
      BY <2>2, <2>4, <3>1, <3>2
  <2>6. CASE ~last
    <3>1. dinode' = [dinode EXCEPT ![i].links = left, ![i].orphan = dinode[i].orphan]
      BY <2>6, <1>4
    <3>2. o = dinode[i].orphan
      BY <2>6, <1>6
    <3> QED
      BY <2>2, <2>4, <3>1, <3>2
  <2> QED
    BY <2>5, <2>6
<1>10. /\ dinode' \in [Ino -> Dinode] /\ dinode'[i] = f /\ \A j \in Ino : j # i => dinode'[j] = dinode[j]
  BY ONLY Shape, i \in Ino, f \in Dinode, <1>9, DinodeSet
<1>11. /\ f.valid <=> d.valid
       /\ f.links = left /\ f.orphan = o /\ f.dio = d.dio /\ f.life = d.life
  BY <1>7, <1>8 DEF Dinode
<1>12. PICK c \in Inode : c = core[n][i]
  BY DEF Shape
<1>13. PICK w \in Inode : w = [c EXCEPT !.links = left]
  BY InodeEdit
<1>14. PICK v \in Inode : v = [w EXCEPT !.skip = FALSE]
  BY InodeEdit
<1>15. core' = [core EXCEPT ![n][i] = v]
  <2>1. core \in [ONode -> [Ino -> Inode]]
    BY DEF Shape
  <2> DEFINE y == [core EXCEPT ![n][i] = w]
  <2>2. y = [core EXCEPT ![n][i].links = left]
    BY <1>12, <1>13
  <2>3. [y EXCEPT ![n][i].skip = FALSE] = [core EXCEPT ![n][i] = v]
    BY <1>14, <2>1
  <2> QED
    BY <1>4, <2>2, <2>3
<1>16. CoreOnly(n, i) /\ core'[n][i] = v
  BY ONLY Shape, n \in ONode, i \in Ino, v \in Inode, <1>15, CoreSet
<1>17. CommitAt(n, i)
  <2>1. /\ v.st = c.st /\ v.olk = c.olk /\ v.life = c.life /\ v.opens = c.opens
        /\ v.dio <=> c.dio
        /\ ~v.skip
    BY <1>13, <1>14 DEF Inode
  <2> QED
    BY <2>1, <1>12, <1>16 DEF CommitAt
<1>18. Known(n, i)
  BY <1>5, <1>10, <1>11, <1>17 DEF Known, CommitAt
<1>19. /\ orphanDir' \in [ONode -> SUBSET Entries]
       /\ \A s \in ONode : orphanDir'[s] = orphanDir[s] \/ (last /\ s = n)
       /\ \A s \in ONode, j \in Ino, b \in BOOLEAN : j # i => (<<j, b>> \in orphanDir'[s] <=> <<j, b>> \in orphanDir[s])
       /\ \A s \in ONode : /\ <<i, TRUE>> \in orphanDir'[s] <=> <<i, TRUE>> \in orphanDir[s]
                           /\ <<i, FALSE>> \in orphanDir'[s] <=> <<i, FALSE>> \in orphanDir[s] \/ (last /\ s = n)
  <2>1. CASE last
    <3>1. orphanDir' = [orphanDir EXCEPT ![n] = @ \union {<<i, FALSE>>}]
      BY <2>1, <1>4
    <3>2. /\ orphanDir' \in [ONode -> SUBSET Entries]
          /\ \A s \in ONode : s # n => orphanDir'[s] = orphanDir[s]
          /\ \A s \in ONode, j \in Ino, b \in BOOLEAN : j # i => (<<j, b>> \in orphanDir'[s] <=> <<j, b>> \in orphanDir[s])
          /\ \A s \in ONode : <<i, TRUE>> \in orphanDir'[s] <=> <<i, TRUE>> \in orphanDir[s]
          /\ \A s \in ONode : <<i, FALSE>> \in orphanDir'[s] <=> <<i, FALSE>> \in orphanDir[s] \/ s = n
      BY <3>1, OrphanAdded
    <3> QED
      BY <2>1, <3>2
  <2>2. CASE ~last
    <3>1. orphanDir' = orphanDir /\ orphanDir \in [ONode -> SUBSET Entries]
      BY <2>2, <1>4 DEF Shape
    <3> QED
      BY <2>2, <3>1
  <2> QED
    BY <2>1, <2>2
<1>20. \A s \in ONode : orphanDir'[s] = orphanDir[s] \/ OrphanDirFree(s)
  BY <1>4, <1>19
<1>21. /\ dinode'[i].valid <=> dinode[i].valid
       /\ dinode'[i].links = IF IsDir(i) THEN 0 ELSE dinode[i].links - 1
       /\ dinode'[i].orphan = IF dinode[i].links = Links(i) THEN n ELSE 0
       /\ dinode'[i].dio = dinode[i].dio /\ dinode'[i].life = dinode[i].life
  BY <1>1, <1>3, <1>5, <1>6, <1>10, <1>11
<1>22. \A s \in ONode : /\ <<i, TRUE>> \in orphanDir'[s] <=> <<i, TRUE>> \in orphanDir[s]
                        /\ <<i, FALSE>> \in orphanDir'[s] <=>
                             <<i, FALSE>> \in orphanDir[s] \/ (dinode[i].links = Links(i) /\ s = n)
  BY <1>1, <1>19
<1> QED
  BY <1>10, <1>17, <1>18, <1>19, <1>20, <1>21, <1>22 DEF DroppedIs

LEMMA DroppedDisk ==
  ASSUME OInv, SameStory, NEW n \in ONode, NEW i \in Ino, dinode[i].valid, dinode[i].links > 0, dinode[i].orphan = 0,
         Cardinality(NamesOf(i)') \in Nat, Cardinality(NamesOf(i)) = Cardinality(NamesOf(i)') + 1,
         DroppedIs(n, i)
  PROVE  DiskOK(i)' /\ KeptOK(i)'
<1>1. DiskOK(i) /\ Links(i)' = Links(i) /\ (IsDir(i)' <=> IsDir(i)) /\ n # 0
  BY ONodeAssumption DEF OInv, Links, IsDir, SameStory
<1>2. PICK c \in Nat : c = Cardinality(NamesOf(i)')
  OBVIOUS
<1>d. /\ dinode'[i].valid
      /\ dinode'[i].links = IF IsDir(i) THEN 0 ELSE dinode[i].links - 1
      /\ dinode'[i].orphan = IF dinode[i].links = Links(i) THEN n ELSE 0
      /\ dinode'[i].dio = dinode[i].dio
      /\ \A s \in ONode : /\ <<i, TRUE>> \in orphanDir'[s] <=> <<i, TRUE>> \in orphanDir[s]
                          /\ <<i, FALSE>> \in orphanDir'[s] <=>
                               <<i, FALSE>> \in orphanDir[s] \/ (dinode[i].links = Links(i) /\ s = n)
  BY DEF DroppedIs
<1>3. dinode[i].links = (c + 1) * Links(i)
  BY <1>1, <1>2 DEF DiskOK
<1>4. /\ dinode'[i].links = c * Links(i)
      /\ dinode[i].links = Links(i) <=> dinode'[i].links = 0
      /\ IsDir(i) => dinode'[i].links = 0
  <2>1. CASE IsDir(i)
    <3>1. Links(i) = 2 /\ dinode[i].links = 2
      BY <2>1, <1>1 DEF DiskOK, Links
    <3>2. c = 0
      BY <3>1, <1>2, <1>3
    <3> QED
      BY <2>1, <3>1, <3>2, <1>d
  <2>2. CASE ~IsDir(i)
    <3>1. Links(i) = 1 /\ dinode[i].links = c + 1
      BY <2>2, <1>2, <1>3 DEF Links
    <3> QED
      BY <2>2, <3>1, <1>2, <1>d
  <2> QED
    BY <2>1, <2>2
<1>5. ASSUME NEW s \in ONode
      PROVE  /\ <<i, FALSE>> \in orphanDir'[s] <=> s = dinode'[i].orphan
             /\ <<i, TRUE>> \in orphanDir'[s] <=> s = dinode'[i].dio
  <2>1. /\ <<i, FALSE>> \notin orphanDir[s] /\ s # 0
        /\ <<i, TRUE>> \in orphanDir[s] <=> s = dinode[i].dio
    BY <1>1, ONodeAssumption DEF DiskOK
  <2> QED
    BY <2>1, <1>d
<1>6. dinode'[i].orphan # 0 => dinode'[i].links = 0
  BY <1>4, <1>d
<1>7. DiskOK(i)'
  BY <1>1, <1>2, <1>4, <1>5, <1>6, <1>d DEF DiskOK
<1>8. KeptOK(i)'
  BY <1>1, <1>4, <1>d DEF KeptOK
<1> QED
  BY <1>7, <1>8

\* Names that are all of inodes on disk stay so.
LEMMA NamesValid ==
  ASSUME OInv, NEW i \in Ino, \A j \in Ino : j # i => dinode'[j] = dinode[j], dinode'[i].valid,
         \A x \in Name : names'[x] = i \/ \E y \in Name : names'[x] = names[y] \/ names'[x] = 0
  PROVE  \A x \in Name : names'[x] # 0 => dinode'[names'[x]].valid
<1>1. ASSUME NEW x \in Name, names'[x] # 0 PROVE dinode'[names'[x]].valid
  <2>1. CASE names'[x] = i
    BY <2>1
  <2>2. CASE names'[x] # i
    <3>1. PICK y \in Name : names'[x] = names[y]
      BY <1>1, <2>2
    <3>2. names[y] \in Ino /\ dinode[names[y]].valid
      BY <1>1, <3>1 DEF OInv, Shape, InoOr0, DirOK
    <3> QED
      BY <2>2, <3>1, <3>2
  <2> QED
    BY <2>1, <2>2
<1> QED
  BY <1>1

LEMMA UnlinkCommitStep ==
  ASSUME OInv, NEW n \in oalive, UnlinkCommit(n)
  PROVE  OInv'
<1>1. n \in ONode /\ n # 0 /\ Shape /\ 0 \in InoOr0
  BY ONodeAssumption DEF OInv, Shape, InoOr0
<1>2. SameStory
  BY StoryStays DEF OInv, UnlinkCommit
<1>3. PICK i \in Ino, from \in Name :
        /\ i = task[n].ino /\ from = task[n].from /\ names[from] = i /\ dirBy = n
        /\ lockedBy[i] = <<n, "task">> /\ core[n][i].st = "in" /\ core[n][i].links = dinode[i].links
        /\ dinode[i].valid /\ dinode[i].links > 0 /\ dinode[i].orphan = 0 /\ \A m \in ONode : ~core[m][i].skip
  <2>1. AllLocked(n, "unlink") /\ "unlink" \in NameOps
    BY DEF UnlinkCommit, NameOps
  <2> QED
    BY <1>1, <2>1, NameTask
<1>4. /\ DentriesGone(n, i) /\ Dropped(n, i)
      /\ names' = [names EXCEPT ![from] = 0]
      /\ dent' = [dent EXCEPT ![n][from] = 0]
      /\ dirLinks' = IF IsDir(i) THEN dirLinks - 1 ELSE dirLinks
      /\ UnlockAll(n)
      /\ UNCHANGED <<ostory, oalive, scan, wipes>>
  BY <1>3 DEF UnlinkCommit
<1>5. \A m \in ONode : ~core[m][i].skip /\ (m = n \/ lockedBy[i] # <<m, "evict">>)
  BY <1>3
<1>6. CommitAt(n, i) /\ Known(n, i) /\ DroppedIs(n, i)
  BY <1>1, <1>3, <1>4, <1>5, DroppedFacts
<1>7. /\ names' \in [Name -> InoOr0] /\ names'[from] = 0 /\ \A x \in Name : x # from => names'[x] = names[x]
      /\ Cardinality(NamesOf(i)') \in Nat /\ Cardinality(NamesOf(i)) = Cardinality(NamesOf(i)') + 1
      /\ \A j \in Ino : j # i => Cardinality(NamesOf(j)') = Cardinality(NamesOf(j))
      /\ Cardinality(DirNames') \in Nat
      /\ Cardinality(DirNames) = Cardinality(DirNames') + IF IsDir(i) THEN 1 ELSE 0
  BY <1>1, <1>2, <1>3, <1>4, NameGone
<1>8. /\ dent' \in [ONode -> [Name -> InoOr0]]
      /\ \A m \in ONode, x \in Name : dent'[m][x] = IF m = n /\ x = from THEN 0 ELSE dent[m][x]
      /\ \A m \in ONode : m # n => dent'[m] = dent[m]
  BY <1>1, <1>4, DentSet
<1>9. /\ lockedBy' \in [Ino -> Holders]
      /\ \A j \in Ino : lockedBy'[j] = lockedBy[j] \/ (lockedBy'[j] = Free /\ lockedBy[j] = <<n, "task">>)
      /\ \A j \in Ino : lockedBy'[j] # <<n, "task">>
      /\ \A j \in Ino, m \in ONode : lockedBy[j] = <<n, "task">> => lockedBy'[j] # <<m, "task">>
      /\ dirBy' = 0 /\ Done(n)
  BY <1>1, <1>4, UnlockFacts
<1>10. task' \in [ONode -> Tasks] /\ task'[n] = NoTask /\ (\A m \in ONode : m # n => task'[m] = task[m]) /\ TaskOK(n)'
  BY <1>1, <1>9, TaskDone
<1>11. CoreOnly(n, i)
  BY <1>6 DEF CommitAt
<1>12. Shape'
  BY <1>1, <1>2, <1>4, <1>6, <1>7, <1>8, <1>9, <1>10, <1>11 DEF Shape, SameStory, CoreOnly, NodeOr0, DroppedIs
<1>13. DiskOnly(i)
  BY <1>6, <1>7 DEF DiskOnly, DroppedIs
<1>14. NodeOnly(n)
  BY <1>3, <1>8, <1>9, <1>10 DEF NodeOnly
<1>15. LocksGo(n, i)
  BY <1>3, <1>9 DEF LocksGo
<1>16. RefOK(n)' /\ CoreOK(n, i)' /\ OpenOK(i)'
  BY <1>1, <1>4, <1>6, <1>8, <1>10, CommitMemory
<1>17. ASSUME NEW m \in ONode PROVE DentOK(m)'
  <2>1. ASSUME NEW x \in Name, dent'[m][x] # 0 PROVE names'[x] = dent'[m][x] /\ m \in oalive
    <3>1. dent'[m][x] = dent[m][x] /\ (m # n \/ x # from)
      BY <2>1, <1>8
    <3>2. names[x] = dent[m][x] /\ m \in oalive
      BY <2>1, <3>1 DEF OInv, DentOK
    <3>3. x # from
      BY <3>1, <3>2, <1>3, <1>4 DEF DentriesGone
    <3> QED
      BY <3>1, <3>2, <3>3, <1>7
  <2> QED
    BY <2>1, <1>4 DEF DentOK
<1>18. DiskOK(i)' /\ KeptOK(i)'
  BY <1>1, <1>2, <1>3, <1>6, <1>7, DroppedDisk
<1>19. DirOK'
  <2>1. \A x \in Name : names'[x] # 0 => dinode'[names'[x]].valid
    BY <1>3, <1>6, <1>7, NamesValid DEF DroppedIs
  <2>2. dirLinks' = 2 + Cardinality(DirNames')
    BY <1>4, <1>7 DEF OInv, DirOK
  <2> QED
    BY <2>1, <2>2 DEF DirOK
<1>20. Fine(n, i)
  BY <1>10, <1>16, <1>17, <1>18, <1>19 DEF Fine
<1>21. UNCHANGED <<oalive, scan>> /\ Known(n, i)
  BY <1>4, <1>6
<1> QED
  BY <1>1, <1>2, <1>11, <1>12, <1>13, <1>14, <1>15, <1>20, <1>21, WriteStep

\* The name of i moves, over that of old if it has one.
Moved(from, to, i, old) ==
  /\ names' \in [Name -> InoOr0] /\ names'[from] = 0 /\ names'[to] = i /\ from # to
  /\ \A x \in Name : x # from /\ x # to => names'[x] = names[x]
  /\ old # 0 => Cardinality(NamesOf(old)') \in Nat /\ Cardinality(NamesOf(old)) = Cardinality(NamesOf(old)') + 1
  /\ \A j \in Ino : j # old => Cardinality(NamesOf(j)') = Cardinality(NamesOf(j))
  /\ Cardinality(DirNames') \in Nat
  /\ Cardinality(DirNames) = Cardinality(DirNames') + IF old # 0 /\ IsDir(old) THEN 1 ELSE 0
LEMMA NameMoved ==
  ASSUME Shape, SameStory, NEW from \in Name, NEW to \in Name, NEW i \in Ino, NEW old \in InoOr0,
         names[from] = i, names[to] = old, old # i, old # 0 => (IsDir(old) <=> IsDir(i)),
         names' = [names EXCEPT ![from] = 0, ![to] = i]
  PROVE  Moved(from, to, i, old)
<1>1. /\ names' \in [Name -> InoOr0] /\ names'[from] = 0 /\ names'[to] = i /\ from # to /\ i # 0
      /\ \A x \in Name : x # from /\ x # to => names'[x] = names[x]
  BY InoAssumption DEF Shape, InoOr0
<1>2. ASSUME old # 0
      PROVE  Cardinality(NamesOf(old)') \in Nat /\ Cardinality(NamesOf(old)) = Cardinality(NamesOf(old)') + 1
  <2>0. old \in Ino
    BY <1>2 DEF InoOr0
  <2>1. NamesOf(old) \in SUBSET Name /\ NamesOf(old)' \in SUBSET Name /\ to \notin NamesOf(old)'
    BY <1>1, <2>0, NamesFacts
  <2>2. \A x \in Name : x \in NamesOf(old) <=> x \in NamesOf(old)' \/ x = to
    BY <1>1, <1>2, <2>0, NamesFacts
  <2> QED
    BY <2>1, <2>2, OneMore
<1>3. ASSUME NEW j \in Ino, j # old PROVE Cardinality(NamesOf(j)') = Cardinality(NamesOf(j))
  <2>1. NamesOf(j) \in SUBSET Name /\ NamesOf(j)' \in SUBSET Name /\ j # 0
    BY NamesFacts, InoAssumption
  <2>2. CASE j = i
    <3>1. from \in NamesOf(j) /\ to \notin NamesOf(j)
      BY <2>2, <1>1, NamesFacts
    <3>2. \A x \in Name : x \in NamesOf(j)' <=> (x \in NamesOf(j) /\ x # from) \/ x = to
      BY <2>2, <1>1, NamesFacts
    <3> QED
      BY <2>1, <3>1, <3>2, OneForOne
  <2>3. CASE j # i
    <3>1. \A x \in Name : x \in NamesOf(j)' <=> x \in NamesOf(j)
      BY <1>1, <1>3, <2>1, <2>3, NamesFacts
    <3>2. NamesOf(j)' = NamesOf(j)
      BY <2>1, <3>1
    <3> QED
      BY <3>2
  <2> QED
    BY <2>2, <2>3
<1>4. Cardinality(DirNames') \in Nat
      /\ Cardinality(DirNames) = Cardinality(DirNames') + IF old # 0 /\ IsDir(old) THEN 1 ELSE 0
  <2>1. DirNames \in SUBSET Name /\ DirNames' \in SUBSET Name /\ from \notin DirNames'
    BY <1>1, NamesFacts
  <2>2. \A x \in Name : x \in DirNames' <=> (x \in DirNames /\ x # from /\ x # to) \/ (x = to /\ IsDir(i))
    BY <1>1, NamesFacts DEF SameStory, IsDir
  <2>3. (from \in DirNames <=> IsDir(i)) /\ (to \in DirNames <=> old # 0 /\ IsDir(old))
    BY <1>1, NamesFacts
  <2>4. CASE ~IsDir(i)
    <3>1. \A x \in Name : x \in DirNames' <=> x \in DirNames
      BY <2>2, <2>3, <2>4
    <3>2. DirNames' = DirNames
      BY <2>1, <3>1
    <3>3. ~(old # 0 /\ IsDir(old))
      BY <2>4
    <3> QED
      BY <2>1, <3>2, <3>3, NoneAtAll
  <2>5. CASE IsDir(i) /\ old = 0
    <3>1. \A x \in Name : x \in DirNames' <=> (x \in DirNames /\ x # from) \/ x = to
      BY <2>2, <2>3, <2>5
    <3>2. Cardinality(DirNames') = Cardinality(DirNames)
      BY <2>1, <2>3, <2>5, <3>1, OneForOne
    <3> QED
      BY <2>1, <2>5, <3>2, NoneAtAll
  <2>6. CASE IsDir(i) /\ old # 0
    <3>1. IsDir(old)
      BY <2>6
    <3>2. \A x \in Name : x \in DirNames <=> x \in DirNames' \/ x = from
      BY <1>1, <2>2, <2>3, <2>6, <3>1
    <3> QED
      BY <2>1, <2>6, <3>1, <3>2, OneMore
  <2> QED
    BY <2>4, <2>5, <2>6
<1> QED
  BY <1>1, <1>2, <1>3, <1>4 DEF Moved

LEMMA DentMoved ==
  ASSUME Shape, NEW n \in ONode, NEW from \in Name, NEW to \in Name, from # to, NEW i \in Ino,
         dent' = [dent EXCEPT ![n][from] = 0, ![n][to] = i]
  PROVE  /\ dent' \in [ONode -> [Name -> InoOr0]]
         /\ \A m \in ONode, x \in Name :
              dent'[m][x] = IF m = n /\ x = to THEN i ELSE IF m = n /\ x = from THEN 0 ELSE dent[m][x]
         /\ \A m \in ONode : m # n => dent'[m] = dent[m]
<1>1. dent \in [ONode -> [Name -> InoOr0]] /\ 0 \in InoOr0 /\ i \in InoOr0
  BY DEF Shape, InoOr0
<1> DEFINE f == [[dent[n] EXCEPT ![from] = 0] EXCEPT ![to] = i]
<1>2. f \in [Name -> InoOr0] /\ \A x \in Name : f[x] = IF x = to THEN i ELSE IF x = from THEN 0 ELSE dent[n][x]
  BY <1>1
<1>3. dent' = [dent EXCEPT ![n] = f]
  BY <1>1
<1> HIDE DEF f
<1> QED
  BY <1>1, <1>2, <1>3

LEMMA RenameCommitStep ==
  ASSUME OInv, NEW n \in oalive, RenameCommit(n)
  PROVE  OInv'
<1>1. n \in ONode /\ n # 0 /\ Shape
  BY ONodeAssumption DEF OInv, Shape
<1>2. SameStory
  BY StoryStays DEF OInv, RenameCommit
<1>3. PICK j \in Ino, old \in InoOr0, from \in Name, to \in Name :
        /\ j = task[n].ino /\ old = task[n].old /\ from = task[n].from /\ to = task[n].to
        /\ names[from] = j /\ names[to] = old /\ dirBy = n /\ old # j /\ from # to
        /\ old # 0 => IsDir(old) = IsDir(j)
        /\ \A i \in Ino : i \in {j, old} =>
             /\ lockedBy[i] = <<n, "task">> /\ core[n][i].st = "in" /\ core[n][i].links = dinode[i].links
             /\ dinode[i].valid /\ dinode[i].links > 0 /\ dinode[i].orphan = 0 /\ \A m \in ONode : ~core[m][i].skip
  <2>1. AllLocked(n, "rename") /\ "rename" \in NameOps
    BY DEF RenameCommit, NameOps
  <2> QED
    BY <1>1, <2>1, NameTask
<1>4. /\ DentriesGone(n, j) /\ (old # 0 => DentriesGone(n, old))
      /\ old # 0 => Dropped(n, old) /\ dirLinks' = IF IsDir(old) THEN dirLinks - 1 ELSE dirLinks
      /\ old = 0 => UNCHANGED <<dinode, core, orphanDir, dirLinks>>
      /\ names' = [names EXCEPT ![from] = 0, ![to] = j]
      /\ dent' = [dent EXCEPT ![n][from] = 0, ![n][to] = j]
      /\ UnlockAll(n)
      /\ UNCHANGED <<ostory, oalive, scan, wipes>>
  BY <1>3 DEF RenameCommit
<1>5. PICK i \in Ino : i = IF old # 0 THEN old ELSE j
  BY DEF InoOr0
<1>6. /\ lockedBy[i] = <<n, "task">> /\ core[n][i].st = "in" /\ core[n][i].links = dinode[i].links
      /\ dinode[i].valid /\ dinode[i].links > 0 /\ dinode[i].orphan = 0 /\ \A m \in ONode : ~core[m][i].skip
  BY <1>3, <1>5
<1>m. Moved(from, to, j, old)
  <2>1. names[from] = j /\ names[to] = old /\ old # j /\ (old # 0 => (IsDir(old) <=> IsDir(j)))
    BY <1>3
  <2>2. names' = [names EXCEPT ![from] = 0, ![to] = j]
    BY <1>4
  <2> QED
    BY ONLY <2>1, <2>2, <1>1, <1>2, j \in Ino, old \in InoOr0, from \in Name, to \in Name, NameMoved
<1>7. /\ names' \in [Name -> InoOr0] /\ names'[from] = 0 /\ names'[to] = j /\ from # to
      /\ \A x \in Name : x # from /\ x # to => names'[x] = names[x]
      /\ old # 0 => Cardinality(NamesOf(old)') \in Nat /\ Cardinality(NamesOf(old)) = Cardinality(NamesOf(old)') + 1
      /\ \A k \in Ino : k # old => Cardinality(NamesOf(k)') = Cardinality(NamesOf(k))
      /\ Cardinality(DirNames') \in Nat
      /\ Cardinality(DirNames) = Cardinality(DirNames') + IF old # 0 /\ IsDir(old) THEN 1 ELSE 0
  BY <1>m DEF Moved
<1>8. /\ dent' \in [ONode -> [Name -> InoOr0]]
      /\ \A m \in ONode, x \in Name :
           dent'[m][x] = IF m = n /\ x = to THEN j ELSE IF m = n /\ x = from THEN 0 ELSE dent[m][x]
      /\ \A m \in ONode : m # n => dent'[m] = dent[m]
  <2>1. dent' = [dent EXCEPT ![n][from] = 0, ![n][to] = j] /\ from # to
    BY <1>3, <1>4
  <2> QED
    BY ONLY <2>1, <1>1, j \in Ino, from \in Name, to \in Name, DentMoved
<1>9. /\ lockedBy' \in [Ino -> Holders]
      /\ \A k \in Ino : lockedBy'[k] = lockedBy[k] \/ (lockedBy'[k] = Free /\ lockedBy[k] = <<n, "task">>)
      /\ \A k \in Ino : lockedBy'[k] # <<n, "task">>
      /\ \A k \in Ino, m \in ONode : lockedBy[k] = <<n, "task">> => lockedBy'[k] # <<m, "task">>
      /\ dirBy' = 0 /\ Done(n)
  BY <1>1, <1>4, UnlockFacts
<1>10. task' \in [ONode -> Tasks] /\ task'[n] = NoTask /\ (\A m \in ONode : m # n => task'[m] = task[m]) /\ TaskOK(n)'
  BY <1>1, <1>9, TaskDone
<1>11. /\ CommitAt(n, i) /\ Known(n, i) /\ DiskOnly(i) /\ DiskOK(i)' /\ KeptOK(i)'
       /\ dinode' \in [Ino -> Dinode] /\ orphanDir' \in [ONode -> SUBSET Entries]
       /\ dinode'[i].valid /\ \A k \in Ino : k # i => dinode'[k] = dinode[k]
       /\ dirLinks' = 2 + Cardinality(DirNames')
  <2>0. dirLinks = 2 + Cardinality(DirNames)
    BY DEF OInv, DirOK
  <2>1. CASE old # 0
    <3>1. i = old /\ Dropped(n, i) /\ dirLinks' = IF IsDir(i) THEN dirLinks - 1 ELSE dirLinks
      BY <2>1, <1>4, <1>5
    <3>2. \A m \in ONode : ~core[m][i].skip /\ (m = n \/ lockedBy[i] # <<m, "evict">>)
      BY <1>6
    <3>3. CommitAt(n, i) /\ Known(n, i) /\ DroppedIs(n, i)
      BY <3>1, <3>2, <1>1, <1>6, DroppedFacts
    <3>4. /\ Cardinality(NamesOf(i)') \in Nat /\ Cardinality(NamesOf(i)) = Cardinality(NamesOf(i)') + 1
          /\ \A k \in Ino : k # i => Cardinality(NamesOf(k)') = Cardinality(NamesOf(k))
      BY <2>1, <3>1, <1>7
    <3>5. DiskOK(i)' /\ KeptOK(i)'
      BY <3>3, <3>4, <1>1, <1>2, <1>6, DroppedDisk
    <3>6. DiskOnly(i)
      BY <3>3, <3>4 DEF DiskOnly, DroppedIs
    <3>7. dirLinks' = 2 + Cardinality(DirNames')
      BY <2>0, <2>1, <3>1, <1>7
    <3> QED
      BY <3>3, <3>5, <3>6, <3>7, <1>6 DEF DroppedIs
  <2>2. CASE old = 0
    <3>1. i = j /\ UNCHANGED <<dinode, core, orphanDir, dirLinks>> /\ \A k \in Ino : k # old
      BY <2>2, <1>4, <1>5, InoAssumption
    <3>2. CommitAt(n, i)
      BY <3>1, <1>1, <1>6 DEF CommitAt, CoreOnly, Shape
    <3>3. Known(n, i)
      BY <3>1, <1>6 DEF Known
    <3>4. \A k \in Ino : Cardinality(NamesOf(k)') = Cardinality(NamesOf(k))
      BY <3>1, <1>7
    <3>5. DiskOnly(i)
      BY <3>1, <3>4 DEF DiskOnly
    <3>6. DiskOK(i)'
      <4>1. DiskOK(i) /\ Links(i)' = Links(i) /\ (IsDir(i)' <=> IsDir(i))
        BY <1>2 DEF OInv, Links, IsDir, SameStory
      <4> QED
        BY <4>1, <3>1, <3>4 DEF DiskOK
    <3>7. KeptOK(i)'
      BY <3>1, <1>4 DEF OInv, KeptOK
    <3>8. dirLinks' = 2 + Cardinality(DirNames')
      BY <2>0, <2>2, <3>1, <1>7
    <3> QED
      BY <3>1, <3>2, <3>3, <3>5, <3>6, <3>7, <3>8, <1>1, <1>6 DEF Shape
  <2> QED
    BY <2>1, <2>2
<1>12. CoreOnly(n, i)
  BY <1>11 DEF CommitAt
<1>13. Shape'
  BY <1>1, <1>2, <1>4, <1>7, <1>8, <1>9, <1>10, <1>11, <1>12 DEF Shape, SameStory, CoreOnly, NodeOr0
<1>14. NodeOnly(n)
  BY <1>3, <1>8, <1>9, <1>10 DEF NodeOnly
<1>15. LocksGo(n, i)
  BY <1>6, <1>9 DEF LocksGo
<1>16. RefOK(n)' /\ CoreOK(n, i)' /\ OpenOK(i)'
  BY <1>1, <1>3, <1>4, <1>8, <1>10, <1>11, CommitMemory
<1>17. ASSUME NEW m \in ONode PROVE DentOK(m)'
  <2>1. ASSUME NEW x \in Name, dent'[m][x] # 0 PROVE names'[x] = dent'[m][x] /\ m \in oalive
    <3>1. CASE m = n /\ x = to
      BY <3>1, <1>1, <1>7, <1>8
    <3>2. CASE ~(m = n /\ x = to)
      <4>1. dent'[m][x] = dent[m][x] /\ (m # n \/ (x # from /\ x # to))
        BY <2>1, <3>2, <1>8
      <4>2. names[x] = dent[m][x] /\ m \in oalive
        BY <2>1, <4>1 DEF OInv, DentOK
      <4>3. x # from
        BY <4>1, <4>2, <1>3, <1>4 DEF DentriesGone
      <4>4. x # to
        BY <2>1, <4>1, <4>2, <1>3, <1>4 DEF DentriesGone
      <4> QED
        BY <4>1, <4>2, <4>3, <4>4, <1>7
    <3> QED
      BY <3>1, <3>2
  <2> QED
    BY <2>1, <1>4 DEF DentOK
<1>18. DirOK'
  <2>1. \A x \in Name : names'[x] = i \/ \E y \in Name : names'[x] = names[y] \/ names'[x] = 0
    BY <1>3, <1>7
  <2>2. \A x \in Name : names'[x] # 0 => dinode'[names'[x]].valid
    BY <2>1, <1>11, NamesValid
  <2> QED
    BY <2>2, <1>11 DEF DirOK
<1>19. Fine(n, i)
  BY <1>10, <1>11, <1>16, <1>17, <1>18 DEF Fine
<1>20. UNCHANGED <<oalive, scan>> /\ Known(n, i) /\ DiskOnly(i)
  BY <1>4, <1>11
<1> QED
  BY <1>1, <1>2, <1>12, <1>13, <1>14, <1>15, <1>19, <1>20, WriteStep

LEMMA ReflinkMoveStep ==
  ASSUME OInv, NEW n \in oalive, ReflinkMove(n)
  PROVE  OInv'
<1>1. n \in ONode /\ n # 0 /\ Shape
  BY ONodeAssumption DEF OInv, Shape
<1>2. SameStory
  BY StoryStays DEF OInv, ReflinkMove
<1>3. PICK i \in Ino, nm \in Name :
        /\ i = task[n].ino /\ nm = task[n].to /\ dinode[i].orphan = n /\ ~IsDir(i)
        /\ core[n][i].st = "in" /\ task[n].op \notin NameOps
  <2>1. TaskOK(n) /\ task[n].op = "reflink" /\ task[n].ino \in InoOr0
    BY <1>1 DEF OInv, Shape, Tasks, ReflinkMove
  <2>2. task[n].ino \in Ino /\ task[n].to \in Name /\ dinode[task[n].ino].orphan = n /\ ~IsDir(task[n].ino)
    BY <2>1 DEF TaskOK, InoOr0
  <2>3. core[n][task[n].ino].st = "in"
    BY <1>1, <2>2 DEF OInv, RefOK, Referred
  <2> QED
    BY <2>1, <2>2, <2>3 DEF NameOps
<1>4. /\ dirBy = 0 /\ OrphanDirFree(n) /\ lockedBy[i] = Free /\ Done(n)
      /\ UNCHANGED <<ostory, oalive, dirLinks, scan, wipes, lockedBy, dirBy>>
  BY <1>3 DEF ReflinkMove
<1>5. task' \in [ONode -> Tasks] /\ task'[n] = NoTask /\ (\A m \in ONode : m # n => task'[m] = task[m]) /\ TaskOK(n)'
  BY <1>1, <1>4, TaskDone
<1>6. \A j \in Ino : lockedBy[j] # <<n, "task">>
  BY <1>1, <1>3, NoTaskNoLock
<1>7. CASE names[nm] # 0
  <2>1. UNCHANGED <<names, dent, dinode, core, orphanDir>>
    BY <1>3, <1>7 DEF ReflinkMove
  <2>2. Shape'
    BY <1>1, <1>2, <1>4, <1>5, <2>1 DEF Shape, SameStory
  <2>3. ASSUME NEW m \in ONode, NEW j \in Ino, Referred(m, j)' PROVE core[m][j].st = "in"
    <3>1. Referred(m, j)
      BY <2>1, <2>3, <1>4, <1>5, InoAssumption DEF Referred, NoTask
    <3> QED
      BY <3>1 DEF OInv, RefOK
  <2>4. ASSUME NEW m \in ONode PROVE TaskOK(m)'
    <3>1. CASE m = n
      BY <3>1, <1>5
    <3>2. CASE m # n
      <4>1. TaskOK(m) /\ task'[m] = task[m]
        BY <3>2, <1>5 DEF OInv
      <4> QED
        BY <4>1, <2>1, <1>2, <1>4 DEF TaskOK, SameStory, IsDir
    <3> QED
      BY <3>1, <3>2
  <2>5. \A j \in Ino : LockOK(j)'
    BY <2>1, <1>4, <1>5, <1>6 DEF OInv, LockOK
  <2> QED
    BY <2>1, <2>2, <2>3, <2>4, <2>5, <1>2, <1>4, TaskStep
<1>8. CASE names[nm] = 0
  <2>1. /\ names' = [names EXCEPT ![nm] = i]
        /\ dent' = [dent EXCEPT ![n][nm] = i]
        /\ dinode' = [dinode EXCEPT ![i].links = 1, ![i].orphan = 0]
        /\ core' = [core EXCEPT ![n][i].links = 1]
        /\ orphanDir' = OrphanDel(n, <<i, FALSE>>)
    BY <1>3, <1>8 DEF ReflinkMove
  <2>2. dinode[i].valid /\ dinode[i].links = 0 /\ DiskOK(i) /\ \A m \in ONode : ~core[m][i].skip
    <3>1. DiskOK(i) /\ dinode[i].orphan # 0
      BY <1>1, <1>3 DEF OInv
    <3>2. \A m \in ONode : ~core[m][i].skip
      BY <3>1 DEF OInv, CoreOK
    <3> QED
      BY <3>1, <3>2 DEF DiskOK
  <2>3. PICK d \in Dinode : d = dinode[i]
    BY <1>1 DEF Shape
  <2>4. PICK e \in Dinode : e = [d EXCEPT !.links = 1]
    BY DinodeEdit
  <2>5. PICK f \in Dinode : f = [e EXCEPT !.orphan = 0]
    BY DinodeEdit DEF NodeOr0
  <2>6. dinode' = [dinode EXCEPT ![i] = f]
    <3>1. dinode \in [Ino -> Dinode]
      BY <1>1 DEF Shape
    <3> DEFINE y == [dinode EXCEPT ![i] = e]
    <3>2. y = [dinode EXCEPT ![i].links = 1]
      BY <2>3, <2>4
    <3>3. [y EXCEPT ![i].orphan = 0] = [dinode EXCEPT ![i] = f]
      BY <3>1, <2>5
    <3> QED
      BY <2>1, <3>2, <3>3
  <2>7. /\ dinode' \in [Ino -> Dinode] /\ dinode'[i] = f /\ \A j \in Ino : j # i => dinode'[j] = dinode[j]
    BY ONLY i \in Ino, f \in Dinode, <1>1, <2>6, DinodeSet
  <2>8. /\ dinode'[i].valid /\ dinode'[i].links = 1 /\ dinode'[i].orphan = 0
        /\ dinode'[i].dio = dinode[i].dio /\ dinode'[i].life = dinode[i].life
    <3>1. /\ f.valid <=> d.valid
          /\ f.links = 1 /\ f.orphan = 0 /\ f.dio = d.dio /\ f.life = d.life
      BY <2>4, <2>5 DEF Dinode
    <3> QED
      BY <3>1, <2>2, <2>3, <2>7
  <2>9. PICK c \in Inode : c = core[n][i]
    BY <1>1 DEF Shape
  <2>10. PICK v \in Inode : v = [c EXCEPT !.links = 1]
    BY InodeEdit
  <2>11. core' = [core EXCEPT ![n][i] = v]
    BY <2>1, <2>9, <2>10
  <2>12. CoreOnly(n, i) /\ core'[n][i] = v
    BY ONLY i \in Ino, v \in Inode, <1>1, <2>11, CoreSet
  <2>13. CommitAt(n, i)
    <3>1. /\ v.st = c.st /\ v.olk = c.olk /\ v.life = c.life /\ v.opens = c.opens
          /\ v.dio <=> c.dio
          /\ v.skip <=> c.skip
      BY <2>10 DEF Inode
    <3> QED
      BY <3>1, <1>1, <1>3, <2>2, <2>9, <2>12 DEF CommitAt
  <2>14. Known(n, i)
    <3>1. \A m \in ONode : lockedBy[i] # <<m, "evict">>
      BY <1>4, ONodeAssumption DEF Free
    <3> QED
      BY <3>1, <1>3, <2>2, <2>8, <2>13 DEF Known, CommitAt
  <2>15. /\ names' \in [Name -> InoOr0] /\ names'[nm] = i /\ \A x \in Name : x # nm => names'[x] = names[x]
         /\ Cardinality(NamesOf(i)) \in Nat /\ Cardinality(NamesOf(i)') = Cardinality(NamesOf(i)) + 1
         /\ \A j \in Ino : j # i => Cardinality(NamesOf(j)') = Cardinality(NamesOf(j))
         /\ Cardinality(DirNames) \in Nat
         /\ Cardinality(DirNames') = Cardinality(DirNames) + IF IsDir(i) THEN 1 ELSE 0
    BY <1>1, <1>2, <1>8, <2>1, NameAdded
  <2>16. /\ dent' \in [ONode -> [Name -> InoOr0]]
         /\ \A m \in ONode, x \in Name : dent'[m][x] = IF m = n /\ x = nm THEN i ELSE dent[m][x]
         /\ \A m \in ONode : m # n => dent'[m] = dent[m]
    BY <1>1, <2>1, DentSet DEF InoOr0
  <2>17. /\ orphanDir' \in [ONode -> SUBSET Entries]
         /\ \A s \in ONode : s # n => orphanDir'[s] = orphanDir[s]
         /\ \A s \in ONode, j \in Ino, b \in BOOLEAN : j # i => (<<j, b>> \in orphanDir'[s] <=> <<j, b>> \in orphanDir[s])
         /\ \A s \in ONode : <<i, TRUE>> \in orphanDir'[s] <=> <<i, TRUE>> \in orphanDir[s]
         /\ \A s \in ONode : <<i, FALSE>> \in orphanDir'[s] <=> <<i, FALSE>> \in orphanDir[s] /\ s # n
    BY <1>1, <2>1, OrphanGone
  <2>18. Shape'
    BY <1>1, <1>2, <1>4, <1>5, <2>7, <2>12, <2>15, <2>16, <2>17 DEF Shape, SameStory, CoreOnly
  <2>19. DiskOnly(i)
    BY <1>4, <2>7, <2>15, <2>17 DEF DiskOnly
  <2>20. NodeOnly(n)
    BY <1>4, <1>5, <2>16 DEF NodeOnly
  <2>21. LocksGo(n, i)
    BY <1>4, <1>6, ONodeAssumption DEF LocksGo, Free
  <2>22. RefOK(n)' /\ CoreOK(n, i)' /\ OpenOK(i)'
    BY <1>1, <1>3, <1>4, <1>5, <2>13, <2>14, <2>16, CommitMemory
  <2>23. \A m \in ONode : DentOK(m)'
    BY <1>1, <1>4, <1>8, <2>15, <2>16 DEF OInv, DentOK
  <2>24. DiskOK(i)'
    <3>1. Links(i)' = 1 /\ ~IsDir(i)'
      BY <1>2, <1>3 DEF Links, IsDir, SameStory
    <3>2. Cardinality(NamesOf(i)) = 0
      <4>1. NamesOf(i) \in SUBSET Name /\ \A x \in Name : x \notin NamesOf(i)
        BY <2>2, NamelessInode, NamesFacts
      <4> QED
        BY <4>1, NoneAtAll
    <3>3. dinode'[i].links = Cardinality(NamesOf(i)') * Links(i)'
      BY <3>1, <3>2, <2>8, <2>15
    <3>4. ASSUME NEW s \in ONode
          PROVE  /\ <<i, FALSE>> \in orphanDir'[s] <=> s = dinode'[i].orphan
                 /\ <<i, TRUE>> \in orphanDir'[s] <=> s = dinode'[i].dio
      <4>1. /\ <<i, FALSE>> \in orphanDir[s] <=> s = n
            /\ <<i, TRUE>> \in orphanDir[s] <=> s = dinode[i].dio
            /\ s # 0
        BY <1>3, <2>2, ONodeAssumption DEF DiskOK
      <4> QED
        BY <4>1, <2>8, <2>17
    <3> QED
      BY <3>1, <3>3, <3>4, <2>8 DEF DiskOK
  <2>25. KeptOK(i)'
    BY <2>8 DEF KeptOK
  <2>26. DirOK'
    <3>1. \A x \in Name : names'[x] # 0 => dinode'[names'[x]].valid
      BY <2>7, <2>8, <2>15, NamesValid
    <3>2. dirLinks' = 2 + Cardinality(DirNames')
      BY <1>3, <1>4, <2>15 DEF OInv, DirOK
    <3> QED
      BY <3>1, <3>2 DEF DirOK
  <2>27. Fine(n, i)
    BY <1>5, <2>22, <2>23, <2>24, <2>25, <2>26 DEF Fine
  <2> QED
    BY <1>1, <1>2, <1>4, <2>12, <2>14, <2>18, <2>19, <2>20, <2>21, <2>27, WriteStep
<1> QED
  BY <1>7, <1>8

-----------------------------------------------------------------------------
(* The wipe, and deaths.                                                   *)

LEMMA WipeStep ==
  ASSUME OInv, NEW n \in oalive, NEW i \in Ino, Wipe(n, i)
  PROVE  OInv'
<1>1. n \in ONode /\ n # 0 /\ Shape /\ 0 \in NodeOr0
  BY ONodeAssumption DEF OInv, Shape, NodeOr0
<1>2. SameStory
  BY StoryStays DEF OInv, Wipe
<1>3. PICK c \in Inode : c = core[n][i]
  BY <1>1 DEF Shape
<1>4. PICK d \in Dinode : d = dinode[i]
  BY <1>1 DEF Shape
<1>5. /\ c.st = "wiping" /\ c.olk = "EX" /\ lockedBy[i] = <<n, "evict">>
      /\ d.valid /\ d.links = 0 /\ d.dio = 0 /\ (c.skip \/ d.orphan # 0)
      /\ c.skip => d.orphan = 0 /\ c.links = 0 /\ c.opens = 0
      /\ ~c.dio /\ DiskOK(i)
  <2>1. CoreOK(n, i) /\ c.st = "wiping" /\ DiskOK(i)
    BY <1>1, <1>3 DEF OInv, Wipe
  <2> QED
    BY <2>1, <1>1, <1>3, <1>4 DEF CoreOK
<1>6. /\ IF c.skip THEN orphanDir' = orphanDir
         ELSE OrphanDirFree(d.orphan) /\ orphanDir' = OrphanDel(d.orphan, <<i, FALSE>>)
      /\ dinode' = [dinode EXCEPT ![i].valid = FALSE, ![i].orphan = 0]
      /\ core' = [core EXCEPT ![n][i].st = "clear", ![n][i].deleted = TRUE]
      /\ lockedBy' = [lockedBy EXCEPT ![i] = Free]
      /\ UNCHANGED <<ostory, oalive, names, dirLinks, dent, task, scan, dirBy>>
  BY <1>3, <1>4 DEF Wipe
<1>7. PICK e \in Dinode : e = [d EXCEPT !.valid = FALSE]
  BY DinodeEdit
<1>8. PICK f \in Dinode : f = [e EXCEPT !.orphan = 0]
  BY <1>1, DinodeEdit
<1>9. dinode' = [dinode EXCEPT ![i] = f]
  <2>1. dinode \in [Ino -> Dinode]
    BY <1>1 DEF Shape
  <2> DEFINE y == [dinode EXCEPT ![i] = e]
  <2>2. y = [dinode EXCEPT ![i].valid = FALSE]
    BY <1>4, <1>7
  <2>3. [y EXCEPT ![i].orphan = 0] = [dinode EXCEPT ![i] = f]
    BY <2>1, <1>8
  <2> QED
    BY <1>6, <2>2, <2>3
<1>10. /\ dinode' \in [Ino -> Dinode] /\ dinode'[i] = f /\ \A j \in Ino : j # i => dinode'[j] = dinode[j]
  BY ONLY i \in Ino, f \in Dinode, <1>1, <1>9, DinodeSet
<1>11. ~f.valid /\ f.links = 0 /\ f.orphan = 0 /\ f.dio = 0
  <2>1. ~f.valid /\ f.links = d.links /\ f.orphan = 0 /\ f.dio = d.dio
    BY <1>7, <1>8 DEF Dinode
  <2> QED
    BY <2>1, <1>5
<1>12. PICK w \in Inode : w = [c EXCEPT !.st = "clear"]
  BY InodeEdit DEF States
<1>13. PICK v \in Inode : v = [w EXCEPT !.deleted = TRUE]
  BY InodeEdit
<1>14. core' = [core EXCEPT ![n][i] = v]
  <2>1. core \in [ONode -> [Ino -> Inode]]
    BY <1>1 DEF Shape
  <2> DEFINE y == [core EXCEPT ![n][i] = w]
  <2>2. y = [core EXCEPT ![n][i].st = "clear"]
    BY <1>3, <1>12
  <2>3. [y EXCEPT ![n][i].deleted = TRUE] = [core EXCEPT ![n][i] = v]
    BY <1>1, <1>13, <2>1
  <2> QED
    BY <1>6, <2>2, <2>3
<1>15. CoreOnly(n, i) /\ core'[n][i] = v
  BY ONLY i \in Ino, v \in Inode, <1>1, <1>14, CoreSet
<1>16. /\ v.st = "clear" /\ v.olk = c.olk /\ v.links = c.links /\ v.life = c.life /\ v.opens = c.opens
       /\ v.dio <=> c.dio
       /\ v.skip <=> c.skip
  BY <1>12, <1>13 DEF Inode
<1>17. lockedBy' \in [Ino -> Holders] /\ lockedBy'[i] = Free /\ \A j \in Ino : j # i => lockedBy'[j] = lockedBy[j]
  <2>1. lockedBy \in [Ino -> Holders] /\ Free \in Holders /\ lockedBy' = [lockedBy EXCEPT ![i] = Free]
    BY <1>1, <1>6 DEF Shape, Holders
  <2> QED
    BY ONLY <2>1, i \in Ino
<1>18. /\ orphanDir' \in [ONode -> SUBSET Entries]
       /\ \A s \in ONode : orphanDir'[s] = orphanDir[s] \/ OrphanDirFree(s)
       /\ \A s \in ONode, j \in Ino, b \in BOOLEAN : j # i => (<<j, b>> \in orphanDir'[s] <=> <<j, b>> \in orphanDir[s])
       /\ \A s \in ONode : <<i, TRUE>> \notin orphanDir'[s] /\ <<i, FALSE>> \notin orphanDir'[s]
  <2>1. \A s \in ONode : /\ <<i, TRUE>> \notin orphanDir[s] /\ s # 0
                         /\ <<i, FALSE>> \in orphanDir[s] <=> s = d.orphan
    BY <1>4, <1>5, ONodeAssumption DEF DiskOK
  <2>2. CASE c.skip
    <3>1. orphanDir' = orphanDir /\ d.orphan = 0
      BY <2>2, <1>5, <1>6
    <3> QED
      BY <2>1, <3>1, <1>1 DEF Shape
  <2>3. CASE ~c.skip
    <3>1. d.orphan \in ONode /\ OrphanDirFree(d.orphan) /\ orphanDir' = OrphanDel(d.orphan, <<i, FALSE>>)
      BY <2>3, <1>5, <1>6 DEF Dinode, NodeOr0
    <3>2. /\ orphanDir' \in [ONode -> SUBSET Entries]
          /\ \A s \in ONode : s # d.orphan => orphanDir'[s] = orphanDir[s]
          /\ \A s \in ONode, j \in Ino, b \in BOOLEAN : j # i => (<<j, b>> \in orphanDir'[s] <=> <<j, b>> \in orphanDir[s])
          /\ \A s \in ONode : <<i, TRUE>> \in orphanDir'[s] <=> <<i, TRUE>> \in orphanDir[s]
          /\ \A s \in ONode : <<i, FALSE>> \in orphanDir'[s] <=> <<i, FALSE>> \in orphanDir[s] /\ s # d.orphan
      BY <3>1, <1>1, OrphanGone
    <3> QED
      BY <2>1, <3>1, <3>2
  <2> QED
    BY <2>2, <2>3
<1>19. DirNames' = DirNames /\ \A j \in Ino : NamesOf(j)' = NamesOf(j)
  BY <1>2, <1>6, NamesStay
<1>20. Shape'
  BY <1>1, <1>2, <1>6, <1>10, <1>15, <1>17, <1>18 DEF Shape, SameStory, CoreOnly
<1>21. DiskOnly(i)
  BY <1>10, <1>18, <1>19 DEF DiskOnly
<1>22. NodeOnly(n)
  BY <1>6 DEF NodeOnly
<1>23. LocksGo(n, i)
  BY <1>6, <1>17, ONodeAssumption DEF LocksGo, Free
<1>24. Alone(n, i)
  BY <1>1, <1>3, <1>5 DEF OInv, OpenOK, Alone
<1>25. ~Referred(n, i)
  BY <1>1, <1>3, <1>5 DEF OInv, RefOK
<1>26. RefOK(n)'
  <2>1. ASSUME NEW j \in Ino, Referred(n, j)' PROVE core'[n][j].st = "in"
    <3>1. core'[n][j].opens = core[n][j].opens /\ (j # i => core'[n][j] = core[n][j])
      <4>1. CASE j = i
        BY <4>1, <1>1, <1>3, <1>15, <1>16
      <4>2. CASE j # i
        BY <4>2, <1>1, <1>15 DEF CoreOnly
      <4> QED
        BY <4>1, <4>2
    <3>2. Referred(n, j)
      BY <2>1, <3>1, <1>6 DEF Referred
    <3> QED
      BY <3>1, <3>2, <1>1, <1>25 DEF OInv, RefOK
  <2> QED
    BY <2>1 DEF RefOK
<1>27. TaskOK(n)'
  <2>1. TaskOK(n) /\ task[n].ino # i /\ task[n].ino \in InoOr0
    BY <1>1, <1>25 DEF OInv, Shape, Referred, Tasks
  <2>2. task[n].ino # 0 => dinode'[task[n].ino] = dinode[task[n].ino]
    BY <2>1, <1>10 DEF InoOr0
  <2> QED
    BY <2>1, <2>2, <1>2, <1>6 DEF TaskOK, SameStory, IsDir
<1>28. CoreOK(n, i)'
  <2>1. \A m \in ONode : m # n => core'[m][i].olk = "NL"
    BY <1>15, <1>24 DEF CoreOnly, Alone
  <2> QED
    BY <2>1, <1>5, <1>10, <1>11, <1>15, <1>16 DEF CoreOK
<1>29. OpenOK(i)'
  <2>1. \A m \in ONode : m # n => core'[m][i].olk = "NL"
    BY <1>15, <1>24 DEF CoreOnly, Alone
  <2> QED
    BY <2>1, <1>5, <1>15, <1>16 DEF OpenOK
<1>30. DiskOK(i)' /\ KeptOK(i)'
  BY <1>10, <1>11, <1>18, ONodeAssumption DEF DiskOK, KeptOK
<1>31. DirOK' /\ \A m \in ONode : DentOK(m)'
  <2>1. ASSUME NEW x \in Name, names[x] # 0 PROVE dinode'[names[x]].valid
    <3>1. names[x] # i
      BY <1>4, <1>5, NamelessInode
    <3>2. names[x] \in Ino /\ dinode[names[x]].valid
      BY <2>1, <1>1 DEF OInv, Shape, InoOr0, DirOK
    <3> QED
      BY <3>1, <3>2, <1>10
  <2> QED
    BY <2>1, <1>6, <1>19 DEF OInv, DirOK, DentOK
<1>32. Fine(n, i)
  BY <1>26, <1>27, <1>28, <1>29, <1>30, <1>31 DEF Fine
<1>33. UNCHANGED <<oalive, scan>>
  BY <1>6
<1> QED
  BY <1>1, <1>2, <1>15, <1>20, <1>21, <1>22, <1>23, <1>24, <1>32, <1>33, WriteStep

LEMMA ODiesStep ==
  ASSUME OInv, NEW n \in oalive, ODies(n)
  PROVE  OInv'
<1>1. n \in ONode /\ n # 0 /\ Shape
  BY ONodeAssumption DEF OInv, Shape
<1>2. SameStory
  BY StoryStays DEF OInv, ODies
<1>3. UNCHANGED <<ostory, names, dirLinks, dinode, orphanDir>> /\ oalive' = oalive \ {n}
  BY DEF ODies
<1>4. Absent \in Inode /\ NoTask \in Tasks /\ NoScan \in Scans /\ Free \in Holders /\ \A m \in ONode : Free # <<m, "task">>
  BY ONodeAssumption DEF Absent, NoTask, NoScan, Free, Inode, States, Tasks, Scans, Holders, NameOr0, InoOr0, NodeOr0
<1>5. /\ core' \in [ONode -> [Ino -> Inode]] /\ \A j \in Ino : core'[n][j] = Absent
      /\ \A m \in ONode : m # n => core'[m] = core[m]
  <2>1. core \in [ONode -> [Ino -> Inode]] /\ core' = [core EXCEPT ![n] = [j \in Ino |-> Absent]]
    BY <1>1 DEF Shape, ODies
  <2>2. [j \in Ino |-> Absent] \in [Ino -> Inode]
    BY <1>4
  <2> QED
    BY <2>1, <2>2, <1>1
<1>6. /\ dent' \in [ONode -> [Name -> InoOr0]] /\ \A x \in Name : dent'[n][x] = 0
      /\ \A m \in ONode : m # n => dent'[m] = dent[m]
  <2>1. dent \in [ONode -> [Name -> InoOr0]] /\ dent' = [dent EXCEPT ![n] = [nm \in Name |-> 0]]
    BY <1>1 DEF Shape, ODies
  <2>2. [nm \in Name |-> 0] \in [Name -> InoOr0]
    BY DEF InoOr0
  <2> QED
    BY <2>1, <2>2, <1>1
<1>7. task' \in [ONode -> Tasks] /\ task'[n] = NoTask /\ \A m \in ONode : m # n => task'[m] = task[m]
  BY <1>1, <1>4 DEF Shape, ODies
<1>8. scan' \in [ONode -> Scans] /\ scan'[n] = NoScan /\ \A m \in ONode : m # n => scan'[m] = scan[m]
  BY <1>1, <1>4 DEF Shape, ODies
<1>9. /\ lockedBy' \in [Ino -> Holders]
      /\ \A j \in Ino : lockedBy'[j] = IF lockedBy[j][1] = n THEN Free ELSE lockedBy[j]
  <2>1. lockedBy' = [j \in Ino |-> IF lockedBy[j][1] = n THEN Free ELSE lockedBy[j]] /\ lockedBy \in [Ino -> Holders]
    BY <1>1 DEF Shape, ODies
  <2> HIDE DEF Free
  <2> QED
    BY ONLY <2>1, <1>4
<1>10. dirBy' \in NodeOr0 /\ (dirBy' = dirBy \/ (dirBy = n /\ dirBy' = 0))
  BY <1>1 DEF Shape, ODies, NodeOr0
<1>11. Shape'
  BY <1>1, <1>2, <1>3, <1>5, <1>6, <1>7, <1>8, <1>9, <1>10 DEF Shape, SameStory
<1>12. ASSUME NEW m \in ONode PROVE RefOK(m)'
  <2>1. CASE m = n
    <3>1. \A j \in Ino : ~Referred(n, j)'
      BY <1>5, <1>6, <1>7, <1>8, InoAssumption DEF Referred, Absent, NoTask, NoScan
    <3> QED
      BY <2>1, <3>1 DEF RefOK
  <2>2. CASE m # n
    <3>1. RefOK(m) /\ core'[m] = core[m] /\ dent'[m] = dent[m] /\ task'[m] = task[m] /\ scan'[m] = scan[m]
      BY <2>2, <1>5, <1>6, <1>7, <1>8 DEF OInv
    <3> QED
      BY <3>1 DEF RefOK, Referred
  <2> QED
    BY <2>1, <2>2
<1>13. ASSUME NEW m \in ONode PROVE DentOK(m)' /\ ScanOK(m)'
  <2>1. CASE m = n
    BY <2>1, <1>6, <1>8 DEF DentOK, ScanOK, NoScan
  <2>2. CASE m # n
    <3>1. DentOK(m) /\ ScanOK(m) /\ dent'[m] = dent[m] /\ scan'[m] = scan[m]
      BY <2>2, <1>6, <1>8 DEF OInv
    <3> QED
      BY <2>2, <3>1, <1>3 DEF DentOK, ScanOK
  <2> QED
    BY <2>1, <2>2
<1>14. ASSUME NEW m \in ONode PROVE TaskOK(m)'
  <2>1. CASE m = n
    BY <2>1, <1>7 DEF TaskOK, NoTask, NameOps
  <2>2. CASE m # n
    <3>1. TaskOK(m) /\ task'[m] = task[m] /\ (dirBy = m => dirBy' = m)
      BY <2>2, <1>7, <1>10 DEF OInv
    <3> QED
      BY <3>1, <1>2, <1>3 DEF TaskOK, SameStory, IsDir
  <2> QED
    BY <2>1, <2>2
<1>15. ASSUME NEW j \in Ino, NEW m \in ONode PROVE CoreOK(m, j)' /\ (m = n => core'[m][j].olk = "NL")
  <2>1. core'[n][j].olk = "NL"
    BY <1>5 DEF Absent
  <2>2. CASE m = n
    BY <2>2, <2>1, <1>5 DEF CoreOK, Absent
  <2>3. CASE m # n
    <3>1. CoreOK(m, j) /\ core'[m] = core[m] /\ \A k \in ONode : core'[k][j].olk = core[k][j].olk \/ core'[k][j].olk = "NL"
      BY <2>1, <2>3, <1>5 DEF OInv
    <3>2. lockedBy[j] = <<m, "evict">> => lockedBy'[j] = lockedBy[j]
      BY <2>3, <1>9
    <3> QED
      BY <2>3, <3>1, <3>2, <1>3 DEF CoreOK
  <2> QED
    BY <2>1, <2>2, <2>3
<1>16. ASSUME NEW j \in Ino PROVE OpenOK(j)'
  <2>1. \A k \in ONode : core'[k][j].olk = core[k][j].olk \/ core'[k][j].olk = "NL"
    BY <1>5 DEF Absent
  <2> QED
    BY <2>1, <1>3 DEF OInv, OpenOK
<1>17. ASSUME NEW j \in Ino PROVE LockOK(j)'
  <2>1. ASSUME NEW m \in ONode, lockedBy'[j] = <<m, "task">>
        PROVE  core'[m][j].links = dinode'[j].links /\ task'[m].op \in NameOps /\ j \in {task'[m].ino, task'[m].old}
    <3>1. lockedBy[j] = <<m, "task">> /\ m # n
      <4>1. lockedBy'[j] # Free
        BY <2>1, <1>4
      <4>2. lockedBy'[j] = lockedBy[j] /\ lockedBy[j][1] # n
        BY <4>1, <1>9
      <4> QED
        BY <2>1, <4>2
    <3>2. core[m][j].links = dinode[j].links /\ task[m].op \in NameOps /\ j \in {task[m].ino, task[m].old}
      BY <3>1 DEF OInv, LockOK
    <3> QED
      BY <3>1, <3>2, <1>3, <1>5, <1>7
  <2> QED
    BY <2>1 DEF LockOK
<1>18. DirOK' /\ \A j \in Ino : DiskOK(j)'
  BY <1>2, <1>3, DiskStays DEF OInv
<1>19. \A j \in Ino : KeptOK(j)'
  BY <1>1, <1>3 DEF KeptOK
<1> QED
  BY <1>11, <1>12, <1>13, <1>14, <1>15, <1>16, <1>17, <1>18, <1>19 DEF OInv

-----------------------------------------------------------------------------
(* The invariant, from the first state on.                                 *)

LEMMA OInitInv ==
  ASSUME OInit
  PROVE  OInv
<1>1. /\ ostory \in Stories /\ oalive = ONode /\ names \in [Name -> InoOr0] /\ \A nm \in Name : names[nm] = 0
      /\ dirLinks = 2 /\ dirBy = 0 /\ dirBy \in NodeOr0
  BY OStoriesAssumption DEF OInit, Stories, OpNames, InoOr0, NodeOr0
<1>2. /\ dinode \in [Ino -> Dinode]
      /\ \A i \in Ino : ~dinode[i].valid /\ dinode[i].links = 0 /\ dinode[i].orphan = 0 /\ dinode[i].dio = 0
  BY DEF OInit, Dinode, NodeOr0
<1>3. orphanDir \in [ONode -> SUBSET Entries] /\ \A s \in ONode : orphanDir[s] = {}
  BY DEF OInit
<1>4. Absent \in Inode /\ NoTask \in Tasks /\ NoScan \in Scans /\ Free \in Holders
  BY DEF Absent, NoTask, NoScan, Free, Inode, States, Tasks, Scans, Holders, NameOr0, InoOr0, NodeOr0
<1>5. core \in [ONode -> [Ino -> Inode]] /\ \A n \in ONode, i \in Ino : core[n][i] = Absent
  <2>1. [i \in Ino |-> Absent] \in [Ino -> Inode]
    BY <1>4
  <2> QED
    BY <2>1 DEF OInit
<1>6. dent \in [ONode -> [Name -> InoOr0]] /\ \A n \in ONode, nm \in Name : dent[n][nm] = 0
  <2>1. [nm \in Name |-> 0] \in [Name -> InoOr0]
    BY DEF InoOr0
  <2> QED
    BY <2>1 DEF OInit
<1>7. task \in [ONode -> Tasks] /\ \A n \in ONode : task[n] = NoTask
  BY <1>4 DEF OInit
<1>8. scan \in [ONode -> Scans] /\ \A n \in ONode : scan[n] = NoScan
  BY <1>4 DEF OInit
<1>9. lockedBy \in [Ino -> Holders] /\ \A i \in Ino : lockedBy[i] = Free
  BY <1>4 DEF OInit
<1>10. Shape
  BY <1>1, <1>2, <1>3, <1>5, <1>6, <1>7, <1>8, <1>9 DEF Shape
<1>11. ASSUME NEW n \in ONode PROVE RefOK(n) /\ DentOK(n) /\ TaskOK(n) /\ ScanOK(n)
  <2>1. \A i \in Ino : ~Referred(n, i)
    BY <1>5, <1>6, <1>7, <1>8, InoAssumption DEF Referred, Absent, NoTask, NoScan
  <2>2. RefOK(n) /\ DentOK(n)
    BY <2>1, <1>6 DEF RefOK, DentOK
  <2>3. TaskOK(n) /\ ScanOK(n)
    BY <1>7, <1>8 DEF TaskOK, ScanOK, NoTask, NoScan, NameOps
  <2> QED
    BY <2>2, <2>3
<1>12. ASSUME NEW i \in Ino PROVE OpenOK(i) /\ LockOK(i) /\ \A n \in ONode : CoreOK(n, i)
  <2>1. OpenOK(i) /\ \A n \in ONode : CoreOK(n, i)
    BY <1>5 DEF OpenOK, CoreOK, Absent
  <2>2. LockOK(i)
    BY <1>9, ONodeAssumption DEF LockOK, Free
  <2> QED
    BY <2>1, <2>2
<1>13. DirOK
  <2>1. DirNames \in SUBSET Name /\ \A x \in Name : x \notin DirNames
    BY <1>1 DEF DirNames
  <2>2. Cardinality(DirNames) = 0
    BY <2>1, NoneAtAll
  <2> QED
    BY <1>1, <2>2 DEF DirOK
<1>14. ASSUME NEW i \in Ino PROVE DiskOK(i) /\ KeptOK(i)
  BY <1>2, <1>3, ONodeAssumption DEF DiskOK, KeptOK
<1> QED
  BY <1>10, <1>11, <1>12, <1>13, <1>14 DEF OInv

LEMMA StutterStep ==
  ASSUME OInv, UNCHANGED ovars
  PROVE  OInv'
<1>1. /\ UNCHANGED <<ostory, oalive, names, dirLinks, dinode, orphanDir, core, dent>>
      /\ UNCHANGED <<task, scan, lockedBy, dirBy>>
  BY DEF ovars
<1>2. SameStory /\ Shape'
  BY <1>1 DEF OInv, Shape, SameStory
<1>3. ASSUME NEW m \in ONode PROVE TaskOK(m)'
  <2>1. TaskOK(m)
    BY DEF OInv
  <2> QED
    BY <2>1, <1>1 DEF TaskOK, IsDir
<1>4. ASSUME NEW m \in ONode, NEW j \in Ino, Referred(m, j)' PROVE core[m][j].st = "in"
  <2>1. Referred(m, j)
    BY <1>1, <1>4 DEF Referred
  <2> QED
    BY <2>1 DEF OInv, RefOK
<1>5. ASSUME NEW j \in Ino PROVE LockOK(j)'
  BY <1>1 DEF OInv, LockOK
<1> QED
  BY <1>1, <1>2, <1>3, <1>4, <1>5, TaskStep

LEMMA WorkStep ==
  ASSUME OInv, OWork
  PROVE  OInv'
<1>1. PICK n \in oalive :
        \/ LookupGet(n) \/ NameLock(n) \/ LinkCommit(n) \/ UnlinkCommit(n) \/ RenameCommit(n) \/ ReflinkMove(n)
        \/ ScanDir(n) \/ ScanGet(n) \/ ScanListed(n) \/ ScanPut(n) \/ ScanEnd(n)
        \/ \E i \in Ino : \/ EvictStart(n, i) \/ DeleteQuery(n, i) \/ WipeStart(n, i) \/ Wipe(n, i) \/ ClearInode(n, i)
                          \/ DioEnd(n, i)
        \/ \E m \in oalive : DentryConvert(n, m)
  BY DEF OWork
<1>2. CASE LookupGet(n) \/ NameLock(n)
  BY <1>2, LookupGetStep, NameLockStep
<1>3. CASE LinkCommit(n) \/ UnlinkCommit(n) \/ RenameCommit(n) \/ ReflinkMove(n)
  BY <1>3, LinkCommitStep, UnlinkCommitStep, RenameCommitStep, ReflinkMoveStep
<1>4. CASE ScanDir(n) \/ ScanGet(n) \/ ScanListed(n) \/ ScanPut(n) \/ ScanEnd(n)
  BY <1>4, ScanDirStep, ScanGetStep, ScanListedStep, ScanPutStep, ScanEndStep
<1>5. ASSUME NEW i \in Ino,
             EvictStart(n, i) \/ DeleteQuery(n, i) \/ WipeStart(n, i) \/ Wipe(n, i) \/ ClearInode(n, i) \/ DioEnd(n, i)
      PROVE  OInv'
  BY <1>5, EvictStartStep, DeleteQueryStep, WipeStartStep, WipeStep, ClearInodeStep, DioEndStep
<1>6. ASSUME NEW m \in oalive, DentryConvert(n, m) PROVE OInv'
  BY <1>6, DentryConvertStep
<1> QED
  BY <1>1, <1>2, <1>3, <1>4, <1>5, <1>6

LEMMA BeginStep ==
  ASSUME OInv, OBegin
  PROVE  OInv'
<1>1. PICK n \in oalive :
        \/ \E nm \in Name :
             \/ LookupStart(n, nm) \/ FileOpen(n, nm) \/ DentryDrop(n, nm) \/ NameStart(n, "unlink", nm, 0)
             \/ \E to \in Name : NameStart(n, "link", nm, to) \/ NameStart(n, "rename", nm, to)
             \/ \E i \in Ino : ReflinkCreate(n, nm, i) \/ \E ok \in BOOLEAN : Create(n, nm, i, ok)
        \/ \E i \in Ino : FileClose(n, i) \/ DioStart(n, i)
        \/ \E s \in ONode : ScanStart(n, s)
  BY DEF OBegin
<1>2. ASSUME NEW nm \in Name, LookupStart(n, nm) \/ FileOpen(n, nm) \/ DentryDrop(n, nm) PROVE OInv'
  BY <1>2, LookupStartStep, FileOpenStep, DentryDropStep
<1>3. ASSUME NEW nm \in Name, NameStart(n, "unlink", nm, 0) PROVE OInv'
  <2>1. "unlink" \in NameOps /\ 0 \in NameOr0
    BY DEF NameOps, NameOr0
  <2> QED
    BY <1>3, <2>1, NameStartStep
<1>4. ASSUME NEW nm \in Name, NEW to \in Name, NameStart(n, "link", nm, to) \/ NameStart(n, "rename", nm, to) PROVE OInv'
  <2>1. "link" \in NameOps /\ "rename" \in NameOps /\ to \in NameOr0
    BY DEF NameOps, NameOr0
  <2> QED
    BY <1>4, <2>1, NameStartStep
<1>5. ASSUME NEW nm \in Name, NEW i \in Ino, ReflinkCreate(n, nm, i) PROVE OInv'
  BY <1>5, ReflinkCreateStep
<1>6. ASSUME NEW nm \in Name, NEW i \in Ino, NEW ok \in BOOLEAN, Create(n, nm, i, ok) PROVE OInv'
  BY <1>6, CreateStep
<1>7. ASSUME NEW i \in Ino, FileClose(n, i) \/ DioStart(n, i) PROVE OInv'
  BY <1>7, FileCloseStep, DioStartStep
<1>8. ASSUME NEW s \in ONode, ScanStart(n, s) PROVE OInv'
  BY <1>8, ScanStartStep
<1> QED
  BY <1>1, <1>2, <1>3, <1>4, <1>5, <1>6, <1>7, <1>8

LEMMA ONextInv ==
  ASSUME OInv, [ONext]_ovars
  PROVE  OInv'
BY WorkStep, BeginStep, ODiesStep, StutterStep DEF ONext

-----------------------------------------------------------------------------
(* What follows from it.                                                   *)

LEMMA InvOrphaned ==
  ASSUME OInv
  PROVE  Orphaned
<1>1. LinksCounted
  BY DEF OInv, DiskOK, DirOK, LinksCounted, NamesOf, DirNames
<1>2. ASSUME NEW i \in Ino
      PROVE  /\ {s \in ONode : <<i, FALSE>> \in orphanDir[s]} = {dinode[i].orphan} \ {0}
             /\ {s \in ONode : <<i, TRUE>> \in orphanDir[s]} = {dinode[i].dio} \ {0}
             /\ dinode[i].orphan # 0 => dinode[i].links = 0 /\ dinode[i].valid
             /\ dinode[i].valid /\ dinode[i].links = 0 /\ oalive = ONode =>
                  dinode[i].orphan # 0 \/ \E n \in ONode : core[n][i].skip
  <2>1. PICK d \in Dinode : d = dinode[i]
    BY DEF OInv, Shape
  <2>2. d.orphan \in ONode \union {0} /\ d.dio \in ONode \union {0} /\ 0 \notin ONode
    BY ONodeAssumption DEF Dinode, NodeOr0
  <2>3. \A s \in ONode : /\ <<i, FALSE>> \in orphanDir[s] <=> s = d.orphan
                         /\ <<i, TRUE>> \in orphanDir[s] <=> s = d.dio
    BY <2>1 DEF OInv, DiskOK
  <2>4. {s \in ONode : <<i, FALSE>> \in orphanDir[s]} = {d.orphan} \ {0}
    BY <2>2, <2>3
  <2>5. {s \in ONode : <<i, TRUE>> \in orphanDir[s]} = {d.dio} \ {0}
    BY <2>2, <2>3
  <2>6. d.orphan # 0 => d.links = 0 /\ d.valid
    BY <2>1 DEF OInv, DiskOK
  <2>7. KeptOK(i)
    BY DEF OInv
  <2> QED
    BY <2>1, <2>4, <2>5, <2>6, <2>7 DEF KeptOK
<1> QED
  BY <1>1, <1>2 DEF Orphaned

LEMMA InvNotWiped ==
  ASSUME OInv
  PROVE  NotWiped
<1>1. ASSUME NEW n \in ONode, NEW i \in Ino, core[n][i].st # "none", core[n][i].st # "clear"
      PROVE  dinode[i].valid /\ core[n][i].life = dinode[i].life
  <2>1. core[n][i].st \in States
    BY DEF OInv, Shape, Inode
  <2> QED
    BY <1>1, <2>1 DEF OInv, CoreOK, States
<1> QED
  BY <1>1 DEF NotWiped

\* Whatever the nodes link, unlink, rename, reflink, write with direct I/O, scan
\* and wipe at the same time, and whoever dies in between, every inode has as
\* many links as names (ocfs2_link(), ocfs2_unlink(), ocfs2_rename()), one without
\* links is in the orphan directory its i_orphaned_slot says and in no other, and
\* while nobody dies no inode without links is forgotten (ocfs2_orphan_add(),
\* ocfs2_orphan_del()).
THEOREM LinksAreNames == OSpec => []Orphaned
<1>1. OInit => OInv
  BY OInitInv
<1>2. OInv /\ [ONext]_ovars => OInv'
  BY ONextInv
<1>3. OInv => Orphaned
  BY InvOrphaned
<1> QED
  BY <1>1, <1>2, <1>3, PTL DEF OSpec

\* The open lock does what ocfs2_query_inode_wipe() asks it for: no node has an
\* inode in use, by a file, a dentry or the list of its orphan scan, that
\* another node wiped, or that has become another inode since.
THEOREM UsedIsNotWiped == OSpec => []NotWiped
<1>1. OInit => OInv
  BY OInitInv
<1>2. OInv /\ [ONext]_ovars => OInv'
  BY ONextInv
<1>3. OInv => NotWiped
  BY InvNotWiped
<1> QED
  BY <1>1, <1>2, <1>3, PTL DEF OSpec

=============================================================================
