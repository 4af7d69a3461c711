--------------------------------- MODULE Orphans ---------------------------------
(***************************************************************************)
(* namei.c, inode.c, dcache.c, the orphan scan of journal.c: several nodes *)
(* create, link, rename and unlink names of one directory, keep inodes in  *)
(* memory, write with direct I/O, and delete an inode when the last node   *)
(* that has it in memory lets go of it.                                    *)
(*                                                                         *)
(* The disk has the directory, the inodes, and an orphan directory per     *)
(* slot (node n has slot n). A transaction is one step. Cluster locks are  *)
(* what they guarantee; the open lock of an inode is the level a node has. *)
(***************************************************************************)
EXTENDS Integers, FiniteSets

CONSTANTS
  ONode,      \* nodes, numbered by their slot
  Ino, Name,
  OStories    \* ops[n]: operation -> how often n may do it; dies: who may die;
              \* dirs: the inodes that become directories

\* 0 stands for no node and for no inode; a directory has finitely many names.
ASSUME ONodeAssumption == 0 \notin ONode
ASSUME InoAssumption == 0 \notin Ino
ASSUME NameAssumption == IsFiniteSet(Name)
ASSUME OStoriesAssumption ==
  OStories \subseteq [ops : [ONode -> [{"create", "open", "link", "unlink", "rename", "reflink", "scan", "dio"} -> Int]],
                      dies : SUBSET ONode, dirs : SUBSET Ino]

VARIABLES
  ostory, oalive,
  names,      \* names[nm]: the directory, an inode or 0
  dirLinks,   \* its link count
  dinode,     \* struct ocfs2_dinode: valid, links, orphan and dio (slots), life (generation)
  orphanDir,  \* orphanDir[s]: entries <<i, isDio>>
  core,       \* core[n][i]: struct inode
  dent,       \* dent[n][nm]: positive dentry, with its dentry lock
  task,       \* task[n]: an operation on names
  scan,       \* scan[n]: ocfs2_recover_orphans()
  wipes,      \* osb_orphan_wipes[n][s]
  lockedBy,   \* lockedBy[i]: EX of the inode's lock: <<node, who>>
  dirBy       \* EX of the directory's lock

ovars == <<ostory, oalive, names, dirLinks, dinode, orphanDir, core, dent, task, scan, wipes, lockedBy, dirBy>>

Free == <<0, "none">>
Absent == [st |-> "none", links |-> 0, maybe |-> FALSE, skip |-> FALSE, deleted |-> FALSE,
           opens |-> 0, dio |-> FALSE, olk |-> "NL", life |-> 0]
NoTask == [op |-> "none", from |-> 0, to |-> 0, ino |-> 0, old |-> 0]
NoScan == [pc |-> "none", slot |-> 0, todo |-> {}, list |-> {}, trunc |-> FALSE]

OInit ==
  /\ ostory \in OStories
  /\ oalive = ONode
  /\ names = [nm \in Name |-> 0]
  /\ dirLinks = 2
  /\ dinode = [i \in Ino |-> [valid |-> FALSE, links |-> 0, orphan |-> 0, dio |-> 0, life |-> 0]]
  /\ orphanDir = [s \in ONode |-> {}]
  /\ core = [n \in ONode |-> [i \in Ino |-> Absent]]
  /\ dent = [n \in ONode |-> [nm \in Name |-> 0]]
  /\ task = [n \in ONode |-> NoTask]
  /\ scan = [n \in ONode |-> NoScan]
  /\ wipes = [n \in ONode |-> [s \in ONode |-> 0]]
  /\ lockedBy = [i \in Ino |-> Free]
  /\ dirBy = 0

IsDir(i) == i \in ostory.dirs
Links(i) == IF IsDir(i) THEN 2 ELSE 1   \* of a new inode
May(n, op) == ostory.ops[n][op] > 0
Did(n, op) == ostory' = [ostory EXCEPT !.ops[n][op] = @ - 1]
Begin(n, op, from, to, i, old) == task' = [task EXCEPT ![n] = [op |-> op, from |-> from, to |-> to, ino |-> i, old |-> old]]
Done(n) == task' = [task EXCEPT ![n] = NoTask]
Idle(n) == n \in oalive /\ task[n] = NoTask

\* An orphan directory can be had in EX: nobody has PR, to read it.
OrphanDirFree(s) == \A n \in ONode : ~(scan[n].pc = "dir" /\ scan[n].slot = s)

\* ocfs2_inode_lock_update()
Fresh(n, i) == [core EXCEPT ![n][i].links = dinode[i].links]

\* Its open lock can be had in PR: the node that wiped the inode before has gone
OpenLockable(i) == \A m \in ONode : core[m][i].olk # "EX"

\* ocfs2_read_locked_inode()
FromDisk(i) == [Absent EXCEPT !.st = "in", !.links = dinode[i].links, !.olk = "PR", !.life = dinode[i].life]

\* No direct write past its end has the inode's rw lock.
RwFree(i) == \A m \in ONode : ~core[m][i].dio

OrphanDel(s, e) == [orphanDir EXCEPT ![s] = @ \ {e}]

\* Someone has the inode by a dentry, a file, a list of orphans or an operation.
Referred(n, i) ==
  \/ core[n][i].opens > 0
  \/ \E nm \in Name : dent[n][nm] = i
  \/ task[n].ino = i \/ task[n].old = i
  \/ \E e \in scan[n].list : e[1] = i

----------------------------------------------------------------------------
(* ocfs2_lookup() and ocfs2_iget().                                        *)

\* It looks for the name with the directory's lock, and has it until the inode
\* is in memory.
LookupStart(n, nm) ==
  /\ Idle(n) /\ May(n, "open") /\ dent[n][nm] = 0 /\ dirBy = 0 /\ names[nm] # 0
  /\ dirBy' = n
  /\ Begin(n, "lookup", nm, 0, 0, 0)
  /\ UNCHANGED <<ostory, oalive, names, dirLinks, dinode, orphanDir, core, dent, scan, wipes, lockedBy>>

\* ocfs2_read_locked_inode(): waits while this node evicts it, for the open lock,
\* for the inode's lock. The name was looked up: not an orphan.
LookupGet(n) ==
  /\ task[n].op = "lookup"
  /\ LET nm == task[n].from
         i == names[nm]
         c == core[n][i]
     IN /\ \/ c.st = "in" /\ core' = [core EXCEPT ![n][i].maybe = FALSE]
           \/ /\ c.st = "none" /\ lockedBy[i] = Free /\ OpenLockable(i)
              /\ core' = [core EXCEPT ![n][i] = FromDisk(i)]
        /\ dent' = [dent EXCEPT ![n][nm] = i]
  /\ dirBy' = 0
  /\ Done(n)
  /\ UNCHANGED <<ostory, oalive, names, dirLinks, dinode, orphanDir, scan, wipes, lockedBy>>

\* ocfs2_file_open() through a dentry: ocfs2_dentry_revalidate()
FileOpen(n, nm) ==
  LET i == dent[n][nm] IN
  /\ Idle(n) /\ May(n, "open") /\ i # 0 /\ ~core[n][i].deleted /\ core[n][i].links > 0
  /\ Did(n, "open")
  /\ core' = [core EXCEPT ![n][i].opens = @ + 1]
  /\ UNCHANGED <<oalive, names, dirLinks, dinode, orphanDir, dent, task, scan, wipes, lockedBy, dirBy>>
FileClose(n, i) ==
  /\ n \in oalive /\ core[n][i].opens > 0 /\ ~core[n][i].dio
  /\ core' = [core EXCEPT ![n][i].opens = @ - 1]
  /\ UNCHANGED <<ostory, oalive, names, dirLinks, dinode, orphanDir, dent, task, scan, wipes, lockedBy, dirBy>>

\* ocfs2_dentry_iput() when the cache gives a dentry up
DentryDrop(n, nm) ==
  /\ Idle(n) /\ dent[n][nm] # 0
  /\ dent' = [dent EXCEPT ![n][nm] = 0]
  /\ UNCHANGED <<ostory, oalive, names, dirLinks, dinode, orphanDir, core, task, scan, wipes, lockedBy, dirBy>>

\* ocfs2_dentry_convert_worker(): another node wants the dentry lock in EX. All
\* names of the inode in this directory go.
DentryConvert(n, m) ==
  /\ n # m /\ n \in oalive /\ task[m].op \in {"unlink", "rename"}
  /\ \E i \in {task[m].ino, task[m].old} \ {0} :
       /\ lockedBy[i] = <<m, "task">>
       /\ \E nm \in Name : dent[n][nm] = i
       /\ core' = [core EXCEPT ![n][i].maybe = TRUE]
       /\ dent' = [dent EXCEPT ![n] = [nm \in Name |-> IF @[nm] = i THEN 0 ELSE @[nm]]]
  /\ UNCHANGED <<ostory, oalive, names, dirLinks, dinode, orphanDir, task, scan, wipes, lockedBy, dirBy>>

\* ocfs2_remote_dentry_delete() is through
DentriesGone(n, i) == \A m \in oalive \ {n} : \A nm \in Name : dent[m][nm] # i

----------------------------------------------------------------------------
(* Operations on names: under the directory's lock, then the inode's.      *)

\* It has its name, and the directory is its parent.
Named(n, nm, i) ==
  /\ names' = [names EXCEPT ![nm] = i]
  /\ dent' = [dent EXCEPT ![n][nm] = i]
  /\ dirLinks' = IF IsDir(i) THEN dirLinks + 1 ELSE dirLinks

\* ocfs2_mknod(): a new inode, whose locks ocfs2_create_new_inode_locks() gets, or, when the entry cannot be added, one
\* without links that is to be wiped without an orphan directory.
Create(n, nm, i, ok) ==
  /\ Idle(n) /\ May(n, "create") /\ dirBy = 0 /\ names[nm] = 0 /\ ~dinode[i].valid /\ core[n][i].st = "none" /\ OpenLockable(i)
  /\ Did(n, "create")
  /\ dinode' = [dinode EXCEPT ![i] = [valid |-> TRUE, links |-> IF ok THEN Links(i) ELSE 0, orphan |-> 0, dio |-> 0, life |-> @.life + 1]]
  /\ core' = [core EXCEPT ![n][i] = [Absent EXCEPT !.st = "in", !.links = IF ok THEN Links(i) ELSE 0, !.skip = ~ok,
                                                  !.olk = "PR", !.life = dinode[i].life + 1]]
  /\ IF ok THEN Named(n, nm, i) ELSE UNCHANGED <<names, dent, dirLinks>>
  /\ UNCHANGED <<oalive, orphanDir, task, scan, wipes, lockedBy, dirBy>>

\* ocfs2_link(), ocfs2_unlink(), ocfs2_rename() lock the directory, look again for
\* what the dentry says, and lock the inode(s).
NameStart(n, op, from, to) ==
  /\ Idle(n) /\ May(n, op) /\ dent[n][from] # 0 /\ dirBy = 0
  /\ op \in {"link", "rename"} => to # from
  /\ op = "link" => ~IsDir(dent[n][from]) /\ names[to] = 0
  /\ op = "rename" => /\ dent[n][to] = names[to] /\ names[to] # dent[n][from]
                      /\ names[to] # 0 => IsDir(names[to]) = IsDir(dent[n][from])
  /\ Did(n, op)
  /\ IF names[from] = dent[n][from]
       THEN /\ dirBy' = n
            /\ Begin(n, op, from, to, dent[n][from], IF op = "rename" THEN names[to] ELSE 0)
       ELSE UNCHANGED <<dirBy, task>>
  /\ UNCHANGED <<oalive, names, dirLinks, dinode, orphanDir, core, dent, scan, wipes, lockedBy>>

NameLock(n) ==
  LET t == task[n]
      i == IF lockedBy[t.ino] # <<n, "task">> THEN t.ino ELSE t.old
  IN
  /\ t.op \in {"link", "unlink", "rename"} /\ i # 0 /\ lockedBy[i] = Free
  /\ lockedBy' = [lockedBy EXCEPT ![i] = <<n, "task">>]
  /\ core' = Fresh(n, i)
  /\ UNCHANGED <<ostory, oalive, names, dirLinks, dinode, orphanDir, dent, task, scan, wipes, dirBy>>

AllLocked(n, op) == task[n].op = op /\ \A i \in {task[n].ino, task[n].old} \ {0} : lockedBy[i] = <<n, "task">>
UnlockAll(n) ==
  /\ lockedBy' = [i \in Ino |-> IF lockedBy[i] = <<n, "task">> THEN Free ELSE lockedBy[i]]
  /\ dirBy' = 0
  /\ Done(n)

LinkCommit(n) ==
  /\ AllLocked(n, "link")
  /\ LET i == task[n].ino IN
       /\ names' = [names EXCEPT ![task[n].to] = i]
       /\ dent' = [dent EXCEPT ![n][task[n].to] = i]
       /\ dinode' = [dinode EXCEPT ![i].links = @ + 1]
       /\ core' = [core EXCEPT ![n][i].links = @ + 1]
  /\ UnlockAll(n)
  /\ UNCHANGED <<ostory, oalive, dirLinks, orphanDir, scan, wipes>>

\* Mutant: the count is looked at before the last link is gone
UnlinkableLate(n, i) == core[n][i].links = 0

\* ocfs2_inode_is_unlinkable()
Unlinkable(n, i) == core[n][i].links = Links(i)

\* One link less, and ocfs2_orphan_add() when it was the last: i in slot n's directory
Dropped(n, i) ==
  LET last == Unlinkable(n, i)
      left == IF IsDir(i) THEN 0 ELSE core[n][i].links - 1
  IN /\ last => OrphanDirFree(n)
     /\ dinode' = [dinode EXCEPT ![i].links = left, ![i].orphan = IF last THEN n ELSE @]
     /\ core' = [core EXCEPT ![n][i].links = left, ![n][i].skip = FALSE]
     /\ orphanDir' = IF last THEN [orphanDir EXCEPT ![n] = @ \union {<<i, FALSE>>}] ELSE orphanDir

UnlinkCommit(n) ==
  /\ AllLocked(n, "unlink") /\ DentriesGone(n, task[n].ino)
  /\ Dropped(n, task[n].ino)
  /\ names' = [names EXCEPT ![task[n].from] = 0]
  /\ dent' = [dent EXCEPT ![n][task[n].from] = 0]
  /\ dirLinks' = IF IsDir(task[n].ino) THEN dirLinks - 1 ELSE dirLinks
  /\ UnlockAll(n)
  /\ UNCHANGED <<ostory, oalive, scan, wipes>>

RenameCommit(n) ==
  LET t == task[n] IN
  /\ AllLocked(n, "rename") /\ DentriesGone(n, t.ino) /\ (t.old # 0 => DentriesGone(n, t.old))
  /\ IF t.old # 0
       THEN /\ Dropped(n, t.old)
            /\ dirLinks' = IF IsDir(t.old) THEN dirLinks - 1 ELSE dirLinks
       ELSE UNCHANGED <<dinode, core, orphanDir, dirLinks>>
  /\ names' = [names EXCEPT ![t.from] = 0, ![t.to] = t.ino]
  /\ dent' = [dent EXCEPT ![n][t.from] = 0, ![n][t.to] = t.ino]
  /\ UnlockAll(n)
  /\ UNCHANGED <<ostory, oalive, scan, wipes>>

\* ocfs2_create_inode_in_orphan(): a reflink begins as an orphan ...
ReflinkCreate(n, nm, i) ==
  /\ Idle(n) /\ May(n, "reflink") /\ ~dinode[i].valid /\ core[n][i].st = "none" /\ OpenLockable(i) /\ ~IsDir(i) /\ dirBy = 0 /\ OrphanDirFree(n)
  /\ Did(n, "reflink")
  /\ dinode' = [dinode EXCEPT ![i] = [valid |-> TRUE, links |-> 0, orphan |-> n, dio |-> 0, life |-> @.life + 1]]
  /\ orphanDir' = [orphanDir EXCEPT ![n] = @ \union {<<i, FALSE>>}]
  /\ core' = [core EXCEPT ![n][i] = [Absent EXCEPT !.st = "in", !.olk = "PR", !.life = dinode[i].life + 1]]
  /\ Begin(n, "reflink", 0, nm, i, 0)
  /\ UNCHANGED <<oalive, names, dirLinks, dent, scan, wipes, lockedBy, dirBy>>
\* ... and ocfs2_mv_orphaned_inode_to_new() gives it a name, if that is free still.
ReflinkMove(n) ==
  /\ task[n].op = "reflink" /\ dirBy = 0 /\ OrphanDirFree(n) /\ lockedBy[task[n].ino] = Free
  /\ LET i == task[n].ino
         nm == task[n].to
     IN IF names[nm] = 0
          THEN /\ names' = [names EXCEPT ![nm] = i]
               /\ dent' = [dent EXCEPT ![n][nm] = i]
               /\ dinode' = [dinode EXCEPT ![i].links = 1, ![i].orphan = 0]
               /\ core' = [core EXCEPT ![n][i].links = 1]
               /\ orphanDir' = OrphanDel(n, <<i, FALSE>>)
          ELSE UNCHANGED <<names, dent, dinode, core, orphanDir>>
  /\ Done(n)
  /\ UNCHANGED <<ostory, oalive, dirLinks, scan, wipes, lockedBy, dirBy>>

----------------------------------------------------------------------------
(* ocfs2_evict_inode().                                                    *)

Evicting(n, i) == core[n][i].st \in {"evict", "wipe", "wiping", "clear"}

EvictStart(n, i) ==
  /\ n \in oalive /\ core[n][i].st = "in" /\ ~Referred(n, i)
  /\ core' = [core EXCEPT ![n][i].st = IF core[n][i].links = 0 \/ core[n][i].maybe THEN "evict" ELSE "clear"]
  /\ UNCHANGED <<ostory, oalive, names, dirLinks, dinode, orphanDir, dent, task, scan, wipes, lockedBy, dirBy>>

\* Mutant: the open lock is not asked for
OpenElsewhereNot(n, i) == FALSE

\* ocfs2_try_open_lock(EX) fails: another node has the inode in memory
OpenElsewhere(n, i) == \E m \in ONode \ {n} : core[m][i].olk # "NL"

\* ocfs2_delete_inode() as far as ocfs2_query_inode_wipe(): not while a direct
\* write is under way, with a link left, or when another node has it.
MayWipe(n, i) ==
  /\ dinode[i].dio = 0 /\ dinode[i].links = 0 /\ dinode[i].valid
  /\ dinode[i].orphan # 0 \/ core[n][i].skip
  /\ ~OpenElsewhere(n, i)
DeleteQuery(n, i) ==
  /\ core[n][i].st = "evict" /\ lockedBy[i] = Free
  /\ IF MayWipe(n, i)
       THEN /\ core' = [core EXCEPT ![n][i].st = "wipe", ![n][i].olk = "EX"]
            /\ lockedBy' = [lockedBy EXCEPT ![i] = <<n, "evict">>]
       ELSE /\ core' = [core EXCEPT ![n][i].st = "clear"]
            /\ UNCHANGED lockedBy
  /\ UNCHANGED <<ostory, oalive, names, dirLinks, dinode, orphanDir, dent, task, scan, wipes, dirBy>>

ScanIn(n, s) == scan[n].pc \in {"mark", "dir"} /\ scan[n].slot = s

\* Mutant: the wipe waits for the orphan directory while the scan reads it
DeadlockAheadNot(n, s) == FALSE

\* ocfs2_check_orphan_recovery_state(): -EDEADLK
DeadlockAhead(n, s) == ScanIn(n, s)

\* ocfs2_wipe_inode(): without an orphan directory at once
WipeStart(n, i) ==
  /\ core[n][i].st = "wipe"
  /\ LET s == dinode[i].orphan IN
       CASE core[n][i].skip ->
              /\ core' = [core EXCEPT ![n][i].st = "wiping"]
              /\ UNCHANGED <<wipes, lockedBy>>
         [] ~core[n][i].skip /\ DeadlockAhead(n, s) ->
              /\ core' = [core EXCEPT ![n][i].st = "clear"]
              /\ lockedBy' = [lockedBy EXCEPT ![i] = Free]
              /\ UNCHANGED wipes
         [] OTHER ->
              /\ core' = [core EXCEPT ![n][i].st = "wiping"]
              /\ wipes' = [wipes EXCEPT ![n][s] = @ + 1]
              /\ UNCHANGED lockedBy
  /\ UNCHANGED <<ostory, oalive, names, dirLinks, dinode, orphanDir, dent, task, scan, dirBy>>

\* With the orphan directory: truncate, then ocfs2_remove_inode()
Wipe(n, i) ==
  /\ core[n][i].st = "wiping"
  /\ LET s == dinode[i].orphan IN
       IF core[n][i].skip THEN UNCHANGED <<orphanDir, wipes>>
         ELSE /\ OrphanDirFree(s)
              /\ orphanDir' = OrphanDel(s, <<i, FALSE>>)
              /\ wipes' = [wipes EXCEPT ![n][s] = @ - 1]
  /\ dinode' = [dinode EXCEPT ![i].valid = FALSE, ![i].orphan = 0]
  /\ core' = [core EXCEPT ![n][i].st = "clear", ![n][i].deleted = TRUE]
  /\ lockedBy' = [lockedBy EXCEPT ![i] = Free]
  /\ UNCHANGED <<ostory, oalive, names, dirLinks, dent, task, scan, dirBy>>

\* ocfs2_clear_inode(): its locks are dropped
ClearInode(n, i) ==
  /\ core[n][i].st = "clear"
  /\ core' = [core EXCEPT ![n][i] = Absent]
  /\ UNCHANGED <<ostory, oalive, names, dirLinks, dinode, orphanDir, dent, task, scan, wipes, lockedBy, dirBy>>

----------------------------------------------------------------------------
(* ocfs2_recover_orphans(): the scan of a slot, or its recovery, which     *)
(* alone sees to direct writes that a dead node began.                     *)

ScanStart(n, s) ==
  /\ n \in oalive /\ scan[n].pc = "none" /\ May(n, "scan")
  /\ Did(n, "scan")
  /\ scan' = [scan EXCEPT ![n] = [NoScan EXCEPT !.pc = "mark", !.slot = s, !.trunc = s \notin oalive]]
  /\ UNCHANGED <<oalive, names, dirLinks, dinode, orphanDir, core, dent, task, wipes, lockedBy, dirBy>>

\* ocfs2_mark_recovering_orphan_dir() has waited; the directory's lock is PR.
ScanDir(n) ==
  /\ scan[n].pc = "mark" /\ wipes[n][scan[n].slot] = 0
  /\ scan' = [scan EXCEPT ![n].pc = "dir", ![n].todo = {e \in orphanDir[scan[n].slot] : scan[n].trunc \/ ~e[2]}]
  /\ UNCHANGED <<ostory, oalive, names, dirLinks, dinode, orphanDir, core, dent, task, wipes, lockedBy, dirBy>>

\* ocfs2_orphan_filldir(): ocfs2_iget() waits for an inode that is evicted, and
\* reads one that is not in memory with no more than its open lock.
ScanGet(n) ==
  /\ scan[n].pc = "dir"
  /\ \E e \in scan[n].todo :
       LET i == e[1]
           c == core[n][i]
           got == c.st = "in" \/ (dinode[i].valid /\ OpenLockable(i))
       IN /\ c.st \in {"none", "in"}
          /\ scan' = [scan EXCEPT ![n].todo = @ \ {e}, ![n].list = IF got THEN @ \union {e} ELSE @]
          /\ core' = IF c.st = "none" /\ got
                       THEN [core EXCEPT ![n][i] = FromDisk(i)]
                       ELSE core
  /\ UNCHANGED <<ostory, oalive, names, dirLinks, dinode, orphanDir, dent, task, wipes, lockedBy, dirBy>>

ScanListed(n) ==
  /\ scan[n].pc = "dir" /\ scan[n].todo = {}
  /\ scan' = [scan EXCEPT ![n].pc = "list"]
  /\ UNCHANGED <<ostory, oalive, names, dirLinks, dinode, orphanDir, core, dent, task, wipes, lockedBy, dirBy>>

\* Each inode of the list: a direct write is undone, else the inode may be an
\* orphan, and is let go. No direct write runs that has the inode's rw lock.
ScanPut(n) ==
  /\ scan[n].pc = "list"
  /\ \E e \in scan[n].list :
       LET i == e[1]
           isDio == <<i, TRUE>> \in scan[n].list
       IN /\ scan' = [scan EXCEPT ![n].list = @ \ {e}]
          /\ IF isDio
               THEN /\ lockedBy[i] = Free /\ RwFree(i)
                    /\ core' = Fresh(n, i)
                    /\ IF dinode[i].dio # 0
                         THEN /\ OrphanDirFree(dinode[i].dio)
                              /\ dinode' = [dinode EXCEPT ![i].dio = 0]
                              /\ orphanDir' = OrphanDel(dinode[i].dio, <<i, TRUE>>)
                         ELSE UNCHANGED <<dinode, orphanDir>>
               ELSE /\ core' = [core EXCEPT ![n][i].maybe = TRUE]
                    /\ UNCHANGED <<dinode, orphanDir>>
  /\ UNCHANGED <<ostory, oalive, names, dirLinks, dent, task, wipes, lockedBy, dirBy>>
ScanEnd(n) ==
  /\ scan[n].pc = "list" /\ scan[n].list = {}
  /\ scan' = [scan EXCEPT ![n] = NoScan]
  /\ UNCHANGED <<ostory, oalive, names, dirLinks, dinode, orphanDir, core, dent, task, wipes, lockedBy, dirBy>>

----------------------------------------------------------------------------
(* A direct write past the end of a file; deaths.                          *)

\* ocfs2_add_inode_to_orphan(), with the file's rw lock: what a dead node left is
\* undone before.
DioStart(n, i) ==
  /\ n \in oalive /\ May(n, "dio") /\ core[n][i].opens > 0 /\ RwFree(i)
  /\ lockedBy[i] = Free /\ OrphanDirFree(n) /\ (dinode[i].dio # 0 => OrphanDirFree(dinode[i].dio))
  /\ Did(n, "dio")
  /\ core' = [Fresh(n, i) EXCEPT ![n][i].dio = TRUE]
  /\ dinode' = [dinode EXCEPT ![i].dio = n]
  /\ orphanDir' = [s \in ONode |-> (orphanDir[s] \ {<<i, TRUE>>}) \union (IF s = n THEN {<<i, TRUE>>} ELSE {})]
  /\ UNCHANGED <<oalive, names, dirLinks, dent, task, scan, wipes, lockedBy, dirBy>>
\* ocfs2_dio_end_io_write(), ocfs2_del_inode_from_orphan()
DioEnd(n, i) ==
  /\ core[n][i].dio /\ lockedBy[i] = Free /\ OrphanDirFree(n)
  /\ core' = [Fresh(n, i) EXCEPT ![n][i].dio = FALSE]
  /\ dinode' = [dinode EXCEPT ![i].dio = 0]
  /\ orphanDir' = OrphanDel(dinode[i].dio, <<i, TRUE>>)
  /\ UNCHANGED <<ostory, oalive, names, dirLinks, dent, task, scan, wipes, lockedBy, dirBy>>

\* What it has not committed is not on disk, and its locks are free.
ODies(n) ==
  /\ n \in oalive /\ n \in ostory.dies
  /\ oalive' = oalive \ {n}
  /\ core' = [core EXCEPT ![n] = [i \in Ino |-> Absent]]
  /\ dent' = [dent EXCEPT ![n] = [nm \in Name |-> 0]]
  /\ task' = [task EXCEPT ![n] = NoTask]
  /\ scan' = [scan EXCEPT ![n] = NoScan]
  /\ wipes' = [wipes EXCEPT ![n] = [s \in ONode |-> 0]]
  /\ lockedBy' = [i \in Ino |-> IF lockedBy[i][1] = n THEN Free ELSE lockedBy[i]]
  /\ dirBy' = IF dirBy = n THEN 0 ELSE dirBy
  /\ UNCHANGED <<ostory, names, dirLinks, dinode, orphanDir>>

----------------------------------------------------------------------------
\* What goes on by itself once begun
OWork ==
  \E n \in oalive :
    \/ LookupGet(n) \/ NameLock(n) \/ LinkCommit(n) \/ UnlinkCommit(n) \/ RenameCommit(n) \/ ReflinkMove(n)
    \/ ScanDir(n) \/ ScanGet(n) \/ ScanListed(n) \/ ScanPut(n) \/ ScanEnd(n)
    \/ \E i \in Ino : \/ EvictStart(n, i) \/ DeleteQuery(n, i) \/ WipeStart(n, i) \/ Wipe(n, i) \/ ClearInode(n, i)
                      \/ DioEnd(n, i)
    \/ \E m \in oalive : DentryConvert(n, m)
OBegin ==
  \E n \in oalive :
    \/ \E nm \in Name :
         \/ LookupStart(n, nm) \/ FileOpen(n, nm) \/ DentryDrop(n, nm) \/ NameStart(n, "unlink", nm, 0)
         \/ \E to \in Name : NameStart(n, "link", nm, to) \/ NameStart(n, "rename", nm, to)
         \/ \E i \in Ino : ReflinkCreate(n, nm, i) \/ \E ok \in BOOLEAN : Create(n, nm, i, ok)
    \/ \E i \in Ino : FileClose(n, i) \/ DioStart(n, i)
    \/ \E s \in ONode : ScanStart(n, s)
ONext == OWork \/ OBegin \/ \E n \in oalive : ODies(n)
OSpec == OInit /\ [][ONext]_ovars

----------------------------------------------------------------------------
\* An inode has as many links as the directory has entries for it; the directory
\* counts its directories.
LinksCounted ==
  /\ \A i \in Ino : dinode[i].valid => dinode[i].links = Cardinality({nm \in Name : names[nm] = i}) * Links(i)
  /\ \A nm \in Name : names[nm] # 0 => dinode[names[nm]].valid
  /\ dirLinks = 2 + Cardinality({nm \in Name : names[nm] # 0 /\ IsDir(names[nm])})

\* An inode without links is in the orphan directory it says, and in no other,
\* or in the memory of the node that failed to create it; one with links is in
\* none. So with direct writes. And links are counted.
Orphaned ==
  LinksCounted /\ \A i \in Ino :
    /\ {s \in ONode : <<i, FALSE>> \in orphanDir[s]} = {dinode[i].orphan} \ {0}
    /\ {s \in ONode : <<i, TRUE>> \in orphanDir[s]} = {dinode[i].dio} \ {0}
    /\ dinode[i].orphan # 0 => dinode[i].links = 0 /\ dinode[i].valid
    /\ dinode[i].valid /\ dinode[i].links = 0 /\ oalive = ONode => dinode[i].orphan # 0 \/ \E n \in ONode : core[n][i].skip

\* No node has a file open, or uses an inode, that was wiped, or that is another
\* one by now.
NotWiped ==
  \A n \in ONode, i \in Ino :
    core[n][i].st # "none" /\ core[n][i].st # "clear" => dinode[i].valid /\ core[n][i].life = dinode[i].life

\* A node that does something comes to its end.
OStandstill ==
  (\E n \in oalive : task[n] # NoTask \/ scan[n] # NoScan \/ \E i \in Ino : Evicting(n, i) \/ core[n][i].dio)
     => ENABLED OWork
===============================================================================
