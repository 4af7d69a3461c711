---------------------------------- MODULE Space ----------------------------------
(***************************************************************************)
(* suballoc.c, localalloc.c, resize.c and the truncate log of alloc.c: who *)
(* has a cluster of the volume. The nodes share the global bitmap; a node  *)
(* has a window of it for itself (the local alloc), and a log of clusters  *)
(* that files gave back and that are still to be cleared in the bitmap.    *)
(*                                                                         *)
(* A transaction is one step. What is not committed when a node dies has   *)
(* not happened. Extents and windows are runs of clusters; the files of a  *)
(* node are the set of their clusters.                                     *)
(***************************************************************************)
EXTENDS Integers, Sequences, FiniteSets

CONSTANTS
  SNode,        \* nodes; node n has slot n
  Clusters,     \* of the volume at boot
  TlCount,      \* tl_count: records of a truncate log
  LaDefault,    \* local_alloc_default_bits
  LaLeast,      \* clusters of a megabyte: no smaller window
  SpStories     \* writes[n]: how many clusters each of n's writes wants;
                \* truncs[n]: how often n truncates; umounts, dies: who does;
                \* grows: how often the volume grows by one cluster

\* Nodes are numbered from 1: 0 is none.
ASSUME SNodeAssumption == 0 \notin SNode
ASSUME ClustersAssumption == Clusters \in Nat
ASSUME StoriesAssumption ==
  SpStories \subseteq [writes : [SNode -> Seq(Nat)], truncs : [SNode -> Nat], umounts : SUBSET SNode,
                       dies : SUBSET SNode, grows : Nat]

VARIABLES
  sstory, salive,
  size,         \* i_clusters of the bitmap's inode
  bm,           \* bits that are set in the global bitmap
  undo,         \* bits that are set in its b_committed_data
  bmBy,         \* EX of its lock, and its i_rwsem: <<node, task>>
  bmDirty,      \* the node whose running transaction has the bitmap, or 0
  files,        \* files[n]: clusters of n's files
  la,           \* la[n]: win, its window; used, the bits set in it
  laBits, laState,   \* osb->local_alloc_bits, osb->local_alloc_state
  tl,           \* tl[n]: records <<first, last>>
  truncated,    \* osb->truncated_clusters
  laBy, tlBy,   \* i_rwsem of these system files: the task, or ""
  disk,         \* what is committed: size, bm, files, la, tl
  task,         \* task[n]["wr"], ["tr"], ["wk"], ["rec"]
  toRecover, copies,   \* copies[n]: what n read from a dead node's slot: unused, log
  helped, lost  \* nodes that recovered another; clusters nobody knows of

spvars == <<sstory, salive, size, bm, undo, bmBy, bmDirty, files, la, laBits, laState, tl, truncated,
            laBy, tlBy, disk, task, toRecover, copies, helped, lost>>

Who == {"wr", "tr", "wk", "rec"}
NoWin == [win |-> {}, used |-> {}]
NoOne == <<0, "">>
Idle == [pc |-> "idle", want |-> 0, retried |-> FALSE]
NoCopy == [slot |-> 0, unused |-> {}, log |-> <<>>]

SpInit ==
  /\ sstory \in SpStories
  /\ salive = SNode
  /\ size = Clusters /\ bm = {} /\ undo = {} /\ bmBy = NoOne /\ bmDirty = 0
  /\ files = [n \in SNode |-> {}]
  /\ la = [n \in SNode |-> NoWin]
  /\ laBits = [n \in SNode |-> LaDefault] /\ laState = [n \in SNode |-> "enabled"]
  /\ tl = [n \in SNode |-> <<>>] /\ truncated = [n \in SNode |-> 0]
  /\ laBy = [n \in SNode |-> ""] /\ tlBy = [n \in SNode |-> ""]
  /\ disk = [size |-> Clusters, bm |-> {}, files |-> [n \in SNode |-> {}], la |-> [n \in SNode |-> NoWin],
             tl |-> [n \in SNode |-> <<>>]]
  /\ task = [n \in SNode |-> [w \in Who |-> Idle]]
  /\ toRecover = {} /\ copies = [n \in SNode |-> NoCopy] /\ helped = {} /\ lost = {}

Run(a, b) == a .. b
Runs(S) == {r \in {Run(a, b) : a \in S, b \in S} : r # {} /\ r \subseteq S}

\* ocfs2_block_group_find_clear_bits(): as many as wanted, or the longest run there is
BestRuns(S, wanted) ==
  LET fit == {r \in Runs(S) : Cardinality(r) <= wanted}
  IN {r \in fit : \A q \in fit : Cardinality(q) <= Cardinality(r)}
RunsOf(S, k) == {r \in Runs(S) : Cardinality(r) = k}

FreeBits == size - Cardinality(bm)
\* ocfs2_test_bg_bit_allocatable()
Allocatable(b, u) == (1 .. size) \ (b \union u)

LogRun(rec) == Run(rec[1], rec[2])
LogSet(log) == UNION {LogRun(log[k]) : k \in 1 .. Len(log)}
Unused(w) == w.win \ w.used

At(n, w, pc) == n \in salive /\ task[n][w].pc = pc
Go(n, w, pc) == task' = [task EXCEPT ![n][w].pc = pc]
End(n, w) == task' = [task EXCEPT ![n][w] = Idle]

\* Mutant: the lock of the bitmap goes to another node before the changes are on disk
BmFreeUncommitted(n) == bmBy = NoOne /\ toRecover = {}

\* ocfs2_inode_lock(EX) of the bitmap's inode: not before the node that changed it
\* has committed, nor while a dead node is to be recovered.
BmFree(n) == bmBy = NoOne /\ bmDirty \in {0, n} /\ toRecover = {}

----------------------------------------------------------------------------
(* The journal.                                                            *)

\* What n does is on disk: its running transaction is committed.
Committed(n) ==
  /\ disk' = [disk EXCEPT !.files[n] = files[n], !.la[n] = la[n], !.tl[n] = tl[n],
                          !.bm = IF bmDirty = n THEN bm ELSE @, !.size = IF bmDirty = n THEN size ELSE @]
  /\ IF bmDirty = n THEN undo' = bm /\ bmDirty' = 0 ELSE UNCHANGED <<undo, bmDirty>>
Pending(n) == bmDirty = n \/ disk.files[n] # files[n] \/ disk.la[n] # la[n] \/ disk.tl[n] # tl[n]
Commit(n) ==
  /\ n \in salive /\ Pending(n)
  /\ Committed(n)
  /\ UNCHANGED <<sstory, salive, size, bm, bmBy, files, la, laBits, laState, tl, truncated, laBy, tlBy, task,
                 toRecover, copies, helped, lost>>

----------------------------------------------------------------------------
(* A write: ocfs2_reserve_clusters(), then __ocfs2_claim_clusters().       *)

Enabled(n) == laState[n] \in {"enabled", "throttled"}

\* ocfs2_alloc_should_use_local()
WriteStart(n) ==
  /\ At(n, "wr", "idle") /\ sstory.writes[n] # <<>>
  /\ LET want == Head(sstory.writes[n]) IN
       task' = [task EXCEPT ![n]["wr"] = [pc |-> IF Enabled(n) /\ 2 * want <= laBits[n] THEN "local" ELSE "main",
                                          want |-> want, retried |-> FALSE]]
  /\ sstory' = [sstory EXCEPT !.writes[n] = Tail(@)]
  /\ UNCHANGED <<salive, size, bm, undo, bmBy, bmDirty, files, la, laBits, laState, tl, truncated, laBy, tlBy, disk,
                 toRecover, copies, helped, lost>>

\* ocfs2_reserve_local_alloc_bits()
ReserveLocal(n) ==
  LET want == task[n]["wr"].want IN
  /\ At(n, "wr", "local") /\ laBy[n] = ""
  /\ IF ~Enabled(n) \/ want > laBits[n] THEN Go(n, "wr", "main") /\ UNCHANGED <<laBy, laBits>>
       ELSE /\ laBy' = [laBy EXCEPT ![n] = "wr"]
            /\ IF want <= Cardinality(Unused(la[n])) THEN Go(n, "wr", "claim local") /\ UNCHANGED laBits
                 ELSE /\ Go(n, "wr", "slide")
                      /\ laBits' = [laBits EXCEPT ![n] = IF laState[n] = "throttled" THEN @ ELSE LaDefault]
  /\ UNCHANGED <<sstory, salive, size, bm, undo, bmBy, bmDirty, files, la, laState, tl, truncated, tlBy, disk,
                 toRecover, copies, helped, lost>>

\* ocfs2_recalc_la_window(): a smaller window, or none for some time
Shrinkable(bits) == bits \div 2 > LaLeast

\* ocfs2_local_alloc_reserve_for_window()
SlideReserve(n) ==
  /\ At(n, "wr", "slide") /\ BmFree(n)
  /\ CASE laBits[n] <= FreeBits ->
            /\ bmBy' = <<n, "wr">>
            /\ Go(n, "wr", "window")
            /\ UNCHANGED <<laBits, laState, laBy>>
       [] laBits[n] > FreeBits /\ Shrinkable(laBits[n]) ->
            /\ laBits' = [laBits EXCEPT ![n] = @ \div 2]
            /\ laState' = [laState EXCEPT ![n] = "throttled"]
            /\ UNCHANGED <<task, bmBy, laBy>>
       [] OTHER ->
            /\ laState' = [laState EXCEPT ![n] = "disabled"]
            /\ laBy' = [laBy EXCEPT ![n] = ""]
            /\ Go(n, "wr", "main")
            /\ UNCHANGED <<laBits, bmBy>>
  /\ UNCHANGED <<sstory, salive, size, bm, undo, bmDirty, files, la, tl, truncated, tlBy, disk,
                 toRecover, copies, helped, lost>>

\* The windows that ocfs2_local_alloc_new_window() asks for in turn
Fitting(S, wanted) ==
  LET fit[bits \in Nat] ==
        CASE RunsOf(S, bits) # {} -> bits
          [] RunsOf(S, bits) = {} /\ Shrinkable(bits) -> fit[bits \div 2]
          [] OTHER -> 0
  IN fit[wanted]

\* ocfs2_sync_local_to_main(): the bits of the window it gives back
GivenBack(w) == Unused(w)

\* ocfs2_local_alloc_slide_window(): the rest of the old window goes back, a new one is taken.
SlideWindow(n) ==
  LET b == bm \ GivenBack(la[n])
      u == undo \ GivenBack(la[n])
      bits == Fitting(Allocatable(b, u), laBits[n])
      want == task[n]["wr"].want
  IN
  /\ At(n, "wr", "window")
  /\ IF bits = 0
       THEN /\ bm' = b
            /\ la' = [la EXCEPT ![n] = NoWin]
            /\ laState' = [laState EXCEPT ![n] = "disabled"]
            /\ UNCHANGED laBits
       ELSE /\ \E r \in RunsOf(Allocatable(b, u), bits) :
                 /\ bm' = b \union r
                 /\ la' = [la EXCEPT ![n] = [win |-> r, used |-> {}]]
            /\ laBits' = [laBits EXCEPT ![n] = bits]
            /\ laState' = IF bits < laBits[n] THEN [laState EXCEPT ![n] = "throttled"] ELSE laState
  /\ undo' = u
  /\ bmDirty' = n
  /\ bmBy' = NoOne
  /\ IF bits # 0 /\ want <= bits
       THEN Go(n, "wr", "claim local") /\ UNCHANGED laBy
       ELSE Go(n, "wr", "main") /\ laBy' = [laBy EXCEPT ![n] = ""]
  /\ UNCHANGED <<sstory, salive, size, files, tl, truncated, tlBy, disk, toRecover, copies, helped, lost>>

\* ocfs2_reserve_cluster_bitmap_bits(); once more when the truncate log has been flushed
ReserveMain(n) ==
  LET t == task[n]["wr"] IN
  /\ At(n, "wr", "main") /\ BmFree(n)
  /\ CASE t.want <= FreeBits -> bmBy' = <<n, "wr">> /\ Go(n, "wr", "claim main")
       [] t.want > FreeBits /\ ~t.retried ->
            /\ task' = [task EXCEPT ![n]["wr"].pc = "try free", ![n]["wr"].retried = TRUE]
            /\ UNCHANGED bmBy
       [] OTHER -> End(n, "wr") /\ UNCHANGED bmBy
  /\ UNCHANGED <<sstory, salive, size, bm, undo, bmDirty, files, la, laBits, laState, tl, truncated, laBy, tlBy, disk,
                 toRecover, copies, helped, lost>>

\* ocfs2_try_to_free_truncate_log()
TryFree(n) ==
  /\ At(n, "wr", "try free") /\ tlBy[n] = ""
  /\ IF truncated[n] < task[n]["wr"].want THEN End(n, "wr") ELSE Go(n, "wr", "lock log")
  /\ UNCHANGED <<sstory, salive, size, bm, undo, bmBy, bmDirty, files, la, laBits, laState, tl, truncated, laBy, tlBy, disk,
                 toRecover, copies, helped, lost>>
\* ... the flush is done: without a transaction to wait for, nothing has been freed
FreedSome(n) ==
  /\ At(n, "wr", "flushed")
  /\ IF Pending(n) THEN Committed(n) /\ Go(n, "wr", "main")
       ELSE End(n, "wr") /\ UNCHANGED <<disk, undo, bmDirty>>
  /\ UNCHANGED <<sstory, salive, size, bm, bmBy, files, la, laBits, laState, tl, truncated, laBy, tlBy,
                 toRecover, copies, helped, lost>>

\* ocfs2_local_alloc_seen_free_bits()
Seen(n, bits) == IF laState[n] # "enabled" /\ bits >= LaDefault THEN [laState EXCEPT ![n] = "enabled"] ELSE laState

\* ocfs2_claim_local_alloc_bits() and the insertion into the file's extents, or,
\* when that fails, ocfs2_free_local_alloc_bits()
ClaimLocal(n, ok) ==
  /\ At(n, "wr", "claim local")
  /\ \E r \in BestRuns(Unused(la[n]), task[n]["wr"].want) :
       IF ok THEN /\ la' = [la EXCEPT ![n].used = @ \union r]
                  /\ files' = [files EXCEPT ![n] = @ \union r]
             ELSE UNCHANGED <<la, files>>
  /\ laBy' = [laBy EXCEPT ![n] = ""]
  /\ End(n, "wr")
  /\ UNCHANGED <<sstory, salive, size, bm, undo, bmBy, bmDirty, laBits, laState, tl, truncated, tlBy, disk,
                 toRecover, copies, helped, lost>>

\* ocfs2_claim_suballoc_bits() of the bitmap; ocfs2_free_clusters() when the insertion fails
ClaimMain(n, ok) ==
  LET found == BestRuns(Allocatable(bm, undo), task[n]["wr"].want) IN
  /\ At(n, "wr", "claim main")
  /\ \/ /\ found = {} /\ ok
        /\ UNCHANGED <<bm, undo, bmDirty, files, laState>>
     \/ \E r \in found :
          /\ bmDirty' = n
          /\ IF ok THEN /\ bm' = bm \union r
                        /\ files' = [files EXCEPT ![n] = @ \union r]
                        /\ UNCHANGED <<undo, laState>>
                   ELSE /\ undo' = undo \union r
                        /\ laState' = Seen(n, Cardinality(r))
                        /\ UNCHANGED <<bm, files>>
  /\ bmBy' = NoOne
  /\ End(n, "wr")
  /\ UNCHANGED <<sstory, salive, size, la, laBits, tl, truncated, laBy, tlBy, disk, toRecover, copies, helped, lost>>

\* ocfs2_la_enable_worker()
LaEnable(n) ==
  /\ n \in salive /\ laState[n] # "enabled" /\ task[n]["wr"].pc # "unmounted"
  /\ laState' = [laState EXCEPT ![n] = "enabled"]
  /\ UNCHANGED <<sstory, salive, size, bm, undo, bmBy, bmDirty, files, la, laBits, tl, truncated, laBy, tlBy, disk, task,
                 toRecover, copies, helped, lost>>

----------------------------------------------------------------------------
(* The truncate log. Its flush is done by a write that lacks space, by a   *)
(* truncate or a recovery that finds the log full, and by the worker.      *)

TlFull(n) == Len(tl[n]) = TlCount
AfterFlush == [wr |-> "flushed", tr |-> "remove", wk |-> "idle", rec |-> "append"]

\* Mutant: a write keeps the log's mutex too
KeepsLogAlways(w) == TRUE

\* A truncate and a recovery go on with the log.
KeepsLog(w) == w \in {"tr", "rec"}

\* __ocfs2_flush_truncate_log() is through: the flag says of what it was left.
Flushed(n, w) ==
  /\ tlBy' = [tlBy EXCEPT ![n] = IF KeepsLog(w) THEN @ ELSE ""]
  /\ Go(n, w, AfterFlush[w])

LockLog(n, w) ==
  /\ \/ w \in {"wr", "rec"} /\ At(n, w, "lock log") /\ UNCHANGED sstory
     \/ w = "wk" /\ At(n, w, "idle") /\ tl[n] # <<>> /\ UNCHANGED sstory
     \/ w = "tr" /\ At(n, w, "idle") /\ sstory.truncs[n] > 0 /\ files[n] # {}
        /\ sstory' = [sstory EXCEPT !.truncs[n] = @ - 1]
  /\ tlBy[n] = ""
  /\ tlBy' = [tlBy EXCEPT ![n] = w]
  /\ Go(n, w, IF KeepsLog(w) /\ ~TlFull(n) THEN AfterFlush[w] ELSE "flush")
  /\ UNCHANGED <<salive, size, bm, undo, bmBy, bmDirty, files, la, laBits, laState, tl, truncated, laBy, disk,
                 toRecover, copies, helped, lost>>

\* The journal first
FlushJournal(n, w) ==
  /\ At(n, w, "flush")
  /\ IF tl[n] = <<>> THEN Flushed(n, w) /\ UNCHANGED <<disk, undo, bmDirty>>
       ELSE Committed(n) /\ Go(n, w, "lock bitmap") /\ UNCHANGED tlBy
  /\ UNCHANGED <<sstory, salive, size, bm, bmBy, files, la, laBits, laState, tl, truncated, laBy,
                 toRecover, copies, helped, lost>>
FlushLock(n, w) ==
  /\ At(n, w, "lock bitmap") /\ BmFree(n)
  /\ bmBy' = <<n, w>>
  /\ Go(n, w, "records")
  /\ UNCHANGED <<sstory, salive, size, bm, undo, bmDirty, files, la, laBits, laState, tl, truncated, laBy, tlBy, disk,
                 toRecover, copies, helped, lost>>

\* The log without the record that is freed in the same transaction
LogLess(log) == SubSeq(log, 1, Len(log) - 1)

\* ocfs2_replay_truncate_records()
FlushRecord(n, w) ==
  /\ At(n, w, "records") /\ tl[n] # <<>>
  /\ LET r == LogRun(tl[n][Len(tl[n])]) IN
       /\ bm' = bm \ r
       /\ undo' = undo \union r
       /\ laState' = Seen(n, Cardinality(r))
  /\ tl' = [tl EXCEPT ![n] = LogLess(@)]
  /\ bmDirty' = n
  /\ UNCHANGED <<sstory, salive, size, bmBy, files, la, laBits, truncated, laBy, tlBy, disk, task,
                 toRecover, copies, helped, lost>>
FlushEnd(n, w) ==
  /\ At(n, w, "records") /\ tl[n] = <<>>
  /\ truncated' = [truncated EXCEPT ![n] = 0]
  /\ bmBy' = NoOne
  /\ Flushed(n, w)
  /\ UNCHANGED <<sstory, salive, size, bm, undo, bmDirty, files, la, laBits, laState, tl, laBy, disk,
                 toRecover, copies, helped, lost>>

\* ocfs2_truncate_log_append(): the last record grows when the clusters follow it.
\* The count of clusters then has those of the record twice.
Joins(log, rec) == log # <<>> /\ log[Len(log)][2] + 1 = rec[1]
Appended(log, rec) ==
  IF Joins(log, rec) THEN [log EXCEPT ![Len(log)] = <<@[1], rec[2]>>] ELSE Append(log, rec)
Counted(n, rec) ==
  LET log == Appended(tl[n], rec)
      last == log[Len(log)]
  IN [truncated EXCEPT ![n] = @ + last[2] - last[1] + 1]

\* ocfs2_remove_btree_range()
RemoveExtent(n) ==
  /\ At(n, "tr", "remove")
  /\ IF files[n] = {} THEN UNCHANGED <<files, tl, truncated>>
       ELSE \E a, b \in files[n] :
              /\ a <= b /\ Run(a, b) \subseteq files[n] /\ b + 1 \notin files[n]
              /\ files' = [files EXCEPT ![n] = @ \ Run(a, b)]
              /\ tl' = [tl EXCEPT ![n] = Appended(@, <<a, b>>)]
              /\ truncated' = Counted(n, <<a, b>>)
  /\ tlBy' = [tlBy EXCEPT ![n] = ""]
  /\ End(n, "tr")
  /\ UNCHANGED <<sstory, salive, size, bm, undo, bmBy, bmDirty, la, laBits, laState, laBy, disk,
                 toRecover, copies, helped, lost>>

----------------------------------------------------------------------------
(* ocfs2_group_extend(), ocfs2_group_add(); unmount.                       *)

Grow(n) ==
  /\ n \in salive /\ BmFree(n) /\ sstory.grows > 0
  /\ sstory' = [sstory EXCEPT !.grows = @ - 1]
  /\ size' = size + 1
  /\ bmDirty' = n
  /\ UNCHANGED <<salive, bm, undo, bmBy, files, la, laBits, laState, tl, truncated, laBy, tlBy, disk, task,
                 toRecover, copies, helped, lost>>

\* ocfs2_truncate_log_shutdown() has flushed the log; ocfs2_shutdown_local_alloc()
\* gives the window back.
Umount(n) ==
  /\ n \in salive /\ n \in sstory.umounts /\ BmFree(n) /\ tl[n] = <<>> /\ copies[n] = NoCopy
  /\ \A w \in Who : task[n][w].pc = "idle"
  /\ sstory.writes[n] = <<>> /\ sstory.truncs[n] = 0
  /\ salive' = salive \ {n}
  /\ la' = [la EXCEPT ![n] = NoWin]
  /\ bm' = bm \ GivenBack(la[n])
  /\ undo' = bm'
  /\ bmDirty' = 0
  /\ laState' = [laState EXCEPT ![n] = "unused"]
  /\ disk' = [disk EXCEPT !.files[n] = files[n], !.la[n] = NoWin, !.tl[n] = <<>>, !.bm = bm', !.size = size]
  /\ UNCHANGED <<sstory, size, bmBy, files, laBits, tl, truncated, laBy, tlBy, task, toRecover, copies, helped, lost>>

----------------------------------------------------------------------------
(* Death and recovery.                                                     *)

\* Clusters of node m's that it, its files, or a copy of its slot still know of
Known(m, f, w, t, c) == f[m] \union Unused(w[m]) \union LogSet(t[m]) \union c[m].unused \union LogSet(c[m].log)

SDies(n) ==
  LET d == bmDirty = n
      f == [files EXCEPT ![n] = disk.files[n]]
      w == [la EXCEPT ![n] = disk.la[n]]
      t == [tl EXCEPT ![n] = disk.tl[n]]
      c == [copies EXCEPT ![n] = NoCopy]
      b == IF d THEN disk.bm ELSE bm
  IN
  /\ n \in salive /\ n \in sstory.dies
  /\ salive' = salive \ {n}
  /\ files' = f /\ la' = w /\ tl' = t /\ copies' = c /\ bm' = b
  /\ size' = IF d THEN disk.size ELSE size
  /\ undo' = IF d THEN disk.bm ELSE undo
  /\ bmDirty' = IF d THEN 0 ELSE bmDirty
  /\ bmBy' = IF bmBy[1] = n THEN NoOne ELSE bmBy
  /\ laBy' = [laBy EXCEPT ![n] = ""] /\ tlBy' = [tlBy EXCEPT ![n] = ""]
  /\ task' = [task EXCEPT ![n] = [v \in Who |-> Idle]]
  /\ truncated' = [truncated EXCEPT ![n] = 0]
  /\ laState' = [laState EXCEPT ![n] = "unused"]
  /\ toRecover' = toRecover \union {n}
  /\ lost' = b \ UNION {Known(m, f, w, t, c) : m \in SNode}
  /\ UNCHANGED <<sstory, laBits, disk, helped>>

\* ocfs2_recover_node(): the journal is replayed and clean ...
ReplayJournal(m, n) ==
  /\ At(m, "rec", "idle") /\ n \in toRecover /\ copies[m] = NoCopy
  /\ toRecover' = toRecover \ {n}
  /\ helped' = helped \union {m}
  /\ copies' = [copies EXCEPT ![m].slot = n]
  /\ Go(m, "rec", "begin")
  /\ UNCHANGED <<sstory, salive, size, bm, undo, bmBy, bmDirty, files, la, laBits, laState, tl, truncated, laBy, tlBy,
                 disk, lost>>

\* The slot's local alloc on disk after ocfs2_begin_local_alloc_recovery()
StampedLa(n) == [la EXCEPT ![n] = NoWin]

\* ... then what its slot has is read, and written clean.
BeginLa(m) ==
  LET s == copies[m].slot IN
  /\ At(m, "rec", "begin")
  /\ copies' = [copies EXCEPT ![m].unused = GivenBack(la[s])]
  /\ la' = StampedLa(s)
  /\ disk' = [disk EXCEPT !.la[s] = la'[s]]
  /\ Go(m, "rec", "begin log")
  /\ UNCHANGED <<sstory, salive, size, bm, undo, bmBy, bmDirty, files, laBits, laState, tl, truncated, laBy, tlBy,
                 toRecover, helped, lost>>
BeginTl(m) ==
  LET s == copies[m].slot IN
  /\ At(m, "rec", "begin log")
  /\ copies' = [copies EXCEPT ![m].log = tl[s]]
  /\ tl' = [tl EXCEPT ![s] = <<>>]
  /\ disk' = [disk EXCEPT !.tl[s] = <<>>]
  /\ Go(m, "rec", "complete")
  /\ UNCHANGED <<sstory, salive, size, bm, undo, bmBy, bmDirty, files, la, laBits, laState, truncated, laBy, tlBy,
                 toRecover, helped, lost>>

\* ocfs2_complete_local_alloc_recovery(), in a transaction that is committed at once
CompleteLa(m) ==
  /\ At(m, "rec", "complete") /\ BmFree(m)
  /\ bm' = bm \ copies[m].unused
  /\ undo' = bm' /\ bmDirty' = 0
  /\ disk' = [disk EXCEPT !.files[m] = files[m], !.la[m] = la[m], !.tl[m] = tl[m], !.bm = bm', !.size = size]
  /\ copies' = [copies EXCEPT ![m].unused = {}]
  /\ Go(m, "rec", IF copies[m].log = <<>> THEN "done" ELSE "lock log")
  /\ UNCHANGED <<sstory, salive, size, bmBy, files, la, laBits, laState, tl, truncated, laBy, tlBy,
                 toRecover, helped, lost>>

\* ocfs2_complete_truncate_log_recovery(): record by record into m's log
AppendRecord(m) ==
  LET log == copies[m].log IN
  /\ At(m, "rec", "append") /\ log # <<>>
  /\ IF TlFull(m) THEN Go(m, "rec", "flush") /\ UNCHANGED <<tl, truncated, copies, tlBy>>
       ELSE /\ tl' = [tl EXCEPT ![m] = Appended(@, Head(log))]
            /\ truncated' = Counted(m, Head(log))
            /\ copies' = [copies EXCEPT ![m].log = Tail(log)]
            /\ IF Tail(log) = <<>> THEN Go(m, "rec", "done") /\ tlBy' = [tlBy EXCEPT ![m] = ""]
                 ELSE UNCHANGED <<task, tlBy>>
  /\ UNCHANGED <<sstory, salive, size, bm, undo, bmBy, bmDirty, files, la, laBits, laState, laBy, disk,
                 toRecover, helped, lost>>
RecoveryDone(m) ==
  /\ At(m, "rec", "done")
  /\ copies' = [copies EXCEPT ![m] = NoCopy]
  /\ End(m, "rec")
  /\ UNCHANGED <<sstory, salive, size, bm, undo, bmBy, bmDirty, files, la, laBits, laState, tl, truncated, laBy, tlBy,
                 disk, toRecover, helped, lost>>

----------------------------------------------------------------------------
\* What goes on by itself once begun
SpWork ==
  \E n \in salive :
    \/ Commit(n) \/ ReserveLocal(n) \/ SlideReserve(n) \/ SlideWindow(n) \/ ReserveMain(n) \/ TryFree(n) \/ FreedSome(n)
    \/ \E ok \in BOOLEAN : ClaimLocal(n, ok) \/ ClaimMain(n, ok)
    \/ \E w \in Who : LockLog(n, w) \/ FlushJournal(n, w) \/ FlushLock(n, w) \/ FlushRecord(n, w) \/ FlushEnd(n, w)
    \/ RemoveExtent(n)
    \/ \E d \in SNode : ReplayJournal(n, d)
    \/ BeginLa(n) \/ BeginTl(n) \/ CompleteLa(n) \/ AppendRecord(n) \/ RecoveryDone(n)
SpNext == SpWork \/ \E n \in SNode : WriteStart(n) \/ LaEnable(n) \/ Grow(n) \/ Umount(n) \/ SDies(n)
SpSpec == SpInit /\ [][SpNext]_spvars

----------------------------------------------------------------------------
\* A cluster whose bit is set is in one file, in one window, waiting in one log, in
\* what one node has read of a dead one's slot, or is lost; one that is in any of
\* them has its bit set. It is lost only when a node dies that recovers another.
Holders(n) == <<files[n], Unused(la[n]), LogSet(tl[n]), copies[n].unused, LogSet(copies[n].log)>>
Accounted ==
  /\ \A n, m \in SNode : \A j, k \in 1 .. 5 : n # m \/ j # k => Holders(n)[j] \intersect Holders(m)[k] = {}
  /\ bm = lost \union UNION {Known(m, files, la, tl, copies) : m \in SNode}
  /\ \A n \in SNode : lost \intersect Known(n, files, la, tl, copies) = {}
  /\ lost # {} => \E n \in helped : n \notin salive

\* A write, a truncate, a flush and a recovery that have begun come to an end.
SpNoStandstill ==
  (\E n \in salive : \E w \in Who : task[n][w].pc # "idle") => ENABLED SpWork
===============================================================================
