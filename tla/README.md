# OCFS2 in TLA+

OCFS2 is a file system that several computers mount at once from one shared
disk. This directory models the parts of it that keep those computers from
damaging each other's data: the cluster locks, the distributed lock manager
under them, the cluster services under that, and, above them, mounts and
recovery, the life of inodes, space, and directories. The modules are
written from the C source in `src/coverage/ocfs2_src` (`S/` below).

    LockModes        modes, compatibility                       dlm_lock_compatible
    DlmQueues        the master's lists of one lock resource    S/dlm/
    DlmClients       legal use of a resource by all nodes       (closes DlmQueues)
    DlmGlue          struct ocfs2_lock_res on every node        S/dlmglue.c, over DlmQueues
    DlmMaster        who masters a resource, who uses it        S/dlm/dlmmaster.c, purge of dlmthread.c
    DlmDomain        joining and leaving a domain               S/dlm/dlmdomain.c
    DlmRecovery      what a domain does about a dead node       S/dlm/dlmrecovery.c
    O2Quo            struct o2quo_state                         S/cluster/quorum.c
    O2Net            a node's connections, timers, senders      S/cluster/tcp.c, over O2Quo
    Heartbeat        a heartbeat region on every node           S/cluster/heartbeat.c
    FsRecovery       slots, mounts, recovery of a dead node     S/journal.c, slot_map.c, super.c, heartbeat.c
    Orphans          names, inodes, orphans, deletion           S/namei.c, inode.c, dcache.c, journal.c
    Space            clusters: bitmap, windows, truncate logs   S/suballoc.c, localalloc.c, resize.c, alloc.c
    Suballoc         blocks and inodes: chain allocators        S/suballoc.c, alloc.c
    Dir              one directory, in all its forms            S/dir.c
    ClusterLock      what callers of DlmGlue rely on            (abstract)
    MC_*             instances for TLC
    *_proofs         theorems and their proofs

Run one check with `tlc -config glue.cfg MC_DlmGlue.tla`, one proof with
`tlapm DlmClients_proofs.tla`. `PROJECT.json` lists components, runs, mutants,
the source lines of every definition, hazards, findings and theorems.

## 1. The system

A node reaches the shared disk through five layers. Each one keeps state on
every node and talks to its peers on the others.

| component | state | operations | what makes it correct |
|---|---|---|---|
| **dlmglue** `S/dlmglue.c` `S/stack_o2cb.c` | per lock: level, requested and blocking level, flags, holders, mask waiters, generation of the pending request; the list of blocked locks | cluster lock and unlock, AST, BAST, unlock AST, downconvert thread, refresh, eviction | exclusion between nodes; agreement with the master; contents current when held; nobody asleep for ever; no use after free |
| **o2dlm queues** `S/dlm/dlmlock.c` `dlmconvert.c` `dlmunlock.c` `dlmast.c` `dlmthread.c` | per resource, on its master: granted, converting and blocked lists; per lock its type, convert type, highest blocked level, pending AST and BAST; DIRTY | lock, convert, cancel, unlock, shuffle, flush of ASTs, delivery | compatible grants; every request answered once; no lost kick of dlm_thread |
| **o2dlm mastery** `S/dlm/dlmmaster.c` | owner and state of a resource, master-list entries with vote maps, reference map | master request, assert master, deref, purge, migration | one master per resource; no reference lost |
| **o2dlm recovery** `S/dlm/dlmrecovery.c` | recovery map, recovery master and dead node, per-node state of the collection | election, begin and finalize, lock collection, cleanup of dead locks | one recovery master; no lock lost or duplicated; restart after a second death |
| **o2dlm domains** `S/dlm/dlmdomain.c` | domain map, live map, joining node, domain state | query join, assert, cancel, exit | the members agree on who is a member |
| **o2hb** `S/cluster/heartbeat.c` | per slot last block, equal and changed samples, live maps; negotiation of a write time-out | read slots, write own, callbacks up and down, timers | live iff it writes; no node outlives the others' view of it |
| **o2net** `S/cluster/tcp.c` | per node: connection, valid, time-out flag; per connection: handshake, timers | connect, accept, handshake, idle, reconnect, shutdown | quorum told once per change; one connection per pair |
| **quorum** `S/cluster/quorum.c` | heartbeating and connected maps, holds, pending | hb up, down, still up, conn up, err; decision | two groups never both survive |
| **userdlm** `S/dlmfs/` | a second, simpler lock resource | cluster lock and unlock, AST, BAST, work queue, destroy | as dlmglue |
| **slots and recovery** `S/slot_map.c` `S/journal.c` `S/heartbeat.c` | slot map, recovery map, recovery thread, replay map, offline slots | find and put slot, node down, recover, replay, restart | every dead node's journal is replayed before its slot is used again |
| **inodes** `S/namei.c` `S/inode.c` `S/dcache.c` | names, link counts, dentry locks, open locks, orphan directories | create, link, rename, unlink, evict, orphan scan, direct I/O | an inode goes when, and only when, its last user is gone |
| **space** `S/suballoc.c` `S/localalloc.c` `S/resize.c` `S/reservations.c` | bitmaps, chains, free counts, local window, truncate log, reservation tree | claim, free, relink, slide the window, flush, reserve | a cluster is allocated once; counts match bitmaps |
| **directories** `S/dir.c` | records in inode or blocks, list of blocks with holes, hash index | lookup, insert, delete, readdir, convert, split, rebalance | a name is found in one place, and read once |
| **extent trees** `S/alloc.c` `S/refcounttree.c` `S/extent_map.c` | extent lists, path, free records; reference counts; cached extents | insert, split, mark, remove, truncate, reference, copy | records sorted and disjoint; the map never lies |
| **the rest** `xattr.c` `file.c` `aops.c` `quota_*.c` `uptodate.c` `blockcheck.c` `filecheck.c` | blocks and in-memory objects | VFS operations | consistency of what is on disk |

How they interact: a caller of `ocfs2_inode_lock()` goes through dlmglue to
`dlmlock()`, whose master may be another node reached through o2net. The master
answers with an AST message, and asks holders in the way with BASTs; both call
back into dlmglue, which wakes tasks and the downconvert thread. o2hb tells
o2net, quorum, the domain and the recovery thread about nodes that come and go;
o2net and o2hb feed quorum, which may stop the machine; o2dlm recovery must be
over before the recovery thread replays the dead node's journal. A mount takes a
slot, and with it a journal, a local alloc, a truncate log, allocators and an
orphan directory; everything above the locks writes through that journal.

What is hard is nearly everything between two critical sections: a flag set
under `l_lock` and a DLM call made without it, an AST that overtakes the return
of the call that caused it, a cancel that comes too late, a thread that sleeps
unless the right handler wakes it. `PROJECT.json` lists these places as
hazards with the property that watches each, or the reason there is none yet.

## 2. The modules

### LockModes
`IV < NL < PR < EX` as numbers, `Compatible` (dlm_lock_compatible) and
`HighestCompat` (ocfs2_highest_compat_lock_level).

### DlmQueues: the master of one resource
State: `type` and `convert` (`ml.type`, `ml.convert_type`), the lists `granted`
(a set: its order is never used), `converting` and `blocked` (sequences),
`pendingAsts`, `highestBlocked` (a BAST is pending while it is set, as
`bast_pending` is), `inflight` (the BAST being sent), `dirty`
(DLM_LOCK_RES_DIRTY and its list) and `thread`, where dlm_thread is.
`owed[n]` is what the handler that runs for n still has to do after it dropped
`res->spinlock`: queue an AST and kick the thread, or only kick it. That gap is
where shuffles slip in between a grant and its AST.

Operations: `DlmLock`, `DlmConvert`, `DlmNotQueued`, `DlmCancel`, `DlmUnlock`,
`DlmPost`, `DeliverAst`, `DeliverBast` and `DlmThread`. dlm_shuffle_lists holds the
spinlock while it works through the queues; here a step grants one lock, and
`thread` keeps every other handler from interleaving where the spinlock does.

A node's own copy of its lock is not kept beside the master's: the two differ
between a grant and the delivery of its AST, which `pendingAsts` and `owed` tell
apart. `Master` may be one of the nodes (its AST and BAST do not go through
dlm_proxy_ast_handler) or none of them.

### DlmClients: every legal use
Adds `asked[n]`, the request under way, and `told[n]`, the level of the strongest
BAST that n was given and has not satisfied. A node locks, converts to any mode, tries,
cancels and unlocks, one request at a time, as dlmglue and userdlm do.

### DlmGlue: the cluster lock
A lock has a type (`l_type`), which fixes whether a downconvert worker, a
checkpoint and a refresh belong to it; how each type is used is the constant `Requests`.
A `struct ocfs2_lock_res` per node: `level`, `requested`, `blocking`, `action`,
`unlockAction`, `flags`, the owner of the pending generation, the list of blocked
locks and the wake sequence. `l_ro_holders` and `l_ex_holders` are the tasks whose
`pc` says they hold. An action is one critical section of `l_lock` or one DLM call:

| action | code |
|---|---|
| `Again*` | the body of `__ocfs2_cluster_lock` between `again:` and `unlock:` |
| `DlmLockCall`, `DlmLockReturn` | `ocfs2_dlm_lock`, then `lockres_clear_pending` |
| `RecoverFromError` | `ocfs2_recover_from_dlm_error` |
| `NonBlock*` | the tail of `__ocfs2_cluster_lock` for OCFS2_LOCK_NONBLOCK |
| `ShouldRefresh`, `CompleteRefresh` | `ocfs2_should_refresh_lock_res`, `ocfs2_complete_lock_res_refresh` |
| `Unlock` | `__ocfs2_cluster_unlock` with `ocfs2_downconvert_on_unlock` |
| `LockingAst`, `BlockingAst` | `ocfs2_locking_ast`, `ocfs2_blocking_ast` |
| `DcTake` .. `DcUnqueue` | `ocfs2_downconvert_thread_do_work`, `ocfs2_process_blocked_lock`, `ocfs2_unblock_lock` |
| `DcUnlockAst` | `ocfs2_unlock_ast` of a cancel |
| `Evict*` | `ocfs2_mark_lockres_freeing`, `ocfs2_drop_lock`, `ocfs2_lock_res_free` |

`OtherWake` stands for the other locks of the mount: any of them may wake the
downconvert thread. `current` is the set of nodes whose copy of the protected
object is what the last holder of EX left: it is what NEEDS_REFRESH is about.

A BUG_ON of the code is a conjunct of the action: the kernel stops there. That
is why every run here has `CHECK_DEADLOCK FALSE`: behaviours may end at an
assertion, whose failure `NoBug` reports, or when every task of `Once` is done.
That waiting tasks are never stranded is checked by `NoStandstill` instead.

`NoBug` is about the assertions of AST, BAST and downconvert; the one about a cancel is
`CancelExpected`, and it fails (run `glue_cancel`). It takes three nodes: a reader's BAST
starts a downconvert, a writer's raises `l_blocking` and queues the lock again, so that
the thread decides to cancel the conversion it sent itself; the AST of that comes first,
and a task asks anew before the cancel leaves.

TLC finds four more defects around these modules when an instance is changed to meet
them; the runs are set up so that they do not:

* A NOQUEUE request that wants more than the node has and is refused:
  ocfs2_recover_from_dlm_error (`dlmglue.c:1293`) clears BUSY without waking
  the downconvert thread, which has requeued the lock because of BUSY.
* ocfs2_mark_lockres_freeing goes on when QUEUED is clear, and it is cleared for
  a lock that was put on the list again: a BAST comes when ocfs2_process_blocked_lock is
  past the last downconvert, and the end of the thread's round (`dlmglue.c:4338`) takes
  QUEUED away although the lock is on the list. ocfs2_mark_lockres_freeing (3552) does not
  wait, and the assertion of ocfs2_lock_res_free (773) can fail. With three nodes (a
  reader's BAST is being served when a writer's comes) the eviction also overtakes the
  downconvert worker: the lock is dropped at the master, and the downconvert the thread
  had prepared is sent for it. DroppedIsForgotten fails there, so that it is a property of
  the run, in which nobody asks twice, and no theorem; OneRequest speaks of live nodes.
* On the master's own node a BAST can come before the first AST, and
  ocfs2_prepare_cancel_convert asserts that the action was a conversion
  (`dlmglue.c:3704`). In the runs of DlmGlue no node is the master.
* `BUG_ON(target->ml.highest_blocked != LKM_IVMODE)` of dlm_shuffle_lists
  (`dlmthread.c:407`): a pending BAST stays with a lock that is then converted,
  and the obstacle of the conversion goes away before the flush. DlmQueues has
  no such assertion.

### DlmMaster: who masters a resource
One resource, one asker per node. `res[n]` is the resource in n's hash (owner,
the state bits that matter, refmap), `mle[n]` n's entry of the master list with
its maps, `task[n]` a call of dlm_get_lock_resource, `work[n]` and `worker[n]`
the work list and who works on it, `thread[n]` dlm_thread as far as it purges,
`mover[n]` a migration, `rpc[n][t]` the message that thread t of n waits for.
A message is sent, handled and its answer used in three steps, so that whatever
the sender knew may have changed. A node may die at any step, and the others
notice each in its own time; `leaves` have the domain's exit empty their hash
(dlm_migrate_all_locks), which is where migration comes in.

`bug` collects the names of BUG()s that were reached; the code stops there, the
model goes on. Three defects of migration are in the way of everything else
(`Known`), and properties are about what happens before one of them:

* the target of a migration forgets the resource, and refuses it, between its
  adding an entry and the lock state; dlm_send_one_lockres has a BUG() for that
  answer (`dlmrecovery.c:1402`);
* dlm_wait_for_lock_mastery sets the owner it heard of before a migration changed it
  (`dlmmaster.c:1062` to `1145`);
* the last reference goes before MIGRATING is set, and dlm_thread purges what migrates.

Two more are next to what is checked: SETREF_INPROG is one bit for all nodes (1742,
2293), so that a deref may wait for the wrong one; dlm_clean_block_mle detaches an
entry from heartbeat events (3312), and a task that waits for it may do so for
ever (`NoStandstill` leaves such entries out). Deaths during a migration, nodes
that join meanwhile and LKM_LOCAL are left out.

### DlmDomain: joining and leaving
`ctxt[n]` is dlm_state, `users` the registrations, `joining`, `members`, `live`,
`exiting` the maps of `struct dlm_ctxt`, `call[n]` where the task of n is in
dlm_try_to_join_domain or dlm_unregister_domain, `msg[n]` what it waits for. The
scenes say who has the domain at first, how often each node mounts and unmounts, which
protocol and heartbeat regions it has, and who may die. A dead node does not come back.

Not a property, because the code does not have it: that a mount ends. A member that says yes
to a joiner and dies before the joiner has it in its `domain_map` stays in the joiner's
`live_nodes_map` (`dlmrecovery.c:2453`: __dlm_hb_node_down returns before the clear_bit), so
dlm_should_restart_join does not see the death, and dlm_send_join_asserts asks the dead node
again for ever (`dlmdomain.c:1526`).

### DlmRecovery: after a death
One resource, at most one lock on it per node, and the $RECOVERY lock as the node that has
it (`holder`). `rthread[n]` is dlm_recovery_thread, `jobs[n]` the work list (sending
locks, processing them), `ask` messages as in DlmMaster, `lockres[n]` the
resource: its owner, RECOVERING, and the locks n knows. `rmap`, `deadNode`, `newMaster`
and `finalize` are the fields of `dlm->reco`. Nodes die one after another, at any step.

`half` is history. "finalizing": a recovery master died between its first finalize
messages, which ends in two masters (run `dlm_finalize`). Any other entry: a node died
after it was asked for its locks and before it sent them; dlm_remaster_locks
(637 to 722) waits for it without an end. `RecoveryEnds` is about behaviours with neither.

### O2Quo: the fence decision
`struct o2quo_state` is a record of its three bitmaps (`hb`, `conn`, `hold`),
`qs_pending`, whether `qs_work` is scheduled, and `bug`: one of its
mlog_bug_on_msg has fired. Each function of quorum.c is an operator from state
to state; the counters are sizes of the bitmaps. `MustFence` is
o2quo_make_decision.

### O2Net: the connections of one node
The model is one node. Its peers, heartbeat and network do what they like; what
the code under `S/cluster/tcp.c` does about it is the model.

| variable | code |
|---|---|
| `nn[p]` | `struct o2net_node`: `nn_sc`, `nn_sc_valid`, the persistent error, `nn_timeout`, which delayed works are queued |
| `scs[p][i]` | a `struct o2net_sock_container`: callbacks registered, idle timer pending, handshake done |
| `queue[p]` | the receive and shutdown works of the peer's sockets, in order |
| `wq`, `ticking`, `hb` | where the work of o2net_wq, the idle timer and the heartbeat thread are, if between two critical sections |
| `snd[s]`, `wire` | the senders, their entries on `nn_status_list`, and the replies on each socket |
| `quo`, `fenced` | the quorum state, and whether the node stopped itself |

o2net_wq is ordered: one work at a time. Works that start at a time of their
own (delayed works, accepts) are not kept in a queue: they may run whenever
nothing else does. `InUse` is the reference count of a container, so that a
container is used again only when the code has freed it.

The code leaves five windows of a few instructions open (`Undisturbed` lists
them). What goes wrong in them is known: `quo.bug` (the idle timer against the
receive work), a sender without an end, an error cleared by
connect_expired. The sender: it found the connection valid, the connection is
detached, and then the sender puts itself on the list and sends, so that nobody
will wake it (`tcp.c:1086`). A behaviour with `setup.races` has them open, one without has
them closed, so that the invariants that need them closed still say something
about everything else.

### Heartbeat: who lives
One region in local mode on every node. `node[n]` is n's region and its thread,
`slot[n][m]` what n keeps about m's slot (samples, generation, alive), `disk` the
generation in each slot; of `hb_seq` only whether it is the stamp that n read last
is kept (`read`). Time goes by in beats of O2HB_REGION_TIMEOUT_MS: in each, a
node whose path works does one beat, in any order with the others; `Tick` ends
it. `BeatStart` is o2hb_do_disk_heartbeat up to the wait for the write (read, check
the own slot, issue the write, check all slots), `BeatEnd` the rest, with
o2hb_arm_timeout. `age` is the time since then, `Fence` the write timeout,
`Nego*` and `Receive` the negotiation.

Assumptions: clocks run at the same speed; a write lands on the disk in the period
in which it completes or fails; messages of the negotiation may take any time
but are lost only with their receiver. The model leaves out aborted starts (to
the others the same as `Crash`) and bad checksums of live nodes.

`FencedInTime` is about nodes whose write timeout was armed by a beat. Two cases are
outside it, because TLC finds that there the code does call a node dead that
runs on (`heartbeat.c:394` and `:321`):

* A node that negotiated. The negotiation compares the bits of who asked with the live
  map of the lowest node. A bit may be left from a node that beats again, and a
  node that is just joining may know the hung node, which does not know it yet:
  alone in its map, it approves its own request for ever.
* A node whose path hangs after the beat that made it steady. That beat called
  o2hb_arm_timeout before it counted hr_steady_iterations down, so no timeout is armed.

### FsRecovery: slots, mounts, recovery
On disk: `slotMap`, a `journal` per slot (dirty, recovery generation, who has
its lock), `leftover` (local alloc, truncate log and quota file that a replay leaves to be
cleaned), and one inode, whose newest contents are in place or in one slot's journal
(`newest`). On node n: `osb[n]` (slot, its copy of the slot map and of the
generations, recovery map, replay map, cleanups queued), `rec[n]` the recovery thread,
`user[n]` a task in ocfs2_inode_lock_full_nested. A mount is a sequence of actions (domain,
super lock, slot, journal, local alloc, dead nodes marked), so is an unmount; a node may die,
and come back, at each. Cluster locks are what they guarantee, and the lock of a dead node
is free for those who have noticed the death.

`dead` is a set: in which order a thread takes the nodes of its recovery map is left open.

`known` is history: what the code does not provide for. `FreshInode` and `AllCleanedUp`
say which they exclude.

* "gap": a node died in its unmount after it had given up its slot with the journal still dirty
  (`super.c:1899` to `1907`), or in its mount on such a slot before the journal was given up.
* "twice": a node dies again while a slow recovery thread still has it on its list; the second
  death is taken for the first.
* "reused": node 1 dies, node 2 recovers its slot, which raises the recovery generation of the
  journal, another node mounts on the slot, changes the inode and dies. Node 3, whose recovery thread
  was slow, has not read the generations since (`slot_recovery_generations`), finds that of the
  slot "different than what we expected, the slot has been recovered" (`journal.c:1634`), takes
  the second victim off its list and goes on with an inode whose newest contents are in the journal
  that nobody has replayed. It came out of the proof of FreshInode, whose invariant was
  not inductive without it; the stories of `fs_recovery` are too short for it.
* "half": a recovery thread died after ocfs2_replay_journal had raised the generation of the
  victim's journal and before ocfs2_clear_slot, or with quota recoveries queued still. Who recovers
  next gets -EBUSY from ocfs2_replay_journal, and ocfs2_recover_node (`journal.c:1770`) takes the victim for
  recovered: its local alloc, truncate log and quota file are not cleaned and its slot stays
  taken until it is used again. It came out of the proof of AllCleanedUp; the stories of
  `fs_recovery` are too short for it.
* "unnoticed": a lock was granted by a master that had noticed a death to a node that had not
  (`dlmglue.c:2474`), and the dead node's journal alone had the inode.

### Orphans: the life of an inode
Two names of a directory, two inodes, two nodes with a slot each. On disk `names`, `dinode`
(valid, links, orphaned or under direct I/O in which slot, and `life`, which
counts how often the inode was used again), `orphanDir[s]`. In memory `core[n][i]` (struct
inode: in use or being evicted, the flags of `struct ocfs2_inode_info`, openers, the level of its
open lock), `dent[n][nm]` (a dentry with its dentry lock), a task per node, a scan of an
orphan directory per node, and `wipes`. Create, link, rename, unlink, reflink, open and
close, direct writes, revalidation, eviction (query, wipe), the remote dentry delete and
the scan are actions; a transaction is one step. A node may die at any of them, and
the scan of its slot then belongs to the other.

### Space: who has a cluster
The global bitmap (`bm`, and `undo`, its committed copy) with its lock, a window and its used
bits per node (`la`), the state of the local alloc (`laBits`, `laState`), a truncate log per
node (`tl`), the `files` of each node; `disk` is what is committed, and what a crash leaves.
Per node a writer, a truncate, the flush worker and a recovery (`task`). Extents are runs of
clusters. `copies` are the windows and logs that a recovery has read and not yet freed: if the
recoverer dies then, what they hold is `lost`, and `Accounted` says that this is the only way.

Not properties, because the code does not have them: `truncated_clusters` is counted twice when
records join (`alloc.c:5901`, `5914`), and 0 after a mount with records in the log;
ocfs2_try_to_free_truncate_log (6141) answers that there is no space when the journal had
nothing to commit although the flush freed some; a recoverer that dies between cleaning the
dead node's journal and clearing its local alloc leaves a slot that cannot be mounted
(`localalloc.c:329`).

### Suballoc: blocks and inodes
An allocator per type and slot: chains with head, free and total counts; block groups
(`grp`) with bitmap and, if they are in pieces, the list of those; an allocation context
per node (`ctx`), the slots and counts for stealing, the hint of the directory, blocks
`given` to users and `cached` in dealloc lists. A cluster is one block. Reserve (own
allocator, a new group, another slot's), claim (with search, relink and hints), free,
dealloc lists and reuse from them are actions. A crash forgets what is cached
(`leaked`): those bits stay set.

Not properties: with more blocks wanted than are cached, ocfs2_find_preferred_free_list
follows a list of lists that has become empty (`alloc.c:6627`; the variable `oops`);
ocfs2_reuse_blk_from_dealloc unlinks the lists before the preferred one as
well (`alloc.c:6739`), which loses their blocks; a node whose steal slot is set skips its own
allocator (`suballoc.c:973`, `1062`) and may report no space while it has some. A context wants
less than a group has (BUG_ON at 839), as its callers do. `max_block` is left out.

### Dir: one directory
`dir` is the directory on disk: inline or blocks of records, and for an indexed one the
root with its entries or extents of leaves, the list of blocks with holes, the trailers.
`op` is an operation between its transactions with its ocfs2_dir_lookup_result, `rd` the
open directory of node 1. Lookup, insert, delete, rename, rmdir's check, conversion from
inline, expansion, growing the index, splits of a leaf (with quota and space failing at
each place) and readdir are modelled; records have lengths, so that they split and join
as in the code.

`DirAssumption` relates the sizes as on disk: an inode holds no more records than a leaf
entries, the root no more entries than a leaf. Not properties: of a full leaf with
hashes 5, 5, 5, 9 a split at 5 moves every entry, and the insert fails although there is
room, which the comment at `dir.c:3911` says cannot be; ocfs2_fill_new_dir_dx (2252)
counts the trailer as used twice, so that a hole seems smaller than it is.

### ClusterLock
Tasks with a mode each; a mode is taken only if it is compatible with the
modes of the tasks of other nodes. `DlmGlue!ImplementsClusterLock` is its
specification under the mapping from `pc` and `want`.

## 3. Runs

| run | instance | shows |
|---|---|---|
| `dlm_clients` | 3 nodes, one the master | GrantedCompatible, OneList, RequestAccounted, NoLostKick, ObstaclesTold |
| `glue` | 2 nodes, a task each: PR or EX (nfs_sync), EX with and without NOQUEUE (open), a meta lock (worker, checkpoint, refresh) of a writer that waits and one that uses OCFS2_LOCK_NONBLOCK; signals | MutualExclusion, NoBug, NoStandstill, HeldIsCurrent, BlockedIsServiced |
| `glue_local` | two tasks of one node against another (rename); 3 nodes from a contended state with a worker (dentry); an eviction (rw) | OneRequest, WorkerSufficed, DroppedIsForgotten |
| `glue_live` | a reader that keeps asking, a writer that asks once | NodeProgress, ImplementsClusterLock |
| `cluster` | connections: a node below its peer (accepts) and one above it (connects), two sockets or one, with the windows open and nobody sending, or closed and a sender. Heartbeat: 2 nodes; either each starts twice, or the path of the higher one hangs and fails | TimerOwned, IdleNoticed, PeerRemembered, WaiterHeard, SameIncarnation, BeatingIsLive, FencedInTime |
| `dlm_nodes` | mastery: two of 3 nodes ask, one of them once more, a node dies or leaves. Domain: 3 nodes, six scenes. Recovery: any two of 3 nodes die, one of 4 | BugFree, OneMaster, UsersKnown, NoStandstill, DomainSound, LocksKept, RecoveryEnds |
| `fs_recovery` | mounts: 3 nodes, 2 slots, one or two deaths. Inodes: 2 nodes, 2 names, 2 inodes, six stories | FreshInode, OwnSlot, AllCleanedUp, Orphaned, NotWiped, NoStandstill |
| `storage` | clusters: 5, of 2 nodes. Blocks: 12 clusters, groups of 4, 2 nodes. Directory: blocks of 5 units, up to 5 names | Accounted, SpNoStandstill, SubOwned, DirFound, ReadOnce |

`MC_DlmGlue`, `MC_Cluster`, `MC_DlmNodes`, `MC_FsRecovery` and `MC_Storage` put together
components that the instance keeps independent of each other. A behaviour is about one
of them (the variable `about`, or `ltype`), so that such a run is the union of their
state spaces, not the product. What one needs of another is an event: DlmRecovery and
DlmDomain hear of deaths, FsRecovery of a recovered DLM.

What each property says is in the comment above it. The ones that took most to get right:

* `OneMaster`, `UsersKnown`: two requests for mastery, an assert that is late, a purge
  and a death. No two nodes own the resource; who uses it is in the owner's refmap or is
  about to be; so no lock is asked of a node that forgot it.
* `LocksKept`: after any order of elections and deaths of recovery masters, each lock of
  a survivor is known to the one new master.
* `IdleNoticed`, `FencedInTime`: nobody goes on who the others hold to be dead.
* `AllCleanedUp`: when nothing is left to do, every slot of a dead node was replayed and
  cleaned, whoever died in between (but for what `known` lists); `FreshInode`: before that nobody reads what the
  journal has newer.
* `NotWiped`: the race of the last close on one node with open, link and scan on
  another.
* `Accounted`, `SubOwned`: through windows, logs, caches, crashes and their recovery
  each cluster and block has one owner, and what is marked used is what somebody knows
  of.
* `DirFound`: through every conversion and split, a lookup finds exactly the names that
  were made and not removed.

Four runs are expected to fail; each is a finding of `PROJECT.json`:

* `dlm_finalize`, OneMasterLeft: a recovery master that dies between its first finalize
  messages leaves nodes that think the recovery complete and nodes that do it again.
* `fs_needless`, NeedsRecovery: a node that died with a clean journal mounts again with
  the same recovery generation; a slow recovery thread waits for the journal lock of a
  live node, with the super lock held.
* `glue_cancel`, CancelExpected: a cancel that is meant for the downconvert of the thread
  itself takes away the request that a task made meanwhile.
* `dir_readdir`, ReadValid: a reader on another node than the writer never sees the
  version change, goes on inside a record and skips names.

Deadlock is checked in `cluster`. Elsewhere behaviours end by design: at an assertion of
the code, or when every task, case or story is over; the NoStandstill invariants say
that they end nowhere else.

**Bounds.** Nodes, tasks and what tasks may ask for; in DlmGlue and DlmClients nothing
counts, so the state space is complete for its instance. Two nodes give every pair of a
holder and a requester; the third node is there where a second BAST must raise
`l_blocking` while the first is served (`glue_local`), where a conversion has two
obstacles (`dlm_clients`), where a third party's vote, map or answer matters
(`dlm_nodes`), or where it wants the slot (`fs_recovery`). Modes are those dlmglue uses.
In Heartbeat, DeadThreshold 3 is the least the code accepts; the window between the
fence and the verdict is one period whatever the threshold is. A hang and restarts come
apart, or the states are too many (`StartBound`). In O2Net, one peer: peers share
nothing but the workqueue and the quorum state, and a work of another peer only delays
this one's. Two containers give a connection and its predecessor in shutdown. One
sender: with two, replies to a number that is used again could also be compared. The
other modules count what is left of a case, scene, plight or story: each is listed with
its comment in the MC module, and chosen to bring two actors and a failure together (two
deaths in a row, since a recovery that loses its master is where the second one
matters). In Space, 5 clusters and windows of 4 are the least where a window cannot be
had in one run, logs of 2 records fill up. In Suballoc, groups of 4 with up to 3 pieces
are the least that are contiguous, in pieces, full and half full; two may be stolen
before the slot is looked at again. In Dir, leaves of 4 entries and 2 to a cluster are
the least that split twice.

**Fairness.** `glue_live`: weak fairness of each task inside a request, of the
downconvert thread and of the DLM (dlm_thread and its messages): kernel threads are
scheduled, o2net delivers between nodes that live, and a holder lets go (its critical
section is file system code). Nothing makes a task ask, a signal come, or another lock
wake the thread, so a lost wake-up cannot hide behind one that happens to come.
`dlm_nodes` (`RFair`): weak fairness, on each node that lives, of the recovery thread's
step, of the worker, of each handler, of the error that o2net gives who waits for a dead
node, and of heartbeat noticing a death. Nothing makes a node die.

## 4. Proofs

`DlmQueues_proofs` has a lemma per operation of the master: it preserves

    DlmInv == DlmTypeOK /\ OneList /\ GrantedCompatible

`DlmClients_proofs` proves, for every set of nodes and every master (all but the first
are also invariants of `dlm_clients`):

| theorem | |
|---|---|
| `TypeCorrect` | `Spec => []TypeOK` |
| `ListsDisjoint` | `Spec => []OneList` |
| `GrantsCompatible` | `Spec => []GrantedCompatible` |
| `RequestsAnswered` | `Spec => []RequestAccounted` |
| `KicksSuffice` | `Spec => []NoLostKick` |
| `ObstaclesAreTold` | `Spec => []ObstaclesTold` |

The invariant is `Inv == DlmInv /\ TypeOK /\ RequestAccounted /\ OneAnswer`.
RequestAccounted alone is not inductive: a `DlmPost` for a lock that is
waiting again would add a second answer, so `OneAnswer` says that an AST is never
both owed and pending. GrantedCompatible needs OneList, because a conversion is
granted against the granted list, and a lock on two lists would be compared with itself.
`KickInv` says that the thread is awake, or something is owed, or the head
of the queues has an obstacle; NoLostKick is what is left when all is quiet. `ToldInv`
goes on from there: while a request waits and the thread is not about to look again, every
obstacle of the head of the queues has its BAST, or the BAST is on its way
(`Warned`). It needs the order of dlm_flush_asts: BASTs go out when no AST is left, and an
AST that comes later makes the thread look at the lists again (`AstsFirst`). A BAST that
dlm_should_cancel_bast drops was about a lock that is no obstacle any more.

`DlmGlue_proofs` is about every set of nodes, tasks and requests, and of every lock type:

| theorem | |
|---|---|
| `GlueTypes` | `Spec => []TypeOK` |
| `Exclusion` | `Spec => []MutualExclusion` |
| `FreshReads` | `Spec => []HeldIsCurrent` |
| `WorkerDidEnough` | `Spec => []WorkerSufficed` |
| `BlockedAreServiced` | `Spec => []BlockedIsServiced` |
| `RequestsOneByOne` | `Spec => []OneRequest` |
| `AssertionsHold` | `Spec => []NoBug`, if the master is not in `Node`: on its own node a BAST may come before the first AST (`dlmglue.c:3704`) |
| `GlueImplements` | `Spec => ImplementsClusterLock` |

`GlueInv`, the invariant under all of them, says what a node and the master may assume of
each other while messages are under way. BUSY has one owner: a request of a task, a
downconvert of the thread, the drop at the end. What the master has of the node (queue,
type, convert type, AST owed or pending) is what that owner asked for. `l_level` is no more
than the master's type, except between the grant of a downconvert and its AST. Tasks that
hold are within `l_level`, and within `l_requested` while a downconvert runs. It is stated
for a node that is not being evicted; once `evictPc` leaves "live" nobody asks any more. A
step that only takes something away from a node keeps most of it: the "Eases" lemmas say
so once, and each action that does more has a lemma of its own. Exclusion is then
`GrantedCompatible` of the master carried down to the holders, and the refinement has
two steps that are no stutter: a task that takes the lock (`AgainHold`) is `Acquire`, `Unlock` is
`Release`. For FreshReads, `CurrentInv` adds: a copy that is not marked NEEDS_REFRESH is
current as long as both the node and the master think that the node has the lock. For
AssertionsHold, `SoundInv` adds: BUSY goes with an action; `l_level` is the master's type
unless an answer is under way; and no BAST is stale: every `l_blocking`, `highest_blocked` or
BAST in flight names a mode that the node is in the way of, unless a downconvert
has overtaken it, and then the node has the action to show for it.

`ServedInv`, for BlockedAreServiced, says where a blocked lock is: on the list, in the hands
of the thread, or behind a request that will satisfy the blocker by itself; the hard steps
are an AST that lowers the lock while the thread holds it, and the requeue.
`PendingInv`, for RequestsOneByOne: between ocfs2_dlm_lock's caller setting PENDING and the
request reaching the master, PENDING stays and is that caller's (`pendingBy`, the model's
l_pending_gen). Nobody else makes a request meanwhile, because BUSY has one owner, and an
older caller that comes back clears no PENDING but its own. It needs that no task is named
"dc", the name the model has for the thread (`TaskAssumption`).

`Cluster_proofs` has the proofs about O2Net and Heartbeat. Those about O2Net are for any number of peers,
containers and senders (SenderAssumption: the senders are finitely many, as tasks are; the numbers of a
finite set suffice them):

| theorem | |
|---|---|
| `NoSplitBrain` | of two nodes that see the same heartbeats and whose connections have no node in common, at least one must fence itself |
| `TimersOwned` | `NSpec => []TimerOwned` |
| `IdleIsNoticed` | `NSpec => []IdleNoticed` |
| `PeersRemembered` | `NSpec => []PeerRemembered` |
| `WaitersHeard` | `NSpec => []WaiterHeard` |

The first is about the decision alone. The two groups together are no more than the
heartbeating nodes, so both could go on only with half each, and then only one has the lowest
node. It assumes that a node counts as connected only nodes that heartbeat, which
o2quo_hb_down and the disconnect that follows do in two steps. The others rest on `NetInv`,
peer by peer (`OthersKeep`: a step for one peer leaves the rest alone). `Sockets`: the only
containers with callbacks are the current one and the one whose timer is being handled, and a
timer runs only with callbacks. `Noticed`: a hold with the timeout flag up has somebody
to release it, the still-up work, the timer, or the heartbeat thread, which takes a
peer that leaves out of the live map and of quorum first. `Expected`, with the windows closed:
without a persistent error there is a valid connection or connect_expired is queued, and the
error is set while the works that would set it are cancelled. For the senders, `WorksAlone` and
`OnValid`: who waits is on the list of a valid connection, whose end will walk the list. That a
sender finds a free number (`FreshIdFound`) is the pigeonhole principle with the least number
that the idr has free.

Those about Heartbeat are for any nodes and thresholds with `ThresholdAssumption`, which is what
the code enforces (the write timeout is a period shorter than the verdict, and three
samples or more make it):

| theorem | |
|---|---|
| `UpAsBorn` | `HbSpec => []SameIncarnation` |
| `FencedBeforeDead` | `HbSpec => FencedInTime` |
| `BeatingStaysLive` | `HbSpec => BeatingIsLive` |

`TimeInv` ties the two clocks together: how many equal samples n has seen in the slot of m is at most what
the age of m's write timeout allows, with one sample of slack where the two
have already, or not yet, beaten in this period. The generations of a region only grow, and nobody has seen
one that was not started, so that a change of generation is seen as a death.

`FsRecovery_proofs` proves three theorems, for any number of nodes and slots and any story:

| theorem | |
|---|---|
| `SlotsOwned` | `FsSpec => []OwnSlot`: a slot has one owner |
| `FreshAfterRecovery` | `FsSpec => []FreshInode`: a task uses the inode as it is newest |
| `DeadAreCleanedUp` | `FsSpec => []AllCleanedUp`: nothing of a dead node is left when all is quiet |

OwnSlot is not inductive: a mount takes a slot that its own copy of the map has free. `OwnInv` says why the
copy is right: the super lock has one holder, who has read the map under it; a dead node has no
mount; and a recovery that holds the journal lock of a victim's slot knows nobody in that slot
until it has cleared it.

`FreshInv`, on top of OwnInv, says where the newest inode is while it is in one journal alone:
`Alive`, with a node that runs, owns the slot and has the inode's lock; or `Lost`, with a dead one,
and then `Missed` holds of every other mounted node: it knows the recovery generation of the slot as it is,
has the dead node still in its domain or already in its recovery map, does not use the
inode, and waits for the recovery if it has the lock. A death turns Alive into Lost (here "gap" and "reused" are
excluded: the slot must be in the map, and its generation known to all); the recovery cannot pass
over the victim, as a node is in one slot at most (`NoDup`) and the generations agree; a mount
finds the slot in ocfs2_mark_dead_nodes, as whoever has a journal's lock is in its slot or died
there (`LockKnown`); and ocfs2_wait_for_recovery keeps the task until the victim is off the
list, which it is when the journal was replayed and the inode is in place. The second wait is
needed where `Missed` speaks of "again": the mutant of FreshInode drops it.

AllCleanedUp speaks of quiet states alone, so that it says nothing of how one gets there. `CleanInv`
says where the work of a slot is meanwhile. `Taken`: a slot that is in the map is owned by
a node that runs, in the hands of a recovery that has replayed it (`Handled`), or every mounted node has
its victim still to do (`Listed`: in its recovery map, on the list of its thread, among the dead that
its domain has not told it of). `Given`: a slot that is not in the map is clean but for the quota work that somebody
has queued (`Due`), or the node that unmounts has its journal still (`Left`). `HalfOk` and `GapOk` say that those who
could break this by dying would be noted in `known`. The hard step is the recovery that
skips a victim because the generation was raised: somebody else has replayed it, and is
alive, or else "half" or "reused" is known.

`Orphans_proofs` proves, for any number of nodes, inodes and names, and any story:

| theorem | |
|---|---|
| `LinksAreNames` | `OSpec => []Orphaned`: links are names, and who has none is an orphan, once |
| `UsedIsNotWiped` | `OSpec => []NotWiped`: nobody uses an inode that was wiped |

Both are about the disk and the memory of one node at a time, and neither is inductive: the disk is changed from what a
node remembers. `OInv` says what memory is worth. `CoreOK`: an inode that a node uses is valid and of
the same life, and a node that wipes it has the open lock in EX, the inode's lock, and no link, direct write or other
user to fear. `OpenOK`: who has the open lock in EX is alone, and nobody has PR of an inode that is not valid.
`RefOK`: whatever a dentry, a file, a task or the list of a scan refers to is in memory and not
being evicted, so that no eviction takes it from under them. `TaskOK`: what a task found with the directory's lock is so
until it lets go, so that the name that it removes is there and the one that it gives is free; a reflink's inode stays in
the orphan directory of its node. `LockOK`: who has the inode's lock has read the number of links as it is on disk, so
that `Unlinkable` asks about the last link of the cluster and not of the node. `DiskOK` and `DirOK` are Orphaned
itself, with a directory's links 0 or 2. `skip` (OCFS2_INODE_SKIP_ORPHAN_DIR) is the
exception everywhere: an inode whose creation failed is without a name and an orphan entry, and its creator alone has it.

Most actions change one inode on one node. `AlikeStep`, `InodeStep`, `TaskStep`, `ScanStep`, `DioStep` and `WriteStep` say once
what such a step leaves alone, from the memory only (AlikeStep) to one inode on disk with its
entries (WriteStep). The counts of names are about finite sets: one name more, one
less, one for another (`NameAdded`, `NameGone`, `NameMoved`). A rename over another inode is both: the
inode that had the name loses it, and the one that is renamed has as many as before.

`DlmNodes_proofs` is about a domain of any number of nodes, numbered below O2NM_MAX_NODES, in
any scene whose first members share a protocol version:

| theorem | |
|---|---|
| `DomainTyped` | `DSpec => []DomainTypeOK` |
| `NoJoinBugs` | `DSpec => []NoJoinBug` |
| `DomainIsSound` | `DSpec => []DomainSound`: members know each other, joining_node is minded, no ghosts |

`DomainInv` is a statement about each node that runs (`Alone`) and one about each ordered pair of
them (`Pair`). `Owes(n, p)` says that p answered n's query with yes and has not yet been told how the
join ended: `Promise` has joining_node of p name n exactly when n owes p, and then p is a
member that has not begun to leave, as dlm_mark_domain_leaving waits for joining_node.
`Passed(n, p)` says that n knows p's answer. The heart is `Known`: when n has p's answer, then p is
out of the domain and has *not* passed n, or p waits for n, or they know each other already. Two
nodes that join at once cannot both pass, since "disallow" and "nomap" depend on joining_node, and
MembersAgree follows when n has asserted to all. `NoGhosts` is about the deaths noticed before
the dead node is a member: they never heard the assert, so that the joiner does not finish.
A step takes one node or two; `StillPair` carries the rest, and `QuietPair`, `OutsidePair`,
`PeerPair` are what most steps do to a pair.

`Space_proofs` proves, for any number of nodes and clusters, any length of windows and logs, and any story:

| theorem | |
|---|---|
| `ClustersAreAccounted` | `SpSpec => []Accounted`: a cluster has one owner, and is marked used exactly when somebody has it |

Accounted is about memory and says nothing of what a death brings back. `SpaceInv` has both:
`Owned`, that files, window and log of a node, on disk and in memory, and its copies of a dead node's have no cluster in
common with another node's, and together are the bitmap without what is `lost`; and
`Durable`, how the disk lags behind. Another node gets the lock of the global bitmap only when
the transaction that changed it has committed, so that at most one node (`bmDirty`) has changes of the bitmap in its transaction. `Clean`:
each of the others has on disk no more than it has in memory, and the same clusters unless it has taken over those of a
dead node. `Dirty`: that one finds its own clusters on disk, and those of everybody else, in the committed
bitmap, since whoever else changed the bitmap had to wait for its commit. `AtRest`: a node that does not run has
in memory (of the model) what it has on disk. A death then replaces one of these descriptions by
another, and only what a recovery had taken off the dead node's disk and not given back yet
is lost (`RecOK` says what that is at each step of the recovery). That the bits of b_committed_data stay
set (`undo`) is not needed for this; it matters to what a reused cluster contains. The
records of a log are sequences: the lemmas about appending to one and joining its last record
hold for any length, and no induction is needed, as a flush takes the last record off.

The only assumptions are those the modules declare on their constants, and the master
outside `Node` in DlmGlue. Those of Space say that 0, which stands for nobody, is no node, and what
kind of thing a story is. Those of Orphans say the same of nodes and of inodes, and that a directory has finitely many names.

Model-checked only:

* What rests on fairness or ENABLED, which is out of reach of the prover: NodeProgress,
  RecoveryEnds, the NoStandstill invariants.
* What is an induction over data, or recursive: Dir walks records (DirFound, ReadOnce), Suballoc chains
  (SubOwned).
* DroppedIsForgotten, which is not true of every instance (see DlmGlue);
  and mastery and recovery (OneMaster, UsersKnown, LocksKept, and BugFree but for its part
  of DlmDomain).

## 5. What is left out, and why

* LVBs: the model keeps whether a copy is current, not what the LVB carries.
* DlmGlue and DlmQueues have nodes that live and a fixed master; deaths are in
  DlmMaster, DlmRecovery and FsRecovery, which abstract the lists of the resource to who
  has a lock. The product of the two is out of TLC's reach.
* The flock locks, OCFS2_LOCK_LOCAL creation, the post-unlock of dentry locks.
* Failing DLM calls other than the refusal of NOQUEUE.
* In o2hb: global heartbeat; the order of callbacks.
* In o2net: stop_listening, the handlers themselves, framing, and what a second
  connection attempt costs in time.
* In mastery: deaths during a migration, LKM_LOCAL. In recovery: the LVB's choice, locks
  of several resources.
* Extent trees, reflinks' trees, reservations, extended attributes, quotas beyond their
  place in recovery, the metadata cache, pages: their invariants are about the shape of
  large sequential data, which TLC only reaches in instances too small to split twice.
* `S/dlmfs`, and code that only formats, logs or exports to debugfs.

## 6. Plan

What is left, in order:

1. **Proofs**: SubOwned, whose chains are functions; OneMaster and LocksKept.
2. **Deaths during a migration** in DlmMaster, once the code says what `Known` should
   do.
3. **UserDlm** over DlmQueues, with teardown; refinement of ClusterLock.
4. **Heartbeat**, global mode: several regions, quorum regions, pinning.
5. **FsRecovery with Space and Orphans**: the replay as the step that brings back what
   is committed.
6. Pure algorithms: reservations, extent lists, reference counts, block ECC.
