------------------------------- MODULE FsRecovery -------------------------------
(***************************************************************************)
(* journal.c, slot_map.c, super.c, heartbeat.c: nodes mount a file system, *)
(* take a slot each, keep a journal in it, and recover the slot of a node  *)
(* that died: its journal is replayed, its local alloc and truncate log    *)
(* are emptied, its quota file is merged, its orphans are deleted.         *)
(*                                                                         *)
(* The disk holds the slot map, a journal per slot, the work a slot leaves *)
(* behind, and the contents of one inode, which a journal alone may have.  *)
(* Cluster locks are here what they guarantee, and a lock of a dead node   *)
(* is free once a survivor has noticed the death.                          *)
(***************************************************************************)
EXTENDS Integers, FiniteSets, SequencesExt

CONSTANTS
  FsNode,     \* nodes, numbered
  MaxSlots,   \* osb->max_slots
  Stories     \* mounts[n], umounts[n]: how often; uses[n]: how often a task of n
              \* changes the inode; frail: who may die, deaths: how often

ASSUME FsAssumption == FsNode \subseteq Nat \ {0} /\ MaxSlots \in Nat

VARIABLES
  story, running,  \* what happens; the nodes that run
  dom,        \* dom[n]: the nodes n has in the DLM domain
  superBy,    \* who has the super lock: <<node, task>>
  slotMap,    \* the slot map on disk
  journal,    \* journal[s]: dirty, gen (recovery generation), pending, by (who has its inode lock)
  leftover,   \* leftover[s]: local alloc, truncate log and quota to clean up
  newest,     \* the slot whose journal alone has the newest inode, or 0
  metaBy,     \* who has the inode's lock
  osb,        \* osb[n]: struct ocfs2_super
  rec,        \* rec[n]: __ocfs2_recovery_thread()
  user,       \* user[n]: a task in ocfs2_inode_lock_full_nested()
  known       \* history: what happened that the code does not provide for

fsvars == <<story, running, dom, superBy, slotMap, journal, leftover, newest, metaBy,
            osb, rec, user, known>>

Slot == 1..MaxSlots
Nobody == 0
NoOne == <<0, "none">>
Work == {"la", "tl", "quota"}
RecIdle == [pc |-> "none", victim |-> 0, slot |-> 0, quotas |-> {}]
Unmounted == [pc |-> "out", slot |-> 0, si |-> [s \in Slot |-> Nobody], gens |-> [s \in Slot |-> 0],
              dead |-> {}, disabled |-> FALSE, dirty |-> FALSE, copy |-> {}, replay |-> {}, need |-> FALSE,
              cleanups |-> << >>]

FsInit ==
  /\ story \in Stories
  /\ running = FsNode
  /\ dom = [n \in FsNode |-> {}]
  /\ superBy = NoOne
  /\ slotMap = [s \in Slot |-> Nobody]
  /\ journal = [s \in Slot |-> [dirty |-> FALSE, gen |-> 0, by |-> Nobody]]
  /\ leftover = [s \in Slot |-> {}]
  /\ newest = 0 /\ metaBy = Nobody
  /\ osb = [n \in FsNode |-> Unmounted]
  /\ rec = [n \in FsNode |-> RecIdle]
  /\ user = [n \in FsNode |-> "idle"]
  /\ known = {}

Item(s, work) == [slot |-> s, work |-> work]
Queue(n, items) == [osb EXCEPT ![n].cleanups = @ \o items]
Pc(n, pc) == osb' = [osb EXCEPT ![n].pc = pc]
Mounted(n) == osb[n].pc \in {"mounted", "up"}

\* A lock held by b can be had: by nobody, or by a dead node a survivor misses
Freed(b) == b = Nobody \/ \E m \in running : osb[m].pc # "out" /\ b \notin dom[m] \union running

----------------------------------------------------------------------------
(* ocfs2_mount_volume() and ocfs2_fill_super().                            *)

\* ocfs2_dlm_init(): in the domain once its members have noticed every death
FsJoin(n) ==
  /\ osb[n].pc = "out" /\ story.mounts[n] > 0
  /\ LET in == {m \in running : osb[m].pc # "out"} IN
       /\ \A m \in in : dom[m] = in
       /\ dom' = [m \in FsNode |-> IF m \in in \union {n} THEN in \union {n} ELSE dom[m]]
  /\ story' = [story EXCEPT !.mounts[n] = @ - 1]
  /\ osb' = [osb EXCEPT ![n] = [Unmounted EXCEPT !.pc = "join"]]
  /\ UNCHANGED <<running, superBy, slotMap, journal, leftover, newest, metaBy, rec, user, known>>

\* Mutant: the slot map is not read again
ReadMapOnce(n) == osb[n].si

\* ocfs2_refresh_slot_info() with each ocfs2_super_lock()
ReadMap(n) == slotMap

SuperLocked(n, task) ==
  /\ Freed(superBy[1])
  /\ superBy' = <<n, task>>

NodeToSlot(si, n) == IF \E s \in Slot : si[s] = n THEN CHOOSE s \in Slot : si[s] = n ELSE 0

\* ocfs2_find_slot(): its own from before it died, else the first free one; when
\* there is none the mount fails, and a recovery thread with it (ocfs2_wait_on_mount())
FindSlot(n) ==
  /\ osb[n].pc = "join"
  /\ LET si == ReadMap(n)
         mine == NodeToSlot(si, n)
         free == {s \in Slot : si[s] = Nobody}
         s == IF mine # 0 THEN mine ELSE IF free = {} THEN 0 ELSE Min(free)
     IN IF s = 0
          THEN /\ Freed(superBy[1])
               /\ osb' = [osb EXCEPT ![n] = [Unmounted EXCEPT !.pc = "leave", !.disabled = TRUE]]
               /\ rec' = [rec EXCEPT ![n] = RecIdle]
               /\ UNCHANGED <<superBy, slotMap>>
          ELSE /\ SuperLocked(n, "mount")
               /\ slotMap' = [si EXCEPT ![s] = n]
               /\ osb' = [osb EXCEPT ![n].pc = "slot", ![n].slot = s, ![n].si = [si EXCEPT ![s] = n]]
               /\ UNCHANGED rec
  /\ UNCHANGED <<story, running, dom, journal, leftover, newest, metaBy, user, known>>

\* ocfs2_journal_init()
JournalInit(n) ==
  /\ osb[n].pc = "slot" /\ Freed(journal[osb[n].slot].by)
  /\ journal' = [journal EXCEPT ![osb[n].slot].by = n]
  /\ osb' = [osb EXCEPT ![n].pc = "journal", ![n].dirty = journal[osb[n].slot].dirty]
  /\ UNCHANGED <<story, running, dom, superBy, slotMap, leftover, newest, metaBy, rec, user, known>>

Replayed(s) == IF newest = s THEN 0 ELSE newest

\* ocfs2_journal_wipe() or the replay in jbd2_journal_load(), then
\* ocfs2_journal_toggle_dirty()
JournalLoad(n) ==
  /\ osb[n].pc = "journal"
  /\ LET s == osb[n].slot IN
       /\ journal' = [journal EXCEPT ![s].dirty = TRUE, ![s].gen = IF osb[n].dirty THEN @ + 1 ELSE @]
       /\ newest' = Replayed(s)
  /\ Pc(n, "loaded")
  /\ UNCHANGED <<story, running, dom, superBy, slotMap, leftover, metaBy, rec, user, known>>

\* Its own local alloc is recovered, then loaded; the truncate log stays.
LoadLocalAlloc(n) ==
  /\ osb[n].pc = "loaded"
  /\ LET s == osb[n].slot IN
       /\ osb' = [osb EXCEPT ![n].pc = "la", ![n].copy = IF osb[n].dirty THEN leftover[s] \intersect {"la"} ELSE {}]
       /\ leftover' = [leftover EXCEPT ![s] = @ \ {"la"}]
  /\ UNCHANGED <<story, running, dom, superBy, slotMap, journal, newest, metaBy, rec, user, known>>

\* ocfs2_recovery_thread(): recovery_map_set(); in which order the nodes are recovered
\* is left open.
RecordDead(o, v) == IF o.disabled THEN o ELSE [o EXCEPT !.dead = @ \union {v}]
Start(n, o) == IF o.disabled \/ o.dead = {} \/ rec[n].pc # "none" THEN rec ELSE [rec EXCEPT ![n] = [RecIdle EXCEPT !.pc = "start"]]

\* Mutant: a mount looks for no dead node
DiedThereNone(n) == {}

\* In a slot whose journal lock is to be had was a node that died.
DiedThere(n) == {s \in Slot : s # osb[n].slot /\ slotMap[s] # Nobody /\ Freed(journal[s].by)}

\* ocfs2_mark_dead_nodes(), ocfs2_compute_replay_slots()
MarkDeadNodes(n) ==
  /\ osb[n].pc = "la"
  /\ LET o == [osb[n] EXCEPT !.pc = "marked", !.gens = [s \in Slot |-> journal[s].gen],
                             !.replay = {s \in Slot : slotMap[s] = Nobody},
                             !.dead = @ \union {slotMap[s] : s \in DiedThere(n)}]
     IN /\ osb' = [osb EXCEPT ![n] = o]
        /\ rec' = Start(n, o)
  /\ UNCHANGED <<story, running, dom, superBy, slotMap, journal, leftover, newest, metaBy, user, known>>

\* ocfs2_super_unlock(), ocfs2_complete_mount_recovery()
MountDone(n) ==
  /\ osb[n].pc = "marked"
  /\ superBy' = NoOne
  /\ osb' = [Queue(n, <<Item(osb[n].slot, osb[n].copy)>> \o SetToSeq({Item(s, {}) : s \in osb[n].replay}))
               EXCEPT ![n].pc = "mounted", ![n].copy = {}, ![n].replay = {}]
  /\ UNCHANGED <<story, running, dom, slotMap, journal, leftover, newest, metaBy, rec, user, known>>

\* ocfs2_enable_quotas(), ocfs2_complete_quota_recovery(): an unclean quota file
\* of its own slot is recovered.
QuotasOn(n) ==
  /\ osb[n].pc = "mounted"
  /\ osb' = [osb EXCEPT ![n].pc = "up",
               ![n].cleanups = IF "quota" \in leftover[osb[n].slot]
                                 THEN Append(@, Item(osb[n].slot, {"quota"})) ELSE @]
  /\ UNCHANGED <<story, running, dom, superBy, slotMap, journal, leftover, newest, metaBy, rec, user, known>>

----------------------------------------------------------------------------
(* ocfs2_dismount_volume().                                                *)

\* ocfs2_shutdown_local_alloc(), ocfs2_truncate_log_shutdown(), the start of
\* ocfs2_recovery_exit(): the last two go through the journal.
Dismount(n) ==
  /\ osb[n].pc = "up" /\ story.umounts[n] > 0 /\ user[n] = "idle"
  /\ story' = [story EXCEPT !.umounts[n] = @ - 1]
  /\ leftover' = [leftover EXCEPT ![osb[n].slot] = {}]
  /\ osb' = [osb EXCEPT ![n].pc = "exit", ![n].disabled = TRUE]
  /\ UNCHANGED <<running, dom, superBy, slotMap, journal, newest, metaBy, rec, user, known>>
RecoveryExit(n) ==
  /\ osb[n].pc = "exit" /\ rec[n].pc = "none" /\ osb[n].cleanups = << >>
  /\ osb' = [osb EXCEPT ![n].pc = "put", ![n].dead = {}]
  /\ UNCHANGED <<story, running, dom, superBy, slotMap, journal, leftover, newest, metaBy, rec, user, known>>
PutSlot(n) ==
  /\ osb[n].pc = "put" /\ SuperLocked(n, "mount")
  /\ slotMap' = [ReadMap(n) EXCEPT ![osb[n].slot] = Nobody]
  /\ osb' = [osb EXCEPT ![n].pc = "unlock", ![n].si = [ReadMap(n) EXCEPT ![osb[n].slot] = Nobody]]
  /\ UNCHANGED <<story, running, dom, journal, leftover, newest, metaBy, rec, user, known>>
PutUnlock(n) ==
  /\ osb[n].pc = "unlock"
  /\ superBy' = NoOne
  /\ Pc(n, "shutdown")
  /\ UNCHANGED <<story, running, dom, slotMap, journal, leftover, newest, metaBy, rec, user, known>>
JournalShutdown(n) ==
  /\ osb[n].pc = "shutdown"
  /\ journal' = [journal EXCEPT ![osb[n].slot].dirty = FALSE, ![osb[n].slot].by = Nobody]
  /\ newest' = Replayed(osb[n].slot)
  /\ Pc(n, "leave")
  /\ UNCHANGED <<story, running, dom, superBy, slotMap, leftover, metaBy, rec, user, known>>
DlmShutdown(n) ==
  /\ osb[n].pc = "leave"
  /\ dom' = [m \in FsNode |-> IF m = n THEN {} ELSE dom[m] \ {n}]
  /\ osb' = [osb EXCEPT ![n] = Unmounted]
  /\ metaBy' = IF metaBy = n THEN Nobody ELSE metaBy
  /\ UNCHANGED <<story, running, superBy, slotMap, journal, leftover, newest, rec, user, known>>

----------------------------------------------------------------------------
(* Deaths, and __ocfs2_recovery_thread().                                  *)

\* Its slot is not taken in the map, or its journal has not been given up by another.
InGap(n) ==
  \/ osb[n].pc \in {"unlock", "shutdown"}
  \/ osb[n].pc = "slot" /\ journal[osb[n].slot].by \in running \ {n}

\* m has not heard of the last recovery of slot s.
NotHeard(m, s) == s # 0 /\ osb[m].pc \in {"marked", "mounted", "up", "exit"} /\ osb[m].gens[s] # journal[s].gen

\* What it recovered is replayed, but not cleaned up yet.
HalfDone(n) ==
  \/ rec[n].pc \in {"la", "clear"} \/ rec[n].quotas # {}
  \/ \E i \in DOMAIN osb[n].cleanups : "quota" \in osb[n].cleanups[i].work

FsDies(n) ==
  /\ n \in running /\ n \in story.frail /\ story.deaths > 0 /\ osb[n].pc # "out"
  /\ story' = [story EXCEPT !.deaths = @ - 1]
  /\ osb' = [osb EXCEPT ![n] = Unmounted]
  /\ rec' = [rec EXCEPT ![n] = RecIdle]
  /\ user' = [user EXCEPT ![n] = "idle"]
  /\ dom' = [dom EXCEPT ![n] = {}]
  /\ running' = running \ {n}
  /\ known' = known \union (IF InGap(n) THEN {"gap"} ELSE {})
                    \union (IF HalfDone(n) THEN {"half"} ELSE {})
                    \union (IF \E m \in running : n \in osb[m].dead THEN {"twice"} ELSE {})
                    \union (IF \E m \in running \ {n} : NotHeard(m, osb[n].slot) THEN {"reused"} ELSE {})
  /\ UNCHANGED <<superBy, slotMap, journal, leftover, newest, metaBy>>

\* It may boot and mount again when all have noticed, and its locks are gone.
Boots(n) ==
  /\ n \notin running /\ story.mounts[n] > 0
  /\ \A m \in running : n \notin dom[m]
  /\ running' = running \union {n}
  /\ superBy' = IF superBy[1] = n THEN NoOne ELSE superBy
  /\ journal' = [s \in Slot |-> IF journal[s].by = n THEN [journal[s] EXCEPT !.by = Nobody] ELSE journal[s]]
  /\ metaBy' = IF metaBy = n THEN Nobody ELSE metaBy
  /\ UNCHANGED <<story, dom, slotMap, leftover, newest, osb, rec, user, known>>

\* ocfs2_do_node_down(): the DLM's eviction callback
NodeDown(n, v) ==
  /\ n \in running /\ v \in dom[n] \ running
  /\ dom' = [dom EXCEPT ![n] = @ \ {v}]
  /\ LET o == RecordDead(osb[n], v) IN
       /\ osb' = [osb EXCEPT ![n] = o]
       /\ rec' = Start(n, o)
  /\ UNCHANGED <<story, running, superBy, slotMap, journal, leftover, newest, metaBy, user, known>>

\* After the mount: super lock, ocfs2_compute_replay_slots(), its own orphans
RecStart(n) ==
  /\ rec[n].pc = "start" /\ osb[n].pc \in {"mounted", "up", "exit"}
  /\ SuperLocked(n, "recovery")
  /\ osb' = [osb EXCEPT ![n].si = ReadMap(n),
                        ![n].replay = IF @ # {} THEN @ ELSE {s \in Slot : ReadMap(n)[s] = Nobody},
                        ![n].cleanups = Append(@, Item(osb[n].slot, {}))]
  /\ rec' = [rec EXCEPT ![n].pc = "next"]
  /\ UNCHANGED <<story, running, dom, slotMap, journal, leftover, newest, metaBy, user, known>>

\* The generation this node knew: another one began or ended the recovery
SomeoneElseDid(o, s) == o.gens[s] # journal[s].gen

\* rm_entries[0], ocfs2_node_num_to_slot(), ocfs2_replay_journal() as far as the lock
RecNext(n) ==
  /\ rec[n].pc = "next"
  /\ \E v \in osb[n].dead :
       LET s == NodeToSlot(osb[n].si, v)
           busy == s # 0 /\ SomeoneElseDid(osb[n], s)
       IN IF s = 0 \/ busy
             THEN /\ osb' = [osb EXCEPT ![n].dead = @ \ {v}, ![n].gens = IF busy THEN [@ EXCEPT ![s] = journal[s].gen] ELSE @]
                  /\ rec' = IF busy THEN [rec EXCEPT ![n].quotas = @ \union {s}] ELSE rec
             ELSE /\ rec' = [rec EXCEPT ![n].pc = "lock", ![n].victim = v, ![n].slot = s, ![n].quotas = @ \union {s}]
                  /\ UNCHANGED osb
  /\ UNCHANGED <<story, running, dom, superBy, slotMap, journal, leftover, newest, metaBy, user, known>>

\* With the journal's lock: a clean journal is not replayed
ReplayJournal(n) ==
  /\ rec[n].pc = "lock" /\ Freed(journal[rec[n].slot].by)
  /\ LET s == rec[n].slot IN
       IF journal[s].dirty
         THEN /\ journal' = [journal EXCEPT ![s] = [dirty |-> FALSE, gen |-> @.gen + 1, by |-> Nobody]]
              /\ newest' = Replayed(s)
              /\ osb' = [osb EXCEPT ![n].gens[s] = journal[s].gen + 1, ![n].need = TRUE]
         ELSE /\ journal' = [journal EXCEPT ![s].by = Nobody]
              /\ osb' = [osb EXCEPT ![n].gens[s] = journal[s].gen]
              /\ UNCHANGED newest
  /\ rec' = [rec EXCEPT ![n].pc = "la"]
  /\ UNCHANGED <<story, running, dom, superBy, slotMap, leftover, metaBy, user, known>>

\* ocfs2_begin_local_alloc_recovery(), ocfs2_begin_truncate_log_recovery(): both
\* are copied to memory and emptied on disk.
BeginCleanup(n) ==
  /\ rec[n].pc = "la"
  /\ osb' = [osb EXCEPT ![n].copy = leftover[rec[n].slot] \ {"quota"}]
  /\ leftover' = [leftover EXCEPT ![rec[n].slot] = @ \intersect {"quota"}]
  /\ rec' = [rec EXCEPT ![n].pc = "clear"]
  /\ UNCHANGED <<story, running, dom, superBy, slotMap, journal, newest, metaBy, user, known>>

\* ocfs2_clear_slot(), ocfs2_recovery_map_clear()
ClearSlot(n) ==
  /\ rec[n].pc = "clear"
  /\ slotMap' = [slotMap EXCEPT ![rec[n].slot] = Nobody]
  /\ osb' = [osb EXCEPT ![n].si[rec[n].slot] = Nobody, ![n].copy = {},
               ![n].cleanups = Append(@, Item(rec[n].slot, osb[n].copy)),
               ![n].dead = @ \ {rec[n].victim}]
  /\ rec' = [rec EXCEPT ![n].pc = "next"]
  /\ UNCHANGED <<story, running, dom, superBy, journal, leftover, newest, metaBy, user, known>>

\* ocfs2_check_journals_nolocks(), ocfs2_begin_quota_recovery(), super unlock,
\* ocfs2_queue_replay_slots()
RecFinish(n) ==
  /\ rec[n].pc = "next" /\ osb[n].dead = {}
  /\ superBy' = NoOne
  /\ osb' = [osb EXCEPT ![n].gens = [s \in Slot |-> journal[s].gen],
               ![n].cleanups = @ \o SetToSeq({Item(s, {"quota"}) : s \in rec[n].quotas})
                                 \o (IF osb[n].need THEN SetToSeq({Item(s, {}) : s \in osb[n].replay}) ELSE << >>)]
  /\ rec' = [rec EXCEPT ![n].pc = "end"]
  /\ UNCHANGED <<story, running, dom, slotMap, journal, leftover, newest, metaBy, user, known>>

\* Mutant: a death recorded late is forgotten
AgainNever(n) == FALSE

\* !ocfs2_recovery_completed()
Again(n) == osb[n].dead # {}

\* Under recovery_lock: again if another death was recorded
RecEnd(n) ==
  /\ rec[n].pc = "end"
  /\ IF Again(n)
       THEN /\ rec' = [rec EXCEPT ![n].pc = "start"]
            /\ UNCHANGED osb
       ELSE /\ rec' = [rec EXCEPT ![n] = RecIdle]
            /\ osb' = [osb EXCEPT ![n].replay = {}, ![n].need = FALSE]
  /\ UNCHANGED <<story, running, dom, superBy, slotMap, journal, leftover, newest, metaBy, user, known>>

\* ocfs2_complete_recovery(): after quotas are on. A quota file is skipped when
\* its slot has an owner who recovers it.
CompleteRecovery(n) ==
  /\ osb[n].cleanups # << >> /\ osb[n].pc \in {"up", "exit"}
  /\ LET i == Head(osb[n].cleanups) IN
       leftover' = IF "quota" \in i.work /\ (slotMap[i.slot] \in {Nobody, n})
                     THEN [leftover EXCEPT ![i.slot] = @ \ {"quota"}] ELSE leftover
  /\ osb' = [osb EXCEPT ![n].cleanups = Tail(@)]
  /\ UNCHANGED <<story, running, dom, superBy, slotMap, journal, newest, metaBy, rec, user, known>>

----------------------------------------------------------------------------
(* ocfs2_inode_lock_full_nested() of a task that changes the inode.        *)

Recovering(n) == osb[n].dead # {}
FsLock(n) ==
  /\ user[n] = "idle" /\ Mounted(n) /\ story.uses[n] > 0 /\ ~Recovering(n)
  /\ story' = [story EXCEPT !.uses[n] = @ - 1]
  /\ user' = [user EXCEPT ![n] = "dlm"]
  /\ UNCHANGED <<running, dom, superBy, slotMap, journal, leftover, newest, metaBy, osb, rec, known>>

\* The owner gives it up when its journal is flushed (ocfs2_ci_checkpointed()).
FsGranted(n) ==
  /\ user[n] = "dlm"
  /\ \/ metaBy = n \/ Freed(metaBy)
     \/ metaBy \in running /\ user[metaBy] \in {"idle", "dlm"} /\ newest # osb[metaBy].slot
  /\ metaBy' = n
  /\ known' = IF newest # 0 /\ slotMap[newest] \in dom[n] \ running THEN known \union {"unnoticed"} ELSE known
  /\ user' = [user EXCEPT ![n] = "again"]
  /\ UNCHANGED <<story, running, dom, superBy, slotMap, journal, leftover, newest, osb, rec>>

\* Mutant: without the second ocfs2_wait_for_recovery()
MayUseAtOnce(n) == TRUE

\* We wait twice
MayUse(n) == ~Recovering(n)
FsUse(n) ==
  /\ user[n] = "again" /\ MayUse(n)
  /\ user' = [user EXCEPT ![n] = "use"]
  /\ UNCHANGED <<story, running, dom, superBy, slotMap, journal, leftover, newest, metaBy, osb, rec, known>>

\* The change is in the journal alone, and leaves all kinds of work behind.
FsDone(n) ==
  /\ user[n] = "use"
  /\ newest' = osb[n].slot
  /\ leftover' = [leftover EXCEPT ![osb[n].slot] = Work]
  /\ user' = [user EXCEPT ![n] = "idle"]
  /\ UNCHANGED <<story, running, dom, superBy, slotMap, journal, metaBy, osb, rec, known>>

\* ocfs2_commit_cache()
CommitCache(n) ==
  /\ osb[n].slot # 0 /\ newest = osb[n].slot /\ user[n] # "use"
  /\ newest' = 0
  /\ UNCHANGED <<story, running, dom, superBy, slotMap, journal, leftover, metaBy, osb, rec, user, known>>

----------------------------------------------------------------------------
MountSteps(n) == \/ FsJoin(n) \/ FindSlot(n) \/ JournalInit(n) \/ JournalLoad(n) \/ LoadLocalAlloc(n)
                 \/ MarkDeadNodes(n) \/ MountDone(n) \/ QuotasOn(n)
UmountSteps(n) == \/ Dismount(n) \/ RecoveryExit(n) \/ PutSlot(n) \/ PutUnlock(n) \/ JournalShutdown(n) \/ DlmShutdown(n)
RecSteps(n) == \/ RecStart(n) \/ RecNext(n) \/ ReplayJournal(n) \/ BeginCleanup(n) \/ ClearSlot(n)
               \/ RecFinish(n) \/ RecEnd(n)
UserSteps(n) == FsLock(n) \/ FsGranted(n) \/ FsUse(n) \/ FsDone(n) \/ CommitCache(n)

FsWork ==
  \E n \in running : \/ MountSteps(n) \/ UmountSteps(n) \/ RecSteps(n) \/ UserSteps(n) \/ CompleteRecovery(n)
                     \/ \E v \in FsNode : NodeDown(n, v)
FsNext ==
  \/ FsWork
  \/ \E n \in FsNode : FsDies(n) \/ Boots(n)

FsSpec == FsInit /\ [][FsNext]_fsvars

----------------------------------------------------------------------------
\* A task uses the inode as it is newest: what another node's journal alone has
\* was replayed before.
FreshInode == \A n \in running : user[n] = "use" /\ known = {} => newest \in {0, osb[n].slot}

\* A slot has one owner: the node that mounted on it is in it, and no journal
\* of a live node is ever replayed or emptied for it.
OwnSlot ==
  \A n \in running : osb[n].pc \in {"loaded", "la", "marked", "mounted", "up", "exit", "put"} =>
    slotMap[osb[n].slot] = n /\ journal[osb[n].slot].dirty /\ journal[osb[n].slot].by = n

\* Nothing to do: nobody waits, mounts, unmounts, recovers or cleans up
Quiet ==
  \A n \in running : /\ osb[n].pc \in {"out", "up"} /\ osb[n].dead = {} /\ osb[n].cleanups = << >>
                      /\ rec[n].pc = "none" /\ user[n] = "idle" /\ dom[n] \subseteq running

\* A slot whose recovery generation is as it was needs recovery: its journal is
\* not that of a live node, who has mounted on the slot since.
NeedsRecovery == \A n \in running : rec[n].pc = "lock" => journal[rec[n].slot].by \notin running

\* Work goes on until there is none: nobody waits for ever for a lock, a
\* recovery or a mount, as long as no recovery is needless.
FsNoStandstill == NeedsRecovery /\ ~Quiet => ENABLED FsWork

\* When nothing is left to do and someone is mounted, no slot belongs to a dead
\* node, no journal without an owner is dirty, and nothing of a dead node is left.
AllCleanedUp ==
  Quiet /\ known \intersect {"gap", "twice", "reused", "half"} = {} /\ (\E n \in running : osb[n].pc = "up") =>
    \A s \in Slot :
      \/ slotMap[s] \in running /\ osb[slotMap[s]].slot = s
      \/ slotMap[s] = Nobody /\ ~journal[s].dirty /\ leftover[s] = {}
===============================================================================
