--------------------------- MODULE FsRecovery_proofs ---------------------------
(***************************************************************************)
(* A slot has one owner: a node that mounts, works or unmounts on a slot   *)
(* is in the slot map there, has the journal's lock, and its journal is    *)
(* dirty, for any number of nodes and slots, whoever dies, comes back and  *)
(* is recovered meanwhile. A task uses an inode as it is newest: what a    *)
(* dead node's journal alone had was replayed before. And when nothing is  *)
(* left to do, no slot of a dead node is left behind.                      *)
(***************************************************************************)
EXTENDS FsRecovery, FiniteSetTheorems, SequenceTheorems, WellFoundedInduction, TLAPS

\* Where a node is when its journal is dirty, it is in the slot map, it has the
\* journal's lock, the mount or unmount has the super lock.
InLoaded == {"loaded", "la", "marked", "mounted", "up", "exit", "put"}
InSlot == {"slot", "journal"} \union InLoaded
InJournal == {"journal", "unlock", "shutdown"} \union InLoaded
WithSuper == {"slot", "journal", "loaded", "la", "marked", "unlock"}
\* Where the recovery thread is when it has the super lock, and a victim's slot
RecSuper == {"next", "lock", "la", "clear"}
RecVictim == {"lock", "la", "clear"}
RecReplayed == {"la", "clear"}

Shape ==
  /\ running \subseteq FsNode
  /\ DOMAIN osb = FsNode /\ DOMAIN rec = FsNode /\ DOMAIN slotMap = Slot /\ DOMAIN journal = Slot
  /\ \A n \in FsNode : DOMAIN osb[n] = DOMAIN Unmounted /\ DOMAIN rec[n] = DOMAIN RecIdle
  /\ \A s \in Slot : DOMAIN journal[s] = {"dirty", "gen", "by"}

\* A node that does not run has no mount and no recovery thread.
DeadOut == \A n \in FsNode \ running : osb[n].pc = "out" /\ rec[n].pc = "none"

\* One task has the super lock, of the nodes that run.
SuperHeld == \A n \in running :
  /\ osb[n].pc \in WithSuper => superBy = <<n, "mount">>
  /\ rec[n].pc \in RecSuper => superBy = <<n, "recovery">>

\* OwnSlot, with the steps before and after it
SlotKept == \A n \in running :
  /\ osb[n].pc \in InSlot \union InJournal => osb[n].slot \in Slot
  /\ osb[n].pc \in InSlot => slotMap[osb[n].slot] = n
  /\ osb[n].pc \in InJournal => journal[osb[n].slot].by = n
  /\ osb[n].pc \in InLoaded => journal[osb[n].slot].dirty

\* Once a recovery has had the victim's journal, nobody is in that slot before the
\* recovery has cleared it in the slot map.
VictimGone == \A n \in running :
  /\ rec[n].pc \in RecVictim => rec[n].slot \in Slot
  /\ rec[n].pc \in RecReplayed =>
       \A m \in running : osb[m].pc \in InSlot \union InJournal => osb[m].slot # rec[n].slot

OwnInv == Shape /\ DeadOut /\ SuperHeld /\ SlotKept /\ VictimGone

\* A lock that a running node has is not to be had.
LEMMA HeldNotFreed ==
  ASSUME Shape, NEW b \in running
  PROVE  ~Freed(b)
BY FsAssumption DEF Shape, Freed, Nobody

\* Others stay where they are
Alone(n) ==
  /\ Shape'
  /\ UNCHANGED <<running, superBy, slotMap, journal>>
  /\ \A m \in FsNode \ {n} : /\ osb'[m].pc = osb[m].pc /\ osb'[m].slot = osb[m].slot
                             /\ rec'[m].pc = rec[m].pc /\ rec'[m].slot = rec[m].slot
MountStays(n) == osb'[n].pc = osb[n].pc /\ osb'[n].slot = osb[n].slot
RecStays(n) == rec'[n].pc = rec[n].pc /\ rec'[n].slot = rec[n].slot

\* Node n goes on without touching what others see, to a place where it needs no
\* more than it has.
LEMMA GoesOn ==
  ASSUME OwnInv, NEW n \in running, Alone(n),
         osb'[n].pc \in WithSuper => osb[n].pc \in WithSuper,
         osb'[n].pc \in InSlot => osb[n].pc \in InSlot,
         osb'[n].pc \in InJournal => osb[n].pc \in InJournal,
         osb'[n].pc \in InLoaded => osb[n].pc \in InLoaded,
         osb'[n].pc \in InSlot \union InJournal => osb'[n].slot = osb[n].slot,
         rec'[n].pc \in RecSuper => rec[n].pc \in RecSuper,
         rec'[n].pc \in RecVictim => rec'[n].slot \in Slot,
         rec'[n].pc \in RecReplayed => rec[n].pc \in RecReplayed /\ rec'[n].slot = rec[n].slot
  PROVE  OwnInv'
<1> USE DEF OwnInv, Alone
<1>1. running \subseteq FsNode
  BY DEF Shape
<1>2. DeadOut'
  BY <1>1 DEF DeadOut
<1>3. SuperHeld'
  BY <1>1 DEF SuperHeld
<1>4. SlotKept'
  BY <1>1 DEF SlotKept, InSlot
<1>5. VictimGone'
  <2>1. ASSUME NEW m \in running PROVE rec'[m].pc \in RecVictim => rec'[m].slot \in Slot
    BY <1>1, <2>1 DEF VictimGone
  <2>2. ASSUME NEW k \in running, rec'[k].pc \in RecReplayed,
               NEW m \in running, osb'[m].pc \in InSlot \union InJournal
        PROVE  osb'[m].slot # rec'[k].slot
    <3>1. rec[k].pc \in RecReplayed /\ rec'[k].slot = rec[k].slot
      BY <1>1, <2>2
    <3>2. osb[m].pc \in InSlot \union InJournal /\ osb'[m].slot = osb[m].slot
      BY <1>1, <2>2
    <3> QED
      BY <3>1, <3>2 DEF VictimGone
  <2> QED
    BY <2>1, <2>2 DEF VictimGone
<1> QED
  BY <1>2, <1>3, <1>4, <1>5

\* The steps that need GoesOn alone
QuietStep(n) ==
  \/ FsJoin(n) \/ LoadLocalAlloc(n) \/ MarkDeadNodes(n) \/ QuotasOn(n)
  \/ Dismount(n) \/ RecoveryExit(n) \/ DlmShutdown(n)
  \/ \E v \in FsNode : NodeDown(n, v)
  \/ RecNext(n) \/ BeginCleanup(n) \/ RecEnd(n) \/ CompleteRecovery(n)
  \/ UserSteps(n)

\* A recovery thread that starts has no lock yet.
LEMMA StartHarmless ==
  ASSUME Shape, NEW n \in FsNode, NEW o, rec' = Start(n, o)
  PROVE  /\ DOMAIN rec' = FsNode /\ \A m \in FsNode : DOMAIN rec'[m] = DOMAIN RecIdle
         /\ \A m \in FsNode \ {n} : rec'[m] = rec[m]
         /\ rec'[n] = rec[n] \/ rec'[n].pc = "start"
BY DEF Start, Shape, RecIdle

\* The quiet steps preserve the invariant.
LEMMA QuietKeeps ==
  ASSUME OwnInv, NEW n \in running, QuietStep(n)
  PROVE  OwnInv'
<1> USE DEF OwnInv, VictimGone, WithSuper, InSlot, InJournal, InLoaded, RecSuper, RecVictim, RecReplayed
<1> n \in FsNode
  BY DEF Shape
<1>1. CASE FsJoin(n)
  <2>1. Alone(n) /\ osb'[n].pc = "join" /\ RecStays(n)
    BY <1>1 DEF FsJoin, Alone, MountStays, RecStays, Shape, Unmounted
  <2> QED
    BY <2>1, GoesOn DEF RecStays
<1>2. CASE LoadLocalAlloc(n)
  <2>1. Alone(n) /\ osb[n].pc = "loaded" /\ osb'[n].pc = "la" /\ osb'[n].slot = osb[n].slot /\ RecStays(n)
    BY <1>2 DEF LoadLocalAlloc, Alone, MountStays, RecStays, Shape, Unmounted
  <2> QED
    BY <2>1, GoesOn DEF RecStays
<1>3. CASE MarkDeadNodes(n)
  <2>1. PICK o : rec' = Start(n, o)
    BY <1>3 DEF MarkDeadNodes
  <2>2. /\ osb[n].pc = "la" /\ osb'[n].pc = "marked" /\ osb'[n].slot = osb[n].slot
        /\ \A m \in FsNode \ {n} : osb'[m] = osb[m]
        /\ DOMAIN osb' = FsNode /\ \A m \in FsNode : DOMAIN osb'[m] = DOMAIN Unmounted
    BY <1>3 DEF MarkDeadNodes, Shape, Unmounted
  <2>3. UNCHANGED <<running, superBy, slotMap, journal>>
    BY <1>3 DEF MarkDeadNodes
  <2>4. Alone(n)
    BY <2>1, <2>2, <2>3, StartHarmless DEF Alone, Shape
  <2> QED
    BY <2>1, <2>2, <2>4, StartHarmless, GoesOn DEF RecStays, Alone
<1>4. CASE QuotasOn(n)
  <2>1. Alone(n) /\ osb[n].pc = "mounted" /\ osb'[n].pc = "up" /\ osb'[n].slot = osb[n].slot /\ RecStays(n)
    BY <1>4 DEF QuotasOn, Alone, MountStays, RecStays, Shape, Unmounted
  <2> QED
    BY <2>1, GoesOn DEF RecStays
<1>5. CASE Dismount(n)
  <2>1. Alone(n) /\ osb[n].pc = "up" /\ osb'[n].pc = "exit" /\ osb'[n].slot = osb[n].slot /\ RecStays(n)
    BY <1>5 DEF Dismount, Alone, MountStays, RecStays, Shape, Unmounted
  <2> QED
    BY <2>1, GoesOn DEF RecStays
<1>6. CASE RecoveryExit(n)
  <2>1. Alone(n) /\ osb[n].pc = "exit" /\ osb'[n].pc = "put" /\ osb'[n].slot = osb[n].slot /\ RecStays(n)
    BY <1>6 DEF RecoveryExit, Alone, MountStays, RecStays, Shape, Unmounted
  <2> QED
    BY <2>1, GoesOn DEF RecStays
<1>7. CASE DlmShutdown(n)
  <2>1. Alone(n) /\ osb'[n].pc = "out" /\ RecStays(n)
    BY <1>7 DEF DlmShutdown, Alone, MountStays, RecStays, Shape, Unmounted
  <2> QED
    BY <2>1, GoesOn DEF RecStays
<1>8. CASE \E v \in FsNode : NodeDown(n, v)
  <2>1. PICK v \in FsNode : NodeDown(n, v)
    BY <1>8
  <2>2. MountStays(n) /\ DOMAIN RecordDead(osb[n], v) = DOMAIN Unmounted
    BY <2>1 DEF NodeDown, RecordDead, MountStays, Shape, Unmounted
  <2>3. /\ \A m \in FsNode \ {n} : osb'[m] = osb[m]
        /\ DOMAIN osb' = FsNode /\ \A m \in FsNode : DOMAIN osb'[m] = DOMAIN Unmounted
    BY <2>1, <2>2 DEF NodeDown, Shape
  <2>4. Alone(n)
    BY <2>1, <2>3, StartHarmless DEF NodeDown, Alone, Shape
  <2> QED
    BY <2>1, <2>2, <2>4, StartHarmless, GoesOn DEF NodeDown, MountStays, Alone
<1>9. CASE RecNext(n)
  <2>1. Alone(n) /\ MountStays(n) /\ rec[n].pc = "next"
    BY <1>9 DEF RecNext, Alone, MountStays, RecStays, Shape, Unmounted, RecIdle
  <2>2. RecStays(n) \/ (rec'[n].pc = "lock" /\ rec'[n].slot \in Slot)
    <3>1. ASSUME NEW si, NEW v PROVE NodeToSlot(si, v) = 0 \/ NodeToSlot(si, v) \in Slot
      BY DEF NodeToSlot
    <3> QED
      BY <1>9, <3>1 DEF RecNext, RecStays, Shape, RecIdle
  <2> QED
    BY <2>1, <2>2, GoesOn DEF MountStays, RecStays
<1>10. CASE BeginCleanup(n)
  <2>1. Alone(n) /\ MountStays(n) /\ rec[n].pc = "la" /\ rec'[n].pc = "clear" /\ rec'[n].slot = rec[n].slot
    BY <1>10
    DEF BeginCleanup, RecIdle, Alone, MountStays, RecStays, Shape, Unmounted
  <2> QED
    BY <2>1, GoesOn DEF MountStays
<1>11. CASE RecEnd(n)
  <2>1. Alone(n) /\ MountStays(n) /\ rec'[n].pc \in {"start", "none"}
    BY <1>11 DEF RecEnd, RecIdle, Alone, MountStays, RecStays, Shape, Unmounted
  <2> QED
    BY <2>1, GoesOn DEF MountStays
<1>12. CASE CompleteRecovery(n)
  <2>1. Alone(n) /\ MountStays(n) /\ RecStays(n)
    BY <1>12 DEF CompleteRecovery, Alone, MountStays, RecStays, Shape, Unmounted
  <2> QED
    BY <2>1, GoesOn DEF MountStays, RecStays
<1>13. CASE UserSteps(n)
  <2>1. Alone(n) /\ MountStays(n) /\ RecStays(n)
    BY <1>13
    DEF UserSteps, FsLock, FsGranted, FsUse, FsDone, CommitCache, Alone,
        MountStays, RecStays, Shape, Unmounted
  <2> QED
    BY <2>1, GoesOn DEF MountStays, RecStays
<1> QED
  BY <1>1, <1>2, <1>3, <1>4, <1>5, <1>6, <1>7, <1>8, <1>9, <1>10, <1>11, <1>12,
     <1>13
  DEF QuietStep

----------------------------------------------------------------------------
(* The super lock.                                                         *)

\* Whoever finds the super lock free finds every running node without it.
LEMMA SuperFree ==
  ASSUME OwnInv, Freed(superBy[1]), NEW m \in running
  PROVE  osb[m].pc \notin WithSuper /\ rec[m].pc \notin RecSuper
BY HeldNotFreed DEF OwnInv, SuperHeld

\* A mount or unmount that has the super lock has it alone.
LEMMA SuperOfMount ==
  ASSUME OwnInv, NEW n \in running, osb[n].pc \in WithSuper, NEW m \in running
  PROVE  (osb[m].pc \in WithSuper => m = n) /\ rec[m].pc \notin RecSuper
<1>1. superBy = <<n, "mount">>
  BY DEF OwnInv, SuperHeld
<1>2. superBy # <<m, "recovery">> /\ (superBy = <<m, "mount">> => m = n)
  BY <1>1
<1> QED
  BY <1>2 DEF OwnInv, SuperHeld

\* A recovery that has the super lock has it alone.
LEMMA SuperOfRecovery ==
  ASSUME OwnInv, NEW n \in running, rec[n].pc \in RecSuper, NEW m \in running
  PROVE  (rec[m].pc \in RecSuper => m = n) /\ osb[m].pc \notin WithSuper
<1>1. superBy = <<n, "recovery">>
  BY DEF OwnInv, SuperHeld
<1>2. superBy # <<m, "mount">> /\ (superBy = <<m, "recovery">> => m = n)
  BY <1>1
<1> QED
  BY <1>2 DEF OwnInv, SuperHeld

\* Any set of slots has a lowest.
LEMMA LowestSlot ==
  ASSUME NEW S \in SUBSET Slot, S # {}
  PROVE  Min(S) \in S
<1>1. S \subseteq Nat
  BY FsAssumption DEF Slot
<1>2. IsWellFoundedOn(OpToRel(<, Nat), Nat)
  BY NatLessThanWellFounded
<1>3. PICK x \in S : \A y \in S : <<y, x>> \notin OpToRel(<, Nat)
  BY <1>1, <1>2, WFMin
<1>4. \A y \in S : ~(y < x)
  BY <1>1, <1>3 DEF OpToRel
<1>5. \A y \in S : x <= y
  BY <1>1, <1>4
<1> QED
  BY <1>5 DEF Min

----------------------------------------------------------------------------
(* Mount and unmount.                                                      *)

\* ocfs2_find_slot: the slot taken is free or the node's own, and no recovery has the
\* super lock meanwhile.
LEMMA FindSlotKeeps ==
  ASSUME OwnInv, NEW n \in running, FindSlot(n)
  PROVE  OwnInv'
<1> USE DEF OwnInv
<1> n \in FsNode
  BY DEF Shape
<1> DEFINE mine == NodeToSlot(slotMap, n)
           free == {s \in Slot : slotMap[s] = Nobody}
           t == IF mine # 0 THEN mine ELSE IF free = {} THEN 0 ELSE Min(free)
<1>1. mine # 0 => mine \in Slot /\ slotMap[mine] = n
  BY DEF NodeToSlot
<1>2. free # {} => Min(free) \in free
  BY LowestSlot
<1>3. t # 0 => t \in Slot /\ slotMap[t] \in {n, Nobody}
  BY <1>1, <1>2
<1>4. /\ osb[n].pc = "join" /\ Freed(superBy[1])
      /\ t = 0 => /\ osb' = [osb EXCEPT ![n] = [Unmounted EXCEPT !.pc = "leave", !.disabled = TRUE]]
                  /\ rec' = [rec EXCEPT ![n] = RecIdle]
                  /\ UNCHANGED <<superBy, slotMap>>
      /\ t # 0 => /\ superBy' = <<n, "mount">>
                  /\ slotMap' = [slotMap EXCEPT ![t] = n]
                  /\ osb' = [osb EXCEPT ![n].pc = "slot", ![n].slot = t, ![n].si = [slotMap EXCEPT ![t] = n]]
                  /\ rec' = rec
      /\ UNCHANGED <<running, journal>>
  BY DEF FindSlot, SuperLocked, ReadMap
<1> HIDE DEF t
<1>5. CASE t = 0
  <2> DEFINE o == [Unmounted EXCEPT !.pc = "leave", !.disabled = TRUE]
  <2>1. DOMAIN o = DOMAIN Unmounted /\ o.pc = "leave"
    BY DEF Unmounted
  <2>2. osb' = [osb EXCEPT ![n] = o] /\ rec' = [rec EXCEPT ![n] = RecIdle]
        /\ UNCHANGED <<running, superBy, slotMap, journal>>
    BY <1>4, <1>5
  <2> HIDE DEF o
  <2>3. RecIdle.pc = "none"
    BY DEF RecIdle
  <2>4. Alone(n) /\ osb'[n].pc = "leave" /\ rec'[n].pc = "none"
    BY <2>1, <2>2, <2>3 DEF Alone, Shape
  <2> QED
    BY <2>4, GoesOn
    DEF WithSuper, InSlot, InJournal, InLoaded, RecSuper, RecVictim, RecReplayed
<1>6. CASE t # 0
  <2>1. /\ superBy' = <<n, "mount">> /\ slotMap' = [slotMap EXCEPT ![t] = n]
        /\ osb'[n].pc = "slot" /\ osb'[n].slot = t
        /\ \A m \in FsNode \ {n} : osb'[m] = osb[m]
        /\ UNCHANGED <<running, journal, rec>>
    BY <1>4, <1>6 DEF Shape, Unmounted
  <2>2. Shape'
    BY <1>4, <1>6 DEF Shape, Unmounted
  <2>3. DeadOut'
    BY <2>1, <2>2 DEF DeadOut, Shape
  <2>4. SuperHeld'
    BY <1>4, <2>1, <2>2, SuperFree DEF SuperHeld, Shape
  <2>5. SlotKept'
    <3>1. ASSUME NEW m \in running, m # n, osb[m].pc \in InSlot
          PROVE  slotMap'[osb[m].slot] = m
      BY <1>3, <1>6, <2>1, <3>1, FsAssumption DEF SlotKept, Shape, Nobody
    <3> QED
      BY <1>3, <1>6, <2>1, <2>2, <3>1
      DEF SlotKept, Shape, InSlot, InJournal, InLoaded
  <2>6. VictimGone'
    BY <1>4, <2>1, SuperFree DEF VictimGone, RecSuper, RecVictim, RecReplayed
  <2> QED
    BY <2>2, <2>3, <2>4, <2>5, <2>6
<1> QED
  BY <1>5, <1>6

\* ocfs2_journal_init: the journal's lock is to be had, so nobody else is past it.
LEMMA JournalInitKeeps ==
  ASSUME OwnInv, NEW n \in running, JournalInit(n)
  PROVE  OwnInv'
<1> USE DEF OwnInv
<1> n \in FsNode
  BY DEF Shape
<1>1. /\ osb[n].pc = "slot" /\ osb'[n].pc = "journal" /\ osb'[n].slot = osb[n].slot
      /\ \A m \in FsNode \ {n} : osb'[m] = osb[m]
      /\ Freed(journal[osb[n].slot].by)
      /\ journal' = [journal EXCEPT ![osb[n].slot].by = n]
      /\ UNCHANGED <<running, superBy, slotMap, rec>>
  BY DEF JournalInit, Shape, Unmounted
<1>2. Shape'
  BY <1>1 DEF JournalInit, Shape, Unmounted
<1>3. DeadOut'
  BY <1>1, <1>2 DEF DeadOut, Shape
<1>4. SuperHeld'
  BY <1>1, <1>2 DEF SuperHeld, Shape, WithSuper
<1>5. SlotKept'
  <2>1. osb[n].slot \in Slot /\ slotMap[osb[n].slot] = n
    BY <1>1 DEF SlotKept, InSlot
  <2>2. ASSUME NEW m \in running, m # n, osb[m].pc \in InJournal
        PROVE  osb[m].slot # osb[n].slot
    BY <1>1, <2>2, HeldNotFreed DEF SlotKept
  <2>3. \A s \in Slot : s # osb[n].slot => journal'[s] = journal[s]
    BY <1>1 DEF Shape
  <2>4. journal'[osb[n].slot].by = n
    BY <1>1, <2>1 DEF Shape
  <2> QED
    BY <1>1, <1>2, <2>1, <2>2, <2>3, <2>4
    DEF SlotKept, Shape, InSlot, InJournal, InLoaded
<1>6. VictimGone'
  BY <1>1, <1>2 DEF VictimGone, Shape, InSlot, InJournal, InLoaded
<1> QED
  BY <1>2, <1>3, <1>4, <1>5, <1>6

\* ocfs2_journal_load: the journal becomes dirty under its lock.
LEMMA JournalLoadKeeps ==
  ASSUME OwnInv, NEW n \in running, JournalLoad(n)
  PROVE  OwnInv'
<1> USE DEF OwnInv
<1> n \in FsNode
  BY DEF Shape
<1>1. /\ osb[n].pc = "journal" /\ osb'[n].pc = "loaded" /\ osb'[n].slot = osb[n].slot
      /\ \A m \in FsNode \ {n} : osb'[m] = osb[m]
      /\ DOMAIN journal' = Slot
      /\ \A s \in Slot : journal'[s].by = journal[s].by /\ (journal[s].dirty => journal'[s].dirty)
      /\ osb[n].slot \in Slot => journal'[osb[n].slot].dirty
      /\ UNCHANGED <<running, superBy, slotMap, rec>>
  BY DEF JournalLoad, Pc, Shape, Unmounted
<1>2. Shape'
  BY <1>1 DEF JournalLoad, Pc, Shape, Unmounted
<1>3. DeadOut'
  BY <1>1, <1>2 DEF DeadOut, Shape
<1>4. SuperHeld'
  BY <1>1, <1>2 DEF SuperHeld, Shape, WithSuper
<1>5. SlotKept'
  BY <1>1, <1>2 DEF SlotKept, Shape, InSlot, InJournal, InLoaded
<1>6. VictimGone'
  BY <1>1, <1>2 DEF VictimGone, Shape, InSlot, InJournal, InLoaded
<1> QED
  BY <1>2, <1>3, <1>4, <1>5, <1>6

\* End of the mount: the super lock is given back, the slot is kept.
LEMMA MountDoneKeeps ==
  ASSUME OwnInv, NEW n \in running, MountDone(n)
  PROVE  OwnInv'
<1> USE DEF OwnInv
<1> n \in FsNode
  BY DEF Shape
<1>1. /\ osb[n].pc = "marked" /\ osb'[n].pc = "mounted" /\ osb'[n].slot = osb[n].slot
      /\ \A m \in FsNode \ {n} : osb'[m] = osb[m]
      /\ DOMAIN osb' = FsNode /\ DOMAIN osb'[n] = DOMAIN osb[n]
      /\ UNCHANGED <<running, slotMap, journal, rec>>
  BY DEF MountDone, Queue, Shape, Unmounted
<1>2. Shape'
  BY <1>1 DEF Shape
<1>3. DeadOut'
  BY <1>1, <1>2 DEF DeadOut, Shape
<1>4. SuperHeld'
  BY <1>1, <1>2, SuperOfMount DEF SuperHeld, Shape, WithSuper
<1>5. SlotKept'
  BY <1>1, <1>2 DEF SlotKept, Shape, InSlot, InJournal, InLoaded
<1>6. VictimGone'
  BY <1>1, <1>2 DEF VictimGone, Shape, InSlot, InJournal, InLoaded
<1> QED
  BY <1>2, <1>3, <1>4, <1>5, <1>6

\* ocfs2_put_slot: only the node's own slot becomes free.
LEMMA PutSlotKeeps ==
  ASSUME OwnInv, NEW n \in running, PutSlot(n)
  PROVE  OwnInv'
<1> USE DEF OwnInv
<1> n \in FsNode
  BY DEF Shape
<1>1. /\ osb[n].pc = "put" /\ osb'[n].pc = "unlock" /\ osb'[n].slot = osb[n].slot
      /\ \A m \in FsNode \ {n} : osb'[m] = osb[m]
      /\ Freed(superBy[1]) /\ superBy' = <<n, "mount">>
      /\ slotMap' = [slotMap EXCEPT ![osb[n].slot] = Nobody]
      /\ UNCHANGED <<running, journal, rec>>
  BY DEF PutSlot, SuperLocked, ReadMap, Shape, Unmounted
<1>2. Shape'
  BY <1>1 DEF PutSlot, SuperLocked, ReadMap, Shape, Unmounted
<1>3. DeadOut'
  BY <1>1, <1>2 DEF DeadOut, Shape
<1>4. SuperHeld'
  BY <1>1, <1>2, SuperFree DEF SuperHeld, Shape
<1>5. SlotKept'
  <2>1. osb[n].slot \in Slot /\ slotMap[osb[n].slot] = n /\ journal[osb[n].slot].by = n
    BY <1>1 DEF SlotKept, InSlot, InJournal, InLoaded
  <2>2. ASSUME NEW m \in running, m # n, osb[m].pc \in InSlot
        PROVE  slotMap'[osb[m].slot] = slotMap[osb[m].slot]
    BY <1>1, <2>1, <2>2 DEF SlotKept, Shape
  <2> QED
    BY <1>1, <1>2, <2>1, <2>2 DEF SlotKept, Shape, InSlot, InJournal, InLoaded
<1>6. VictimGone'
  BY <1>1, <1>2, SuperFree
  DEF VictimGone, Shape, RecSuper, RecVictim, RecReplayed
<1> QED
  BY <1>2, <1>3, <1>4, <1>5, <1>6

\* End of ocfs2_put_slot: the super lock is given back.
LEMMA PutUnlockKeeps ==
  ASSUME OwnInv, NEW n \in running, PutUnlock(n)
  PROVE  OwnInv'
<1> USE DEF OwnInv
<1> n \in FsNode
  BY DEF Shape
<1>1. /\ osb[n].pc = "unlock" /\ osb'[n].pc = "shutdown" /\ osb'[n].slot = osb[n].slot
      /\ \A m \in FsNode \ {n} : osb'[m] = osb[m]
      /\ UNCHANGED <<running, slotMap, journal, rec>>
  BY DEF PutUnlock, Pc, Shape, Unmounted
<1>2. Shape'
  BY <1>1 DEF PutUnlock, Pc, Shape, Unmounted
<1>3. DeadOut'
  BY <1>1, <1>2 DEF DeadOut, Shape
<1>4. SuperHeld'
  BY <1>1, <1>2, SuperOfMount DEF SuperHeld, Shape, WithSuper
<1>5. SlotKept'
  BY <1>1, <1>2 DEF SlotKept, Shape, InSlot, InJournal, InLoaded
<1>6. VictimGone'
  BY <1>1, <1>2 DEF VictimGone, Shape, InSlot, InJournal, InLoaded
<1> QED
  BY <1>2, <1>3, <1>4, <1>5, <1>6

\* ocfs2_journal_shutdown: a clean journal, whose lock nobody else has.
LEMMA JournalShutdownKeeps ==
  ASSUME OwnInv, NEW n \in running, JournalShutdown(n)
  PROVE  OwnInv'
<1> USE DEF OwnInv
<1> n \in FsNode
  BY DEF Shape
<1>1. /\ osb[n].pc = "shutdown" /\ osb'[n].pc = "leave"
      /\ \A m \in FsNode \ {n} : osb'[m] = osb[m]
      /\ UNCHANGED <<running, superBy, slotMap, rec>>
      /\ \A s \in Slot : s # osb[n].slot => journal'[s] = journal[s]
  BY DEF JournalShutdown, Pc, Shape, Unmounted
<1>2. Shape'
  BY <1>1 DEF JournalShutdown, Pc, Shape, Unmounted
<1>3. DeadOut'
  BY <1>1, <1>2 DEF DeadOut, Shape
<1>4. SuperHeld'
  BY <1>1, <1>2 DEF SuperHeld, Shape, WithSuper
<1>5. SlotKept'
  <2>1. journal[osb[n].slot].by = n
    BY <1>1 DEF SlotKept, InJournal
  <2>2. ASSUME NEW m \in running, m # n, osb[m].pc \in InJournal
        PROVE  osb[m].slot # osb[n].slot
    BY <2>1, <2>2 DEF SlotKept
  <2> QED
    BY <1>1, <1>2, <2>2 DEF SlotKept, Shape, InSlot, InJournal, InLoaded
<1>6. VictimGone'
  BY <1>1, <1>2 DEF VictimGone, Shape, InSlot, InJournal, InLoaded
<1> QED
  BY <1>2, <1>3, <1>4, <1>5, <1>6

----------------------------------------------------------------------------
(* Recovery.                                                               *)

\* __ocfs2_recovery_thread takes the super lock, which nobody has.
LEMMA RecStartKeeps ==
  ASSUME OwnInv, NEW n \in running, RecStart(n)
  PROVE  OwnInv'
<1> USE DEF OwnInv
<1> n \in FsNode
  BY DEF Shape
<1>1. /\ rec[n].pc = "start" /\ rec'[n].pc = "next"
      /\ \A m \in FsNode : osb'[m].pc = osb[m].pc /\ osb'[m].slot = osb[m].slot
      /\ \A m \in FsNode \ {n} : rec'[m] = rec[m]
      /\ Freed(superBy[1]) /\ superBy' = <<n, "recovery">>
      /\ DOMAIN osb' = FsNode /\ \A m \in FsNode : DOMAIN osb'[m] = DOMAIN osb[m]
      /\ DOMAIN rec' = FsNode /\ DOMAIN rec'[n] = DOMAIN rec[n]
      /\ UNCHANGED <<running, slotMap, journal>>
  BY DEF RecStart, SuperLocked, Shape, Unmounted, RecIdle
<1>2. Shape'
  BY <1>1 DEF Shape
<1>3. DeadOut'
  BY <1>1, <1>2 DEF DeadOut, Shape
<1>4. SuperHeld'
  BY <1>1, <1>2, SuperFree DEF SuperHeld, Shape
<1>5. SlotKept'
  BY <1>1, <1>2 DEF SlotKept, Shape
<1>6. VictimGone'
  BY <1>1, <1>2 DEF VictimGone, Shape, RecVictim, RecReplayed
<1> QED
  BY <1>2, <1>3, <1>4, <1>5, <1>6

\* ocfs2_replay_journal: who has the victim's journal knows that nobody is in the slot.
LEMMA ReplayJournalKeeps ==
  ASSUME OwnInv, NEW n \in running, ReplayJournal(n)
  PROVE  OwnInv'
<1> USE DEF OwnInv
<1> n \in FsNode
  BY DEF Shape
<1>a. ASSUME NEW m \in running, osb[m].pc \in InSlot \union InJournal, rec[n].pc = "lock",
             Freed(journal[rec[n].slot].by)
      PROVE  osb[m].slot # rec[n].slot
  <2>1. osb[m].pc # "slot"
    BY <1>a, SuperOfRecovery DEF RecSuper, WithSuper
  <2>2. osb[m].pc \in InJournal
    BY <1>a, <2>1 DEF InSlot, InJournal
  <2> QED
    BY <1>a, <2>2, HeldNotFreed DEF SlotKept
<1>1. /\ rec[n].pc = "lock" /\ rec'[n].pc = "la" /\ rec'[n].slot = rec[n].slot
      /\ \A m \in FsNode : osb'[m].pc = osb[m].pc /\ osb'[m].slot = osb[m].slot
      /\ \A m \in FsNode \ {n} : rec'[m] = rec[m]
      /\ Freed(journal[rec[n].slot].by)
      /\ \A s \in Slot : s # rec[n].slot => journal'[s] = journal[s]
      /\ UNCHANGED <<running, superBy, slotMap>>
  BY DEF ReplayJournal, Shape, Unmounted, RecIdle
<1>2. Shape'
  BY <1>1 DEF ReplayJournal, Shape, Unmounted, RecIdle
<1>3. DeadOut'
  BY <1>1, <1>2 DEF DeadOut, Shape
<1>4. SuperHeld'
  BY <1>1, <1>2 DEF SuperHeld, Shape, RecSuper
<1>5. SlotKept'
  BY <1>a, <1>1, <1>2 DEF SlotKept, Shape, InSlot, InJournal
<1>6. VictimGone'
  <2>1. ASSUME NEW m \in running PROVE rec'[m].pc \in RecVictim => rec'[m].slot \in Slot
    BY <1>1, <1>2 DEF VictimGone, Shape, RecVictim
  <2> QED
    BY <1>a, <1>1, <1>2, <2>1 DEF VictimGone, Shape, RecReplayed
<1> QED
  BY <1>2, <1>3, <1>4, <1>5, <1>6

\* ocfs2_clear_slot: nobody is in the slot that becomes free.
LEMMA ClearSlotKeeps ==
  ASSUME OwnInv, NEW n \in running, ClearSlot(n)
  PROVE  OwnInv'
<1> USE DEF OwnInv
<1> n \in FsNode
  BY DEF Shape
<1>1. /\ rec[n].pc = "clear" /\ rec'[n].pc = "next"
      /\ \A m \in FsNode : osb'[m].pc = osb[m].pc /\ osb'[m].slot = osb[m].slot
      /\ \A m \in FsNode \ {n} : rec'[m] = rec[m]
      /\ slotMap' = [slotMap EXCEPT ![rec[n].slot] = Nobody]
      /\ UNCHANGED <<running, superBy, journal>>
  BY DEF ClearSlot, Shape, Unmounted, RecIdle
<1>2. Shape'
  BY <1>1 DEF ClearSlot, Shape, Unmounted, RecIdle
<1>3. DeadOut'
  BY <1>1, <1>2 DEF DeadOut, Shape
<1>4. SuperHeld'
  BY <1>1, <1>2 DEF SuperHeld, Shape, RecSuper
<1>5. SlotKept'
  <2>1. ASSUME NEW m \in running, osb[m].pc \in InSlot
        PROVE  slotMap'[osb[m].slot] = slotMap[osb[m].slot]
    BY <1>1, <2>1 DEF SlotKept, VictimGone, Shape, RecReplayed
  <2> QED
    BY <1>1, <1>2, <2>1 DEF SlotKept, Shape
<1>6. VictimGone'
  BY <1>1, <1>2 DEF VictimGone, Shape, RecVictim, RecReplayed
<1> QED
  BY <1>2, <1>3, <1>4, <1>5, <1>6

\* The recovery gives back the super lock.
LEMMA RecFinishKeeps ==
  ASSUME OwnInv, NEW n \in running, RecFinish(n)
  PROVE  OwnInv'
<1> USE DEF OwnInv
<1> n \in FsNode
  BY DEF Shape
<1>1. /\ rec[n].pc = "next" /\ rec'[n].pc = "end"
      /\ \A m \in FsNode : osb'[m].pc = osb[m].pc /\ osb'[m].slot = osb[m].slot
      /\ \A m \in FsNode \ {n} : rec'[m] = rec[m]
      /\ UNCHANGED <<running, slotMap, journal>>
  BY DEF RecFinish, Shape, Unmounted, RecIdle
<1>2. Shape'
  BY <1>1 DEF RecFinish, Shape, Unmounted, RecIdle
<1>3. DeadOut'
  BY <1>1, <1>2 DEF DeadOut, Shape
<1>4. SuperHeld'
  BY <1>1, <1>2, SuperOfRecovery DEF SuperHeld, Shape, RecSuper
<1>5. SlotKept'
  BY <1>1, <1>2 DEF SlotKept, Shape
<1>6. VictimGone'
  BY <1>1, <1>2 DEF VictimGone, Shape, RecVictim, RecReplayed
<1> QED
  BY <1>2, <1>3, <1>4, <1>5, <1>6

----------------------------------------------------------------------------
(* Nodes that die and come back.                                           *)

\* A death takes nothing from the others.
LEMMA DeathKeeps ==
  ASSUME OwnInv, NEW n \in FsNode, FsDies(n)
  PROVE  OwnInv'
<1> USE DEF OwnInv
<1>1. /\ running' = running \ {n}
      /\ osb'[n].pc = "out" /\ rec'[n].pc = "none"
      /\ \A m \in FsNode \ {n} : osb'[m] = osb[m] /\ rec'[m] = rec[m]
      /\ UNCHANGED <<superBy, slotMap, journal>>
  BY DEF FsDies, Shape, Unmounted, RecIdle
<1>2. Shape'
  BY <1>1 DEF FsDies, Shape
<1>3. DeadOut'
  BY <1>1 DEF DeadOut
<1>4. SuperHeld'
  BY <1>1, <1>2 DEF SuperHeld, Shape
<1>5. SlotKept'
  BY <1>1, <1>2 DEF SlotKept, Shape
<1>6. VictimGone'
  BY <1>1, <1>2 DEF VictimGone, Shape
<1> QED
  BY <1>2, <1>3, <1>4, <1>5, <1>6

\* What a node that comes back loses, it had before its death.
LEMMA BootKeeps ==
  ASSUME OwnInv, NEW n \in FsNode, Boots(n)
  PROVE  OwnInv'
<1> USE DEF OwnInv
<1>1. /\ n \notin running /\ running' = running \union {n}
      /\ superBy' = IF superBy[1] = n THEN NoOne ELSE superBy
      /\ \A s \in Slot : journal[s].by # n => journal'[s] = journal[s]
      /\ UNCHANGED <<slotMap, osb, rec>>
  BY DEF Boots
<1>2. Shape'
  BY <1>1 DEF Boots, Shape
<1>3. osb[n].pc = "out" /\ rec[n].pc = "none"
  BY <1>1 DEF DeadOut
<1>4. DeadOut'
  BY <1>1 DEF DeadOut
<1>5. SuperHeld'
  BY <1>1, <1>3 DEF SuperHeld, WithSuper, RecSuper
<1>6. SlotKept'
  BY <1>1, <1>3 DEF SlotKept, InSlot, InJournal, InLoaded
<1>7. VictimGone'
  BY <1>1, <1>3
  DEF VictimGone, InSlot, InJournal, InLoaded, RecVictim, RecReplayed
<1> QED
  BY <1>2, <1>4, <1>5, <1>6, <1>7

----------------------------------------------------------------------------
\* Nobody is in a slot at the start.
LEMMA StartsOwned == FsInit => OwnInv
BY DEF FsInit, OwnInv, Shape, DeadOut, SuperHeld, SlotKept, VictimGone,
       Unmounted, RecIdle, InSlot, InJournal, InLoaded, WithSuper, RecSuper,
       RecVictim, RecReplayed

\* Every step preserves the invariant.
LEMMA StepKeeps == OwnInv /\ [FsNext]_fsvars => OwnInv'
<1> SUFFICES ASSUME OwnInv, [FsNext]_fsvars PROVE OwnInv'
  OBVIOUS
<1>1. ASSUME NEW n \in running, MountSteps(n) PROVE OwnInv'
  BY <1>1, QuietKeeps, FindSlotKeeps, JournalInitKeeps, JournalLoadKeeps,
     MountDoneKeeps
  DEF MountSteps, QuietStep
<1>2. ASSUME NEW n \in running, UmountSteps(n) PROVE OwnInv'
  BY <1>2, QuietKeeps, PutSlotKeeps, PutUnlockKeeps, JournalShutdownKeeps
  DEF UmountSteps, QuietStep
<1>3. ASSUME NEW n \in running, RecSteps(n) PROVE OwnInv'
  BY <1>3, QuietKeeps, RecStartKeeps, ReplayJournalKeeps, ClearSlotKeeps,
     RecFinishKeeps
  DEF RecSteps, QuietStep
<1>4. ASSUME NEW n \in running, UserSteps(n) \/ CompleteRecovery(n) \/ \E v \in FsNode : NodeDown(n, v)
      PROVE  OwnInv'
  BY <1>4, QuietKeeps DEF QuietStep
<1>5. ASSUME NEW n \in FsNode, FsDies(n) \/ Boots(n) PROVE OwnInv'
  BY <1>5, DeathKeeps, BootKeeps
<1>6. CASE UNCHANGED fsvars
  BY <1>6 DEF fsvars, OwnInv, Shape, DeadOut, SuperHeld, SlotKept, VictimGone
<1> QED
  BY <1>1, <1>2, <1>3, <1>4, <1>5, <1>6 DEF FsNext, FsWork

\* A slot has one owner (ocfs2_find_slot, ocfs2_replay_journal, ocfs2_clear_slot): a
\* node past the load of its journal is in the slot map at its slot, its journal is
\* dirty, and it has the journal's lock; no recovery replays or empties it.
THEOREM SlotsOwned == FsSpec => []OwnSlot
<1>1. OwnInv => OwnSlot
  BY DEF OwnInv, SlotKept, OwnSlot, InSlot, InJournal, InLoaded
<1> QED
  BY <1>1, StartsOwned, StepKeeps, PTL DEF FsSpec
----------------------------------------------------------------------------
(* FreshInode: the newest inode is with a node that runs, or lost with a   *)
(* dead one whose slot all others still take for unrecovered.              *)

\* Where the journal's contents are the node's, where it records deaths, and where
\* its recovery thread may be started
Owning == InLoaded \union {"unlock", "shutdown"}
Recording == {"marked", "mounted", "up"}
Enabled == {"join", "slot", "journal", "loaded", "la"} \union Recording

FreshShape ==
  /\ DOMAIN dom = FsNode /\ DOMAIN user = FsNode
  /\ \A n \in FsNode : DOMAIN osb[n].gens = Slot

\* A node is in one slot at most.
NoDup == \A s, t \in Slot : slotMap[s] = slotMap[t] /\ slotMap[s] # Nobody => s = t

\* Whoever is in the domain is known to the others in it.
InDomain == \A k, m \in running : osb[k].pc # "out" /\ osb[m].pc # "out" => m \in dom[k]

\* Who has a journal's lock is in that slot, or died in it.
LockKnown == \A s \in Slot :
  /\ journal[s].by \in running => osb[journal[s].by].pc \in InJournal /\ osb[journal[s].by].slot = s
  /\ journal[s].by \notin running \union {Nobody} /\ "gap" \notin known => slotMap[s] = journal[s].by

\* A recovery sees the slot map as it is; a task that uses the inode has its lock;
\* a node that is not unmounted records deaths.
NodeOk(n) ==
  /\ rec[n].pc \in RecSuper => osb[n].pc \in {"mounted", "up", "exit"} /\ osb[n].si = slotMap
  /\ rec[n].pc \in RecVictim => slotMap[rec[n].slot] = rec[n].victim
  /\ rec[n].pc \in RecReplayed => journal[rec[n].slot].by = Nobody
  /\ user[n] # "idle" => osb[n].pc \in {"mounted", "up"}
  /\ user[n] \in {"again", "use"} => metaBy = n
  /\ osb[n].pc \in Enabled => ~osb[n].disabled
NodesOk == \A n \in FsNode : NodeOk(n)

\* The newest inode is in the journal of a node that runs and has the inode's lock, ...
Owner(m) == osb[m].pc \in Owning /\ osb[m].slot = newest
Alive == \E m \in running : Owner(m) /\ metaBy = m

\* ... or in that of a dead node whose slot every mounted node takes for unrecovered:
\* it has still to hear of the death, or has recorded it; no task of it uses the inode,
\* and one that has the lock will wait for the recovery.
Missed(k) ==
  osb[k].pc \in Recording =>
    /\ osb[k].gens[newest] = journal[newest].gen
    /\ slotMap[newest] \in dom[k] \ running \/ slotMap[newest] \in osb[k].dead
    /\ user[k] # "use"
    /\ user[k] = "again" => slotMap[newest] \in osb[k].dead
Lost ==
  /\ slotMap[newest] # Nobody
  /\ \A m \in running : ~Owner(m)
  /\ \A k \in running : Missed(k)

NewestSafe ==
  /\ newest \in Slot \union {0}
  /\ known = {} => /\ \A n \in running : rec[n].pc \in RecReplayed => rec[n].slot # newest
                   /\ newest # 0 => journal[newest].dirty /\ (Alive \/ Lost)

FreshInv == FreshShape /\ NoDup /\ InDomain /\ LockKnown /\ NodesOk /\ NewestSafe

----------------------------------------------------------------------------
\* The others stay as they are; what is known to have gone wrong stays known.
Beside(n) ==
  /\ FreshShape' /\ UNCHANGED running
  /\ \A m \in FsNode \ {n} : osb'[m] = osb[m] /\ rec'[m] = rec[m] /\ user'[m] = user[m]
  /\ known \subseteq known'

\* The recovery thread knows nothing of a slot 0.
LEMMA NothingNewest ==
  ASSUME OwnInv', newest' = 0
  PROVE  NewestSafe'
<1>1. 0 \notin Slot
  BY FsAssumption DEF Slot
<1> QED
  BY <1>1 DEF NewestSafe, OwnInv, VictimGone, RecVictim, RecReplayed

\* The newest inode stays where it is while n goes on, when n keeps or does not have
\* the slot it is in, and when n treats a lost one as lost.
LEMMA NewestStays ==
  ASSUME OwnInv, OwnInv', FreshInv, NEW n \in running, Beside(n), newest' = newest,
         \A k \in running : k # n /\ osb[k].pc # "out" => dom'[k] \ running = dom[k] \ running,
         newest # 0 => /\ journal'[newest].dirty = journal[newest].dirty
                       /\ journal'[newest].gen = journal[newest].gen,
         known' = {} /\ newest # 0 =>
           /\ metaBy \in running /\ Owner(metaBy) => metaBy' = metaBy
           /\ Owner(n)' <=> Owner(n)
           /\ Lost => slotMap'[newest] = slotMap[newest] /\ Missed(n)'
           /\ rec'[n].pc \in RecReplayed => rec'[n].slot # newest
  PROVE  NewestSafe'
<1> USE DEF FreshInv, NewestSafe, Beside
<1>0. running \subseteq FsNode
  BY DEF OwnInv, Shape
<1>1. CASE newest = 0
  BY <1>1, NothingNewest
<1>2. CASE known' # {}
  BY <1>2
<1>3. CASE known' = {} /\ newest # 0
  <2>1. known = {} /\ journal'[newest].dirty
    BY <1>3
  <2>2. ASSUME NEW m \in running, rec'[m].pc \in RecReplayed PROVE rec'[m].slot # newest
    BY <1>0, <1>3, <2>1, <2>2
  <2>3. ASSUME NEW m \in running PROVE Owner(m)' <=> Owner(m)
    BY <1>0, <1>3, <2>3 DEF Owner
  <2>4. Alive => Alive'
    BY <1>3, <2>3 DEF Alive
  <2>5. Lost => Lost'
    <3>1. ASSUME Lost, NEW k \in running PROVE Missed(k)'
      <4>1. CASE k = n
        BY <1>3, <3>1, <4>1
      <4>2. CASE k # n /\ osb[k].pc \in Recording
        <5>1. osb'[k] = osb[k] /\ user'[k] = user[k] /\ dom'[k] \ running = dom[k] \ running
          BY <1>0, <4>2 DEF Recording
        <5> QED
          BY <1>3, <3>1, <4>2, <5>1 DEF Lost, Missed
      <4>3. CASE k # n /\ osb[k].pc \notin Recording
        BY <1>0, <4>3 DEF Missed
      <4> QED
        BY <4>1, <4>2, <4>3
    <3> QED
      BY <1>3, <2>3, <3>1 DEF Lost
  <2> QED
    BY <1>3, <2>1, <2>2, <2>4, <2>5
<1> QED
  BY <1>1, <1>2, <1>3

\* Node n goes on and leaves to the others what they share.
LEMMA GoesOnBeside ==
  ASSUME OwnInv, FreshInv, NEW n \in running, Beside(n), UNCHANGED <<slotMap, journal, metaBy>>,
         \A k \in running : \A m \in running : m \in dom[k] => m \in dom'[k],
         osb'[n].pc # "out" => osb[n].pc # "out",
         osb[n].pc \in InJournal => osb'[n].pc \in InJournal /\ osb'[n].slot = osb[n].slot,
         NodeOk(n)'
  PROVE  FreshShape' /\ NoDup' /\ InDomain' /\ LockKnown' /\ NodesOk'
<1> USE DEF FreshInv, Beside
<1>0. running \subseteq FsNode
  BY DEF OwnInv, Shape
<1>1. FreshShape' /\ NoDup'
  BY DEF NoDup
<1>2. InDomain'
  <2>1. ASSUME NEW k \in running, osb'[k].pc # "out" PROVE osb[k].pc # "out"
    BY <1>0, <2>1
  <2> QED
    BY <2>1 DEF InDomain
<1>3. LockKnown'
  <2>1. ASSUME NEW b \in running, osb[b].pc \in InJournal
        PROVE  osb'[b].pc \in InJournal /\ osb'[b].slot = osb[b].slot
    BY <1>0, <2>1
  <2> QED
    BY <2>1 DEF LockKnown
<1>4. NodesOk'
  <2>1. ASSUME NEW m \in FsNode, m # n PROVE NodeOk(m)'
    BY <2>1 DEF NodesOk, NodeOk
  <2> QED
    BY <2>1 DEF NodesOk
<1> QED
  BY <1>1, <1>2, <1>3, <1>4

\* ... and n leaves the journals alone.
LEMMA QuietBeside ==
  ASSUME OwnInv, OwnInv', FreshInv, NEW n \in running, Beside(n),
         UNCHANGED <<dom, slotMap, journal, metaBy, newest>>,
         osb'[n].slot = osb[n].slot,
         osb'[n].pc # "out" => osb[n].pc # "out",
         osb[n].pc \in InJournal <=> osb'[n].pc \in InJournal,
         osb[n].pc \in Owning <=> osb'[n].pc \in Owning,
         NodeOk(n)',
         rec'[n].pc \in RecReplayed => rec[n].pc \in RecReplayed /\ rec'[n].slot = rec[n].slot,
         known' = {} /\ newest # 0 /\ Lost => Missed(n)'
  PROVE  FreshInv'
<1>1. FreshShape' /\ NoDup' /\ InDomain' /\ LockKnown' /\ NodesOk'
  BY GoesOnBeside
<1>2. Owner(n)' <=> Owner(n)
  BY DEF Owner
<1>3. known' = {} /\ rec'[n].pc \in RecReplayed => rec'[n].slot # newest
  BY DEF FreshInv, NewestSafe, Beside
<1>4. NewestSafe'
  BY <1>2, <1>3, NewestStays
<1> QED
  BY <1>1, <1>4 DEF FreshInv

\* A step that changes of what is said here no more than where n is.
Kept(n) ==
  /\ osb'[n].slot = osb[n].slot /\ osb'[n].gens = osb[n].gens /\ osb'[n].si = osb[n].si
  /\ osb'[n].disabled = osb[n].disabled /\ osb'[n].dead = osb[n].dead

----------------------------------------------------------------------------
(* The quiet steps of a mount, an unmount and a recovery.                  *)

\* A mount goes on, an unmount gives back the super lock, a slot's orphans are deleted.
LEMMA MountQuiet ==
  ASSUME OwnInv, OwnInv', FreshInv, NEW n \in running,
         LoadLocalAlloc(n) \/ MountDone(n) \/ QuotasOn(n) \/ PutUnlock(n) \/ CompleteRecovery(n)
  PROVE  FreshInv'
<1> n \in FsNode
  BY DEF OwnInv, Shape
<1>1. UNCHANGED <<running, dom, slotMap, journal, newest, metaBy, rec, user, known>>
  BY DEF LoadLocalAlloc, MountDone, QuotasOn, PutUnlock, CompleteRecovery
<1> DEFINE From(a, b) == /\ Kept(n) /\ osb[n].pc = a /\ osb'[n].pc = b
                         /\ \A m \in FsNode \ {n} : osb'[m] = osb[m]
<1>2. LoadLocalAlloc(n) => From("loaded", "la")
  BY DEF LoadLocalAlloc, Kept, OwnInv, Shape, Unmounted
<1>3. MountDone(n) => From("marked", "mounted")
  <2> SUFFICES ASSUME MountDone(n) PROVE From("marked", "mounted")
    OBVIOUS
  <2>1. PICK items : osb' = [[osb EXCEPT ![n].cleanups = @ \o items]
                               EXCEPT ![n].pc = "mounted", ![n].copy = {}, ![n].replay = {}]
    BY DEF MountDone, Queue
  <2>2. osb[n].pc = "marked"
    BY DEF MountDone
  <2> QED
    BY <2>1, <2>2 DEF Kept, OwnInv, Shape, Unmounted
<1>4. QuotasOn(n) => From("mounted", "up")
  BY DEF QuotasOn, Kept, OwnInv, Shape, Unmounted
<1>5. PutUnlock(n) => From("unlock", "shutdown")
  BY DEF PutUnlock, Pc, Kept, OwnInv, Shape, Unmounted
<1>6. CompleteRecovery(n) => From(osb[n].pc, osb[n].pc)
  BY DEF CompleteRecovery, Kept, OwnInv, Shape, Unmounted
<1>7. /\ Kept(n) /\ \A m \in FsNode \ {n} : osb'[m] = osb[m]
      /\ \/ osb[n].pc = "loaded" /\ osb'[n].pc = "la"
         \/ osb[n].pc = "marked" /\ osb'[n].pc = "mounted"
         \/ osb[n].pc = "mounted" /\ osb'[n].pc = "up"
         \/ osb[n].pc = "unlock" /\ osb'[n].pc = "shutdown"
         \/ osb'[n].pc = osb[n].pc
  BY <1>2, <1>3, <1>4, <1>5, <1>6
<1>8. Beside(n)
  BY <1>1, <1>7 DEF Beside, FreshInv, FreshShape, Kept
<1>9. NodeOk(n)'
  BY <1>1, <1>7 DEF FreshInv, NodesOk, NodeOk, Kept, Enabled, Recording
<1>10. Lost => Missed(n)'
  BY <1>1, <1>7 DEF Lost, Missed, Kept, Recording
<1> QED
  BY <1>1, <1>7, <1>8, <1>9, <1>10, QuietBeside
  DEF Kept, InJournal, InLoaded, Owning

\* ocfs2_dismount_volume: nobody uses the inode, and deaths are not recorded any more;
\* with the recovery over, those recorded are forgotten.
LEMMA DismountQuiet ==
  ASSUME OwnInv, OwnInv', FreshInv, NEW n \in running, Dismount(n) \/ RecoveryExit(n)
  PROVE  FreshInv'
<1> n \in FsNode
  BY DEF OwnInv, Shape
<1>1. UNCHANGED <<running, dom, slotMap, journal, newest, metaBy, rec, user, known>>
  BY DEF Dismount, RecoveryExit
<1> DEFINE Went(a, b) == /\ osb[n].pc = a /\ osb'[n].pc = b /\ osb'[n].slot = osb[n].slot
                         /\ osb'[n].gens = osb[n].gens /\ osb'[n].si = osb[n].si
                         /\ \A m \in FsNode \ {n} : osb'[m] = osb[m]
<1>2. Dismount(n) => Went("up", "exit") /\ user[n] = "idle"
  BY DEF Dismount, OwnInv, Shape, Unmounted
<1>3. RecoveryExit(n) => Went("exit", "put") /\ rec[n].pc = "none"
  BY DEF RecoveryExit, OwnInv, Shape, Unmounted
<1>4. Beside(n)
  BY <1>1, <1>2, <1>3 DEF Beside, FreshInv, FreshShape
<1>5. NodeOk(n)'
  BY <1>1, <1>2, <1>3
  DEF FreshInv, NodesOk, NodeOk, Enabled, Recording, RecSuper, RecVictim,
      RecReplayed
<1>6. Missed(n)'
  BY <1>2, <1>3 DEF Missed, Recording
<1> QED
  BY <1>1, <1>2, <1>3, <1>4, <1>5, <1>6, QuietBeside
  DEF InJournal, InLoaded, Owning

\* The recovery thread takes the super lock, empties the victim's files, gives the super
\* lock back, ends or starts again.
LEMMA RecoveryQuiet ==
  ASSUME OwnInv, OwnInv', FreshInv, NEW n \in running,
         RecStart(n) \/ BeginCleanup(n) \/ RecFinish(n) \/ RecEnd(n)
  PROVE  FreshInv'
<1> n \in FsNode
  BY DEF OwnInv, Shape
<1>1. UNCHANGED <<running, dom, slotMap, journal, newest, metaBy, user, known>>
  BY DEF RecStart, BeginCleanup, RecFinish, RecEnd
<1> DEFINE Same == /\ osb'[n].pc = osb[n].pc /\ osb'[n].slot = osb[n].slot /\ osb'[n].dead = osb[n].dead
                   /\ osb'[n].disabled = osb[n].disabled
                   /\ \A m \in FsNode \ {n} : osb'[m] = osb[m] /\ rec'[m] = rec[m]
<1>2. RecStart(n) => /\ Same /\ osb[n].pc \in {"mounted", "up", "exit"} /\ rec'[n].pc = "next"
                     /\ osb'[n].si = slotMap /\ osb'[n].gens = osb[n].gens
  <2> SUFFICES ASSUME RecStart(n)
               PROVE  /\ Same /\ osb[n].pc \in {"mounted", "up", "exit"} /\ rec'[n].pc = "next"
                      /\ osb'[n].si = slotMap /\ osb'[n].gens = osb[n].gens
    OBVIOUS
  <2>1. PICK r, c : osb' = [osb EXCEPT ![n].si = slotMap, ![n].replay = r, ![n].cleanups = c]
    BY DEF RecStart, ReadMap
  <2>2. /\ osb'[n].pc = osb[n].pc /\ osb'[n].slot = osb[n].slot /\ osb'[n].dead = osb[n].dead
        /\ osb'[n].disabled = osb[n].disabled /\ osb'[n].si = slotMap /\ osb'[n].gens = osb[n].gens
        /\ \A m \in FsNode \ {n} : osb'[m] = osb[m]
    BY <2>1 DEF OwnInv, Shape, Unmounted
  <2>3. /\ rec'[n].pc = "next" /\ osb[n].pc \in {"mounted", "up", "exit"}
        /\ \A m \in FsNode \ {n} : rec'[m] = rec[m]
    BY DEF RecStart, OwnInv, Shape, RecIdle
  <2> QED
    BY <2>2, <2>3
<1>3. BeginCleanup(n) => /\ Same /\ osb'[n].gens = osb[n].gens /\ osb'[n].si = osb[n].si
                         /\ rec[n].pc = "la" /\ rec'[n].pc = "clear"
                         /\ rec'[n].slot = rec[n].slot /\ rec'[n].victim = rec[n].victim
  BY DEF BeginCleanup, OwnInv, Shape, Unmounted, RecIdle
<1>4. RecFinish(n) => Same /\ osb'[n].gens = [s \in Slot |-> journal[s].gen] /\ rec'[n].pc = "end"
  BY DEF RecFinish, OwnInv, Shape, Unmounted, RecIdle
<1>5. RecEnd(n) => Same /\ osb'[n].gens = osb[n].gens /\ rec'[n].pc \in {"start", "none"}
  BY DEF RecEnd, OwnInv, Shape, Unmounted, RecIdle
<1>6. Beside(n)
  BY <1>1, <1>2, <1>3, <1>4, <1>5 DEF Beside, FreshInv, FreshShape
<1>7. NodeOk(n)'
  BY <1>1, <1>2, <1>3, <1>4, <1>5
  DEF FreshInv, NodesOk, NodeOk, RecSuper, RecVictim, RecReplayed
<1>8. newest # 0 /\ Lost => Missed(n)'
  <2>1. newest \in Slot \union {0}
    BY DEF FreshInv, NewestSafe
  <2> QED
    BY <1>1, <1>2, <1>3, <1>4, <1>5, <2>1 DEF Lost, Missed
<1>9. Same
  BY <1>2, <1>3, <1>4, <1>5
<1>10. rec'[n].pc \in RecReplayed => rec[n].pc \in RecReplayed /\ rec'[n].slot = rec[n].slot
  BY <1>2, <1>3, <1>4, <1>5 DEF RecReplayed
<1> QED
  BY <1>1, <1>6, <1>7, <1>8, <1>9, <1>10, QuietBeside
----------------------------------------------------------------------------
(* Deaths are noticed and recorded.                                        *)

\* ocfs2_mark_dead_nodes: the slot of a lost newest inode is looked at, for its journal
\* has no owner that runs, and no survivor hides the death.
LEMMA MarkDeadFresh ==
  ASSUME OwnInv, OwnInv', FreshInv, NEW n \in running, MarkDeadNodes(n)
  PROVE  FreshInv'
<1> n \in FsNode
  BY DEF OwnInv, Shape
<1>1. /\ UNCHANGED <<running, dom, slotMap, journal, newest, metaBy, user, known>>
      /\ osb[n].pc = "la" /\ osb'[n].pc = "marked" /\ osb'[n].slot = osb[n].slot
      /\ osb'[n].gens = [s \in Slot |-> journal[s].gen] /\ osb'[n].disabled = osb[n].disabled
      /\ osb'[n].dead = osb[n].dead \union {slotMap[s] : s \in DiedThere(n)}
      /\ \A m \in FsNode \ {n} : osb'[m] = osb[m]
  <2>1. /\ UNCHANGED <<running, dom, slotMap, journal, newest, metaBy, user, known>>
        /\ osb[n].pc = "la"
    BY DEF MarkDeadNodes
  <2>2. PICK r : osb' = [osb EXCEPT ![n] = [osb[n] EXCEPT !.pc = "marked", !.gens = [s \in Slot |-> journal[s].gen],
                             !.replay = r, !.dead = @ \union {slotMap[s] : s \in DiedThere(n)}]]
    BY DEF MarkDeadNodes
  <2> QED
    BY <2>1, <2>2 DEF OwnInv, Shape, Unmounted
<1>2. PICK o : rec' = Start(n, o)
  BY DEF MarkDeadNodes
<1>3. rec[n].pc \notin RecSuper
  BY <1>1 DEF FreshInv, NodesOk, NodeOk
<1>4. /\ \A m \in FsNode \ {n} : rec'[m] = rec[m]
      /\ rec'[n].pc \notin RecSuper
  BY <1>2, <1>3, StartHarmless DEF OwnInv, RecSuper
<1>5. Beside(n)
  BY <1>1, <1>4 DEF Beside, FreshInv, FreshShape
<1>6. NodeOk(n)'
  BY <1>1, <1>4
  DEF FreshInv, NodesOk, NodeOk, Enabled, RecSuper, RecVictim, RecReplayed
<1>7. ASSUME known' = {}, newest # 0, Lost PROVE Missed(n)'
  <2> DEFINE b == journal[newest].by
  <2>1. newest \in Slot /\ slotMap[newest] # Nobody /\ newest # osb[n].slot
    BY <1>1, <1>7 DEF FreshInv, NewestSafe, Lost, Owner, Owning, InLoaded
  <2>2. b \notin running
    <3>1. ASSUME b \in running PROVE FALSE
      <4>1. osb[b].pc \in InJournal /\ osb[b].slot = newest
        BY <2>1, <3>1 DEF FreshInv, LockKnown
      <4>2. osb[b].pc \in WithSuper => b = n
        BY <1>1, <3>1, SuperOfMount DEF WithSuper
      <4>3. osb[b].pc \in Owning
        BY <1>1, <4>1, <4>2 DEF InJournal, Owning, WithSuper, InLoaded
      <4> QED
        BY <1>7, <3>1, <4>1, <4>3 DEF Lost, Owner
    <3> QED
      BY <3>1
  <2>3. b # Nobody => slotMap[newest] = b
    BY <1>1, <1>7, <2>1, <2>2 DEF FreshInv, LockKnown
  <2>4. Freed(b) \/ slotMap[newest] \in dom[n] \ running
    BY <1>1, <2>2, <2>3 DEF Freed
  <2>5. slotMap[newest] \in osb'[n].dead \/ slotMap[newest] \in dom[n] \ running
    BY <1>1, <2>1, <2>4 DEF DiedThere
  <2>6. user[n] = "idle"
    BY <1>1 DEF FreshInv, NodesOk, NodeOk
  <2> QED
    BY <1>1, <2>1, <2>5, <2>6 DEF Missed
<1> QED
  BY <1>1, <1>4, <1>5, <1>6, <1>7, QuietBeside
  DEF InJournal, InLoaded, Owning, RecSuper, RecReplayed

\* ocfs2_do_node_down: a death that is noticed is recorded.
LEMMA NodeDownFresh ==
  ASSUME OwnInv, OwnInv', FreshInv, NEW n \in running, NEW v \in FsNode, NodeDown(n, v)
  PROVE  FreshInv'
<1> n \in FsNode
  BY DEF OwnInv, Shape
<1>1. /\ UNCHANGED <<running, slotMap, journal, newest, metaBy, user, known>>
      /\ v \notin running /\ dom' = [dom EXCEPT ![n] = @ \ {v}]
      /\ osb' = [osb EXCEPT ![n] = RecordDead(osb[n], v)]
  BY DEF NodeDown
<1>2. PICK o : rec' = Start(n, o)
  BY DEF NodeDown
<1>3. /\ osb'[n].pc = osb[n].pc /\ osb'[n].slot = osb[n].slot /\ osb'[n].gens = osb[n].gens
      /\ osb'[n].si = osb[n].si /\ osb'[n].disabled = osb[n].disabled
      /\ ~osb[n].disabled => osb'[n].dead = osb[n].dead \union {v}
      /\ \A m \in FsNode \ {n} : osb'[m] = osb[m]
  BY <1>1 DEF RecordDead, OwnInv, Shape, Unmounted
<1>4. dom'[n] = dom[n] \ {v} /\ \A m \in FsNode \ {n} : dom'[m] = dom[m]
  BY <1>1 DEF FreshInv, FreshShape
<1>5. /\ \A m \in FsNode \ {n} : rec'[m] = rec[m]
      /\ rec'[n] = rec[n] \/ rec'[n].pc \notin RecSuper
  BY <1>2, StartHarmless DEF OwnInv, RecSuper
<1>6. Beside(n)
  BY <1>1, <1>3, <1>5 DEF Beside, FreshInv, FreshShape
<1>7. NodeOk(n)'
  BY <1>1, <1>3, <1>5
  DEF FreshInv, NodesOk, NodeOk, RecSuper, RecVictim, RecReplayed
<1>8. FreshShape' /\ NoDup' /\ InDomain' /\ LockKnown' /\ NodesOk'
  <2>1. \A k \in running : \A m \in running : m \in dom[k] => m \in dom'[k]
    BY <1>1, <1>4 DEF OwnInv, Shape
  <2> QED
    BY <1>1, <1>3, <1>6, <1>7, <2>1, GoesOnBeside
<1>9. NewestSafe'
  <2>1. Lost => Missed(n)'
    <3>1. osb[n].pc \in Recording => ~osb[n].disabled
      BY DEF FreshInv, NodesOk, NodeOk, Enabled
    <3> QED
      BY <1>1, <1>3, <1>4, <3>1 DEF Lost, Missed
  <2>2. \A k \in running : k # n => dom'[k] = dom[k]
    BY <1>4 DEF OwnInv, Shape
  <2>3. Owner(n)' <=> Owner(n)
    BY <1>1, <1>3 DEF Owner
  <2>4. known' = {} /\ rec'[n].pc \in RecReplayed => rec'[n].slot # newest
    BY <1>1, <1>5 DEF FreshInv, NewestSafe, RecSuper, RecReplayed
  <2> QED
    BY <1>1, <1>6, <2>1, <2>2, <2>3, <2>4, NewestStays
<1> QED
  BY <1>8, <1>9 DEF FreshInv

\* With one slot per node, the slot a recovery finds for a node is the one it is in.
LEMMA SlotFound ==
  ASSUME NoDup, NEW s \in Slot, slotMap[s] # Nobody
  PROVE  NodeToSlot(slotMap, slotMap[s]) = s
BY DEF NoDup, NodeToSlot

LEMMA NodeToSlotGives ==
  ASSUME NEW v, NodeToSlot(slotMap, v) # 0
  PROVE  NodeToSlot(slotMap, v) \in Slot /\ slotMap[NodeToSlot(slotMap, v)] = v
BY DEF NodeToSlot

\* __ocfs2_recovery_thread: the node a lost newest inode is of is not passed over.
LEMMA RecNextFresh ==
  ASSUME OwnInv, OwnInv', FreshInv, NEW n \in running, RecNext(n)
  PROVE  FreshInv'
<1> n \in FsNode
  BY DEF OwnInv, Shape
<1>1. rec[n].pc = "next" /\ UNCHANGED <<running, dom, slotMap, journal, newest, metaBy, user, known>>
  BY DEF RecNext
<1>2. osb[n].pc \in {"mounted", "up", "exit"} /\ osb[n].si = slotMap
  BY <1>1 DEF FreshInv, NodesOk, NodeOk, RecSuper
<1>3. PICK v \in osb[n].dead :
        LET s == NodeToSlot(slotMap, v)
            busy == s # 0 /\ osb[n].gens[s] # journal[s].gen
        IN IF s = 0 \/ busy
             THEN /\ osb' = [osb EXCEPT ![n].dead = @ \ {v},
                               ![n].gens = IF busy THEN [@ EXCEPT ![s] = journal[s].gen] ELSE @]
                  /\ rec' = IF busy THEN [rec EXCEPT ![n].quotas = @ \union {s}] ELSE rec
             ELSE /\ rec' = [rec EXCEPT ![n].pc = "lock", ![n].victim = v, ![n].slot = s, ![n].quotas = @ \union {s}]
                  /\ UNCHANGED osb
  BY <1>2 DEF RecNext, SomeoneElseDid
<1> DEFINE s == NodeToSlot(slotMap, v)
           passed == s = 0 \/ osb[n].gens[s] # journal[s].gen
<1>4. s # 0 => s \in Slot /\ slotMap[s] = v
  BY NodeToSlotGives
<1> HIDE DEF s
<1>5. /\ osb'[n].pc = osb[n].pc /\ osb'[n].slot = osb[n].slot /\ osb'[n].si = osb[n].si
      /\ osb'[n].disabled = osb[n].disabled
      /\ osb[n].dead \ {v} \subseteq osb'[n].dead /\ (~passed => osb'[n].dead = osb[n].dead)
      /\ DOMAIN osb'[n].gens = Slot
      /\ \A r \in Slot : osb'[n].gens[r] \in {osb[n].gens[r], journal[r].gen}
      /\ \A m \in FsNode \ {n} : osb'[m] = osb[m]
  BY <1>3, <1>4 DEF OwnInv, Shape, Unmounted, FreshInv, FreshShape, s
<1>6. /\ \A m \in FsNode \ {n} : rec'[m] = rec[m]
      /\ \/ rec'[n].pc = "next"
         \/ rec'[n].pc = "lock" /\ s # 0 /\ rec'[n].slot = s /\ rec'[n].victim = v
  BY <1>1, <1>3 DEF OwnInv, Shape, RecIdle, s
<1>7. Beside(n)
  BY <1>1, <1>5, <1>6 DEF Beside, FreshInv, FreshShape
<1>8. NodeOk(n)'
  BY <1>1, <1>2, <1>4, <1>5, <1>6
  DEF FreshInv, NodesOk, NodeOk, RecSuper, RecVictim, RecReplayed
<1>9. ASSUME newest # 0, Lost PROVE Missed(n)'
  <2>1. newest \in Slot
    BY <1>9 DEF FreshInv, NewestSafe
  <2>2. slotMap[newest] = v => s = newest
    BY <1>9, <2>1, SlotFound DEF Lost, FreshInv, s
  <2>3. newest # 0
    BY <1>9
  <2>4. osb[n].pc \in Recording /\ passed => slotMap[newest] # v
    BY <1>9, <2>2, <2>3 DEF Lost, Missed
  <2>5. osb[n].pc \in Recording =>
          (slotMap[newest] \in osb[n].dead => slotMap[newest] \in osb'[n].dead)
    BY <1>5, <2>4
  <2> QED
    BY <1>1, <1>5, <1>9, <2>1, <2>5 DEF Lost, Missed
<1> QED
  BY <1>1, <1>5, <1>6, <1>7, <1>8, <1>9, QuietBeside DEF RecReplayed
----------------------------------------------------------------------------
(* The domain.                                                             *)

\* ocfs2_dlm_init: a node joins when every member has noticed every death, and no member
\* misses one by it.
LEMMA JoinFresh ==
  ASSUME OwnInv, OwnInv', FreshInv, NEW n \in running, FsJoin(n)
  PROVE  FreshInv'
<1> n \in FsNode
  BY DEF OwnInv, Shape
<1> DEFINE in == {m \in running : osb[m].pc # "out"}
<1>1. /\ UNCHANGED <<running, slotMap, journal, newest, metaBy, rec, user, known>>
      /\ osb[n].pc = "out" /\ osb'[n] = [Unmounted EXCEPT !.pc = "join"]
      /\ \A m \in FsNode \ {n} : osb'[m] = osb[m]
      /\ \A m \in in : dom[m] = in
      /\ \A m \in in \union {n} : dom'[m] = in \union {n}
      /\ DOMAIN dom' = FsNode
  BY DEF FsJoin, OwnInv, Shape
<1>2. osb'[n].pc = "join" /\ ~osb'[n].disabled /\ DOMAIN osb'[n].gens = Slot
  BY <1>1 DEF Unmounted
<1>3. Beside(n)
  BY <1>1, <1>2 DEF Beside, FreshInv, FreshShape
<1>4. FreshShape' /\ NoDup'
  BY <1>1, <1>3 DEF Beside, FreshInv, NoDup
<1>5. InDomain'
  <2>1. ASSUME NEW k \in running, osb'[k].pc # "out" PROVE k \in in \union {n}
    BY <1>1, <2>1 DEF OwnInv, Shape
  <2> QED
    BY <1>1, <2>1 DEF InDomain
<1>6. LockKnown'
  <2>1. \A b \in running : osb[b].pc \in InJournal => b # n
    BY <1>1 DEF InJournal, InLoaded
  <2>2. \A b \in running : osb[b].pc \in InJournal => osb'[b] = osb[b]
    BY <1>1, <2>1 DEF OwnInv, Shape
  <2> QED
    BY <1>1, <2>2 DEF FreshInv, LockKnown
<1>7. NodesOk'
  <2>1. NodeOk(n)'
    BY <1>1, <1>2
    DEF FreshInv, NodesOk, NodeOk, RecSuper, RecVictim, RecReplayed
  <2>2. ASSUME NEW m \in FsNode, m # n PROVE NodeOk(m)'
    BY <1>1, <2>2 DEF FreshInv, NodesOk, NodeOk
  <2> QED
    BY <2>1, <2>2 DEF NodesOk
<1>8. NewestSafe'
  <2>1. \A k \in running : k # n /\ osb[k].pc # "out" => dom'[k] \ running = dom[k] \ running
    BY <1>1
  <2>2. ~Owner(n) /\ ~Owner(n)' /\ Missed(n)'
    BY <1>1, <1>2 DEF Owner, Owning, InLoaded, Missed, Recording
  <2>3. known' = {} /\ rec'[n].pc \in RecReplayed => rec'[n].slot # newest
    BY <1>1 DEF FreshInv, NewestSafe
  <2> QED
    BY <1>1, <1>3, <2>1, <2>2, <2>3, NewestStays
<1> QED
  BY <1>4, <1>5, <1>6, <1>7, <1>8 DEF FreshInv

\* ocfs2_dlm_shutdown: nobody takes a node that leaves for a dead one.
LEMMA LeaveFresh ==
  ASSUME OwnInv, OwnInv', FreshInv, NEW n \in running, DlmShutdown(n)
  PROVE  FreshInv'
<1> n \in FsNode
  BY DEF OwnInv, Shape
<1>1. /\ UNCHANGED <<running, slotMap, journal, newest, rec, user, known>>
      /\ osb[n].pc = "leave" /\ osb'[n] = Unmounted
      /\ \A m \in FsNode \ {n} : osb'[m] = osb[m] /\ dom'[m] = dom[m] \ {n}
      /\ DOMAIN dom' = FsNode
      /\ metaBy # n => metaBy' = metaBy
  BY DEF DlmShutdown, OwnInv, Shape
<1>2. osb'[n].pc = "out" /\ DOMAIN osb'[n].gens = Slot
  BY <1>1 DEF Unmounted
<1>3. Beside(n)
  BY <1>1, <1>2 DEF Beside, FreshInv, FreshShape
<1>4. FreshShape' /\ NoDup'
  BY <1>1, <1>3 DEF Beside, FreshInv, NoDup
<1>5. InDomain'
  <2>1. ASSUME NEW k \in running, osb'[k].pc # "out" PROVE k # n /\ osb[k].pc # "out" /\ dom'[k] = dom[k] \ {n}
    BY <1>1, <1>2, <2>1 DEF OwnInv, Shape
  <2> QED
    BY <1>1, <2>1 DEF FreshInv, InDomain
<1>6. LockKnown'
  <2>1. \A b \in running : osb[b].pc \in InJournal => b # n
    BY <1>1 DEF InJournal, InLoaded
  <2>2. \A b \in running : osb[b].pc \in InJournal => osb'[b] = osb[b]
    BY <1>1, <2>1 DEF OwnInv, Shape
  <2> QED
    BY <1>1, <2>2 DEF FreshInv, LockKnown
<1>7. NodesOk'
  <2>1. NodeOk(n)'
    BY <1>1, <1>2
    DEF FreshInv, NodesOk, NodeOk, Enabled, Recording, RecSuper, RecVictim,
        RecReplayed
  <2>2. ASSUME NEW m \in FsNode, m # n PROVE NodeOk(m)'
    BY <1>1, <2>2 DEF FreshInv, NodesOk, NodeOk
  <2> QED
    BY <2>1, <2>2 DEF NodesOk
<1>8. NewestSafe'
  <2>1. \A k \in running : k # n => dom'[k] \ running = dom[k] \ running
    BY <1>1 DEF OwnInv, Shape
  <2>2. ~Owner(n) /\ ~Owner(n)' /\ Missed(n)'
    BY <1>1, <1>2 DEF Owner, Owning, InLoaded, Missed, Recording
  <2>3. Owner(metaBy) => metaBy' = metaBy
    BY <1>1, <2>2
  <2>4. known' = {} /\ rec'[n].pc \in RecReplayed => rec'[n].slot # newest
    BY <1>1 DEF FreshInv, NewestSafe
  <2> QED
    BY <1>1, <1>3, <2>1, <2>2, <2>3, <2>4, NewestStays
<1> QED
  BY <1>4, <1>5, <1>6, <1>7, <1>8 DEF FreshInv

----------------------------------------------------------------------------
(* The task that uses the inode.                                           *)

\* ocfs2_inode_lock_full_nested waits for the recovery: a task that starts has no lock
\* yet, one that uses the inode finds no death recorded.
LEMMA WaitFresh ==
  ASSUME OwnInv, OwnInv', FreshInv, NEW n \in running, FsLock(n) \/ FsUse(n)
  PROVE  FreshInv'
<1> n \in FsNode
  BY DEF OwnInv, Shape
<1>1. UNCHANGED <<running, dom, slotMap, journal, newest, metaBy, osb, rec, known>>
  BY DEF FsLock, FsUse
<1>2. DOMAIN user' = FsNode /\ \A m \in FsNode \ {n} : user'[m] = user[m]
  BY DEF FsLock, FsUse, FreshInv, FreshShape
<1>3. \/ user'[n] = "dlm" /\ osb[n].pc \in {"mounted", "up"}
      \/ user[n] = "again" /\ user'[n] = "use" /\ osb[n].dead = {}
  BY DEF FsLock, FsUse, Mounted, MayUse, Recovering, FreshInv, FreshShape
<1>4. Beside(n)
  BY <1>1, <1>2 DEF Beside, FreshInv, FreshShape
<1>5. NodeOk(n)'
  BY <1>1, <1>3 DEF FreshInv, NodesOk, NodeOk
<1>6. Lost => Missed(n)'
  BY <1>1, <1>3 DEF Lost, Missed
<1> QED
  BY <1>1, <1>4, <1>5, <1>6, QuietBeside

\* Whoever gets the inode's lock leaves it to the owner of the newest inode, or has
\* heard of the owner's death.
LEMMA GrantedFresh ==
  ASSUME OwnInv, OwnInv', FreshInv, NEW n \in running, FsGranted(n)
  PROVE  FreshInv'
<1> n \in FsNode
  BY DEF OwnInv, Shape
<1>1. /\ UNCHANGED <<running, dom, slotMap, journal, newest, osb, rec>>
      /\ user[n] = "dlm" /\ metaBy' = n
      /\ \/ metaBy = n \/ metaBy \notin running
         \/ metaBy \in running /\ user[metaBy] \in {"idle", "dlm"} /\ newest # osb[metaBy].slot
      /\ known' = IF newest # 0 /\ slotMap[newest] \in dom[n] \ running THEN known \union {"unnoticed"} ELSE known
  BY HeldNotFreed DEF FsGranted, OwnInv
<1>2. user'[n] = "again" /\ DOMAIN user' = FsNode /\ \A m \in FsNode \ {n} : user'[m] = user[m]
  BY DEF FsGranted, FreshInv, FreshShape
<1>3. Beside(n)
  BY <1>1, <1>2 DEF Beside, FreshInv, FreshShape
<1>4. FreshShape' /\ NoDup' /\ InDomain'
  BY <1>1, <1>3 DEF Beside, FreshInv, NoDup, InDomain
<1>5. LockKnown'
  BY <1>1, <1>3 DEF Beside, FreshInv, LockKnown
<1>6. NodesOk'
  <2>1. NodeOk(n)'
    BY <1>1, <1>2 DEF FreshInv, NodesOk, NodeOk
  <2>2. ASSUME NEW m \in FsNode, m # n PROVE NodeOk(m)'
    <3>1. user[m] \in {"again", "use"} => metaBy = m /\ m \in running
      BY <2>2 DEF FreshInv, NodesOk, NodeOk, OwnInv, DeadOut
    <3>2. user[m] \notin {"again", "use"}
      BY <1>1, <2>2, <3>1
    <3> QED
      BY <1>1, <1>2, <2>2, <3>2 DEF FreshInv, NodesOk, NodeOk
  <2> QED
    BY <2>1, <2>2 DEF NodesOk
<1>7. NewestSafe'
  <2>1. metaBy \in running /\ Owner(metaBy) => metaBy' = metaBy
    BY <1>1 DEF Owner
  <2>2. Owner(n)' <=> Owner(n)
    BY <1>1 DEF Owner
  <2>3. known' = {} /\ newest # 0 /\ Lost => Missed(n)'
    BY <1>1, <1>2 DEF Lost, Missed
  <2>4. known' = {} /\ rec'[n].pc \in RecReplayed => rec'[n].slot # newest
    BY <1>1, <1>3 DEF Beside, FreshInv, NewestSafe
  <2> QED
    BY <1>1, <1>3, <2>1, <2>2, <2>3, <2>4, NewestStays
<1> QED
  BY <1>4, <1>5, <1>6, <1>7 DEF FreshInv

\* The change is in the journal of the node that has the inode's lock.
LEMMA DoneFresh ==
  ASSUME OwnInv, OwnInv', FreshInv, NEW n \in running, FsDone(n)
  PROVE  FreshInv'
<1> n \in FsNode
  BY DEF OwnInv, Shape
<1>1. /\ UNCHANGED <<running, dom, slotMap, journal, metaBy, osb, rec, known>>
      /\ user[n] = "use" /\ newest' = osb[n].slot
  BY DEF FsDone
<1>2. user'[n] = "idle" /\ DOMAIN user' = FsNode /\ \A m \in FsNode \ {n} : user'[m] = user[m]
  BY DEF FsDone, FreshInv, FreshShape
<1>3. Beside(n)
  BY <1>1, <1>2 DEF Beside, FreshInv, FreshShape
<1>4. NodeOk(n)'
  BY <1>1, <1>2 DEF FreshInv, NodesOk, NodeOk
<1>5. FreshShape' /\ NoDup' /\ InDomain' /\ LockKnown' /\ NodesOk'
  BY <1>1, <1>3, <1>4, GoesOnBeside
<1>6. osb[n].pc \in {"mounted", "up"} /\ metaBy = n
  BY <1>1 DEF FreshInv, NodesOk, NodeOk
<1>7. osb[n].slot \in Slot /\ journal[osb[n].slot].dirty
  BY <1>6 DEF OwnInv, SlotKept, InSlot, InLoaded
<1>8. Alive'
  BY <1>1, <1>6 DEF Alive, Owner, Owning, InLoaded
<1>9. \A m \in running : rec'[m].pc \in RecReplayed => rec'[m].slot # newest'
  BY <1>1, <1>6 DEF OwnInv, VictimGone, InSlot, InLoaded
<1> QED
  BY <1>1, <1>5, <1>7, <1>8, <1>9 DEF FreshInv, NewestSafe

\* ocfs2_commit_cache: the inode is where everyone finds it.
LEMMA CommitFresh ==
  ASSUME OwnInv, OwnInv', FreshInv, NEW n \in running, CommitCache(n)
  PROVE  FreshInv'
<1>1. newest' = 0 /\ UNCHANGED <<running, dom, slotMap, journal, metaBy, osb, rec, user, known>>
  BY DEF CommitCache
<1>2. NewestSafe'
  BY <1>1, NothingNewest
<1> QED
  BY <1>1, <1>2
  DEF FreshInv, FreshShape, NoDup, InDomain, LockKnown, NodesOk, NodeOk
----------------------------------------------------------------------------
(* The journals.                                                           *)

\* The journals' locks and generations change, the slot map does not: what is left
\* to show is LockKnown.
LEMMA JournalBeside ==
  ASSUME OwnInv, FreshInv, NEW n \in running, Beside(n), UNCHANGED <<dom, slotMap, metaBy>>,
         osb'[n].pc # "out" => osb[n].pc # "out",
         NodeOk(n)',
         \A m \in running : m # n /\ rec[m].pc \in RecReplayed => journal'[rec[m].slot].by = journal[rec[m].slot].by
  PROVE  FreshShape' /\ NoDup' /\ InDomain' /\ NodesOk'
<1> USE DEF FreshInv, Beside
<1>0. running \subseteq FsNode
  BY DEF OwnInv, Shape
<1>1. FreshShape' /\ NoDup'
  BY DEF NoDup
<1>2. InDomain'
  <2>1. ASSUME NEW k \in running, osb'[k].pc # "out" PROVE osb[k].pc # "out"
    BY <1>0, <2>1
  <2> QED
    BY <2>1 DEF InDomain
<1>3. NodesOk'
  <2>1. ASSUME NEW m \in FsNode, m # n PROVE NodeOk(m)'
    <3>1. rec[m].pc \in RecReplayed => m \in running
      BY <2>1 DEF OwnInv, DeadOut, RecReplayed
    <3> QED
      BY <2>1, <3>1 DEF NodesOk, NodeOk
  <2> QED
    BY <2>1 DEF NodesOk
<1> QED
  BY <1>1, <1>2, <1>3

\* ocfs2_journal_init: no recovery is between the journal and the slot map.
LEMMA JournalInitFresh ==
  ASSUME OwnInv, OwnInv', FreshInv, NEW n \in running, JournalInit(n)
  PROVE  FreshInv'
<1> n \in FsNode
  BY DEF OwnInv, Shape
<1>1. /\ UNCHANGED <<running, dom, slotMap, newest, metaBy, rec, user, known>>
      /\ osb[n].pc = "slot" /\ journal' = [journal EXCEPT ![osb[n].slot].by = n]
  BY DEF JournalInit
<1>2. /\ Kept(n) /\ osb'[n].pc = "journal" /\ \A m \in FsNode \ {n} : osb'[m] = osb[m]
  BY DEF JournalInit, Kept, OwnInv, Shape, Unmounted
<1>3. osb[n].slot \in Slot
  BY <1>1 DEF OwnInv, SlotKept, InSlot
<1>4. /\ journal'[osb[n].slot].by = n
      /\ \A s \in Slot : /\ journal'[s].dirty = journal[s].dirty /\ journal'[s].gen = journal[s].gen
                         /\ s # osb[n].slot => journal'[s] = journal[s]
  BY <1>1, <1>3 DEF OwnInv, Shape
<1>5. \A m \in FsNode : rec[m].pc \notin RecReplayed
  BY <1>1, SuperOfMount DEF WithSuper, OwnInv, DeadOut, RecSuper, RecReplayed
<1>6. Beside(n)
  BY <1>1, <1>2 DEF Beside, FreshInv, FreshShape, Kept
<1>7. NodeOk(n)'
  BY <1>1, <1>2, <1>5 DEF FreshInv, NodesOk, NodeOk, Kept, Enabled
<1>8. FreshShape' /\ NoDup' /\ InDomain' /\ NodesOk'
  BY <1>1, <1>5, <1>6, <1>7, JournalBeside DEF OwnInv, Shape
<1>9. LockKnown'
  <2>1. \A b \in running : osb[b].pc \in InJournal => osb'[b] = osb[b] /\ b # n
    BY <1>1, <1>2 DEF OwnInv, Shape, InJournal, InLoaded
  <2>2. osb'[n].pc \in InJournal
    BY <1>2 DEF InJournal
  <2> QED
    BY <1>1, <1>2, <1>4, <2>1, <2>2 DEF FreshInv, LockKnown, Kept
<1>10. NewestSafe'
  <2>1. ~Owner(n) /\ ~Owner(n)' /\ Missed(n)'
    BY <1>1, <1>2 DEF Owner, Owning, InLoaded, Missed, Recording
  <2>2. newest # 0 => newest \in Slot
    BY DEF FreshInv, NewestSafe
  <2> QED
    BY <1>1, <1>4, <1>5, <1>6, <2>1, <2>2, NewestStays
<1> QED
  BY <1>8, <1>9, <1>10 DEF FreshInv

\* ocfs2_journal_load, ocfs2_journal_shutdown: the inode that is newest in the slot's
\* journal is so no more, any other stays where it is.
LEMMA OwnJournalFresh ==
  ASSUME OwnInv, OwnInv', FreshInv, NEW n \in running, JournalLoad(n) \/ JournalShutdown(n)
  PROVE  FreshInv'
<1> n \in FsNode
  BY DEF OwnInv, Shape
<1> DEFINE s == osb[n].slot
<1>1. /\ UNCHANGED <<running, dom, slotMap, metaBy, rec, user, known>>
      /\ newest' = Replayed(s)
  BY DEF JournalLoad, JournalShutdown
<1>2. /\ Kept(n) /\ \A m \in FsNode \ {n} : osb'[m] = osb[m]
      /\ \/ osb[n].pc = "journal" /\ osb'[n].pc = "loaded"
         \/ osb[n].pc = "shutdown" /\ osb'[n].pc = "leave"
  BY DEF JournalLoad, JournalShutdown, Pc, Kept, OwnInv, Shape, Unmounted
<1>3. s \in Slot /\ journal[s].by = n
  BY <1>2 DEF OwnInv, SlotKept, InJournal
<1>4. /\ \A t \in Slot : t # s => journal'[t] = journal[t]
      /\ \/ osb'[n].pc = "loaded" /\ journal'[s].by = n
         \/ osb'[n].pc = "leave" /\ journal'[s].by = Nobody
  <2>1. CASE JournalLoad(n)
    BY <1>2, <1>3, <2>1 DEF JournalLoad, OwnInv, Shape
  <2>2. CASE JournalShutdown(n)
    BY <1>2, <1>3, <2>2 DEF JournalShutdown, OwnInv, Shape
  <2> QED
    BY <2>1, <2>2
<1>5. Beside(n)
  BY <1>1, <1>2 DEF Beside, FreshInv, FreshShape, Kept
<1>6. \A m \in running : rec[m].pc \in RecReplayed => rec[m].slot # s /\ rec[m].slot \in Slot
  BY <1>2 DEF OwnInv, VictimGone, InJournal, RecVictim, RecReplayed
<1>7. NodeOk(n)'
  BY <1>1, <1>2, <1>4, <1>6
  DEF FreshInv, NodesOk, NodeOk, Kept, Enabled, Recording
<1>8. FreshShape' /\ NoDup' /\ InDomain' /\ NodesOk'
  BY <1>1, <1>2, <1>4, <1>5, <1>6, <1>7, JournalBeside
<1>9. LockKnown'
  <2>1. ASSUME NEW t \in Slot, t # s
        PROVE  journal[t].by # n
    BY <1>2, <2>1 DEF FreshInv, LockKnown
  <2>2. ASSUME NEW t \in Slot, t # s, journal[t].by \in running
        PROVE  osb'[journal[t].by] = osb[journal[t].by]
    BY <1>2, <2>1, <2>2 DEF OwnInv, Shape
  <2>3. osb'[n].pc = "loaded" => osb'[n].pc \in InJournal
    BY DEF InJournal, InLoaded
  <2>4. Nobody \notin running
    BY FsAssumption DEF OwnInv, Shape, Nobody
  <2> QED
    BY <1>1, <1>2, <1>3, <1>4, <2>1, <2>2, <2>3, <2>4
    DEF FreshInv, LockKnown, Kept
<1>10. NewestSafe'
  <2>1. CASE newest = s
    BY <1>1, <2>1, NothingNewest DEF Replayed
  <2>2. CASE newest # s
    <3>1. ~Owner(n) /\ ~Owner(n)' /\ Missed(n)'
      BY <1>1, <1>2, <2>2 DEF Owner, Missed, Recording, Kept, Replayed
    <3>2. newest # 0 => newest \in Slot
      BY DEF FreshInv, NewestSafe
    <3>3. known' = {} /\ rec'[n].pc \in RecReplayed => rec'[n].slot # newest
      BY <1>1 DEF FreshInv, NewestSafe
    <3> QED
      BY <1>1, <1>4, <1>5, <2>2, <3>1, <3>2, <3>3, NewestStays DEF Replayed
  <2> QED
    BY <2>1, <2>2
<1> QED
  BY <1>8, <1>9, <1>10 DEF FreshInv

\* ocfs2_replay_journal: what is in the journal is where everyone finds it; a clean
\* journal has not got the newest inode.
LEMMA ReplayFresh ==
  ASSUME OwnInv, OwnInv', FreshInv, NEW n \in running, ReplayJournal(n)
  PROVE  FreshInv'
<1> n \in FsNode
  BY DEF OwnInv, Shape
<1> DEFINE s == rec[n].slot
<1>1. /\ UNCHANGED <<running, dom, slotMap, metaBy, user, known>>
      /\ rec[n].pc = "lock" /\ Freed(journal[s].by)
      /\ IF journal[s].dirty THEN newest' = Replayed(s) ELSE newest' = newest
  BY DEF ReplayJournal
<1>2. s \in Slot
  BY <1>1 DEF OwnInv, VictimGone, RecVictim
<1>3. /\ osb'[n].pc = osb[n].pc /\ osb'[n].slot = osb[n].slot /\ osb'[n].si = osb[n].si
      /\ osb'[n].disabled = osb[n].disabled /\ osb'[n].dead = osb[n].dead
      /\ \A m \in FsNode \ {n} : osb'[m] = osb[m]
  BY DEF ReplayJournal, OwnInv, Shape, Unmounted
<1>4. DOMAIN osb'[n].gens = Slot /\ \A t \in Slot : t # s => osb'[n].gens[t] = osb[n].gens[t]
  BY DEF ReplayJournal, OwnInv, Shape, Unmounted, FreshInv, FreshShape
<1>5. /\ rec'[n].pc = "la" /\ rec'[n].slot = s /\ rec'[n].victim = rec[n].victim
      /\ \A m \in FsNode \ {n} : rec'[m] = rec[m]
  BY DEF ReplayJournal, OwnInv, Shape, RecIdle
<1>6. /\ journal'[s].by = Nobody
      /\ \A t \in Slot : t # s => journal'[t] = journal[t]
  BY <1>2 DEF ReplayJournal, OwnInv, Shape
<1>7. Beside(n)
  BY <1>1, <1>3, <1>4, <1>5 DEF Beside, FreshInv, FreshShape
<1>8. NodeOk(n)'
  BY <1>1, <1>3, <1>5, <1>6 DEF FreshInv, NodesOk, NodeOk, RecSuper, RecVictim
<1>9. FreshShape' /\ NoDup' /\ InDomain' /\ NodesOk'
  <2>1. \A m \in running : m # n => rec[m].pc \notin RecReplayed
    BY <1>1, SuperOfRecovery DEF RecSuper, RecReplayed
  <2> QED
    BY <1>1, <1>3, <1>7, <1>8, <2>1, JournalBeside
<1>10. LockKnown'
  <2>1. \A m \in running : osb'[m].pc = osb[m].pc /\ osb'[m].slot = osb[m].slot
    BY <1>3 DEF OwnInv, Shape
  <2>2. Nobody \notin running
    BY FsAssumption DEF OwnInv, Shape, Nobody
  <2> QED
    BY <1>1, <1>6, <2>1, <2>2 DEF FreshInv, LockKnown
<1>11. NewestSafe'
  <2>1. CASE newest = s /\ journal[s].dirty
    BY <1>1, <2>1, NothingNewest DEF Replayed
  <2>2. CASE newest = s /\ ~journal[s].dirty
    <3>1. s # 0
      BY <1>2, FsAssumption DEF Slot
    <3>2. known # {}
      BY <2>2, <3>1 DEF FreshInv, NewestSafe
    <3> QED
      BY <1>1, <1>2, <2>2, <3>2 DEF NewestSafe
  <2>3. CASE newest # s
    <3>1. newest' = newest
      BY <1>1, <2>3 DEF Replayed
    <3>2. newest # 0 => newest \in Slot
      BY DEF FreshInv, NewestSafe
    <3>3. Owner(n)' <=> Owner(n)
      BY <1>3, <3>1 DEF Owner
    <3>4. newest # 0 /\ Lost => Missed(n)'
      BY <1>1, <1>3, <1>4, <1>6, <2>3, <3>1, <3>2 DEF Lost, Missed
    <3> QED
      BY <1>1, <1>5, <1>6, <1>7, <2>3, <3>1, <3>2, <3>3, <3>4, NewestStays
  <2> QED
    BY <2>1, <2>2, <2>3
<1> QED
  BY <1>9, <1>10, <1>11 DEF FreshInv
----------------------------------------------------------------------------
(* The slot map.                                                           *)

\* ocfs2_find_slot: a node is in no other slot; one that takes back the slot it died in
\* is not taken for its owner before it has loaded the journal.
LEMMA FindSlotFresh ==
  ASSUME OwnInv, OwnInv', FreshInv, NEW n \in running, FindSlot(n)
  PROVE  FreshInv'
<1> n \in FsNode
  BY DEF OwnInv, Shape
<1> DEFINE mine == NodeToSlot(slotMap, n)
           free == {s \in Slot : slotMap[s] = Nobody}
           t == IF mine # 0 THEN mine ELSE IF free = {} THEN 0 ELSE Min(free)
<1>1. mine # 0 => mine \in Slot /\ slotMap[mine] = n
  BY NodeToSlotGives
<1>2. free # {} => Min(free) \in free
  BY LowestSlot
<1>3. n # Nobody
  BY FsAssumption DEF Nobody
<1>4. mine = 0 => \A s \in Slot : slotMap[s] # n
  BY <1>3, SlotFound, FsAssumption DEF FreshInv, Slot
<1>5. t # 0 => /\ t \in Slot
               /\ \/ slotMap[t] = n
                  \/ slotMap[t] = Nobody /\ \A s \in Slot : slotMap[s] # n
  BY <1>1, <1>2, <1>4
<1>6. /\ osb[n].pc = "join" /\ Freed(superBy[1])
      /\ t = 0 => /\ osb' = [osb EXCEPT ![n] = [Unmounted EXCEPT !.pc = "leave", !.disabled = TRUE]]
                  /\ rec' = [rec EXCEPT ![n] = RecIdle]
                  /\ UNCHANGED <<superBy, slotMap>>
      /\ t # 0 => /\ slotMap' = [slotMap EXCEPT ![t] = n]
                  /\ osb' = [osb EXCEPT ![n].pc = "slot", ![n].slot = t, ![n].si = [slotMap EXCEPT ![t] = n]]
                  /\ rec' = rec
      /\ UNCHANGED <<running, dom, journal, newest, metaBy, user, known>>
  BY DEF FindSlot, SuperLocked, ReadMap
<1> HIDE DEF t
<1>7. /\ \A m \in FsNode \ {n} : osb'[m] = osb[m] /\ rec'[m] = rec[m]
      /\ \/ osb'[n].pc = "leave" /\ DOMAIN osb'[n].gens = Slot /\ rec'[n].pc = "none"
         \/ osb'[n].pc = "slot" /\ osb'[n].gens = osb[n].gens /\ osb'[n].disabled = osb[n].disabled
              /\ rec'[n] = rec[n]
  <2>1. CASE t = 0
    <3> DEFINE o == [Unmounted EXCEPT !.pc = "leave", !.disabled = TRUE]
    <3>1. o.pc = "leave" /\ DOMAIN o.gens = Slot /\ RecIdle.pc = "none"
      BY DEF Unmounted, RecIdle
    <3>2. osb' = [osb EXCEPT ![n] = o] /\ rec' = [rec EXCEPT ![n] = RecIdle]
      BY <1>6, <2>1
    <3> HIDE DEF o
    <3> QED
      BY <3>1, <3>2 DEF OwnInv, Shape
  <2>2. CASE t # 0
    BY <1>6, <2>2 DEF OwnInv, Shape, Unmounted
  <2> QED
    BY <2>1, <2>2
<1>8. \A s \in Slot :
        \/ slotMap'[s] = slotMap[s]
        \/ s = t /\ slotMap[s] = Nobody /\ slotMap'[s] = n /\ \A r \in Slot : slotMap[r] # n
  <2>1. CASE t = 0
    BY <1>6, <2>1
  <2>2. CASE t # 0
    BY <1>5, <1>6, <2>2 DEF OwnInv, Shape
  <2> QED
    BY <2>1, <2>2
<1>9. Beside(n)
  BY <1>6, <1>7 DEF Beside, FreshInv, FreshShape
<1>10. \A m \in FsNode : rec[m].pc \notin RecSuper
  BY <1>6, SuperFree DEF OwnInv, DeadOut, RecSuper
<1>11. FreshShape' /\ NoDup'
  BY <1>8, <1>9 DEF Beside, FreshInv, NoDup
<1>12. InDomain'
  <2>1. ASSUME NEW k \in running, osb'[k].pc # "out" PROVE osb[k].pc # "out"
    BY <1>6, <1>7, <2>1 DEF OwnInv, Shape
  <2> QED
    BY <1>6, <2>1 DEF FreshInv, InDomain
<1>13. LockKnown'
  <2>1. \A b \in running : osb[b].pc \in InJournal => osb'[b] = osb[b]
    BY <1>6, <1>7 DEF OwnInv, Shape, InJournal, InLoaded
  <2>2. \A s \in Slot : slotMap[s] # Nobody => slotMap'[s] = slotMap[s]
    BY <1>8
  <2> QED
    BY <1>6, <2>1, <2>2 DEF FreshInv, LockKnown
<1>14. NodesOk'
  <2>1. NodeOk(n)'
    BY <1>6, <1>7, <1>10
    DEF FreshInv, NodesOk, NodeOk, Enabled, Recording, RecSuper, RecVictim,
        RecReplayed
  <2>2. ASSUME NEW m \in FsNode, m # n PROVE NodeOk(m)'
    BY <1>6, <1>7, <1>10, <2>2
    DEF FreshInv, NodesOk, NodeOk, RecSuper, RecVictim, RecReplayed
  <2> QED
    BY <2>1, <2>2 DEF NodesOk
<1>15. NewestSafe'
  <2>1. ~Owner(n) /\ ~Owner(n)' /\ Missed(n)'
    BY <1>6, <1>7 DEF Owner, Owning, InLoaded, Missed, Recording
  <2>2. newest \in Slot \union {0}
    BY DEF FreshInv, NewestSafe
  <2>3. newest # 0 /\ slotMap[newest] # Nobody => slotMap'[newest] = slotMap[newest]
    BY <1>8, <2>2
  <2>4. rec'[n].pc \notin RecReplayed
    BY <1>7, <1>10 DEF RecSuper, RecReplayed
  <2>5. newest # 0 /\ Lost => slotMap'[newest] = slotMap[newest]
    BY <2>3 DEF Lost
  <2> QED
    BY <1>6, <1>9, <2>1, <2>4, <2>5, NewestStays
<1> QED
  BY <1>11, <1>12, <1>13, <1>14, <1>15 DEF FreshInv
\* ocfs2_put_slot, ocfs2_clear_slot: a slot becomes free that the newest inode is not
\* in, or that its owner gives up.
LEMMA SlotFreed ==
  ASSUME OwnInv, OwnInv', FreshInv, NEW n \in running, PutSlot(n) \/ ClearSlot(n)
  PROVE  FreshInv'
<1> n \in FsNode
  BY DEF OwnInv, Shape
<1> DEFINE s == IF osb[n].pc = "put" THEN osb[n].slot ELSE rec[n].slot
<1>1. UNCHANGED <<running, dom, journal, newest, metaBy, user, known>>
  BY DEF PutSlot, ClearSlot
<1>2. \/ /\ PutSlot(n) /\ osb[n].pc = "put" /\ osb'[n].pc = "unlock" /\ osb'[n].dead = osb[n].dead
         /\ UNCHANGED rec
      \/ /\ ClearSlot(n) /\ rec[n].pc = "clear" /\ rec'[n].pc = "next" /\ osb'[n].pc = osb[n].pc
         /\ osb[n].pc \in {"mounted", "up", "exit"}
         /\ osb[n].si = slotMap /\ osb'[n].si = [osb[n].si EXCEPT ![s] = Nobody]
         /\ osb'[n].dead = osb[n].dead \ {slotMap[s]}
  <2>1. PutSlot(n) => /\ osb[n].pc = "put" /\ osb'[n].pc = "unlock" /\ osb'[n].dead = osb[n].dead
                      /\ UNCHANGED rec
    BY DEF PutSlot, OwnInv, Shape, Unmounted
  <2>2. ASSUME ClearSlot(n)
        PROVE  /\ rec[n].pc = "clear" /\ osb[n].pc \in {"mounted", "up", "exit"}
               /\ osb[n].si = slotMap /\ rec[n].victim = slotMap[rec[n].slot]
    BY <2>2 DEF ClearSlot, FreshInv, NodesOk, NodeOk, RecSuper, RecVictim
  <2>3. ClearSlot(n) => /\ rec'[n].pc = "next" /\ osb'[n].pc = osb[n].pc
                        /\ osb'[n].si = [osb[n].si EXCEPT ![rec[n].slot] = Nobody]
                        /\ osb'[n].dead = osb[n].dead \ {rec[n].victim}
    BY DEF ClearSlot, OwnInv, Shape, Unmounted, RecIdle
  <2> QED
    BY <2>1, <2>2, <2>3
<1>3. /\ osb'[n].slot = osb[n].slot /\ osb'[n].gens = osb[n].gens /\ osb'[n].disabled = osb[n].disabled
      /\ \A m \in FsNode \ {n} : osb'[m] = osb[m] /\ rec'[m] = rec[m]
  BY DEF PutSlot, ClearSlot, OwnInv, Shape, Unmounted, RecIdle
<1>4. slotMap' = [slotMap EXCEPT ![s] = Nobody]
  BY <1>2 DEF PutSlot, ClearSlot, ReadMap
<1>5. s \in Slot /\ \A r \in Slot : r # s => slotMap'[r] = slotMap[r]
  <2>1. s \in Slot
    BY <1>2 DEF OwnInv, SlotKept, VictimGone, InLoaded, InSlot, RecVictim
  <2> QED
    BY <1>4, <2>1 DEF OwnInv, Shape
<1>6. slotMap'[s] = Nobody
  BY <1>4, <1>5 DEF OwnInv, Shape
<1>7. \A m \in running : m # n => rec[m].pc \notin RecSuper
  <2>1. CASE PutSlot(n)
    BY <2>1, SuperFree DEF PutSlot, SuperLocked
  <2>2. CASE rec[n].pc = "clear"
    BY <2>2, SuperOfRecovery DEF RecSuper
  <2> QED
    BY <1>2, <2>1, <2>2
<1>8. Beside(n)
  BY <1>1, <1>3 DEF Beside, FreshInv, FreshShape
<1>9. journal[s].by \in running \union {Nobody}
  BY <1>2
  DEF OwnInv, SlotKept, InLoaded, InJournal, FreshInv, NodesOk, NodeOk,
      RecReplayed
<1>10. FreshShape' /\ NoDup'
  BY <1>5, <1>6, <1>8 DEF Beside, FreshInv, NoDup
<1>11. InDomain'
  <2>1. ASSUME NEW k \in running, osb'[k].pc # "out" PROVE osb[k].pc # "out"
    BY <1>2, <1>3, <2>1 DEF OwnInv, Shape
  <2> QED
    BY <1>1, <2>1 DEF FreshInv, InDomain
<1>12. LockKnown'
  <2>1. \A b \in running : osb[b].pc \in InJournal => osb'[b].pc \in InJournal /\ osb'[b].slot = osb[b].slot
    BY <1>2, <1>3 DEF OwnInv, Shape, InJournal, InLoaded
  <2> QED
    BY <1>1, <1>5, <1>9, <2>1 DEF FreshInv, LockKnown
<1>13. NodesOk'
  <2>1. NodeOk(n)'
    BY <1>1, <1>2, <1>3, <1>4
    DEF FreshInv, NodesOk, NodeOk, Enabled, Recording, RecSuper, RecVictim,
        RecReplayed
  <2>2. ASSUME NEW m \in FsNode, m # n PROVE NodeOk(m)'
    <3>1. rec[m].pc \notin RecSuper
      BY <1>7, <2>2 DEF OwnInv, DeadOut, RecSuper
    <3> QED
      BY <1>1, <1>3, <2>2, <3>1
      DEF FreshInv, NodesOk, NodeOk, RecSuper, RecVictim, RecReplayed
  <2> QED
    BY <2>1, <2>2 DEF NodesOk
<1>14. NewestSafe'
  <2>1. newest # 0 => newest \in Slot
    BY DEF FreshInv, NewestSafe
  <2>2. Owner(n)' <=> Owner(n)
    BY <1>1, <1>2, <1>3 DEF Owner, Owning, InLoaded
  <2>3. known' = {} /\ rec'[n].pc \in RecReplayed => rec'[n].slot # newest
    BY <1>1, <1>2 DEF FreshInv, NewestSafe, RecReplayed
  <2>4. ASSUME known' = {}, newest # 0, Lost PROVE slotMap'[newest] = slotMap[newest] /\ Missed(n)'
    <3>1. newest # s
      BY <1>1, <1>2, <2>4
      DEF Lost, Owner, Owning, InLoaded, FreshInv, NewestSafe, RecReplayed
    <3>2. slotMap[newest] # slotMap[s]
      BY <1>5, <2>1, <2>4, <3>1 DEF Lost, FreshInv, NoDup
    <3> QED
      BY <1>1, <1>2, <1>3, <1>5, <2>1, <2>4, <3>1, <3>2
      DEF Lost, Missed, Recording
  <2> QED
    BY <1>1, <1>8, <2>2, <2>3, <2>4, NewestStays
<1> QED
  BY <1>10, <1>11, <1>12, <1>13, <1>14 DEF FreshInv
----------------------------------------------------------------------------
(* Nodes that die and come back.                                           *)

\* The owner of the newest inode dies: it was in the slot map, all the others have it in
\* the domain, none uses the inode, and none knows a generation of the slot that
\* is not the last.
LEMMA DeathFresh ==
  ASSUME OwnInv, OwnInv', FreshInv, NEW n \in FsNode, FsDies(n)
  PROVE  FreshInv'
<1>0. running \subseteq FsNode
  BY DEF OwnInv, Shape
<1>1. /\ UNCHANGED <<slotMap, journal, newest, metaBy>>
      /\ n \in running /\ running' = running \ {n}
      /\ dom' = [dom EXCEPT ![n] = {}] /\ user' = [user EXCEPT ![n] = "idle"]
      /\ osb' = [osb EXCEPT ![n] = Unmounted] /\ rec' = [rec EXCEPT ![n] = RecIdle]
  BY DEF FsDies
<1>2. Unmounted.pc = "out" /\ DOMAIN Unmounted.gens = Slot /\ RecIdle.pc = "none"
  BY DEF Unmounted, RecIdle
<1>3. /\ osb'[n].pc = "out" /\ rec'[n].pc = "none" /\ user'[n] = "idle" /\ FreshShape'
      /\ \A m \in FsNode \ {n} : osb'[m] = osb[m] /\ rec'[m] = rec[m] /\ user'[m] = user[m] /\ dom'[m] = dom[m]
  BY <1>1, <1>2 DEF OwnInv, Shape, FreshInv, FreshShape
<1>4. /\ "gap" \notin known' => "gap" \notin known /\ ~InGap(n)
      /\ known' = {} => known = {} /\ ~InGap(n) /\ \A m \in running \ {n} : ~NotHeard(m, osb[n].slot)
  BY DEF FsDies
<1>5. NoDup' /\ InDomain'
  BY <1>0, <1>1, <1>3 DEF FreshInv, NoDup, InDomain
<1>6. LockKnown'
  <2>1. ASSUME NEW s \in Slot, journal[s].by = n, "gap" \notin known' PROVE slotMap[s] = n
    <3>1. osb[n].pc \in InJournal /\ osb[n].slot = s /\ osb[n].pc \notin {"unlock", "shutdown"}
      BY <1>1, <1>4, <2>1 DEF FreshInv, LockKnown, InGap
    <3>2. osb[n].pc \in InSlot
      BY <3>1 DEF InJournal, InSlot
    <3> QED
      BY <1>1, <3>1, <3>2 DEF OwnInv, SlotKept
  <2>2. ASSUME NEW s \in Slot, journal[s].by \in running \ {n}
        PROVE  osb'[journal[s].by] = osb[journal[s].by]
    BY <1>0, <1>3, <2>2
  <2> QED
    BY <1>1, <1>4, <2>1, <2>2 DEF FreshInv, LockKnown
<1>7. NodesOk'
  <2>1. NodeOk(n)'
    BY <1>3 DEF NodeOk, Enabled, Recording, RecSuper, RecVictim, RecReplayed
  <2>2. ASSUME NEW m \in FsNode, m # n PROVE NodeOk(m)'
    BY <1>1, <1>3, <2>2 DEF FreshInv, NodesOk, NodeOk
  <2> QED
    BY <2>1, <2>2 DEF NodesOk
<1>8. ASSUME known' = {}, newest # 0 PROVE Alive' \/ Lost'
  <2>1. newest \in Slot
    BY <1>8 DEF FreshInv, NewestSafe
  <2>2. \A m \in running \ {n} : Owner(m)' <=> Owner(m)
    BY <1>0, <1>1, <1>3 DEF Owner
  <2>3. CASE \E m \in running \ {n} : Owner(m) /\ metaBy = m
    BY <1>1, <2>2, <2>3 DEF Alive
  <2>4. CASE Owner(n) /\ metaBy = n
    <3>1. osb[n].slot = newest /\ osb[n].pc \in InLoaded
      BY <1>4, <1>8, <2>4 DEF Owner, Owning, InGap
    <3>2. slotMap[newest] = n /\ n # Nobody
      BY <1>1, <3>1, FsAssumption DEF OwnInv, SlotKept, InSlot, Nobody
    <3>3. ASSUME NEW m \in running \ {n} PROVE ~Owner(m)
      <4>1. journal[newest].by = n
        BY <1>1, <3>1 DEF OwnInv, SlotKept, InJournal
      <4> QED
        BY <3>3, <4>1 DEF Owner, Owning, InJournal, OwnInv, SlotKept
    <3>4. ASSUME NEW k \in running \ {n}, osb[k].pc \in Recording
          PROVE  osb[k].gens[newest] = journal[newest].gen /\ n \in dom[k] /\ user[k] \notin {"again", "use"}
      <4>1. osb[k].gens[newest] = journal[newest].gen
        BY <1>4, <1>8, <3>1, <3>4 DEF NotHeard, Recording
      <4>2. n \in dom[k]
        BY <1>1, <3>1, <3>4 DEF FreshInv, InDomain, Recording, InLoaded
      <4>3. user[k] \notin {"again", "use"}
        BY <1>0, <2>4, <3>4 DEF FreshInv, NodesOk, NodeOk
      <4> QED
        BY <4>1, <4>2, <4>3
    <3>5. \A k \in running \ {n} : Missed(k)'
      BY <1>0, <1>1, <1>3, <3>2, <3>4 DEF Missed
    <3> QED
      BY <1>1, <2>2, <3>2, <3>3, <3>5 DEF Lost
  <2>5. CASE Lost
    <3>1. \A k \in running \ {n} : Missed(k)'
      BY <1>0, <1>1, <1>3, <2>5 DEF Lost, Missed
    <3> QED
      BY <1>1, <2>2, <2>5, <3>1 DEF Lost
  <2> QED
    BY <1>4, <1>8, <2>3, <2>4, <2>5 DEF FreshInv, NewestSafe, Alive
<1>9. NewestSafe'
  BY <1>0, <1>1, <1>3, <1>4, <1>8 DEF FreshInv, NewestSafe
<1> QED
  BY <1>3, <1>5, <1>6, <1>7, <1>9 DEF FreshInv

\* A node boots when every survivor has recorded its death.
LEMMA BootFresh ==
  ASSUME OwnInv, OwnInv', FreshInv, NEW n \in FsNode, Boots(n)
  PROVE  FreshInv'
<1>1. /\ UNCHANGED <<dom, slotMap, newest, osb, rec, user, known>>
      /\ n \notin running /\ running' = running \union {n}
      /\ \A m \in running : n \notin dom[m]
      /\ journal' = [s \in Slot |-> IF journal[s].by = n THEN [journal[s] EXCEPT !.by = Nobody] ELSE journal[s]]
      /\ metaBy' = IF metaBy = n THEN Nobody ELSE metaBy
  BY DEF Boots
<1>2. \A s \in Slot : /\ journal'[s].dirty = journal[s].dirty /\ journal'[s].gen = journal[s].gen
                      /\ journal'[s].by = IF journal[s].by = n THEN Nobody ELSE journal[s].by
  BY <1>1 DEF OwnInv, Shape
<1>3. osb[n].pc = "out" /\ rec[n].pc = "none"
  BY <1>1 DEF OwnInv, DeadOut
<1>4. FreshShape' /\ NoDup' /\ InDomain'
  BY <1>1, <1>3 DEF FreshInv, FreshShape, NoDup, InDomain
<1>5. LockKnown'
  <2>1. Nobody \notin running'
    BY FsAssumption DEF OwnInv, Shape, Nobody
  <2> QED
    BY <1>1, <1>2, <2>1 DEF FreshInv, LockKnown
<1>6. NodesOk'
  <2>1. ASSUME NEW m \in FsNode PROVE NodeOk(m)'
    <3>1. user[m] \in {"again", "use"} => metaBy = m /\ m # n
      BY <1>3 DEF FreshInv, NodesOk, NodeOk
    <3>2. rec[m].pc \in RecReplayed => rec[m].slot \in Slot
      BY DEF OwnInv, VictimGone, DeadOut, RecVictim, RecReplayed
    <3>3. rec[m].pc \in RecReplayed => journal'[rec[m].slot].by = Nobody
      BY <1>2, <3>2 DEF FreshInv, NodesOk, NodeOk
    <3> QED
      BY <1>1, <3>1, <3>3 DEF FreshInv, NodesOk, NodeOk
  <2> QED
    BY <2>1 DEF NodesOk
<1>7. ASSUME known = {}, newest # 0 PROVE Alive' \/ Lost'
  <2>1. newest \in Slot
    BY <1>7 DEF FreshInv, NewestSafe
  <2>2. ~Owner(n) /\ Missed(n)' /\ \A m \in FsNode : Owner(m)' <=> Owner(m)
    BY <1>1, <1>3 DEF Owner, Owning, InLoaded, Missed, Recording
  <2>3. CASE Alive
    BY <1>1, <2>2, <2>3 DEF Alive, OwnInv, Shape
  <2>4. CASE Lost
    <3>1. ASSUME NEW k \in running PROVE Missed(k)'
      BY <1>1, <1>2, <2>1, <2>4, <3>1 DEF Lost, Missed
    <3> QED
      BY <1>1, <2>2, <2>4, <3>1 DEF Lost, OwnInv, Shape
  <2> QED
    BY <1>7, <2>3, <2>4 DEF FreshInv, NewestSafe
<1>8. NewestSafe'
  <2>1. newest # 0 => newest \in Slot
    BY DEF FreshInv, NewestSafe
  <2> QED
    BY <1>1, <1>2, <1>3, <1>7, <2>1 DEF FreshInv, NewestSafe, RecReplayed
<1> QED
  BY <1>4, <1>5, <1>6, <1>8 DEF FreshInv

----------------------------------------------------------------------------
\* Nobody is anywhere at the start.
LEMMA StartsFresh == FsInit => FreshInv
BY FsAssumption
DEF FsInit, FreshInv, FreshShape, NoDup, InDomain, LockKnown, NodesOk, NodeOk,
    NewestSafe, Unmounted, RecIdle, RecSuper, RecVictim, RecReplayed, Enabled,
    Recording, Nobody

\* Every step preserves the invariant.
LEMMA StepFresh == OwnInv /\ OwnInv' /\ FreshInv /\ [FsNext]_fsvars => FreshInv'
<1> SUFFICES ASSUME OwnInv, OwnInv', FreshInv, [FsNext]_fsvars PROVE FreshInv'
  OBVIOUS
<1>1. ASSUME NEW n \in running, MountSteps(n) PROVE FreshInv'
  BY <1>1, JoinFresh, FindSlotFresh, JournalInitFresh, OwnJournalFresh,
     MountQuiet, MarkDeadFresh
  DEF MountSteps
<1>2. ASSUME NEW n \in running, UmountSteps(n) PROVE FreshInv'
  BY <1>2, DismountQuiet, SlotFreed, MountQuiet, OwnJournalFresh, LeaveFresh
  DEF UmountSteps
<1>3. ASSUME NEW n \in running, RecSteps(n) PROVE FreshInv'
  BY <1>3, RecoveryQuiet, RecNextFresh, ReplayFresh, SlotFreed DEF RecSteps
<1>4. ASSUME NEW n \in running, UserSteps(n) PROVE FreshInv'
  BY <1>4, WaitFresh, GrantedFresh, DoneFresh, CommitFresh DEF UserSteps
<1>5. ASSUME NEW n \in running, CompleteRecovery(n) \/ \E v \in FsNode : NodeDown(n, v) PROVE FreshInv'
  BY <1>5, MountQuiet, NodeDownFresh
<1>6. ASSUME NEW n \in FsNode, FsDies(n) \/ Boots(n) PROVE FreshInv'
  BY <1>6, DeathFresh, BootFresh
<1>7. CASE UNCHANGED fsvars
  BY <1>7
  DEF fsvars, FreshInv, FreshShape, NoDup, InDomain, LockKnown, NodesOk, NodeOk,
      NewestSafe, Alive, Lost, Missed, Owner
<1> QED
  BY <1>1, <1>2, <1>3, <1>4, <1>5, <1>6, <1>7 DEF FsNext, FsWork

\* A task that uses the inode uses it as it is newest (__ocfs2_recovery_thread,
\* ocfs2_inode_lock_full_nested): the journal that alone has it is the node's own, and
\* that of a dead node was replayed before, unless something happened that the code
\* does not provide for.
THEOREM FreshAfterRecovery == FsSpec => []FreshInode
<1>1. OwnInv /\ FreshInv => FreshInode
  <2> SUFFICES ASSUME OwnInv, FreshInv, NEW n \in running, user[n] = "use", known = {}, newest # 0
               PROVE  newest = osb[n].slot
    BY DEF FreshInode
  <2>1. metaBy = n /\ osb[n].pc \in Recording
    BY DEF FreshInv, NodesOk, NodeOk, OwnInv, Shape, Recording
  <2>2. ~Lost
    BY <2>1 DEF Lost, Missed
  <2> QED
    BY <2>1, <2>2 DEF FreshInv, NewestSafe, Alive, Owner
<1>2. FsSpec => []OwnInv
  BY StartsOwned, StepKeeps, PTL DEF FsSpec
<1> QED
  BY <1>1, <1>2, StartsFresh, StepFresh, PTL DEF FsSpec

----------------------------------------------------------------------------
(* The work that is queued (ocfs2_queue_recovery_completion).              *)

Queued == [slot : Slot, work : SUBSET Work]

\* The queue has quota work for slot s.
Wants(c, s) == \E i \in DOMAIN c : c[i].slot = s /\ "quota" \in c[i].work

\* A finite set, made a sequence, is all in it.
LEMMA SetInSeq ==
  ASSUME NEW S, IsFiniteSet(S)
  PROVE  SetToSeq(S) \in Seq(S) /\ \A x \in S : \E i \in DOMAIN SetToSeq(S) : SetToSeq(S)[i] = x
<1> DEFINE k == Cardinality(S)
           f == SetToSeq(S)
<1>1. k \in Nat /\ ExistsBijection(1..k, S)
  BY FS_CardinalityType
<1>2. \E g \in [1..k -> S] : IsInjective(g)
  BY <1>1 DEF ExistsBijection, Bijection, Injection
<1>3. f \in [1..k -> S] /\ IsInjective(f)
  BY <1>2 DEF SetToSeq
<1>4. f \in Injection(1..k, S)
  BY <1>3 DEF Injection
<1>5. Cardinality(1..k) = k
  BY <1>1, FS_Interval
<1>6. f \in Surjection(1..k, S)
  BY <1>4, <1>5, FS_Injection
<1>7. f \in Seq(S)
  BY <1>1, <1>3
<1>8. DOMAIN f = 1..k
  BY <1>3
<1> QED
  BY <1>6, <1>7, <1>8 DEF Surjection

\* Work for every slot of a set is in the queue made of it.
LEMMA ItemsQueued ==
  ASSUME NEW S \in SUBSET Slot, NEW w \in SUBSET Work, NEW T,
         \A x : x \in T <=> \E s \in S : x = Item(s, w)
  PROVE  /\ SetToSeq(T) \in Seq(Queued)
         /\ "quota" \in w => \A s \in S : Wants(SetToSeq(T), s)
<1> DEFINE f == [s \in S |-> Item(s, w)]
<1>1. IsFiniteSet(S)
  <2>1. IsFiniteSet(Slot)
    BY FS_Interval, FsAssumption DEF Slot
  <2> QED
    BY <2>1, FS_Subset
<1>2. f \in Surjection(S, T)
  BY DEF Surjection
<1>3. IsFiniteSet(T)
  BY <1>1, <1>2, FS_Surjection
<1>4. T \subseteq Queued
  BY DEF Item, Queued
<1>5. \A s \in S : Item(s, w) \in T /\ Item(s, w).slot = s /\ Item(s, w).work = w
  BY DEF Item
<1>6. SetToSeq(T) \in Seq(Queued) /\ \A x \in T : \E i \in DOMAIN SetToSeq(T) : SetToSeq(T)[i] = x
  BY <1>3, <1>4, SetInSeq, SeqMonotonic
<1>7. ASSUME "quota" \in w, NEW s \in S PROVE Wants(SetToSeq(T), s)
  BY <1>5, <1>6, <1>7 DEF Wants
<1> QED
  BY <1>6, <1>7

\* ... of orphans alone, ...
LEMMA OrphansQueued ==
  ASSUME NEW S \in SUBSET Slot
  PROVE  SetToSeq({Item(s, {}) : s \in S}) \in Seq(Queued)
<1> DEFINE T == {Item(s, {}) : s \in S}
<1>1. \A x : x \in T <=> \E s \in S : x = Item(s, {})
  OBVIOUS
<1> HIDE DEF T
<1>2. SetToSeq(T) \in Seq(Queued)
  BY <1>1, ItemsQueued
<1> QED
  BY <1>2 DEF T

\* ... or of quota files.
LEMMA QuotasQueued ==
  ASSUME NEW S \in SUBSET Slot
  PROVE  /\ SetToSeq({Item(s, {"quota"}) : s \in S}) \in Seq(Queued)
         /\ \A r \in S : Wants(SetToSeq({Item(s, {"quota"}) : s \in S}), r)
<1> DEFINE T == {Item(s, {"quota"}) : s \in S}
<1>1. \A x : x \in T <=> \E s \in S : x = Item(s, {"quota"})
  OBVIOUS
<1> HIDE DEF T
<1>2. SetToSeq(T) \in Seq(Queued) /\ \A s \in S : Wants(SetToSeq(T), s)
  BY <1>1, ItemsQueued DEF Work
<1> QED
  BY <1>2 DEF T

\* Nothing queued is lost when more is queued, ...
LEMMA MoreQueued ==
  ASSUME NEW c \in Seq(Queued), NEW d \in Seq(Queued)
  PROVE  c \o d \in Seq(Queued) /\ \A s : Wants(c, s) \/ Wants(d, s) => Wants(c \o d, s)
<1>1. /\ c \o d \in Seq(Queued) /\ Len(c) \in Nat /\ Len(d) \in Nat
      /\ DOMAIN c = 1..Len(c) /\ DOMAIN d = 1..Len(d) /\ DOMAIN (c \o d) = 1..(Len(c) + Len(d))
      /\ \A i \in 1..(Len(c) + Len(d)) : (c \o d)[i] = IF i <= Len(c) THEN c[i] ELSE d[i - Len(c)]
  BY ConcatProperties, LenProperties
<1>2. ASSUME NEW s, Wants(c, s) PROVE Wants(c \o d, s)
  <2>1. PICK i \in 1..Len(c) : c[i].slot = s /\ "quota" \in c[i].work
    BY <1>1, <1>2 DEF Wants
  <2>2. i \in 1..(Len(c) + Len(d)) /\ (c \o d)[i] = c[i]
    BY <1>1, <2>1
  <2> QED
    BY <1>1, <2>1, <2>2 DEF Wants
<1>3. ASSUME NEW s, Wants(d, s) PROVE Wants(c \o d, s)
  <2>1. PICK i \in 1..Len(d) : d[i].slot = s /\ "quota" \in d[i].work
    BY <1>1, <1>3 DEF Wants
  <2>2. i + Len(c) \in 1..(Len(c) + Len(d)) /\ (c \o d)[i + Len(c)] = d[i]
    BY <1>1, <2>1
  <2> QED
    BY <1>1, <2>1, <2>2 DEF Wants
<1> QED
  BY <1>1, <1>2, <1>3

\* ... or one item is appended.
LEMMA OneQueued ==
  ASSUME NEW c \in Seq(Queued), NEW e \in Queued
  PROVE  Append(c, e) \in Seq(Queued) /\ \A s : Wants(c, s) => Wants(Append(c, e), s)
<1>1. /\ Append(c, e) \in Seq(Queued) /\ Len(c) \in Nat
      /\ DOMAIN c = 1..Len(c) /\ DOMAIN Append(c, e) = 1..(Len(c) + 1)
      /\ \A i \in 1..Len(c) : Append(c, e)[i] = c[i]
  BY AppendProperties, LenProperties
<1> QED
  BY <1>1 DEF Wants

\* What is done is no longer queued, and all the rest is.
LEMMA OneDone ==
  ASSUME NEW c \in Seq(Queued), c # << >>
  PROVE  /\ Tail(c) \in Seq(Queued) /\ Head(c) \in Queued
         /\ \A s : Wants(c, s) => Wants(Tail(c), s) \/ (Head(c).slot = s /\ "quota" \in Head(c).work)
<1>1. /\ Head(c) \in Queued /\ Tail(c) \in Seq(Queued) /\ Len(c) \in Nat
      /\ DOMAIN c = 1..Len(c) /\ DOMAIN Tail(c) = 1..(Len(c) - 1)
      /\ \A i \in 1..(Len(c) - 1) : Tail(c)[i] = c[i + 1]
  BY HeadTailProperties, LenProperties
<1>2. Head(c) = c[1]
  OBVIOUS
<1>3. ASSUME NEW s, Wants(c, s) PROVE Wants(Tail(c), s) \/ (Head(c).slot = s /\ "quota" \in Head(c).work)
  <2>1. PICK i \in 1..Len(c) : c[i].slot = s /\ "quota" \in c[i].work
    BY <1>1, <1>3 DEF Wants
  <2>2. CASE i = 1
    BY <1>2, <2>1, <2>2
  <2>3. CASE i # 1
    <3>1. i - 1 \in 1..(Len(c) - 1) /\ Tail(c)[i - 1] = c[i]
      BY <1>1, <2>1, <2>3
    <3> QED
      BY <1>1, <2>1, <3>1 DEF Wants
  <2> QED
    BY <2>2, <2>3
<1> QED
  BY <1>1, <1>3

----------------------------------------------------------------------------
(* AllCleanedUp: a slot in the slot map is a node's that runs, or is being *)
(* recovered, or every mounted node is to recover it; nothing is left in a *)
(* slot that is not in the map but quota work that is queued.              *)

Leaving == {"unlock", "shutdown"}
Working == {"mounted", "up", "exit"}

\* Nothing has happened that leaves a slot behind.
Fine == known \intersect {"gap", "twice", "reused", "half"} = {}

NodeTyped(n) ==
  /\ osb[n].copy \subseteq Work /\ osb[n].replay \subseteq Slot /\ rec[n].quotas \subseteq Slot
  /\ osb[n].cleanups \in Seq(Queued)
  /\ osb[n].pc \notin Working => osb[n].cleanups = << >>
LeftTyped == DOMAIN leftover = Slot /\ \A s \in Slot : leftover[s] \subseteq Work
CleanTypes == LeftTyped /\ \A n \in FsNode : NodeTyped(n)

Owned(s) == \E m \in running : osb[m].pc \in InSlot /\ osb[m].slot = s
Left(s) == \E m \in running : osb[m].pc \in Leaving /\ osb[m].slot = s
Handled(s) == \E n \in running : rec[n].pc \in RecReplayed /\ rec[n].slot = s

\* Node k takes slot s for unrecovered, and will hear of the death in it or has recorded it.
Listed(k, s) ==
  osb[k].pc \in Recording => /\ osb[k].gens[s] = journal[s].gen
                             /\ slotMap[s] \in dom[k] \ running \/ slotMap[s] \in osb[k].dead

\* Node n is to recover the quota file of slot s.
Due(n, s) == (rec[n].pc \in RecSuper /\ s \in rec[n].quotas) \/ Wants(osb[n].cleanups, s)

Taken == \A s \in Slot : slotMap[s] # Nobody => Owned(s) \/ Handled(s) \/ \A k \in running : Listed(k, s)
Given == \A s \in Slot : slotMap[s] = Nobody =>
  \/ Left(s)
  \/ /\ ~journal[s].dirty /\ leftover[s] \subseteq {"quota"}
     /\ leftover[s] # {} => \E n \in running : Due(n, s)

\* How far a recovery and an unmount are
HalfOk(n) ==
  /\ rec[n].pc \in RecVictim => rec[n].slot \in rec[n].quotas
  /\ rec[n].pc \in RecReplayed => ~journal[rec[n].slot].dirty
  /\ rec[n].pc = "clear" => leftover[rec[n].slot] \subseteq {"quota"}
  /\ osb[n].pc \in {"exit", "put"} \union Leaving => leftover[osb[n].slot] = {}

\* The slot that a node gives up is free, or has a new owner.
GapOk(n) == osb[n].pc \in Leaving /\ slotMap[osb[n].slot] # Nobody => Owned(osb[n].slot)

CleanInv ==
  /\ CleanTypes /\ \A n \in running : HalfOk(n)
  /\ Fine => (\A n \in running : GapOk(n)) /\ Taken /\ Given

\* The others stay as they are, and what n has is of its type.
Apart(n) ==
  /\ UNCHANGED running /\ known \subseteq known'
  /\ \A m \in FsNode \ {n} : osb'[m] = osb[m] /\ rec'[m] = rec[m]
  /\ NodeTyped(n)' /\ LeftTyped'

\* The others keep their types.
LEMMA TypesApart ==
  ASSUME CleanTypes, NEW n \in running, Apart(n)
  PROVE  CleanTypes'
<1>1. ASSUME NEW m \in FsNode, m # n PROVE NodeTyped(m)'
  <2>1. osb'[m] = osb[m] /\ rec'[m] = rec[m]
    BY <1>1 DEF Apart
  <2> QED
    BY <2>1 DEF CleanTypes, NodeTyped
<1> QED
  BY <1>1 DEF Apart, CleanTypes

\* Two nodes are in one slot only if one has just taken what the other gives up.
LEMMA SlotsApart ==
  ASSUME OwnInv, NEW n \in running, NEW m \in running, m # n
  PROVE  /\ osb[n].pc \in InSlot /\ osb[m].pc \in InSlot => osb[m].slot # osb[n].slot
         /\ osb[n].pc \in InJournal /\ osb[m].pc \in InJournal => osb[m].slot # osb[n].slot
BY DEF OwnInv, SlotKept

\* Node n goes on: in the slot it has it may do what it likes, otherwise it leaves the
\* slot map and the journals alone and cleans up.
LEMMA CleanStays ==
  ASSUME OwnInv, CleanInv, NEW n \in running, Apart(n), slotMap' = slotMap,
         \A k \in running : k # n /\ osb[k].pc # "out" => dom'[k] \ running = dom[k] \ running,
         \A s \in Slot :
           \/ journal'[s].dirty = journal[s].dirty /\ journal'[s].gen = journal[s].gen
           \/ osb[n].pc \in InSlot /\ osb[n].pc \in InJournal /\ osb[n].slot = s,
         \A s \in Slot :
           \/ leftover'[s] \subseteq leftover[s]
           \/ osb[n].pc \in InLoaded /\ osb[n].slot = s,
         osb[n].pc \in InSlot <=> osb'[n].pc \in InSlot,
         osb[n].pc \in Leaving <=> osb'[n].pc \in Leaving,
         osb[n].pc \in InSlot \union Leaving => osb'[n].slot = osb[n].slot,
         rec[n].pc \in RecReplayed <=> rec'[n].pc \in RecReplayed,
         rec[n].pc \in RecReplayed => rec'[n].slot = rec[n].slot,
         HalfOk(n)',
         \A s \in Slot : /\ Fine /\ slotMap[s] # Nobody /\ ~Owned(s) /\ ~Handled(s) /\ Listed(n, s)
                         => Listed(n, s)',
         \A s \in Slot : /\ slotMap[s] = Nobody /\ leftover[s] \subseteq {"quota"}
                         /\ leftover'[s] # {} /\ Due(n, s)
                         => Due(n, s)'
  PROVE  CleanInv'
<1>0. running \subseteq FsNode
  BY DEF OwnInv, Shape
<1>a. running' = running /\ \A m \in running : m # n => osb'[m] = osb[m] /\ rec'[m] = rec[m]
  BY <1>0 DEF Apart
<1>1. CleanTypes'
  BY TypesApart DEF CleanInv
<1>2. ASSUME NEW s PROVE (Owned(s)' <=> Owned(s)) /\ (Left(s)' <=> Left(s)) /\ (Handled(s)' <=> Handled(s))
  <2>1. ASSUME NEW m \in running
        PROVE  /\ osb'[m].pc \in InSlot /\ osb'[m].slot = s <=> osb[m].pc \in InSlot /\ osb[m].slot = s
               /\ osb'[m].pc \in Leaving /\ osb'[m].slot = s <=> osb[m].pc \in Leaving /\ osb[m].slot = s
               /\ rec'[m].pc \in RecReplayed /\ rec'[m].slot = s <=> rec[m].pc \in RecReplayed /\ rec[m].slot = s
    BY <1>a, <2>1
  <2> QED
    BY <1>a, <2>1 DEF Owned, Left, Handled
<1>3. ASSUME NEW m \in running PROVE HalfOk(m)'
  <2>1. CASE m = n
    BY <2>1
  <2>2. CASE m # n
    <3>1. HalfOk(m) /\ osb'[m] = osb[m] /\ rec'[m] = rec[m]
      BY <1>a, <2>2 DEF CleanInv
    <3>2. rec[m].pc \in RecReplayed =>
            rec[m].slot \in Slot /\ (osb[n].pc \in InSlot \union InJournal => osb[n].slot # rec[m].slot)
      BY DEF OwnInv, VictimGone, RecVictim, RecReplayed
    <3>3. rec[m].pc \in RecReplayed => ~journal'[rec[m].slot].dirty
      BY <3>1, <3>2 DEF HalfOk
    <3>4. rec[m].pc = "clear" => leftover'[rec[m].slot] \subseteq {"quota"}
      BY <3>1, <3>2 DEF HalfOk, RecReplayed, InSlot
    <3>5. osb[m].pc \in {"exit", "put"} \union Leaving => leftover'[osb[m].slot] = {}
      <4>1. osb[m].pc \in {"exit", "put"} \union Leaving => osb[m].pc \in InJournal /\ osb[m].slot \in Slot
        BY DEF OwnInv, SlotKept, InJournal, InLoaded, Leaving
      <4>2. osb[n].pc \in InLoaded => osb[n].pc \in InJournal
        BY DEF InJournal
      <4> QED
        BY <2>2, <3>1, <4>1, <4>2, SlotsApart DEF HalfOk
    <3> QED
      BY <3>1, <3>3, <3>4, <3>5 DEF HalfOk
  <2> QED
    BY <2>1, <2>2
<1>4. ASSUME Fine, NEW m \in running PROVE GapOk(m)'
  <2>1. GapOk(m)
    BY <1>4 DEF CleanInv
  <2>2. osb'[m].pc \in Leaving => osb[m].pc \in Leaving /\ osb'[m].slot = osb[m].slot
    BY <1>a
  <2> QED
    BY <1>2, <2>1, <2>2 DEF GapOk
<1>5. ASSUME Fine PROVE Taken'
  <2>1. ASSUME NEW s \in Slot, slotMap[s] # Nobody, ~Owned(s), ~Handled(s), NEW k \in running
        PROVE  Listed(k, s)'
    <3>1. Listed(k, s)
      BY <1>5, <2>1 DEF CleanInv, Taken
    <3>2. CASE k = n
      BY <1>5, <2>1, <3>1, <3>2
    <3>3. CASE k # n
      <4>1. journal'[s].gen = journal[s].gen
        BY <2>1 DEF Owned
      <4>2. osb[k].pc \in Recording => dom'[k] \ running = dom[k] \ running
        BY <3>3 DEF Recording
      <4> QED
        BY <1>a, <3>1, <3>3, <4>1, <4>2 DEF Listed
    <3> QED
      BY <3>2, <3>3
  <2> QED
    BY <1>a, <1>2, <2>1 DEF Taken
<1>6. ASSUME Fine PROVE Given'
  <2>1. ASSUME NEW s \in Slot, slotMap[s] = Nobody, ~Left(s)
        PROVE  /\ ~journal'[s].dirty /\ leftover'[s] \subseteq {"quota"}
               /\ leftover'[s] # {} => \E m \in running : Due(m, s)'
    <3>1. /\ ~journal[s].dirty /\ leftover[s] \subseteq {"quota"}
          /\ leftover[s] # {} => \E m \in running : Due(m, s)
      BY <1>6, <2>1 DEF CleanInv, Given
    <3>2. ~(osb[n].pc \in InSlot /\ osb[n].slot = s)
      BY <2>1, FsAssumption DEF OwnInv, SlotKept, Shape, Nobody
    <3>3. ~journal'[s].dirty /\ leftover'[s] \subseteq leftover[s]
      BY <3>1, <3>2 DEF InSlot
    <3>4. ASSUME leftover'[s] # {} PROVE \E m \in running : Due(m, s)'
      <4>1. PICK m \in running : Due(m, s)
        BY <3>1, <3>3, <3>4
      <4>2. CASE m = n
        BY <2>1, <3>1, <3>4, <4>1, <4>2
      <4>3. CASE m # n
        BY <1>a, <4>1, <4>3 DEF Due
      <4> QED
        BY <4>2, <4>3
    <3> QED
      BY <3>1, <3>3, <3>4
  <2> QED
    BY <1>a, <1>2, <2>1 DEF Given
<1>7. Fine' => Fine
  BY DEF Fine, Apart
<1> QED
  BY <1>a, <1>1, <1>3, <1>4, <1>5, <1>6, <1>7 DEF CleanInv

\* An empty queue has no work.
LEMMA NothingWanted == \A s : ~Wants(<< >>, s)
BY DEF Wants

\* A slot's owner has a slot.
LEMMA OwnSlotThere ==
  ASSUME OwnInv, NEW n \in running, osb[n].pc \in InSlot \union InJournal
  PROVE  osb[n].slot \in Slot
BY DEF OwnInv, SlotKept

\* ocfs2_dlm_init, ocfs2_journal_init, ocfs2_journal_load: nothing is recorded or queued.
LEMMA MountBegins ==
  ASSUME OwnInv, FreshInv, CleanInv, NEW n \in running, FsJoin(n) \/ JournalInit(n) \/ JournalLoad(n)
  PROVE  CleanInv'
<1> n \in FsNode
  BY DEF OwnInv, Shape
<1>1. UNCHANGED <<running, slotMap, leftover, rec, known>>
  BY DEF FsJoin, JournalInit, JournalLoad
<1>2. /\ \A m \in FsNode \ {n} : osb'[m] = osb[m]
      /\ \/ osb[n].pc = "out" /\ osb'[n].pc = "join" /\ UNCHANGED journal
         \/ osb[n].pc = "slot" /\ osb'[n].pc = "journal" /\ osb'[n].slot = osb[n].slot
         \/ osb[n].pc = "journal" /\ osb'[n].pc = "loaded" /\ osb'[n].slot = osb[n].slot
      /\ osb'[n].copy \subseteq Work /\ osb'[n].replay \subseteq Slot /\ osb'[n].cleanups = << >>
  <2>0. osb[n].copy \subseteq Work /\ osb[n].replay \subseteq Slot
        /\ (osb[n].pc \in {"slot", "journal"} => osb[n].cleanups = << >>)
    BY DEF CleanInv, CleanTypes, NodeTyped, Working
  <2>1. CASE FsJoin(n)
    BY <2>1 DEF FsJoin, OwnInv, Shape, Unmounted
  <2>2. CASE JournalInit(n)
    BY <2>0, <2>2 DEF JournalInit, OwnInv, Shape, Unmounted
  <2>3. CASE JournalLoad(n)
    BY <2>0, <2>3 DEF JournalLoad, Pc, OwnInv, Shape, Unmounted
  <2> QED
    BY <2>1, <2>2, <2>3
<1>3. \A s \in Slot : \/ journal'[s].dirty = journal[s].dirty /\ journal'[s].gen = journal[s].gen
                      \/ osb[n].pc = "journal" /\ osb[n].slot = s
  <2>1. CASE FsJoin(n)
    BY <2>1 DEF FsJoin
  <2>2. CASE JournalInit(n)
    BY <2>2 DEF JournalInit, OwnInv, Shape
  <2>3. CASE JournalLoad(n)
    BY <2>3 DEF JournalLoad, OwnInv, Shape
  <2> QED
    BY <2>1, <2>2, <2>3
<1>4. \A k \in running : k # n /\ osb[k].pc # "out" => dom'[k] \ running = dom[k] \ running
  <2>1. CASE FsJoin(n)
    <3>1. PICK in : /\ \A m \in running : osb[m].pc # "out" => m \in in
                    /\ \A m \in in : dom[m] = in
                    /\ dom' = [m \in FsNode |-> IF m \in in \union {n} THEN in \union {n} ELSE dom[m]]
      BY <2>1 DEF FsJoin
    <3> QED
      BY <3>1 DEF OwnInv, Shape
  <2>2. CASE JournalInit(n) \/ JournalLoad(n)
    BY <2>2 DEF JournalInit, JournalLoad
  <2> QED
    BY <2>1, <2>2
<1>5. Apart(n)
  BY <1>1, <1>2, EmptySeq
  DEF Apart, CleanInv, CleanTypes, NodeTyped, LeftTyped
<1>6. HalfOk(n)'
  <2>1. HalfOk(n)
    BY DEF CleanInv
  <2>2. rec[n].pc \notin RecVictim
    BY <1>2 DEF FreshInv, NodesOk, NodeOk, RecSuper, RecVictim
  <2> QED
    BY <1>1, <1>2, <2>2 DEF HalfOk, RecVictim, RecReplayed, Leaving
<1>7. \A s : ~Wants(osb[n].cleanups, s)
  BY <1>2, NothingWanted DEF CleanInv, CleanTypes, NodeTyped, Working
<1>8. \A s \in Slot : Listed(n, s)' /\ (Due(n, s) => Due(n, s)')
  BY <1>1, <1>2, <1>7 DEF Listed, Recording, Due
<1> QED
  BY <1>1, <1>2, <1>3, <1>4, <1>5, <1>6, <1>8, CleanStays
  DEF InSlot, InJournal, InLoaded, Leaving

\* ocfs2_load_local_alloc, ocfs2_complete_mount_recovery, ocfs2_enable_quotas: the slot's
\* own work is queued.
LEMMA MountGoesOn ==
  ASSUME OwnInv, FreshInv, CleanInv, NEW n \in running, LoadLocalAlloc(n) \/ MountDone(n) \/ QuotasOn(n)
  PROVE  CleanInv'
<1> n \in FsNode
  BY DEF OwnInv, Shape
<1>1. UNCHANGED <<running, dom, slotMap, journal, rec, known>>
  BY DEF LoadLocalAlloc, MountDone, QuotasOn
<1>2. NodeTyped(n) /\ LeftTyped
  BY DEF CleanInv, CleanTypes
<1>3. osb[n].slot \in Slot
  BY OwnSlotThere DEF LoadLocalAlloc, MountDone, QuotasOn, InSlot, InLoaded
<1> DEFINE From(a, b) ==
      /\ osb[n].pc = a /\ osb'[n].pc = b /\ osb'[n].slot = osb[n].slot
      /\ osb'[n].gens = osb[n].gens /\ osb'[n].dead = osb[n].dead
      /\ osb'[n].copy \subseteq Work /\ osb'[n].replay \subseteq Slot
      /\ osb'[n].cleanups \in Seq(Queued)
      /\ \A s : Wants(osb[n].cleanups, s) => Wants(osb'[n].cleanups, s)
      /\ \A m \in FsNode \ {n} : osb'[m] = osb[m]
<1>4. LoadLocalAlloc(n) => From("loaded", "la") /\ osb'[n].cleanups = osb[n].cleanups
  BY <1>2 DEF LoadLocalAlloc, OwnInv, Shape, Unmounted, NodeTyped, Work
<1>5. ASSUME MountDone(n) PROVE From("marked", "mounted")
  <2> DEFINE items == <<Item(osb[n].slot, osb[n].copy)>> \o SetToSeq({Item(s, {}) : s \in osb[n].replay})
  <2>1. items \in Seq(Queued)
    <3>1. SetToSeq({Item(s, {}) : s \in osb[n].replay}) \in Seq(Queued)
      BY <1>2, OrphansQueued DEF NodeTyped
    <3>2. <<Item(osb[n].slot, osb[n].copy)>> \in Seq(Queued)
      BY <1>2, <1>3 DEF NodeTyped, Item, Queued
    <3> QED
      BY <3>1, <3>2, MoreQueued
  <2>2. osb[n].pc = "marked"
        /\ osb' = [[osb EXCEPT ![n].cleanups = @ \o items]
                     EXCEPT ![n].pc = "mounted", ![n].copy = {}, ![n].replay = {}]
    BY <1>5 DEF MountDone, Queue
  <2> HIDE DEF items
  <2>3. /\ osb[n].pc = "marked" /\ osb'[n].pc = "mounted" /\ osb'[n].slot = osb[n].slot
        /\ osb'[n].gens = osb[n].gens /\ osb'[n].dead = osb[n].dead
        /\ osb'[n].copy = {} /\ osb'[n].replay = {} /\ osb'[n].cleanups = osb[n].cleanups \o items
        /\ \A m \in FsNode \ {n} : osb'[m] = osb[m]
    BY <2>2 DEF OwnInv, Shape, Unmounted
  <2> QED
    BY <1>2, <2>1, <2>3, MoreQueued DEF NodeTyped
<1>6. ASSUME QuotasOn(n) PROVE From("mounted", "up")
  <2> DEFINE e == Item(osb[n].slot, {"quota"})
  <2>1. e \in Queued
    BY <1>3 DEF Item, Queued, Work
  <2>2. PICK c : /\ c = osb[n].cleanups \/ c = Append(osb[n].cleanups, e)
                 /\ osb' = [osb EXCEPT ![n].pc = "up", ![n].cleanups = c]
    BY <1>6 DEF QuotasOn, OwnInv, Shape, Unmounted
  <2> HIDE DEF e
  <2>3. c \in Seq(Queued) /\ \A s : Wants(osb[n].cleanups, s) => Wants(c, s)
    BY <1>2, <2>1, <2>2, OneQueued DEF NodeTyped
  <2>4. osb[n].pc = "mounted"
    BY <1>6 DEF QuotasOn
  <2> QED
    BY <1>2, <2>2, <2>3, <2>4 DEF OwnInv, Shape, Unmounted, NodeTyped
<1>7. /\ LeftTyped'
      /\ \A s \in Slot : leftover'[s] \subseteq leftover[s]
  <2>1. CASE LoadLocalAlloc(n)
    BY <1>2, <2>1 DEF LoadLocalAlloc, LeftTyped
  <2>2. CASE MountDone(n) \/ QuotasOn(n)
    BY <1>2, <2>2 DEF MountDone, QuotasOn, LeftTyped
  <2> QED
    BY <2>1, <2>2
<1>8. /\ From(osb[n].pc, osb'[n].pc)
      /\ \/ osb[n].pc = "loaded" /\ osb'[n].pc = "la" /\ osb'[n].cleanups = osb[n].cleanups
         \/ osb[n].pc = "marked" /\ osb'[n].pc = "mounted"
         \/ osb[n].pc = "mounted" /\ osb'[n].pc = "up"
  BY <1>4, <1>5, <1>6
<1>9. Apart(n)
  BY <1>1, <1>2, <1>7, <1>8 DEF Apart, NodeTyped, Working
<1>10. HalfOk(n)'
  <2>1. HalfOk(n) /\ (rec[n].pc \in RecVictim => rec[n].slot \in Slot)
    BY DEF CleanInv, OwnInv, VictimGone
  <2>2. rec[n].pc = "clear" => leftover'[rec[n].slot] \subseteq {"quota"}
    BY <1>7, <2>1 DEF HalfOk, RecVictim
  <2> QED
    BY <1>1, <1>8, <2>1, <2>2 DEF HalfOk, Leaving
<1>11. \A s \in Slot : (Listed(n, s) /\ osb[n].pc \in Recording => Listed(n, s)')
  BY <1>1, <1>8 DEF Listed
<1>12. \A s \in Slot : Listed(n, s) => Listed(n, s)'
  BY <1>8, <1>11 DEF Listed, Recording
<1>13. \A s \in Slot : Due(n, s) => Due(n, s)'
  BY <1>1, <1>8 DEF Due
<1> QED
  BY <1>1, <1>7, <1>8, <1>9, <1>10, <1>12, <1>13, CleanStays
  DEF InSlot, InLoaded, Leaving

\* A recovery thread that starts has no quota file to recover.
LEMMA StartClean ==
  ASSUME OwnInv, FreshInv, CleanInv, NEW n \in running, NEW o, rec' = Start(n, o)
  PROVE  /\ \A m \in FsNode \ {n} : rec'[m] = rec[m]
         /\ rec'[n].quotas \subseteq Slot
         /\ rec'[n] = rec[n] \/ (rec[n].pc = "none" /\ rec'[n].pc = "start")
<1>1. rec[n].quotas \subseteq Slot
  BY DEF CleanInv, CleanTypes, NodeTyped, OwnInv, Shape
<1> QED
  BY <1>1 DEF Start, OwnInv, Shape, RecIdle

\* ocfs2_mark_dead_nodes: a slot that no node has and none recovers is that of a dead node
\* whose journal's lock is to be had, or of one that is still to be missed.
LEMMA MarkDeadClean ==
  ASSUME OwnInv, FreshInv, CleanInv, NEW n \in running, MarkDeadNodes(n)
  PROVE  CleanInv'
<1> n \in FsNode
  BY DEF OwnInv, Shape
<1>1. /\ UNCHANGED <<running, dom, slotMap, journal, leftover, known>>
      /\ osb[n].pc = "la" /\ osb'[n].pc = "marked" /\ osb'[n].slot = osb[n].slot
      /\ osb'[n].gens = [s \in Slot |-> journal[s].gen]
      /\ osb'[n].dead = osb[n].dead \union {slotMap[s] : s \in DiedThere(n)}
      /\ osb'[n].copy = osb[n].copy /\ osb'[n].replay \subseteq Slot /\ osb'[n].cleanups = osb[n].cleanups
      /\ \A m \in FsNode \ {n} : osb'[m] = osb[m]
  <2>1. /\ UNCHANGED <<running, dom, slotMap, journal, leftover, known>>
        /\ osb[n].pc = "la"
    BY DEF MarkDeadNodes
  <2>2. PICK r \in SUBSET Slot : osb' = [osb EXCEPT ![n] = [osb[n] EXCEPT !.pc = "marked", !.gens = [s \in Slot |-> journal[s].gen],
                             !.replay = r, !.dead = @ \union {slotMap[s] : s \in DiedThere(n)}]]
    BY DEF MarkDeadNodes
  <2> QED
    BY <2>1, <2>2 DEF OwnInv, Shape, Unmounted
<1>2. PICK o : rec' = Start(n, o)
  BY DEF MarkDeadNodes
<1>3. rec[n].pc \notin RecSuper
  BY <1>1 DEF FreshInv, NodesOk, NodeOk
<1>4. /\ \A m \in FsNode \ {n} : rec'[m] = rec[m]
      /\ rec'[n].pc \notin RecSuper /\ rec'[n].quotas \subseteq Slot
  BY <1>2, <1>3, StartClean DEF RecSuper
<1>5. NodeTyped(n) /\ LeftTyped
  BY DEF CleanInv, CleanTypes
<1>6. Apart(n)
  BY <1>1, <1>4, <1>5 DEF Apart, NodeTyped, LeftTyped, Working
<1>7. HalfOk(n)'
  BY <1>1, <1>4 DEF HalfOk, Leaving, RecSuper, RecVictim, RecReplayed
<1>8. ASSUME Fine, NEW s \in Slot, slotMap[s] # Nobody, ~Owned(s) PROVE Listed(n, s)'
  <2> DEFINE b == journal[s].by
  <2>1. s # osb[n].slot
    BY <1>1, <1>8 DEF Owned, InSlot, InLoaded
  <2>2. b \notin running
    <3>1. ASSUME b \in running PROVE FALSE
      <4>1. osb[b].pc \in InJournal /\ osb[b].slot = s
        BY <3>1 DEF FreshInv, LockKnown
      <4>2. osb[b].pc \in Leaving
        BY <1>8, <3>1, <4>1 DEF Owned, InJournal, InSlot, Leaving
      <4> QED
        BY <1>8, <3>1, <4>1, <4>2 DEF CleanInv, GapOk
    <3> QED
      BY <3>1
  <2>3. b # Nobody => slotMap[s] = b
    BY <1>8, <2>2 DEF FreshInv, LockKnown, Fine
  <2>4. Freed(b) \/ slotMap[s] \in dom[n] \ running
    BY <1>1, <2>2, <2>3 DEF Freed
  <2>5. slotMap[s] \in osb'[n].dead \/ slotMap[s] \in dom[n] \ running
    BY <1>1, <1>8, <2>1, <2>4 DEF DiedThere
  <2> QED
    BY <1>1, <2>5 DEF Listed
<1>9. \A s : ~Due(n, s)
  BY <1>1, <1>3, <1>5, NothingWanted DEF Due, NodeTyped, Working
<1> QED
  BY <1>1, <1>3, <1>4, <1>6, <1>7, <1>8, <1>9, CleanStays
  DEF InSlot, InLoaded, Leaving, RecSuper, RecReplayed

\* ocfs2_do_node_down: a death that is noticed is recorded.
LEMMA NodeDownClean ==
  ASSUME OwnInv, FreshInv, CleanInv, NEW n \in running, NEW v \in FsNode, NodeDown(n, v)
  PROVE  CleanInv'
<1> n \in FsNode
  BY DEF OwnInv, Shape
<1>1. /\ UNCHANGED <<running, slotMap, journal, leftover, known>>
      /\ v \notin running /\ dom' = [dom EXCEPT ![n] = @ \ {v}]
      /\ osb' = [osb EXCEPT ![n] = RecordDead(osb[n], v)]
  BY DEF NodeDown
<1>2. PICK o : rec' = Start(n, o)
  BY DEF NodeDown
<1>3. /\ osb'[n].pc = osb[n].pc /\ osb'[n].slot = osb[n].slot /\ osb'[n].gens = osb[n].gens
      /\ ~osb[n].disabled => osb'[n].dead = osb[n].dead \union {v}
      /\ osb'[n].copy = osb[n].copy /\ osb'[n].replay = osb[n].replay /\ osb'[n].cleanups = osb[n].cleanups
      /\ \A m \in FsNode \ {n} : osb'[m] = osb[m]
  BY <1>1 DEF RecordDead, OwnInv, Shape, Unmounted
<1>4. dom'[n] = dom[n] \ {v} /\ \A m \in FsNode \ {n} : dom'[m] = dom[m]
  BY <1>1 DEF FreshInv, FreshShape
<1>5. /\ \A m \in FsNode \ {n} : rec'[m] = rec[m]
      /\ rec'[n].quotas \subseteq Slot
      /\ rec'[n] = rec[n] \/ (rec[n].pc = "none" /\ rec'[n].pc = "start")
  BY <1>2, StartClean
<1>6. NodeTyped(n) /\ LeftTyped /\ HalfOk(n)
  BY DEF CleanInv, CleanTypes
<1>7. Apart(n)
  BY <1>1, <1>3, <1>5, <1>6 DEF Apart, NodeTyped, LeftTyped
<1>8. HalfOk(n)'
  BY <1>1, <1>3, <1>5, <1>6 DEF HalfOk, RecVictim, RecReplayed
<1>9. ASSUME NEW s \in Slot, Listed(n, s) PROVE Listed(n, s)'
  <2>1. osb[n].pc \in Recording => ~osb[n].disabled
    BY DEF FreshInv, NodesOk, NodeOk, Enabled
  <2> QED
    BY <1>1, <1>3, <1>4, <1>9, <2>1 DEF Listed
<1>10. \A s : Due(n, s) => Due(n, s)'
  BY <1>3, <1>5 DEF Due, RecSuper
<1>11. \A k \in running : k # n => dom'[k] = dom[k]
  BY <1>4 DEF OwnInv, Shape
<1> QED
  BY <1>1, <1>3, <1>5, <1>7, <1>8, <1>9, <1>10, <1>11, CleanStays
  DEF RecReplayed

\* ocfs2_dismount_volume: the slot's files are empty before the recovery ends, the slot
\* is given up, and the node leaves.
LEMMA DismountClean ==
  ASSUME OwnInv, FreshInv, CleanInv, NEW n \in running,
         Dismount(n) \/ RecoveryExit(n) \/ PutUnlock(n) \/ DlmShutdown(n)
  PROVE  CleanInv'
<1> n \in FsNode
  BY DEF OwnInv, Shape
<1>1. UNCHANGED <<running, slotMap, journal, rec, known>>
  BY DEF Dismount, RecoveryExit, PutUnlock, DlmShutdown
<1>2. NodeTyped(n) /\ LeftTyped /\ HalfOk(n)
  BY DEF CleanInv, CleanTypes
<1>3. /\ \A m \in FsNode \ {n} : osb'[m] = osb[m]
      /\ osb'[n].copy \subseteq Work /\ osb'[n].replay \subseteq Slot
      /\ osb'[n].cleanups = osb[n].cleanups \/ osb'[n].cleanups = << >>
      /\ \/ osb[n].pc = "up" /\ osb'[n].pc = "exit" /\ osb'[n].cleanups = osb[n].cleanups /\ osb'[n].slot = osb[n].slot
         \/ osb[n].pc = "exit" /\ osb'[n].pc = "put" /\ osb[n].cleanups = << >> /\ osb'[n].slot = osb[n].slot
         \/ osb[n].pc = "unlock" /\ osb'[n].pc = "shutdown" /\ osb'[n].slot = osb[n].slot
         \/ osb[n].pc = "leave" /\ osb'[n].pc = "out"
  <2>1. CASE Dismount(n)
    BY <1>2, <2>1 DEF Dismount, OwnInv, Shape, Unmounted, NodeTyped
  <2>2. CASE RecoveryExit(n)
    BY <1>2, <2>2 DEF RecoveryExit, OwnInv, Shape, Unmounted, NodeTyped
  <2>3. CASE PutUnlock(n)
    BY <1>2, <2>3 DEF PutUnlock, Pc, OwnInv, Shape, Unmounted, NodeTyped
  <2>4. CASE DlmShutdown(n)
    BY <1>2, <2>4 DEF DlmShutdown, OwnInv, Shape, Unmounted, NodeTyped
  <2> QED
    BY <2>1, <2>2, <2>3, <2>4
<1>4. /\ LeftTyped' /\ \A s \in Slot : leftover'[s] \subseteq leftover[s]
      /\ osb'[n].pc = "exit" => leftover'[osb[n].slot] = {}
  <2>1. CASE Dismount(n)
    <3>1. leftover' = [leftover EXCEPT ![osb[n].slot] = {}] /\ osb[n].pc = "up"
      BY <2>1 DEF Dismount
    <3>2. osb[n].slot \in Slot
      BY <3>1, OwnSlotThere DEF InSlot, InLoaded
    <3> QED
      BY <1>2, <3>1, <3>2 DEF LeftTyped
  <2>2. CASE RecoveryExit(n) \/ PutUnlock(n) \/ DlmShutdown(n)
    <3>1. leftover' = leftover /\ osb[n].pc # "up"
      BY <2>2 DEF RecoveryExit, PutUnlock, DlmShutdown
    <3> QED
      BY <1>2, <1>3, <3>1 DEF LeftTyped
  <2> QED
    BY <2>1, <2>2
<1>5. Apart(n)
  BY <1>1, <1>2, <1>3, <1>4, EmptySeq DEF Apart, NodeTyped, Working
<1>6. rec[n].pc \in RecVictim => rec[n].slot \in Slot
  BY DEF OwnInv, VictimGone
<1>7. HalfOk(n)'
  <2>1. rec[n].pc = "clear" => leftover'[rec[n].slot] \subseteq {"quota"}
    BY <1>2, <1>4, <1>6 DEF HalfOk, RecVictim
  <2>2. osb[n].pc \in {"exit", "unlock"} => osb[n].slot \in Slot
    BY OwnSlotThere DEF InSlot, InJournal, InLoaded
  <2>3. osb'[n].pc \in {"exit", "put"} \union Leaving => leftover'[osb'[n].slot] = {}
    BY <1>2, <1>3, <1>4, <2>2 DEF HalfOk, Leaving
  <2> QED
    BY <1>1, <1>2, <2>1, <2>3 DEF HalfOk
<1>8. \A s \in Slot : Listed(n, s)'
  BY <1>3 DEF Listed, Recording
<1>9. \A s : Due(n, s) => Due(n, s)'
  BY <1>1, <1>2, <1>3, NothingWanted DEF Due, NodeTyped, Working
<1>10. \A k \in running : k # n => dom'[k] \ running = dom[k] \ running
  <2>1. CASE Dismount(n) \/ RecoveryExit(n) \/ PutUnlock(n)
    BY <2>1 DEF Dismount, RecoveryExit, PutUnlock
  <2>2. CASE DlmShutdown(n)
    BY <2>2 DEF DlmShutdown, OwnInv, Shape
  <2> QED
    BY <2>1, <2>2
<1> QED
  BY <1>1, <1>3, <1>4, <1>5, <1>7, <1>8, <1>9, <1>10, CleanStays
  DEF InSlot, InLoaded, Leaving

\* A task that changes the inode leaves work behind in its own slot.
LEMMA UserClean ==
  ASSUME OwnInv, FreshInv, CleanInv, NEW n \in running, UserSteps(n)
  PROVE  CleanInv'
<1>1. UNCHANGED <<running, dom, slotMap, journal, osb, rec>> /\ known \subseteq known'
  BY DEF UserSteps, FsLock, FsGranted, FsUse, FsDone, CommitCache
<1>2. \/ leftover' = leftover
      \/ osb[n].pc \in {"mounted", "up"} /\ leftover' = [leftover EXCEPT ![osb[n].slot] = Work]
  <2>1. user[n] = "use" => osb[n].pc \in {"mounted", "up"}
    BY DEF FreshInv, NodesOk, NodeOk, OwnInv, Shape
  <2> QED
    BY <2>1 DEF UserSteps, FsLock, FsGranted, FsUse, FsDone, CommitCache
<1>3. NodeTyped(n) /\ LeftTyped /\ HalfOk(n)
  BY DEF CleanInv, CleanTypes, OwnInv, Shape
<1>4. LeftTyped' /\ \A s \in Slot : leftover'[s] = leftover[s] \/ (osb[n].pc \in {"mounted", "up"} /\ osb[n].slot = s)
  BY <1>2, <1>3 DEF LeftTyped
<1>5. Apart(n)
  BY <1>1, <1>3, <1>4 DEF Apart, NodeTyped
<1>6. HalfOk(n)'
  <2>1. rec[n].pc \in RecReplayed => /\ rec[n].slot \in Slot
                                     /\ osb[n].pc \in {"mounted", "up"} => osb[n].slot # rec[n].slot
    BY DEF OwnInv, VictimGone, RecVictim, RecReplayed, InSlot, InLoaded
  <2>2. osb[n].pc \in {"exit", "put"} \union Leaving => osb[n].slot \in Slot
    BY OwnSlotThere DEF InSlot, InJournal, InLoaded, Leaving
  <2> QED
    BY <1>1, <1>3, <1>4, <2>1, <2>2 DEF HalfOk, RecReplayed, Leaving
<1>7. \A s : (Listed(n, s) => Listed(n, s)') /\ (Due(n, s) => Due(n, s)')
  BY <1>1 DEF Listed, Due
<1> QED
  BY <1>1, <1>4, <1>5, <1>6, <1>7, CleanStays DEF InLoaded

\* ocfs2_complete_recovery: the quota file of a slot that nobody is in is recovered.
LEMMA CompleteClean ==
  ASSUME OwnInv, FreshInv, CleanInv, NEW n \in running, CompleteRecovery(n)
  PROVE  CleanInv'
<1> n \in FsNode
  BY DEF OwnInv, Shape
<1> DEFINE i == Head(osb[n].cleanups)
<1>1. /\ UNCHANGED <<running, dom, slotMap, journal, rec, known>>
      /\ osb[n].pc \in {"up", "exit"} /\ osb[n].cleanups # << >>
      /\ leftover' = IF "quota" \in i.work /\ (slotMap[i.slot] \in {Nobody, n})
                       THEN [leftover EXCEPT ![i.slot] = @ \ {"quota"}] ELSE leftover
      /\ osb' = [osb EXCEPT ![n].cleanups = Tail(@)]
  BY DEF CompleteRecovery
<1>2. /\ osb'[n].pc = osb[n].pc /\ osb'[n].slot = osb[n].slot
      /\ osb'[n].gens = osb[n].gens /\ osb'[n].dead = osb[n].dead
      /\ osb'[n].copy = osb[n].copy /\ osb'[n].replay = osb[n].replay
      /\ osb'[n].cleanups = Tail(osb[n].cleanups)
      /\ \A m \in FsNode \ {n} : osb'[m] = osb[m]
  BY <1>1 DEF OwnInv, Shape, Unmounted
<1>3. NodeTyped(n) /\ LeftTyped /\ HalfOk(n)
  BY DEF CleanInv, CleanTypes
<1>4. /\ Tail(osb[n].cleanups) \in Seq(Queued)
      /\ \A s : Wants(osb[n].cleanups, s) => Wants(osb'[n].cleanups, s) \/ (i.slot = s /\ "quota" \in i.work)
  BY <1>1, <1>2, <1>3, OneDone DEF NodeTyped
<1> HIDE DEF i
<1>5. /\ LeftTyped' /\ \A s \in Slot : leftover'[s] \subseteq leftover[s]
      /\ \A s \in Slot : i.slot = s /\ "quota" \in i.work /\ slotMap[s] = Nobody => "quota" \notin leftover'[s]
  BY <1>1, <1>3 DEF LeftTyped
<1>6. Apart(n)
  BY <1>1, <1>2, <1>3, <1>4, <1>5 DEF Apart, NodeTyped, Working
<1>7. HalfOk(n)'
  <2>1. rec[n].pc \in RecVictim => rec[n].slot \in Slot
    BY DEF OwnInv, VictimGone
  <2>2. osb[n].pc = "exit" => osb[n].slot \in Slot
    BY OwnSlotThere DEF InSlot, InLoaded
  <2> QED
    BY <1>1, <1>2, <1>3, <1>5, <2>1, <2>2 DEF HalfOk, RecVictim, Leaving
<1>8. \A s : Listed(n, s) => Listed(n, s)'
  BY <1>1, <1>2 DEF Listed
<1>9. ASSUME NEW s \in Slot, slotMap[s] = Nobody, leftover[s] \subseteq {"quota"}, leftover'[s] # {}, Due(n, s)
      PROVE  Due(n, s)'
  <2>1. "quota" \in leftover'[s]
    BY <1>5, <1>9
  <2>2. ~(i.slot = s /\ "quota" \in i.work)
    BY <1>5, <1>9, <2>1
  <2> QED
    BY <1>1, <1>4, <1>9, <2>2 DEF Due
<1> QED
  BY <1>1, <1>2, <1>5, <1>6, <1>7, <1>8, <1>9, CleanStays

----------------------------------------------------------------------------
\* The recovery thread takes the super lock; the victim's files are emptied.
LEMMA RecoveryGoesOn ==
  ASSUME OwnInv, FreshInv, CleanInv, NEW n \in running, RecStart(n) \/ BeginCleanup(n) \/ RecEnd(n)
  PROVE  CleanInv'
<1> n \in FsNode
  BY DEF OwnInv, Shape
<1>1. UNCHANGED <<running, dom, slotMap, journal, known>>
  BY DEF RecStart, BeginCleanup, RecEnd
<1>2. NodeTyped(n) /\ LeftTyped /\ HalfOk(n)
  BY DEF CleanInv, CleanTypes
<1> DEFINE Same == /\ osb'[n].pc = osb[n].pc /\ osb'[n].slot = osb[n].slot
                   /\ osb'[n].gens = osb[n].gens /\ osb'[n].dead = osb[n].dead
                   /\ osb'[n].copy \subseteq Work /\ osb'[n].replay \subseteq Slot
                   /\ osb'[n].cleanups \in Seq(Queued)
                   /\ osb[n].pc \notin Working => osb'[n].cleanups = << >>
                   /\ \A s : Wants(osb[n].cleanups, s) => Wants(osb'[n].cleanups, s)
                   /\ rec'[n].quotas \subseteq Slot
                   /\ \A m \in FsNode \ {n} : osb'[m] = osb[m] /\ rec'[m] = rec[m]
<1>3. ASSUME RecStart(n)
      PROVE  Same /\ rec[n].pc = "start" /\ rec'[n].pc = "next" /\ UNCHANGED leftover
  <2> DEFINE e == Item(osb[n].slot, {})
             c == Append(osb[n].cleanups, e)
  <2>0. osb[n].pc \in Working
    BY <1>3 DEF RecStart, Working
  <2>1. e \in Queued
    BY <2>0, OwnSlotThere DEF Item, Queued, Working, InSlot, InLoaded
  <2>2. PICK r \in SUBSET Slot : osb' = [osb EXCEPT ![n].si = slotMap, ![n].replay = r, ![n].cleanups = c]
    BY <1>2, <1>3 DEF RecStart, ReadMap, OwnInv, Shape, Unmounted, NodeTyped
  <2> HIDE DEF e
  <2>3. c \in Seq(Queued) /\ \A s : Wants(osb[n].cleanups, s) => Wants(c, s)
    BY <1>2, <2>1, OneQueued DEF NodeTyped
  <2> HIDE DEF c
  <2>4. /\ osb'[n].pc = osb[n].pc /\ osb'[n].slot = osb[n].slot
        /\ osb'[n].gens = osb[n].gens /\ osb'[n].dead = osb[n].dead
        /\ osb'[n].copy = osb[n].copy /\ osb'[n].replay = r /\ osb'[n].cleanups = c
        /\ \A m \in FsNode \ {n} : osb'[m] = osb[m]
    BY <2>2 DEF OwnInv, Shape, Unmounted
  <2>5. /\ rec[n].pc = "start" /\ rec'[n].pc = "next" /\ rec'[n].quotas = rec[n].quotas
        /\ \A m \in FsNode \ {n} : rec'[m] = rec[m]
        /\ UNCHANGED leftover
    BY <1>3 DEF RecStart, OwnInv, Shape, RecIdle
  <2> QED
    BY <1>2, <2>0, <2>3, <2>4, <2>5 DEF NodeTyped
<1>4. ASSUME BeginCleanup(n)
      PROVE  /\ Same /\ rec[n].pc = "la" /\ rec'[n].pc = "clear" /\ rec'[n].slot = rec[n].slot
             /\ rec'[n].quotas = rec[n].quotas
             /\ leftover' = [leftover EXCEPT ![rec[n].slot] = @ \intersect {"quota"}]
  <2>1. rec[n].pc = "la" /\ leftover' = [leftover EXCEPT ![rec[n].slot] = @ \intersect {"quota"}]
    BY <1>4 DEF BeginCleanup
  <2>2. leftover[rec[n].slot] \subseteq Work
    BY <1>2, <2>1 DEF LeftTyped, OwnInv, VictimGone, RecVictim
  <2>3. /\ osb'[n].pc = osb[n].pc /\ osb'[n].slot = osb[n].slot
        /\ osb'[n].gens = osb[n].gens /\ osb'[n].dead = osb[n].dead
        /\ osb'[n].copy = leftover[rec[n].slot] \ {"quota"}
        /\ osb'[n].replay = osb[n].replay /\ osb'[n].cleanups = osb[n].cleanups
        /\ \A m \in FsNode \ {n} : osb'[m] = osb[m]
    BY <1>4 DEF BeginCleanup, OwnInv, Shape, Unmounted
  <2>4. /\ rec'[n].pc = "clear" /\ rec'[n].slot = rec[n].slot /\ rec'[n].quotas = rec[n].quotas
        /\ \A m \in FsNode \ {n} : rec'[m] = rec[m]
    BY <1>4 DEF BeginCleanup, OwnInv, Shape, RecIdle
  <2> QED
    BY <1>2, <2>1, <2>2, <2>3, <2>4 DEF NodeTyped
<1>5. ASSUME RecEnd(n)
      PROVE  Same /\ rec[n].pc = "end" /\ rec'[n].pc \in {"start", "none"} /\ UNCHANGED leftover
  <2>1. /\ osb'[n].pc = osb[n].pc /\ osb'[n].slot = osb[n].slot
        /\ osb'[n].gens = osb[n].gens /\ osb'[n].dead = osb[n].dead
        /\ osb'[n].copy = osb[n].copy /\ osb'[n].replay \in {osb[n].replay, {}}
        /\ osb'[n].cleanups = osb[n].cleanups
        /\ \A m \in FsNode \ {n} : osb'[m] = osb[m]
    BY <1>5 DEF RecEnd, OwnInv, Shape, Unmounted
  <2>2. /\ rec[n].pc = "end" /\ rec'[n].pc \in {"start", "none"} /\ rec'[n].quotas \in {rec[n].quotas, {}}
        /\ \A m \in FsNode \ {n} : rec'[m] = rec[m]
        /\ UNCHANGED leftover
    BY <1>5 DEF RecEnd, OwnInv, Shape, RecIdle
  <2> QED
    BY <1>2, <2>1, <2>2 DEF NodeTyped
<1>6. /\ Same
      /\ \/ rec[n].pc = "start" /\ rec'[n].pc = "next" /\ UNCHANGED leftover
         \/ /\ rec[n].pc = "la" /\ rec'[n].pc = "clear" /\ rec'[n].slot = rec[n].slot
            /\ rec'[n].quotas = rec[n].quotas
            /\ leftover' = [leftover EXCEPT ![rec[n].slot] = @ \intersect {"quota"}]
         \/ rec[n].pc = "end" /\ rec'[n].pc \in {"start", "none"} /\ UNCHANGED leftover
  BY <1>3, <1>4, <1>5
<1>7. rec[n].pc \in RecVictim => rec[n].slot \in Slot
  BY DEF OwnInv, VictimGone
<1>8. /\ LeftTyped' /\ \A s \in Slot : leftover'[s] \subseteq leftover[s]
      /\ rec'[n].pc = "clear" => leftover'[rec[n].slot] \subseteq {"quota"}
  BY <1>2, <1>6, <1>7 DEF LeftTyped, RecVictim
<1>9. Apart(n)
  BY <1>1, <1>6, <1>8 DEF Apart, NodeTyped
<1>10. HalfOk(n)'
  <2>1. osb[n].pc \in {"exit", "put"} \union Leaving => osb[n].slot \in Slot
    BY OwnSlotThere DEF InSlot, InJournal, InLoaded, Leaving
  <2> QED
    BY <1>1, <1>2, <1>6, <1>8, <2>1 DEF HalfOk, RecVictim, RecReplayed
<1>11. \A s : (Listed(n, s) => Listed(n, s)')
  BY <1>1, <1>6 DEF Listed
<1>12. \A s : Due(n, s) => Due(n, s)'
  BY <1>6 DEF Due, RecSuper
<1> QED
  BY <1>1, <1>6, <1>8, <1>9, <1>10, <1>11, <1>12, CleanStays DEF RecReplayed

\* __ocfs2_recovery_thread: a node whose slot is still to be recovered is not passed over.
LEMMA RecNextClean ==
  ASSUME OwnInv, FreshInv, CleanInv, NEW n \in running, RecNext(n)
  PROVE  CleanInv'
<1> n \in FsNode
  BY DEF OwnInv, Shape
<1>1. rec[n].pc = "next" /\ UNCHANGED <<running, dom, slotMap, journal, leftover, known>>
  BY DEF RecNext
<1>2. osb[n].pc \in Working /\ osb[n].si = slotMap
  BY <1>1 DEF FreshInv, NodesOk, NodeOk, RecSuper, Working
<1>3. PICK v \in osb[n].dead :
        LET s == NodeToSlot(slotMap, v)
            busy == s # 0 /\ osb[n].gens[s] # journal[s].gen
        IN IF s = 0 \/ busy
             THEN /\ osb' = [osb EXCEPT ![n].dead = @ \ {v},
                               ![n].gens = IF busy THEN [@ EXCEPT ![s] = journal[s].gen] ELSE @]
                  /\ rec' = IF busy THEN [rec EXCEPT ![n].quotas = @ \union {s}] ELSE rec
             ELSE /\ rec' = [rec EXCEPT ![n].pc = "lock", ![n].victim = v, ![n].slot = s, ![n].quotas = @ \union {s}]
                  /\ UNCHANGED osb
  BY <1>2 DEF RecNext, SomeoneElseDid
<1> DEFINE s == NodeToSlot(slotMap, v)
           passed == s = 0 \/ osb[n].gens[s] # journal[s].gen
<1>4. s # 0 => s \in Slot /\ slotMap[s] = v
  BY NodeToSlotGives
<1> HIDE DEF s
<1>5. /\ osb'[n].pc = osb[n].pc /\ osb'[n].slot = osb[n].slot
      /\ osb'[n].copy = osb[n].copy /\ osb'[n].replay = osb[n].replay /\ osb'[n].cleanups = osb[n].cleanups
      /\ osb[n].dead \ {v} \subseteq osb'[n].dead /\ (~passed => osb'[n].dead = osb[n].dead)
      /\ \A r \in Slot : osb'[n].gens[r] \in {osb[n].gens[r], journal[r].gen}
      /\ \A m \in FsNode \ {n} : osb'[m] = osb[m]
  BY <1>3, <1>4 DEF OwnInv, Shape, Unmounted, FreshInv, FreshShape, s
<1>6. /\ \A m \in FsNode \ {n} : rec'[m] = rec[m]
      /\ rec'[n].quotas \subseteq rec[n].quotas \union (IF s = 0 THEN {} ELSE {s})
      /\ rec[n].quotas \subseteq rec'[n].quotas
      /\ rec'[n].pc = "next" \/ (rec'[n].pc = "lock" /\ rec'[n].slot = s /\ s \in rec'[n].quotas)
  BY <1>1, <1>3 DEF OwnInv, Shape, RecIdle, s
<1>7. NodeTyped(n) /\ LeftTyped /\ HalfOk(n)
  BY DEF CleanInv, CleanTypes
<1>8. Apart(n)
  <2>1. rec'[n].quotas \subseteq Slot
    BY <1>4, <1>6, <1>7 DEF NodeTyped
  <2> QED
    BY <1>1, <1>5, <1>6, <1>7, <2>1 DEF Apart, NodeTyped, LeftTyped
<1>9. HalfOk(n)'
  BY <1>1, <1>5, <1>6, <1>7 DEF HalfOk, RecVictim, RecReplayed
<1>10. ASSUME NEW t \in Slot, slotMap[t] # Nobody, Listed(n, t) PROVE Listed(n, t)'
  <2>1. slotMap[t] = v => s = t
    BY <1>10, SlotFound DEF FreshInv, s
  <2>2. t # 0
    BY FsAssumption DEF Slot
  <2>3. osb[n].pc \in Recording /\ passed => slotMap[t] # v
    BY <1>10, <2>1, <2>2 DEF Listed
  <2>4. osb[n].pc \in Recording => (slotMap[t] \in osb[n].dead => slotMap[t] \in osb'[n].dead)
    BY <1>5, <2>3
  <2> QED
    BY <1>1, <1>5, <1>10, <2>4 DEF Listed
<1>11. \A t : Due(n, t) => Due(n, t)'
  BY <1>1, <1>5, <1>6 DEF Due, RecSuper
<1> QED
  BY <1>1, <1>5, <1>6, <1>8, <1>9, <1>10, <1>11, CleanStays DEF RecReplayed

\* The recovery is over: the quota files are queued before the super lock is given back,
\* and no other node has begun a recovery meanwhile.
LEMMA RecFinishClean ==
  ASSUME OwnInv, FreshInv, CleanInv, NEW n \in running, RecFinish(n)
  PROVE  CleanInv'
<1> n \in FsNode
  BY DEF OwnInv, Shape
<1> DEFINE q == SetToSeq({Item(s, {"quota"}) : s \in rec[n].quotas})
           o == IF osb[n].need THEN SetToSeq({Item(s, {}) : s \in osb[n].replay}) ELSE << >>
           c == osb[n].cleanups \o q \o o
<1>1. /\ UNCHANGED <<running, dom, slotMap, journal, leftover, known>>
      /\ rec[n].pc = "next" /\ osb[n].dead = {}
      /\ osb' = [osb EXCEPT ![n].gens = [s \in Slot |-> journal[s].gen], ![n].cleanups = c]
  BY DEF RecFinish, OwnInv, Shape, Unmounted
<1>2. osb[n].pc \in Working
  BY <1>1 DEF FreshInv, NodesOk, NodeOk, RecSuper, Working
<1>3. NodeTyped(n) /\ LeftTyped /\ HalfOk(n)
  BY DEF CleanInv, CleanTypes
<1>4. q \in Seq(Queued) /\ \A s \in rec[n].quotas : Wants(q, s)
  BY <1>3, QuotasQueued DEF NodeTyped
<1>5. o \in Seq(Queued)
  <2>1. SetToSeq({Item(s, {}) : s \in osb[n].replay}) \in Seq(Queued)
    BY <1>3, OrphansQueued DEF NodeTyped
  <2> QED
    BY <2>1, EmptySeq
<1> HIDE DEF q, o
<1>6. c \in Seq(Queued) /\ \A s : Wants(osb[n].cleanups, s) \/ Wants(q, s) => Wants(c, s)
  <2>1. /\ osb[n].cleanups \o q \in Seq(Queued)
        /\ \A s : Wants(osb[n].cleanups, s) \/ Wants(q, s) => Wants(osb[n].cleanups \o q, s)
    BY <1>3, <1>4, MoreQueued DEF NodeTyped
  <2> QED
    BY <1>5, <2>1, MoreQueued
<1> HIDE DEF c
<1>7. /\ osb'[n].pc = osb[n].pc /\ osb'[n].slot = osb[n].slot /\ osb'[n].dead = {}
      /\ osb'[n].copy = osb[n].copy /\ osb'[n].replay = osb[n].replay /\ osb'[n].cleanups = c
      /\ osb'[n].gens = [s \in Slot |-> journal[s].gen]
      /\ \A m \in FsNode \ {n} : osb'[m] = osb[m]
  BY <1>1 DEF OwnInv, Shape, Unmounted
<1>8. /\ rec'[n].pc = "end" /\ rec'[n].quotas = rec[n].quotas
      /\ \A m \in FsNode \ {n} : rec'[m] = rec[m]
  BY DEF RecFinish, OwnInv, Shape, RecIdle
<1>9. Apart(n)
  BY <1>1, <1>2, <1>3, <1>6, <1>7, <1>8 DEF Apart, NodeTyped, LeftTyped
<1>10. HalfOk(n)'
  BY <1>1, <1>3, <1>7, <1>8 DEF HalfOk, RecVictim, RecReplayed
<1>11. \A s \in Slot : Listed(n, s) => Listed(n, s)'
  BY <1>1, <1>7 DEF Listed
<1>12. \A s : Due(n, s) => Due(n, s)'
  BY <1>4, <1>6, <1>7 DEF Due
<1> QED
  BY <1>1, <1>7, <1>8, <1>9, <1>10, <1>11, <1>12, CleanStays DEF RecReplayed

\* ocfs2_replay_journal: from the victim's journal on it is this recovery that answers
\* for the slot.
LEMMA ReplayClean ==
  ASSUME OwnInv, OwnInv', FreshInv, CleanInv, NEW n \in running, ReplayJournal(n)
  PROVE  CleanInv'
<1> n \in FsNode
  BY DEF OwnInv, Shape
<1>0. running \subseteq FsNode
  BY DEF OwnInv, Shape
<1> DEFINE s == rec[n].slot
<1>1. /\ UNCHANGED <<running, dom, slotMap, leftover, known>>
      /\ rec[n].pc = "lock" /\ s \in Slot
  BY DEF ReplayJournal, OwnInv, VictimGone, RecVictim
<1>2. /\ osb'[n].pc = osb[n].pc /\ osb'[n].slot = osb[n].slot /\ osb'[n].dead = osb[n].dead
      /\ osb'[n].copy = osb[n].copy /\ osb'[n].replay = osb[n].replay /\ osb'[n].cleanups = osb[n].cleanups
      /\ \A t \in Slot : t # s => osb'[n].gens[t] = osb[n].gens[t]
      /\ \A m \in FsNode \ {n} : osb'[m] = osb[m]
  BY DEF ReplayJournal, OwnInv, Shape, Unmounted, FreshInv, FreshShape
<1>3. /\ rec'[n].pc = "la" /\ rec'[n].slot = s /\ rec'[n].quotas = rec[n].quotas
      /\ \A m \in FsNode \ {n} : rec'[m] = rec[m]
  BY DEF ReplayJournal, OwnInv, Shape, RecIdle
<1>4. ~journal'[s].dirty /\ \A t \in Slot : t # s => journal'[t] = journal[t]
  BY <1>1 DEF ReplayJournal, OwnInv, Shape
<1>5. NodeTyped(n) /\ LeftTyped
  BY DEF CleanInv, CleanTypes
<1>6. Apart(n)
  BY <1>1, <1>2, <1>3, <1>5 DEF Apart, NodeTyped, LeftTyped
<1>7. CleanTypes'
  BY <1>6, TypesApart DEF CleanInv
<1>8. \A m \in running : osb'[m].pc = osb[m].pc /\ osb'[m].slot = osb[m].slot
  BY <1>0, <1>2
<1>9. \A m \in running : m # n => rec[m].pc \notin RecSuper
  BY <1>1, SuperOfRecovery DEF RecSuper
<1>10. ASSUME NEW m \in running PROVE HalfOk(m)'
  <2>1. HalfOk(m)
    BY DEF CleanInv
  <2>2. CASE m = n
    BY <1>1, <1>2, <1>3, <1>4, <2>1, <2>2 DEF HalfOk, RecVictim
  <2>3. CASE m # n
    <3>1. rec'[m] = rec[m] /\ rec[m].pc \notin RecSuper
      BY <1>0, <1>3, <1>9, <2>3
    <3> QED
      BY <1>1, <1>8, <2>1, <3>1 DEF HalfOk, RecSuper, RecVictim, RecReplayed
  <2> QED
    BY <2>2, <2>3
<1>11. ASSUME NEW t PROVE (Owned(t)' <=> Owned(t)) /\ (Left(t)' <=> Left(t)) /\ (Handled(t) => Handled(t)')
  <2>1. Handled(t) => Handled(t)'
    BY <1>0, <1>1, <1>3, <1>9 DEF Handled, RecSuper, RecReplayed
  <2> QED
    BY <1>1, <1>8, <2>1 DEF Owned, Left
<1>12. ASSUME NEW t, t = s PROVE Handled(t)'
  BY <1>1, <1>3, <1>12 DEF Handled, RecReplayed
<1>13. ASSUME Fine, NEW m \in running PROVE GapOk(m)'
  <2>1. GapOk(m)
    BY <1>13 DEF CleanInv
  <2> QED
    BY <1>1, <1>8, <1>11, <2>1 DEF GapOk
<1>14. ASSUME Fine PROVE Taken'
  <2>1. ASSUME NEW t \in Slot, t # s, NEW k \in running, Listed(k, t) PROVE Listed(k, t)'
    <3>1. osb'[k].pc = osb[k].pc /\ osb'[k].gens[t] = osb[k].gens[t] /\ osb'[k].dead = osb[k].dead
      BY <1>0, <1>2, <2>1
    <3> QED
      BY <1>1, <1>4, <2>1, <3>1 DEF Listed
  <2>2. ASSUME NEW t \in Slot, t # s, slotMap[t] # Nobody
        PROVE  Owned(t)' \/ Handled(t)' \/ \A k \in running : Listed(k, t)'
    <3>1. Owned(t) \/ Handled(t) \/ \A k \in running : Listed(k, t)
      BY <1>14, <2>2 DEF CleanInv, Taken
    <3> QED
      BY <1>11, <2>1, <2>2, <3>1
  <2> QED
    BY <1>1, <1>12, <2>2 DEF Taken
<1>15. ASSUME Fine PROVE Given'
  <2>1. ASSUME NEW t, NEW m \in running, Due(m, t) PROVE Due(m, t)'
    <3>1. CASE m = n
      BY <1>1, <1>2, <1>3, <2>1, <3>1 DEF Due, RecSuper
    <3>2. CASE m # n
      BY <1>0, <1>2, <1>3, <2>1, <3>2 DEF Due
    <3> QED
      BY <3>1, <3>2
  <2>2. Given
    BY <1>15 DEF CleanInv
  <2>3. \A t \in Slot : ~journal[t].dirty => ~journal'[t].dirty
    BY <1>4
  <2> QED
    BY <1>1, <1>11, <2>1, <2>2, <2>3 DEF Given
<1> QED
  BY <1>1, <1>7, <1>10, <1>13, <1>14, <1>15 DEF CleanInv, Fine

\* ocfs2_clear_slot: the slot is replayed, its files are empty and its quota file is still
\* to be recovered.
LEMMA ClearClean ==
  ASSUME OwnInv, OwnInv', FreshInv, CleanInv, NEW n \in running, ClearSlot(n)
  PROVE  CleanInv'
<1> n \in FsNode
  BY DEF OwnInv, Shape
<1>0. running \subseteq FsNode
  BY DEF OwnInv, Shape
<1> DEFINE s == rec[n].slot
           e == Item(s, osb[n].copy)
<1>1. /\ UNCHANGED <<running, dom, journal, leftover, known>>
      /\ rec[n].pc = "clear" /\ s \in Slot /\ rec[n].victim = slotMap[s] /\ osb[n].pc \in Working
      /\ slotMap' = [slotMap EXCEPT ![s] = Nobody]
  BY DEF ClearSlot, OwnInv, VictimGone, FreshInv, NodesOk, NodeOk, RecVictim,
         RecSuper, Working
<1>2. /\ osb'[n].pc = osb[n].pc /\ osb'[n].slot = osb[n].slot /\ osb'[n].gens = osb[n].gens
      /\ osb'[n].dead = osb[n].dead \ {rec[n].victim}
      /\ osb'[n].copy = {} /\ osb'[n].replay = osb[n].replay
      /\ osb'[n].cleanups = Append(osb[n].cleanups, e)
      /\ \A m \in FsNode \ {n} : osb'[m] = osb[m]
  BY DEF ClearSlot, OwnInv, Shape, Unmounted
<1>3. /\ rec'[n].pc = "next" /\ rec'[n].quotas = rec[n].quotas
      /\ \A m \in FsNode \ {n} : rec'[m] = rec[m]
  BY DEF ClearSlot, OwnInv, Shape, RecIdle
<1>4. slotMap'[s] = Nobody /\ \A t \in Slot : t # s => slotMap'[t] = slotMap[t]
  BY <1>1 DEF OwnInv, Shape
<1>5. NodeTyped(n) /\ LeftTyped /\ HalfOk(n)
  BY DEF CleanInv, CleanTypes
<1>6. e \in Queued
  BY <1>1, <1>5 DEF NodeTyped, Item, Queued
<1> HIDE DEF e
<1>7. Append(osb[n].cleanups, e) \in Seq(Queued) /\ \A t : Wants(osb[n].cleanups, t) => Wants(osb'[n].cleanups, t)
  BY <1>2, <1>5, <1>6, OneQueued DEF NodeTyped
<1>8. CleanTypes'
  <2>1. Apart(n)
    BY <1>1, <1>2, <1>3, <1>5, <1>7 DEF Apart, NodeTyped, LeftTyped
  <2> QED
    BY <2>1, TypesApart DEF CleanInv
<1>9. \A m \in running : osb'[m].pc = osb[m].pc /\ osb'[m].slot = osb[m].slot
  BY <1>0, <1>2
<1>10. \A m \in running : m # n => rec[m].pc \notin RecSuper
  BY <1>1, SuperOfRecovery DEF RecSuper
<1>11. ASSUME NEW m \in running PROVE HalfOk(m)'
  <2>1. HalfOk(m)
    BY DEF CleanInv
  <2>2. rec'[m].pc \notin RecVictim
    BY <1>0, <1>3, <1>10 DEF RecSuper, RecVictim
  <2> QED
    BY <1>1, <1>9, <2>1, <2>2 DEF HalfOk, RecVictim, RecReplayed
<1>12. ASSUME NEW t PROVE (Owned(t)' <=> Owned(t)) /\ (Left(t)' <=> Left(t)) /\ (Handled(t) => t = s)
  <2>1. Handled(t) => t = s
    BY <1>10 DEF Handled, RecSuper, RecReplayed
  <2> QED
    BY <1>1, <1>9, <2>1 DEF Owned, Left
<1>13. ASSUME Fine, NEW m \in running PROVE GapOk(m)'
  <2>1. GapOk(m)
    BY <1>13 DEF CleanInv
  <2>2. osb[m].pc \in Leaving => osb[m].slot \in Slot
    BY OwnSlotThere DEF InJournal, Leaving
  <2> QED
    BY <1>1, <1>4, <1>9, <1>12, <2>1, <2>2 DEF GapOk
<1>14. ASSUME Fine PROVE Taken'
  <2>1. ASSUME NEW t \in Slot, t # s, slotMap[t] # Nobody PROVE Owned(t)' \/ \A k \in running : Listed(k, t)'
    <3>1. Owned(t) \/ \A k \in running : Listed(k, t)
      BY <1>12, <1>14, <2>1 DEF CleanInv, Taken
    <3>2. slotMap[t] # slotMap[s]
      BY <1>1, <2>1 DEF FreshInv, NoDup
    <3>3. ASSUME NEW k \in running, Listed(k, t) PROVE Listed(k, t)'
      <4>1. /\ osb'[k].pc = osb[k].pc /\ osb'[k].gens = osb[k].gens
            /\ slotMap[t] \in osb[k].dead => slotMap[t] \in osb'[k].dead
        BY <1>0, <1>1, <1>2, <3>2
      <4> QED
        BY <1>1, <1>4, <2>1, <3>3, <4>1 DEF Listed
    <3> QED
      BY <1>12, <3>1, <3>3
  <2> QED
    BY <1>1, <1>4, <2>1 DEF Taken
<1>15. ASSUME Fine PROVE Given'
  <2>1. ASSUME NEW t, NEW m \in running, Due(m, t) PROVE Due(m, t)'
    <3>1. CASE m = n
      BY <1>1, <1>3, <1>7, <2>1, <3>1 DEF Due, RecSuper
    <3>2. CASE m # n
      BY <1>0, <1>2, <1>3, <2>1, <3>2 DEF Due
    <3> QED
      BY <3>1, <3>2
  <2>2. ASSUME NEW t \in Slot, t # s, slotMap[t] = Nobody, ~Left(t)
        PROVE  /\ ~journal[t].dirty /\ leftover[t] \subseteq {"quota"}
               /\ leftover[t] # {} => \E m \in running : Due(m, t)'
    <3>1. /\ ~journal[t].dirty /\ leftover[t] \subseteq {"quota"}
          /\ leftover[t] # {} => \E m \in running : Due(m, t)
      BY <1>15, <2>2 DEF CleanInv, Given
    <3> QED
      BY <2>1, <3>1
  <2>3. ASSUME NEW t \in Slot, t = s
        PROVE  ~journal[t].dirty /\ leftover[t] \subseteq {"quota"} /\ Due(n, t)'
    BY <1>1, <1>3, <1>5, <2>3 DEF HalfOk, RecVictim, RecReplayed, RecSuper, Due
  <2>4. ASSUME NEW t \in Slot, slotMap'[t] = Nobody, ~Left(t)'
        PROVE  /\ ~journal'[t].dirty /\ leftover'[t] \subseteq {"quota"}
               /\ leftover'[t] # {} => \E m \in running' : Due(m, t)'
    BY <1>1, <1>4, <1>12, <2>2, <2>3, <2>4
  <2> QED
    BY <2>4 DEF Given
<1> QED
  BY <1>1, <1>8, <1>11, <1>13, <1>14, <1>15 DEF CleanInv, Fine

\* ocfs2_put_slot: the slot's files are empty; its journal is what is left.
LEMMA PutClean ==
  ASSUME OwnInv, OwnInv', FreshInv, CleanInv, NEW n \in running, PutSlot(n)
  PROVE  CleanInv'
<1> n \in FsNode
  BY DEF OwnInv, Shape
<1>0. running \subseteq FsNode
  BY DEF OwnInv, Shape
<1> DEFINE s == osb[n].slot
<1>1. /\ UNCHANGED <<running, dom, journal, leftover, rec, known>>
      /\ osb[n].pc = "put" /\ slotMap' = [slotMap EXCEPT ![s] = Nobody]
      /\ Freed(superBy[1])
  BY DEF PutSlot, ReadMap, SuperLocked
<1>2. s \in Slot
  BY <1>1, OwnSlotThere DEF InSlot, InLoaded
<1>3. /\ osb'[n].pc = "unlock" /\ osb'[n].slot = s
      /\ osb'[n].copy = osb[n].copy /\ osb'[n].replay = osb[n].replay /\ osb'[n].cleanups = osb[n].cleanups
      /\ \A m \in FsNode \ {n} : osb'[m] = osb[m]
  BY DEF PutSlot, OwnInv, Shape, Unmounted
<1>4. slotMap'[s] = Nobody /\ \A t \in Slot : t # s => slotMap'[t] = slotMap[t]
  BY <1>1, <1>2 DEF OwnInv, Shape
<1>5. NodeTyped(n) /\ LeftTyped /\ HalfOk(n)
  BY DEF CleanInv, CleanTypes
<1>6. CleanTypes'
  <2>1. Apart(n)
    BY <1>1, <1>3, <1>5 DEF Apart, NodeTyped, LeftTyped, Working
  <2> QED
    BY <2>1, TypesApart DEF CleanInv
<1>7. ASSUME NEW m \in running PROVE HalfOk(m)'
  <2>1. HalfOk(m)
    BY DEF CleanInv
  <2>2. CASE m = n
    BY <1>1, <1>3, <2>1, <2>2 DEF HalfOk
  <2>3. CASE m # n
    BY <1>0, <1>1, <1>3, <2>1, <2>3 DEF HalfOk
  <2> QED
    BY <2>2, <2>3
<1>8. ASSUME NEW t
      PROVE  /\ t # s => (Owned(t)' <=> Owned(t)) /\ (Left(t) => Left(t)')
             /\ t = s => Left(t)'
             /\ ~Handled(t)
  <2>1. ~Handled(t)
    BY <1>1, SuperFree DEF Handled, RecSuper, RecReplayed
  <2>2. t = s => Left(t)'
    BY <1>1, <1>3 DEF Left, Leaving
  <2>3. t # s => \A m \in running : osb[m].slot = t => osb'[m] = osb[m]
    BY <1>0, <1>3
  <2>4. t # s => \A m \in running : osb'[m].slot = t => osb'[m] = osb[m]
    BY <1>0, <1>3
  <2>5. t # s => (Owned(t)' <=> Owned(t)) /\ (Left(t) => Left(t)')
    BY <1>1, <2>3, <2>4 DEF Owned, Left
  <2> QED
    BY <2>1, <2>2, <2>5
<1>9. ASSUME Fine, NEW m \in running PROVE GapOk(m)'
  <2>1. GapOk(m)
    BY <1>9 DEF CleanInv
  <2>2. CASE m = n
    BY <1>3, <1>4, <2>2 DEF GapOk
  <2>3. CASE m # n
    <3>1. osb'[m] = osb[m] /\ (osb[m].pc \in Leaving => osb[m].slot \in Slot)
      BY <1>0, <1>3, <2>3, OwnSlotThere DEF InJournal, Leaving
    <3> QED
      BY <1>4, <1>8, <2>1, <3>1 DEF GapOk
  <2> QED
    BY <2>2, <2>3
<1>10. ASSUME Fine PROVE Taken'
  <2>1. ASSUME NEW t \in Slot, t # s, slotMap[t] # Nobody PROVE Owned(t)' \/ \A k \in running : Listed(k, t)'
    <3>1. Owned(t) \/ \A k \in running : Listed(k, t)
      BY <1>8, <1>10, <2>1 DEF CleanInv, Taken
    <3>2. ASSUME NEW k \in running, Listed(k, t) PROVE Listed(k, t)'
      <4>1. CASE k = n
        BY <1>3, <4>1 DEF Listed, Recording
      <4>2. CASE k # n
        BY <1>0, <1>1, <1>3, <1>4, <2>1, <3>2, <4>2 DEF Listed
      <4> QED
        BY <4>1, <4>2
    <3> QED
      BY <1>8, <2>1, <3>1, <3>2
  <2> QED
    BY <1>1, <1>4, <2>1 DEF Taken
<1>11. ASSUME Fine PROVE Given'
  <2>1. ASSUME NEW t, NEW m \in running, Due(m, t) PROVE Due(m, t)'
    BY <1>0, <1>1, <1>3, <2>1 DEF Due
  <2>2. ASSUME NEW t \in Slot, slotMap'[t] = Nobody, ~Left(t)'
        PROVE  /\ ~journal'[t].dirty /\ leftover'[t] \subseteq {"quota"}
               /\ leftover'[t] # {} => \E m \in running' : Due(m, t)'
    <3>1. t # s /\ slotMap[t] = Nobody /\ ~Left(t)
      BY <1>4, <1>8, <2>2
    <3>2. /\ ~journal[t].dirty /\ leftover[t] \subseteq {"quota"}
          /\ leftover[t] # {} => \E m \in running : Due(m, t)
      BY <1>11, <2>2, <3>1 DEF CleanInv, Given
    <3> QED
      BY <1>1, <2>1, <3>2
  <2> QED
    BY <2>2 DEF Given
<1> QED
  BY <1>1, <1>6, <1>7, <1>9, <1>10, <1>11 DEF CleanInv, Fine

\* ocfs2_journal_shutdown: the journal of the slot that was given up is clean.
LEMMA ShutdownClean ==
  ASSUME OwnInv, OwnInv', FreshInv, CleanInv, NEW n \in running, JournalShutdown(n)
  PROVE  CleanInv'
<1> n \in FsNode
  BY DEF OwnInv, Shape
<1>0. running \subseteq FsNode
  BY DEF OwnInv, Shape
<1> DEFINE s == osb[n].slot
<1>1. /\ UNCHANGED <<running, dom, slotMap, leftover, rec, known>>
      /\ osb[n].pc = "shutdown"
  BY DEF JournalShutdown
<1>2. s \in Slot
  BY <1>1, OwnSlotThere DEF InJournal
<1>3. /\ osb'[n].pc = "leave" /\ osb'[n].slot = s
      /\ osb'[n].copy = osb[n].copy /\ osb'[n].replay = osb[n].replay /\ osb'[n].cleanups = osb[n].cleanups
      /\ \A m \in FsNode \ {n} : osb'[m] = osb[m]
  BY DEF JournalShutdown, Pc, OwnInv, Shape, Unmounted
<1>4. /\ ~journal'[s].dirty /\ journal'[s].gen = journal[s].gen
      /\ \A t \in Slot : t # s => journal'[t] = journal[t]
  BY <1>2 DEF JournalShutdown, OwnInv, Shape
<1>5. NodeTyped(n) /\ LeftTyped /\ HalfOk(n)
  BY DEF CleanInv, CleanTypes
<1>6. CleanTypes'
  <2>1. Apart(n)
    BY <1>1, <1>3, <1>5 DEF Apart, NodeTyped, LeftTyped, Working
  <2> QED
    BY <2>1, TypesApart DEF CleanInv
<1>7. ASSUME NEW m \in running PROVE HalfOk(m)'
  <2>1. HalfOk(m) /\ (rec[m].pc \in RecReplayed => rec[m].slot \in Slot)
    BY DEF CleanInv, OwnInv, VictimGone, RecVictim, RecReplayed
  <2>2. rec[m].pc \in RecReplayed => ~journal'[rec[m].slot].dirty
    BY <1>4, <2>1 DEF HalfOk
  <2>3. osb'[m].pc \in {"exit", "put"} \union Leaving => osb[m].pc = osb'[m].pc /\ osb[m].slot = osb'[m].slot
    BY <1>0, <1>3 DEF Leaving
  <2> QED
    BY <1>1, <2>1, <2>2, <2>3 DEF HalfOk
<1>8. ASSUME NEW t
      PROVE  /\ (Owned(t)' <=> Owned(t)) /\ (Handled(t)' <=> Handled(t))
             /\ Left(t) /\ t # s => Left(t)'
  <2>1. \A m \in running : /\ osb'[m].pc \in InSlot /\ osb'[m].slot = t <=> osb[m].pc \in InSlot /\ osb[m].slot = t
                           /\ m # n => osb'[m] = osb[m]
    BY <1>0, <1>1, <1>3 DEF InSlot, InLoaded
  <2> QED
    BY <1>1, <2>1 DEF Owned, Handled, Left
<1>9. ASSUME Fine, NEW m \in running PROVE GapOk(m)'
  <2>1. GapOk(m)
    BY <1>9 DEF CleanInv
  <2>2. osb'[m].pc \in Leaving => osb[m].pc \in Leaving /\ osb'[m].slot = osb[m].slot
    BY <1>0, <1>3 DEF Leaving
  <2> QED
    BY <1>1, <1>8, <2>1, <2>2 DEF GapOk
<1>10. ASSUME Fine PROVE Taken'
  <2>1. ASSUME NEW t \in Slot, slotMap[t] # Nobody, ~Owned(t), ~Handled(t), NEW k \in running
        PROVE  Listed(k, t)'
    <3>1. Listed(k, t) /\ journal'[t].gen = journal[t].gen
      BY <1>4, <1>10, <2>1 DEF CleanInv, Taken
    <3>2. CASE k = n
      BY <1>3, <3>2 DEF Listed, Recording
    <3>3. CASE k # n
      BY <1>0, <1>1, <1>3, <3>1, <3>3 DEF Listed
    <3> QED
      BY <3>2, <3>3
  <2> QED
    BY <1>1, <1>8, <2>1 DEF Taken
<1>11. ASSUME Fine PROVE Given'
  <2>1. ASSUME NEW t, NEW m \in running, Due(m, t) PROVE Due(m, t)'
    BY <1>0, <1>1, <1>3, <2>1 DEF Due
  <2>2. ASSUME NEW t \in Slot, slotMap[t] = Nobody, ~Left(t)'
        PROVE  /\ ~journal'[t].dirty /\ leftover[t] \subseteq {"quota"}
               /\ leftover[t] # {} => \E m \in running : Due(m, t)'
    <3>1. CASE t = s
      BY <1>1, <1>4, <1>5, <3>1 DEF HalfOk, Leaving
    <3>2. CASE t # s
      <4>1. ~Left(t)
        BY <1>8, <2>2, <3>2
      <4>2. /\ ~journal[t].dirty /\ leftover[t] \subseteq {"quota"}
            /\ leftover[t] # {} => \E m \in running : Due(m, t)
        BY <1>11, <2>2, <4>1 DEF CleanInv, Given
      <4> QED
        BY <1>4, <2>1, <3>2, <4>2
    <3> QED
      BY <3>1, <3>2
  <2> QED
    BY <1>1, <2>2 DEF Given
<1> QED
  BY <1>1, <1>6, <1>7, <1>9, <1>10, <1>11 DEF CleanInv, Fine

\* ocfs2_find_slot: the slot that is taken has an owner, and all others stay as they are;
\* a mount that finds none leaves.
LEMMA FindSlotClean ==
  ASSUME OwnInv, OwnInv', FreshInv, CleanInv, NEW n \in running, FindSlot(n)
  PROVE  CleanInv'
<1> n \in FsNode
  BY DEF OwnInv, Shape
<1>0. running \subseteq FsNode
  BY DEF OwnInv, Shape
<1> DEFINE mine == NodeToSlot(slotMap, n)
           free == {s \in Slot : slotMap[s] = Nobody}
           t == IF mine # 0 THEN mine ELSE IF free = {} THEN 0 ELSE Min(free)
<1>1. t # 0 => t \in Slot
  BY NodeToSlotGives, LowestSlot
<1>2. /\ osb[n].pc = "join" /\ Freed(superBy[1])
      /\ t = 0 => /\ osb' = [osb EXCEPT ![n] = [Unmounted EXCEPT !.pc = "leave", !.disabled = TRUE]]
                  /\ rec' = [rec EXCEPT ![n] = RecIdle]
                  /\ UNCHANGED slotMap
      /\ t # 0 => /\ slotMap' = [slotMap EXCEPT ![t] = n]
                  /\ osb' = [osb EXCEPT ![n].pc = "slot", ![n].slot = t, ![n].si = [slotMap EXCEPT ![t] = n]]
                  /\ rec' = rec
      /\ UNCHANGED <<running, dom, journal, leftover, known>>
  BY DEF FindSlot, SuperLocked, ReadMap
<1> HIDE DEF t
<1>3. NodeTyped(n) /\ LeftTyped /\ osb[n].cleanups = << >>
  BY <1>2 DEF CleanInv, CleanTypes, NodeTyped, Working
<1>4. \A m \in running : rec[m].pc \notin RecSuper
  BY <1>2, SuperFree
<1>5. CASE t = 0
  <2> DEFINE o == [Unmounted EXCEPT !.pc = "leave", !.disabled = TRUE]
  <2>1. /\ o.pc = "leave" /\ o.copy = {} /\ o.replay = {} /\ o.cleanups = << >>
        /\ RecIdle.pc = "none" /\ RecIdle.quotas = {}
    BY DEF Unmounted, RecIdle
  <2>2. osb' = [osb EXCEPT ![n] = o] /\ rec' = [rec EXCEPT ![n] = RecIdle] /\ UNCHANGED slotMap
    BY <1>2, <1>5
  <2> HIDE DEF o
  <2>3. /\ osb'[n] = o /\ rec'[n] = RecIdle
        /\ \A m \in FsNode \ {n} : osb'[m] = osb[m] /\ rec'[m] = rec[m]
    BY <2>2 DEF OwnInv, Shape
  <2>4. Apart(n)
    BY <1>2, <1>3, <2>1, <2>3, EmptySeq DEF Apart, NodeTyped, LeftTyped
  <2>5. HalfOk(n)'
    BY <2>1, <2>3 DEF HalfOk, RecVictim, RecReplayed, Leaving
  <2>6. \A s \in Slot : Listed(n, s)' /\ ~Due(n, s)
    BY <1>3, <1>4, <2>1, <2>3, NothingWanted DEF Listed, Recording, Due
  <2> QED
    BY <1>2, <1>4, <2>1, <2>2, <2>3, <2>4, <2>5, <2>6, CleanStays
    DEF InSlot, InLoaded, Leaving, RecSuper, RecReplayed
<1>6. CASE t # 0
  <2>1. /\ osb'[n].pc = "slot" /\ osb'[n].slot = t
        /\ osb'[n].copy = osb[n].copy /\ osb'[n].replay = osb[n].replay /\ osb'[n].cleanups = osb[n].cleanups
        /\ \A m \in FsNode \ {n} : osb'[m] = osb[m]
        /\ rec' = rec
    BY <1>2, <1>6 DEF OwnInv, Shape, Unmounted
  <2>2. slotMap'[t] = n /\ \A s \in Slot : s # t => slotMap'[s] = slotMap[s]
    BY <1>1, <1>2, <1>6 DEF OwnInv, Shape
  <2>3. n # Nobody
    BY FsAssumption DEF Nobody
  <2>4. CleanTypes'
    <3>1. Apart(n)
      BY <1>2, <1>3, <2>1 DEF Apart, NodeTyped, LeftTyped, Working
    <3> QED
      BY <3>1, TypesApart DEF CleanInv
  <2>5. ASSUME NEW m \in running PROVE HalfOk(m)'
    <3>1. HalfOk(m) /\ (m # n => osb'[m] = osb[m])
      BY <1>0, <2>1 DEF CleanInv
    <3> QED
      BY <1>2, <2>1, <3>1 DEF HalfOk, Leaving
  <2>6. ASSUME NEW s
        PROVE  /\ s = t => Owned(s)'
               /\ Owned(s) => Owned(s)'
               /\ Left(s) => Left(s)'
               /\ ~Handled(s)
    <3>1. \A m \in running : osb[m].pc \in InSlot \union Leaving => osb'[m] = osb[m]
      BY <1>0, <1>2, <2>1 DEF InSlot, InLoaded, Leaving
    <3>2. s = t => Owned(s)'
      BY <1>2, <2>1 DEF Owned, InSlot
    <3> QED
      BY <1>2, <1>4, <3>1, <3>2 DEF Owned, Left, Handled, RecSuper, RecReplayed
  <2>7. ASSUME Fine, NEW m \in running, osb'[m].pc \in Leaving, slotMap'[osb'[m].slot] # Nobody
        PROVE  \E k \in running' : osb'[k].pc \in InSlot /\ osb'[k].slot = osb'[m].slot
    <3>1. osb'[m] = osb[m] /\ osb[m].slot \in Slot /\ osb[m].pc \in Leaving
      BY <1>0, <2>1, <2>7, OwnSlotThere DEF InJournal, Leaving
    <3>2. CASE osb[m].slot = t
      BY <1>2, <2>1, <3>1, <3>2 DEF InSlot
    <3>3. CASE osb[m].slot # t
      <4>1. Owned(osb[m].slot)
        BY <2>2, <2>7, <3>1, <3>3 DEF CleanInv, GapOk
      <4>2. PICK k \in running : osb[k].pc \in InSlot /\ osb[k].slot = osb[m].slot
        BY <4>1 DEF Owned
      <4>3. osb'[k] = osb[k]
        BY <1>0, <1>2, <2>1, <4>2 DEF InSlot, InLoaded
      <4> QED
        BY <1>2, <3>1, <4>2, <4>3
    <3> QED
      BY <3>2, <3>3
  <2>8. ASSUME Fine PROVE Taken'
    <3>1. ASSUME NEW s \in Slot, s # t, slotMap[s] # Nobody PROVE Owned(s)' \/ \A k \in running : Listed(k, s)'
      <4>1. Owned(s) \/ \A k \in running : Listed(k, s)
        BY <2>6, <2>8, <3>1 DEF CleanInv, Taken
      <4>2. ASSUME NEW k \in running, Listed(k, s) PROVE Listed(k, s)'
        <5>1. CASE k = n
          BY <2>1, <5>1 DEF Listed, Recording
        <5>2. CASE k # n
          BY <1>0, <1>2, <2>1, <2>2, <3>1, <4>2, <5>2 DEF Listed
        <5> QED
          BY <5>1, <5>2
      <4> QED
        BY <2>6, <4>1, <4>2
    <3> QED
      BY <1>2, <2>2, <2>6, <3>1 DEF Taken
  <2>9. ASSUME Fine PROVE Given'
    <3>1. ASSUME NEW s, NEW m \in running, Due(m, s) PROVE Due(m, s)'
      BY <1>0, <2>1, <3>1 DEF Due
    <3>2. ASSUME NEW s \in Slot, slotMap'[s] = Nobody, ~Left(s)'
          PROVE  /\ ~journal'[s].dirty /\ leftover'[s] \subseteq {"quota"}
                 /\ leftover'[s] # {} => \E m \in running' : Due(m, s)'
      <4>1. slotMap[s] = Nobody /\ ~Left(s)
        BY <2>2, <2>3, <2>6, <3>2
      <4>2. /\ ~journal[s].dirty /\ leftover[s] \subseteq {"quota"}
            /\ leftover[s] # {} => \E m \in running : Due(m, s)
        BY <2>9, <3>2, <4>1 DEF CleanInv, Given
      <4> QED
        BY <1>2, <3>1, <4>2
    <3> QED
      BY <3>2 DEF Given
  <2>10. Fine => \A m \in running : GapOk(m)'
    BY <2>7 DEF GapOk, Owned
  <2> QED
    BY <1>2, <2>4, <2>5, <2>8, <2>9, <2>10 DEF CleanInv, Fine
<1> QED
  BY <1>5, <1>6

----------------------------------------------------------------------------
\* A node dies: who was in its slot is missed by all others, it has no slot that it was
\* giving up, and no quota file that it was to recover.
LEMMA DeathClean ==
  ASSUME OwnInv, OwnInv', FreshInv, CleanInv, NEW n \in FsNode, FsDies(n)
  PROVE  CleanInv'
<1>0. running \subseteq FsNode
  BY DEF OwnInv, Shape
<1>1. /\ UNCHANGED <<slotMap, journal, leftover>>
      /\ n \in running /\ running' = running \ {n} /\ dom' = [dom EXCEPT ![n] = {}]
      /\ osb' = [osb EXCEPT ![n] = Unmounted] /\ rec' = [rec EXCEPT ![n] = RecIdle]
  BY DEF FsDies
<1>2. /\ osb'[n] = Unmounted /\ rec'[n] = RecIdle
      /\ \A m \in FsNode \ {n} : osb'[m] = osb[m] /\ rec'[m] = rec[m] /\ dom'[m] = dom[m]
  BY <1>1 DEF OwnInv, Shape, FreshInv, FreshShape
<1>3. Fine' => /\ Fine /\ ~InGap(n) /\ ~HalfDone(n)
               /\ \A m \in running \ {n} : ~NotHeard(m, osb[n].slot)
  BY DEF FsDies, Fine
<1>4. CleanTypes'
  <2>1. NodeTyped(n)'
    BY <1>2, EmptySeq DEF NodeTyped, Unmounted, RecIdle
  <2>2. ASSUME NEW m \in FsNode, m # n PROVE NodeTyped(m)'
    BY <1>2, <2>2 DEF CleanInv, CleanTypes, NodeTyped
  <2> QED
    BY <1>1, <2>1, <2>2 DEF CleanInv, CleanTypes, LeftTyped
<1>5. ASSUME NEW m \in running \ {n} PROVE m \in running /\ osb'[m] = osb[m] /\ rec'[m] = rec[m] /\ dom'[m] = dom[m]
  BY <1>0, <1>2
<1>6. ASSUME NEW m \in running' PROVE HalfOk(m)'
  BY <1>1, <1>5 DEF CleanInv, HalfOk
<1>7. ASSUME NEW t
      PROVE  /\ Owned(t) => Owned(t)' \/ (osb[n].pc \in InSlot /\ osb[n].slot = t)
             /\ Left(t) => Left(t)' \/ osb[n].pc \in Leaving
             /\ Handled(t) => Handled(t)' \/ rec[n].pc \in RecReplayed
  BY <1>1, <1>5 DEF Owned, Left, Handled
<1>8. Fine' => osb[n].pc \notin Leaving /\ rec[n].pc \notin RecReplayed /\ \A t : ~Due(n, t)
  BY <1>3 DEF InGap, HalfDone, Leaving, RecReplayed, Due, Wants
<1>9. ASSUME Fine', NEW m \in running', osb[m].pc \in Leaving, slotMap[osb[m].slot] # Nobody
      PROVE  \E k \in running' : osb'[k].pc \in InSlot /\ osb'[k].slot = osb[m].slot
  <2>1. PICK k \in running : osb[k].pc \in InSlot /\ osb[k].slot = osb[m].slot
    BY <1>1, <1>3, <1>9 DEF CleanInv, GapOk, Owned
  <2>2. k # n
    <3>1. ASSUME k = n PROVE FALSE
      <4>1. journal[osb[n].slot].by = m
        BY <1>1, <1>9, <2>1, <3>1 DEF OwnInv, SlotKept, InJournal, Leaving
      <4>2. osb[n].pc = "slot"
        BY <1>1, <2>1, <3>1, <4>1 DEF OwnInv, SlotKept, InSlot, InJournal
      <4> QED
        BY <1>1, <1>3, <1>9, <4>1, <4>2 DEF InGap
    <3> QED
      BY <3>1
  <2> QED
    BY <1>1, <1>5, <2>1, <2>2
<1>10. Fine' => \A m \in running' : GapOk(m)'
  <2>1. ASSUME Fine', NEW m \in running' PROVE GapOk(m)'
    <3>1. osb'[m] = osb[m]
      BY <1>1, <1>5
    <3> QED
      BY <1>1, <1>9, <2>1, <3>1 DEF GapOk, Owned
  <2> QED
    BY <2>1
<1>11. ASSUME Fine' PROVE Taken'
  <2>1. ASSUME NEW t \in Slot, slotMap[t] # Nobody, ~Owned(t)', ~Handled(t)', NEW k \in running \ {n}
        PROVE  Listed(k, t)'
    <3>1. CASE osb[n].pc \in InSlot /\ osb[n].slot = t
      <4>1. slotMap[t] = n /\ t # 0
        BY <1>1, <3>1, FsAssumption DEF OwnInv, SlotKept, Slot
      <4>2. osb[k].pc \in Recording => osb[k].gens[t] = journal[t].gen /\ n \in dom[k]
        BY <1>1, <1>3, <1>11, <3>1, <4>1
        DEF NotHeard, Recording, FreshInv, InDomain, InSlot, InLoaded
      <4> QED
        BY <1>1, <1>5, <4>1, <4>2 DEF Listed
    <3>2. CASE ~(osb[n].pc \in InSlot /\ osb[n].slot = t)
      <4>1. ~Owned(t) /\ ~Handled(t)
        BY <1>7, <1>8, <1>11, <2>1, <3>2
      <4>2. Listed(k, t)
        BY <1>3, <1>11, <2>1, <4>1 DEF CleanInv, Taken
      <4> QED
        BY <1>1, <1>5, <4>2 DEF Listed
    <3> QED
      BY <3>1, <3>2
  <2> QED
    BY <1>1, <2>1 DEF Taken
<1>12. ASSUME Fine' PROVE Given'
  <2>1. ASSUME NEW t \in Slot, slotMap[t] = Nobody, ~Left(t)'
        PROVE  /\ ~journal[t].dirty /\ leftover[t] \subseteq {"quota"}
               /\ leftover[t] # {} => \E m \in running' : Due(m, t)'
    <3>1. ~Left(t)
      BY <1>7, <1>8, <1>12, <2>1
    <3>2. /\ ~journal[t].dirty /\ leftover[t] \subseteq {"quota"}
          /\ leftover[t] # {} => \E m \in running : Due(m, t)
      BY <1>3, <1>12, <2>1, <3>1 DEF CleanInv, Given
    <3>3. ASSUME NEW m \in running, Due(m, t) PROVE m \in running' /\ Due(m, t)'
      <4>1. m \in running \ {n}
        BY <1>8, <1>12, <3>3
      <4> QED
        BY <1>1, <1>5, <3>3, <4>1 DEF Due
    <3> QED
      BY <3>2, <3>3
  <2> QED
    BY <1>1, <2>1 DEF Given
<1> QED
  BY <1>4, <1>6, <1>10, <1>11, <1>12 DEF CleanInv

\* A node that boots was missed by all that run.
LEMMA BootClean ==
  ASSUME OwnInv, OwnInv', FreshInv, CleanInv, NEW n \in FsNode, Boots(n)
  PROVE  CleanInv'
<1>1. /\ UNCHANGED <<dom, slotMap, leftover, osb, rec, known>>
      /\ n \notin running /\ running' = running \union {n}
      /\ \A m \in running : n \notin dom[m]
      /\ journal' = [s \in Slot |-> IF journal[s].by = n THEN [journal[s] EXCEPT !.by = Nobody] ELSE journal[s]]
  BY DEF Boots
<1>2. \A s \in Slot : journal'[s].dirty = journal[s].dirty /\ journal'[s].gen = journal[s].gen
  BY <1>1 DEF OwnInv, Shape
<1>3. osb[n].pc = "out" /\ rec[n].pc = "none"
  BY <1>1 DEF OwnInv, DeadOut
<1>4. CleanTypes'
  BY <1>1 DEF CleanInv, CleanTypes, NodeTyped, LeftTyped
<1>5. ASSUME NEW m \in running' PROVE HalfOk(m)'
  <2>1. CASE m = n
    BY <1>1, <1>3, <2>1 DEF HalfOk, RecVictim, RecReplayed, Leaving
  <2>2. CASE m # n
    <3>1. HalfOk(m) /\ (rec[m].pc \in RecReplayed => rec[m].slot \in Slot)
      BY <1>1, <2>2 DEF CleanInv, OwnInv, VictimGone, RecVictim, RecReplayed
    <3> QED
      BY <1>1, <1>2, <3>1 DEF HalfOk
  <2> QED
    BY <2>1, <2>2
<1>6. ASSUME NEW t PROVE (Owned(t) => Owned(t)') /\ (Left(t) => Left(t)') /\ (Handled(t) => Handled(t)')
  BY <1>1 DEF Owned, Left, Handled
<1>7. ASSUME Fine, NEW m \in running' PROVE GapOk(m)'
  <2>1. osb[m].pc \in Leaving => m \in running
    BY <1>1, <1>3 DEF Leaving
  <2>2. m \in running => GapOk(m)
    BY <1>7 DEF CleanInv
  <2> QED
    BY <1>1, <1>6, <2>1, <2>2 DEF GapOk
<1>8. ASSUME Fine PROVE Taken'
  <2>1. ASSUME NEW t \in Slot, NEW k \in running, Listed(k, t) PROVE Listed(k, t)'
    BY <1>1, <1>2, <2>1 DEF Listed
  <2>2. \A t : Listed(n, t)'
    BY <1>1, <1>3 DEF Listed, Recording
  <2>3. Taken
    BY <1>8 DEF CleanInv
  <2>4. ASSUME NEW t \in Slot, slotMap[t] # Nobody
        PROVE  Owned(t)' \/ Handled(t)' \/ \A k \in running' : Listed(k, t)'
    <3>1. Owned(t) \/ Handled(t) \/ \A k \in running : Listed(k, t)
      BY <2>3, <2>4 DEF Taken
    <3> QED
      BY <1>1, <1>6, <2>1, <2>2, <3>1
  <2> QED
    BY <1>1, <2>4 DEF Taken
<1>9. ASSUME Fine PROVE Given'
  <2>1. ASSUME NEW t \in Slot, slotMap[t] = Nobody, ~Left(t)'
        PROVE  /\ ~journal'[t].dirty /\ leftover[t] \subseteq {"quota"}
               /\ leftover[t] # {} => \E m \in running' : Due(m, t)'
    <3>1. /\ ~journal[t].dirty /\ leftover[t] \subseteq {"quota"}
          /\ leftover[t] # {} => \E m \in running : Due(m, t)
      BY <1>6, <1>9, <2>1 DEF CleanInv, Given
    <3>2. \A m \in running : Due(m, t) => m \in running' /\ Due(m, t)'
      BY <1>1 DEF Due
    <3> QED
      BY <1>2, <3>1, <3>2
  <2> QED
    BY <1>1, <2>1 DEF Given
<1> QED
  BY <1>1, <1>4, <1>5, <1>7, <1>8, <1>9 DEF CleanInv, Fine

----------------------------------------------------------------------------
\* Nothing is left, and nobody is anywhere, at the start.
LEMMA StartsClean == FsInit => CleanInv
<1> SUFFICES ASSUME FsInit PROVE CleanInv
  OBVIOUS
<1>1. CleanTypes
  BY EmptySeq DEF FsInit, CleanTypes, NodeTyped, LeftTyped, Unmounted, RecIdle
<1>2. \A n \in running : HalfOk(n) /\ GapOk(n)
  BY DEF FsInit, HalfOk, GapOk, Unmounted, RecIdle, RecVictim, RecReplayed,
         Leaving
<1>3. Taken /\ Given
  BY DEF FsInit, Taken, Given
<1> QED
  BY <1>1, <1>2, <1>3 DEF CleanInv

\* Every step preserves the invariant.
LEMMA StepClean == OwnInv /\ OwnInv' /\ FreshInv /\ CleanInv /\ [FsNext]_fsvars => CleanInv'
<1> SUFFICES ASSUME OwnInv, OwnInv', FreshInv, CleanInv, [FsNext]_fsvars PROVE CleanInv'
  OBVIOUS
<1>1. ASSUME NEW n \in running, MountSteps(n) PROVE CleanInv'
  BY <1>1, MountBegins, FindSlotClean, MountGoesOn, MarkDeadClean DEF MountSteps
<1>2. ASSUME NEW n \in running, UmountSteps(n) PROVE CleanInv'
  BY <1>2, DismountClean, PutClean, ShutdownClean DEF UmountSteps
<1>3. ASSUME NEW n \in running, RecSteps(n) PROVE CleanInv'
  BY <1>3, RecoveryGoesOn, RecNextClean, ReplayClean, ClearClean, RecFinishClean
  DEF RecSteps
<1>4. ASSUME NEW n \in running, UserSteps(n) PROVE CleanInv'
  BY <1>4, UserClean
<1>5. ASSUME NEW n \in running, CompleteRecovery(n) \/ \E v \in FsNode : NodeDown(n, v) PROVE CleanInv'
  BY <1>5, CompleteClean, NodeDownClean
<1>6. ASSUME NEW n \in FsNode, FsDies(n) \/ Boots(n) PROVE CleanInv'
  BY <1>6, DeathClean, BootClean
<1>7. CASE UNCHANGED fsvars
  <2> USE <1>7 DEF fsvars
  <2>1. CleanTypes'
    BY DEF CleanInv, CleanTypes, NodeTyped, LeftTyped
  <2>2. \A n \in running' : HalfOk(n)'
    BY DEF CleanInv, HalfOk
  <2>3. Fine' => (\A n \in running' : GapOk(n)') /\ Taken' /\ Given'
    BY DEF CleanInv, Fine, GapOk, Taken, Given, Owned, Left, Handled, Listed,
           Due
  <2> QED
    BY <2>1, <2>2, <2>3 DEF CleanInv
<1> QED
  BY <1>1, <1>2, <1>3, <1>4, <1>5, <1>6, <1>7 DEF FsNext, FsWork

\* When nothing is left to do and someone is mounted, every slot in the slot map is a
\* running node's, and every other slot is replayed and cleaned up (__ocfs2_recovery_thread,
\* ocfs2_complete_recovery), unless a node died where the code does not provide for it.
THEOREM DeadAreCleanedUp == FsSpec => []AllCleanedUp
<1>1. OwnInv /\ CleanInv => AllCleanedUp
  <2> SUFFICES ASSUME OwnInv, CleanInv, Quiet, Fine, NEW n \in running, osb[n].pc = "up", NEW s \in Slot
               PROVE  \/ slotMap[s] \in running /\ osb[slotMap[s]].slot = s
                      \/ slotMap[s] = Nobody /\ ~journal[s].dirty /\ leftover[s] = {}
    BY DEF AllCleanedUp, Fine
  <2>1. CASE slotMap[s] # Nobody
    <3>1. Owned(s) \/ Handled(s) \/ Listed(n, s)
      BY <2>1 DEF CleanInv, Taken
    <3>2. ~Handled(s) /\ ~Listed(n, s)
      BY DEF Quiet, Handled, RecReplayed, Listed, Recording
    <3> QED
      BY <3>1, <3>2 DEF Owned, OwnInv, SlotKept
  <2>2. CASE slotMap[s] = Nobody
    <3>1. ~Left(s)
      BY DEF Quiet, Left, Leaving
    <3>2. ASSUME NEW m \in running PROVE ~Due(m, s)
      BY NothingWanted DEF Quiet, Due, RecSuper
    <3> QED
      BY <2>2, <3>1, <3>2 DEF CleanInv, Given
  <2> QED
    BY <2>1, <2>2
<1>2. FsSpec => []OwnInv
  BY StartsOwned, StepKeeps, PTL DEF FsSpec
<1>3. FsSpec => []FreshInv
  BY <1>2, StartsFresh, StepFresh, PTL DEF FsSpec
<1> QED
  BY <1>1, <1>2, <1>3, StartsClean, StepClean, PTL DEF FsSpec
===============================================================================
