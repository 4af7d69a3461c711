------------------------------- MODULE Heartbeat -------------------------------
(***************************************************************************)
(* heartbeat.c: the nodes of a cluster write to their slots of a disk      *)
(* region and read the slots of the others, to tell who lives; a node that *)
(* cannot write fences itself before the others call it dead, unless it    *)
(* has negotiated with all of them (local heartbeat, one region).          *)
(*                                                                         *)
(* Time is counted in periods of O2HB_REGION_TIMEOUT_MS: in each a node    *)
(* whose path to the disk works does one beat, in no particular order.     *)
(* A beat takes two steps: reading the slots, checking them and issuing    *)
(* the write is one, the completion of the write and what follows another. *)
(* hb_seq is a time stamp; all that is used of it is whether it is the one *)
(* that was read last.                                                     *)
(*                                                                         *)
(* heartbeat.h is not part of the source: its thresholds and timeouts are  *)
(* constants here.                                                         *)
(***************************************************************************)
EXTENDS Integers, FiniteSets

CONSTANTS
  Node,            \* node numbers, all configured
  DeadThreshold,   \* o2hb_dead_threshold
  LiveThreshold,   \* O2HB_LIVE_THRESHOLD
  WriteTimeout,    \* O2HB_MAX_WRITE_TIMEOUT_MS, in periods
  Faulty,          \* sets of nodes: whose path to the disk may hang or fail
  Incarnations     \* bound: how often a node starts

ASSUME NodeAssumption == Node \subseteq Nat /\ IsFiniteSet(Node)
ASSUME ThresholdAssumption ==
  /\ DeadThreshold \in Nat /\ DeadThreshold > 2     \* O2HB_MIN_DEAD_THRESHOLD
  /\ LiveThreshold \in Nat \ {0}
  /\ WriteTimeout \in 1 .. DeadThreshold - 1
ASSUME FaultyAssumption == Faulty \subseteq SUBSET Node
ASSUME IncarnationsAssumption == Incarnations \in Nat \ {0}

VARIABLES
  faulty,      \* which of Faulty it is
  path,        \* the nodes whose path to the disk works
  disk,        \* the generation in each slot
  node,        \* the region on each node: struct o2hb_region and its thread
  slot,        \* slot[n][m]: struct o2hb_disk_slot of m on n
  mail         \* negotiation messages under way

hbVars == <<faulty, path, disk, node, slot, mail>>

Gen == 1 .. Incarnations
Left == 0          \* the generation of a node that stopped
Blank == -1        \* nothing was ever written
Unarmed == -1
NegoTimeout == WriteTimeout \div 2    \* O2HB_NEGO_TIMEOUT_MS

Region ==
  [on : BOOLEAN,
   gen : {Left} \union Gen,          \* hr_generation
   due : BOOLEAN,                    \* this period's beat is still to be done
   pc : {"idle", "writing"},
   own : BOOLEAN,                    \* the slot holds what was written last
   ownOk : BOOLEAN,                  \* own_slot_ok of the beat
   change : BOOLEAN,                 \* membership_change of the beat
   status : BOOLEAN,                 \* hr_last_hb_status = 0
   steady : 0 .. LiveThreshold + 1,  \* hr_steady_iterations
   age : Unarmed .. WriteTimeout,    \* since o2hb_arm_timeout()
   work : {"none", "timer", "again"},   \* hr_nego_timeout_work
   nego : SUBSET Node,               \* hr_nego_node_bitmap
   spared : BOOLEAN]                 \* history: the write timeout was armed last
                                     \* by a negotiation, not by a beat

Off == [on |-> FALSE, gen |-> Left, due |-> FALSE, pc |-> "idle", own |-> FALSE,
        ownOk |-> FALSE, change |-> FALSE, status |-> TRUE, steady |-> 0,
        age |-> Unarmed, work |-> "none", nego |-> {}, spared |-> FALSE]

Slot ==
  [live : BOOLEAN, changed : 0 .. LiveThreshold, equal : 0 .. DeadThreshold,
   read : BOOLEAN,                   \* ds_last_time is what the slot holds
   gen : {Blank, Left} \union Gen,   \* ds_last_generation
   born : {Blank, Left} \union Gen]  \* history: the generation that came alive

Unknown(gen) == [live |-> FALSE, changed |-> 0, equal |-> 0, read |-> TRUE,
                 gen |-> gen, born |-> Blank]

Mail == [type : {"timeout", "approve"}, from : Node, to : Node]

HbTypeOK ==
  /\ faulty \in Faulty
  /\ path \in SUBSET Node
  /\ disk \in [Node -> {Blank, Left} \union Gen]
  /\ node \in [Node -> Region]
  /\ slot \in [Node -> [Node -> Slot]]
  /\ mail \in SUBSET Mail

HbInit ==
  /\ faulty \in Faulty
  /\ path = Node
  /\ disk = [n \in Node |-> Blank]
  /\ node = [n \in Node |-> Off]
  /\ slot = [n \in Node |-> [m \in Node |-> Unknown(Blank)]]
  /\ mail = {}

Down(n) ==
  /\ node' = [node EXCEPT ![n] = [Off EXCEPT !.gen = node[n].gen]]
  /\ slot' = [slot EXCEPT ![n] = [m \in Node |-> Unknown(Blank)]]

(***************************************************************************)
(* o2hb_check_slot(): what n makes of a block of generation gen in the     *)
(* slot s it keeps for some node.                                          *)
(***************************************************************************)
Capped(i, bound) == IF i > bound THEN bound ELSE i

\* Mutant: only the time stamp is looked at
GenChangedNever(s, gen) == FALSE

GenChanged(s, gen) == s.gen # gen

\* The samples are counted first
Sampled(s, gen) ==
  [s EXCEPT !.changed = IF s.read THEN @ ELSE Capped(@ + 1, LiveThreshold),
            !.equal = IF GenChanged(s, gen) THEN 0
                      ELSE IF s.read THEN Capped(@ + 1, DeadThreshold) ELSE @,
            !.read = TRUE,
            !.gen = gen]

Missed(s, gen) ==
  Sampled(s, gen).equal >= DeadThreshold /\ ~GenChanged(s, gen)

ComesUp(s, gen) == ~s.live /\ Sampled(s, gen).changed >= LiveThreshold
GoesDown(s, gen) == s.live /\ (Missed(s, gen) \/ GenChanged(s, gen))

\* Mutant: missed samples add up
ActiveMissing(s) == [s EXCEPT !.changed = 0]

\* ds_equal_samples of a node that is not alive is not used before it joins,
\* which resets it: it is 0 here.
Active(s) == [s EXCEPT !.changed = 0, !.equal = 0]

CheckSlot(s, gen) ==
  LET t == Sampled(s, gen)
  IN  IF gen = Blank THEN s                        \* no checksum
      ELSE IF ComesUp(s, gen)
        THEN [t EXCEPT !.live = TRUE, !.equal = 0, !.born = gen]
      ELSE IF GoesDown(s, gen)
        THEN [t EXCEPT !.live = FALSE, !.born = Blank,
                       !.changed = IF GenChanged(s, gen) THEN @ ELSE 0,
                       !.equal = 0]
      ELSE IF s.live /\ t.changed > 0 THEN Active(t)
      ELSE IF s.live THEN t
      ELSE [t EXCEPT !.equal = 0]

Live(n) == {m \in Node : slot[n][m].live}

(***************************************************************************)
(* o2hb_arm_timeout(), of a region r, after a beat or a negotiation        *)
(***************************************************************************)
Armed(r, spared) ==
  IF r.steady # 0 THEN r
  ELSE [r EXCEPT !.age = 0, !.work = "timer", !.nego = {}, !.spared = spared]

(***************************************************************************)
(* The thread                                                              *)
(***************************************************************************)
\* Bound: hangs and restarts come apart
StartBound == IF faulty = {} THEN Incarnations ELSE 1

\* o2hb_region_dev_store(), with o2hb_populate_slot_data()
Start(n) ==
  /\ ~node[n].on /\ node[n].gen < StartBound
  /\ n \in path
  /\ node' = [node EXCEPT ![n] =
                [Off EXCEPT !.on = TRUE, !.gen = node[n].gen + 1, !.due = TRUE,
                            !.own = disk[n] # Blank,
                            !.steady = LiveThreshold + 1]]
  /\ slot' = [slot EXCEPT ![n] = [m \in Node |-> Unknown(disk[m])]]
  /\ UNCHANGED <<faulty, path, disk, mail>>

\* What o2hb_check_slot() reads: the others' blocks, and of its own slot the
\* block it is about to write
Reads(n, m) == IF m = n THEN node[n].gen ELSE disk[m]
Tracked(n, m) == IF m = n THEN [slot[n][m] EXCEPT !.read = FALSE] ELSE slot[n][m]

BeatStart(n) ==
  /\ node[n].on /\ node[n].due /\ node[n].pc = "idle"
  /\ n \in path
  /\ slot' = [slot EXCEPT ![n] =
                [m \in Node |-> CheckSlot(Tracked(n, m), Reads(n, m))]]
  /\ node' = [node EXCEPT ![n] =
                [node[n] EXCEPT !.due = FALSE, !.pc = "writing",
                          !.ownOk = node[n].own,
                          !.change = \E m \in Node :
                                       slot'[n][m].live # slot[n][m].live]]
  /\ UNCHANGED <<faulty, path, disk, mail>>

\* The block is on disk: everybody who reads the slot finds a new time in it
Written(n, gen) ==
  /\ disk' = [disk EXCEPT ![n] = gen]
  /\ slot' = [m \in Node |-> IF m = n \/ ~node[m].on THEN slot[m]
                             ELSE [slot[m] EXCEPT ![n].read = FALSE]]

\* hr_steady_iterations, once the timeout has been armed (or not) by its old value
Steadier(steady, ownOk, change) ==
  IF steady # 0 /\ ownOk /\ ~change THEN steady - 1 ELSE steady

BeatEnd(n) ==
  /\ node[n].on /\ node[n].pc = "writing"
  /\ n \in path
  /\ Written(n, node[n].gen)
  /\ LET r == IF node[n].ownOk THEN Armed(node[n], FALSE) ELSE node[n]
     IN  node' = [node EXCEPT ![n] =
                    [r EXCEPT !.pc = "idle", !.own = TRUE, !.status = TRUE,
                              !.ownOk = FALSE, !.change = FALSE,
                              !.steady = Steadier(@, r.ownOk, r.change)]]
  /\ UNCHANGED <<faulty, path, mail>>

\* The read fails
ReadError(n) ==
  /\ node[n].on /\ node[n].due /\ node[n].pc = "idle"
  /\ n \in faulty
  /\ node' = [node EXCEPT ![n].due = FALSE, ![n].status = FALSE]
  /\ UNCHANGED <<faulty, path, disk, slot, mail>>

\* Mutant: a failed write arms the timeout like a good one
WroteBadlyArmed(r, landed) ==
  [Armed(r, FALSE) EXCEPT !.pc = "idle", !.own = landed, !.status = FALSE,
                          !.ownOk = FALSE, !.change = FALSE]

WroteBadly(r, landed) ==
  [r EXCEPT !.pc = "idle", !.own = landed, !.status = FALSE,
            !.ownOk = FALSE, !.change = FALSE]

\* The write fails, and may have made it to disk or not
WriteError(n) ==
  /\ node[n].on /\ node[n].pc = "writing"
  /\ n \in faulty
  /\ \/ Written(n, node[n].gen) /\ node' = [node EXCEPT ![n] = WroteBadly(@, TRUE)]
     \/ UNCHANGED <<disk, slot>> /\ node' = [node EXCEPT ![n] = WroteBadly(@, FALSE)]
  /\ UNCHANGED <<faulty, path, mail>>

\* The region is dropped: the node leaves with a block of generation 0
Stop(n) ==
  /\ node[n].on /\ node[n].pc = "idle"
  /\ n \in path
  /\ disk' = [disk EXCEPT ![n] = Left]
  /\ node' = [node EXCEPT ![n] = [Off EXCEPT !.gen = node[n].gen]]
  /\ slot' = [m \in Node |-> IF m = n THEN [k \in Node |-> Unknown(Blank)]
                             ELSE IF ~node[m].on THEN slot[m]
                             ELSE [slot[m] EXCEPT ![n].read = FALSE]]
  /\ UNCHANGED <<faulty, path, mail>>

Crash(n) ==
  /\ node[n].on
  /\ Down(n)
  /\ UNCHANGED <<faulty, path, disk, mail>>

(***************************************************************************)
(* The two timers                                                          *)
(***************************************************************************)
\* o2hb_write_timeout(), and o2quo_disk_timeout()
Fence(n) ==
  /\ node[n].on /\ node[n].age = WriteTimeout
  /\ Down(n)
  /\ UNCHANGED <<faulty, path, disk, mail>>

\* o2hb_nego_timeout()
NegoRuns(n) ==
  /\ node[n].on
  /\ \/ node[n].work = "again"
     \/ node[n].work = "timer" /\ node[n].age >= NegoTimeout

IsLowest(n, S) == n \in S /\ \A m \in S : n <= m

\* Not if the last heartbeat failed
NegoGivesUp(n) ==
  /\ NegoRuns(n)
  /\ ~node[n].status
  /\ node' = [node EXCEPT ![n].work = "none"]
  /\ UNCHANGED <<faulty, path, disk, slot, mail>>

NegoAsks(n) ==
  /\ NegoRuns(n)
  /\ node[n].status
  /\ \E master \in Live(n) \ {n} :
       /\ IsLowest(master, Live(n))
       /\ mail' = mail \union {[type |-> "timeout", from |-> n, to |-> master]}
  /\ node' = [node EXCEPT ![n].work = "none"]
  /\ UNCHANGED <<faulty, path, disk, slot>>

\* The lowest node waits until all have asked, itself included
AllAsked(n) == node[n].nego \union {n} = Live(n)

NegoWaits(n) ==
  /\ NegoRuns(n)
  /\ node[n].status
  /\ IsLowest(n, Live(n))
  /\ ~AllAsked(n)
  /\ node' = [node EXCEPT ![n].nego = @ \union {n}, ![n].work = "again"]
  /\ UNCHANGED <<faulty, path, disk, slot, mail>>

NegoApproves(n) ==
  /\ NegoRuns(n)
  /\ node[n].status
  /\ IsLowest(n, Live(n))
  /\ AllAsked(n)
  /\ node' = [node EXCEPT ![n] = Armed(@, TRUE)]
  /\ mail' = mail \union {[type |-> "approve", from |-> n, to |-> m] :
                            m \in Live(n) \ {n}}
  /\ UNCHANGED <<faulty, path, disk, slot>>

\* o2hb_nego_timeout_handler() and o2hb_nego_approve_handler(); a message to a
\* node that is down is lost
Receive(m) ==
  /\ mail' = mail \ {m}
  /\ node' = IF ~node[m.to].on THEN node
             ELSE IF m.type = "timeout"
               THEN [node EXCEPT ![m.to].nego = @ \union {m.from}]
             ELSE [node EXCEPT ![m.to] = Armed(@, TRUE)]
  /\ UNCHANGED <<faulty, path, disk, slot>>

(***************************************************************************)
(* The paths, and time                                                     *)
(***************************************************************************)
Hangs(n) ==
  /\ n \in faulty \intersect path
  /\ path' = path \ {n}
  /\ UNCHANGED <<faulty, disk, node, slot, mail>>

Heals(n) ==
  /\ n \notin path
  /\ path' = path \union {n}
  /\ UNCHANGED <<faulty, disk, node, slot, mail>>

\* A period ends when whoever can has done its beat, and no write timeout is
\* overdue
Tick ==
  /\ \A n \in Node : node[n].on =>
       /\ n \in path => node[n].pc = "idle" /\ ~node[n].due
       /\ node[n].age < WriteTimeout
  /\ node' = [n \in Node |->
                IF ~node[n].on THEN node[n]
                ELSE [node[n] EXCEPT !.due = TRUE,
                                     !.age = IF @ = Unarmed THEN @ ELSE @ + 1]]
  /\ UNCHANGED <<faulty, path, disk, slot, mail>>

HbNext ==
  \/ \E n \in Node :
       \/ Start(n) \/ BeatStart(n) \/ BeatEnd(n) \/ ReadError(n) \/ WriteError(n)
       \/ Stop(n) \/ Crash(n) \/ Fence(n)
       \/ NegoGivesUp(n) \/ NegoAsks(n) \/ NegoWaits(n) \/ NegoApproves(n)
       \/ Hangs(n) \/ Heals(n)
  \/ \E m \in mail : Receive(m)
  \/ Tick

HbSpec == HbInit /\ [][HbNext]_hbVars
-----------------------------------------------------------------------------
(* Properties *)

\* o takes n, as the incarnation that runs, from its live nodes, for
\* DeadThreshold equal samples
CallsDead(o, n) ==
  /\ node[n].on /\ node[o].on /\ node'[o].on
  /\ slot[o][n].live /\ ~slot'[o][n].live
  /\ slot[o][n].gen = node[n].gen /\ slot'[o][n].gen = node[n].gen

\* A node whose write timeout was armed by its last good beat has fenced itself
\* by the time another calls it dead for DeadThreshold equal samples
\* (o2hb_check_slot: "heartbeat calling a node dead when it hasn't self-fenced
\* yet").
FencedInTime ==
  [][\A o, n \in Node : CallsDead(o, n) =>
       node[n].age = Unarmed \/ node[n].spared]_hbVars

\* A node whose path works is never called dead, however the others behave.
BeatingIsLive ==
  [][\A o, n \in Node : CallsDead(o, n) => n \in faulty]_hbVars

\* Types; and a node that restarted within the threshold goes down before it
\* comes up again: who is alive is alive as the incarnation whose up event was
\* sent.
SameIncarnation ==
  HbTypeOK /\ \A n, m \in Node : slot[n][m].live => slot[n][m].gen = slot[n][m].born
===============================================================================
