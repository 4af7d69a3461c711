------------------------------ MODULE Space_proofs ------------------------------
(***************************************************************************)
(* Proofs about Space: every cluster whose bit is set has one owner, for   *)
(* any number of nodes, clusters and records, whatever windows slide, logs *)
(* are flushed and nodes die; what a node has committed accounts for its   *)
(* clusters as well as what it has in memory.                              *)
(***************************************************************************)
EXTENDS Space, SequenceTheorems, TLAPS

Records == Seq(Int \X Int)
Windows == [win : SUBSET Int, used : SUBSET Int]
Copies == [slot : SNode \union {0}, unused : SUBSET Int, log : Records]
OnVolume == [size : Nat, bm : SUBSET Int, files : [SNode -> SUBSET Int], la : [SNode -> Windows], tl : [SNode -> Records]]
Pcs == {"idle", "local", "slide", "window", "claim local", "main", "claim main", "try free", "flushed",
        "lock log", "flush", "lock bitmap", "records", "remove", "append", "begin", "begin log", "complete", "done"}
Tasks == [pc : Pcs, want : Nat, retried : BOOLEAN]
AllTasks == [SNode -> [Who -> Tasks]]
Stories == [writes : [SNode -> Seq(Nat)], truncs : [SNode -> Nat], umounts : SUBSET SNode, dies : SUBSET SNode, grows : Nat]

Shape ==
  /\ sstory \in Stories /\ salive \subseteq SNode
  /\ size \in Nat /\ bm \subseteq Int
  /\ files \in [SNode -> SUBSET Int] /\ la \in [SNode -> Windows] /\ tl \in [SNode -> Records]
  /\ disk \in OnVolume /\ copies \in [SNode -> Copies]
  /\ task \in AllTasks
  /\ bmDirty \in {0} \union salive

\* The records of a log are runs of clusters that have none in common.
LogOK(log) ==
  /\ \A k \in 1 .. Len(log) : log[k][1] <= log[k][2]
  /\ \A j, k \in 1 .. Len(log) : j # k => LogRun(log[j]) \intersect LogRun(log[k]) = {}

\* What a node's files, window and log know of, each of its own
Share(f, w, t) == f \union Unused(w) \union LogSet(t)
ShareOK(f, w, t) ==
  /\ f \intersect Unused(w) = {} /\ f \intersect LogSet(t) = {} /\ Unused(w) \intersect LogSet(t) = {}
  /\ LogOK(t)
Mem(n) == Share(files[n], la[n], tl[n])
OnDisk(n) == Share(disk.files[n], disk.la[n], disk.tl[n])
Copied(n) == copies[n].unused \union LogSet(copies[n].log)
Hold(n) == Mem(n) \union Copied(n)

NodeOK(n) ==
  /\ ShareOK(files[n], la[n], tl[n]) /\ ShareOK(disk.files[n], disk.la[n], disk.tl[n])
  /\ copies[n].unused \intersect LogSet(copies[n].log) = {} /\ LogOK(copies[n].log)
  /\ Copied(n) \intersect Mem(n) = {}

\* Clusters have one owner, and their bits are set.
Owned ==
  /\ \A n \in SNode : NodeOK(n)
  /\ \A n, m \in SNode : n # m => Hold(n) \intersect Hold(m) = {}
  /\ \A n \in SNode : Hold(n) \subseteq bm /\ Hold(n) \intersect lost = {}
  /\ lost \subseteq bm
  /\ \A x \in bm : x \in lost \/ \E n \in SNode : x \in Hold(n)
  /\ lost # {} => \E n \in helped : n \notin salive

\* A node whose transaction does not have the bitmap has on disk what it has in memory,
\* but for what it has taken over from a dead one.
Clean(n) ==
  /\ OnDisk(n) \subseteq Mem(n)
  /\ n \notin helped => Mem(n) \subseteq OnDisk(n) /\ Copied(n) = {}

\* One whose transaction has the bitmap finds its clusters in the committed bitmap.
Dirty(n) ==
  /\ OnDisk(n) \subseteq disk.bm
  /\ \A m \in SNode \ {n} : Hold(m) \subseteq disk.bm /\ Hold(m) \intersect OnDisk(n) = {}
  /\ n \notin helped => /\ Copied(n) = {}
                        /\ \A x \in disk.bm : \/ x \in lost \/ x \in OnDisk(n)
                                              \/ \E m \in SNode \ {n} : x \in Hold(m)

\* A node that does not run has nothing that is not on disk.
AtRest(n) == disk.files[n] = files[n] /\ disk.la[n] = la[n] /\ disk.tl[n] = tl[n]

Durable ==
  /\ \A n \in SNode : /\ n \notin salive => AtRest(n)
                      /\ bmDirty # n => Clean(n)
                      /\ bmDirty = n => Dirty(n)
  /\ bmDirty = 0 => disk.bm = bm

\* How far the recovery of another's slot is
RecOK(m) ==
  LET pc == task[m]["rec"].pc IN
  /\ pc \in {"begin", "begin log"} => copies[m].slot \in SNode \ salive
  /\ pc \in {"begin", "lock log", "flush", "lock bitmap", "records", "append", "done"} => copies[m].unused = {}
  /\ pc \in {"begin", "begin log", "done"} => copies[m].log = << >>
  /\ pc # "idle" => m \in helped

\* Who changes the bitmap has its lock.
InBitmap == {"window", "claim main", "records"}
LockOK ==
  /\ \A n \in SNode, w \in Who : task[n][w].pc \in InBitmap => bmBy = <<n, w>>
  /\ bmBy # NoOne => bmDirty \in {0, bmBy[1]}

SpaceInv == Shape /\ Owned /\ Durable /\ LockOK /\ \A n \in SNode : RecOK(n)

----------------------------------------------------------------------------
(* Logs.                                                                   *)

\* A log, as clusters
LEMMA LogElement ==
  ASSUME NEW log, NEW x
  PROVE  x \in LogSet(log) <=> \E k \in 1 .. Len(log) : x \in LogRun(log[k])
BY DEF LogSet

\* A log that is a record longer has its clusters in addition.
LEMMA LogLonger ==
  ASSUME NEW log \in Records, LogOK(log), NEW a \in Int, NEW b \in Int, a <= b,
         LogRun(<<a, b>>) \intersect LogSet(log) = {}
  PROVE  /\ Appended(log, <<a, b>>) \in Records /\ LogOK(Appended(log, <<a, b>>))
         /\ LogSet(Appended(log, <<a, b>>)) = LogSet(log) \union LogRun(<<a, b>>)
<1> DEFINE new == Appended(log, <<a, b>>)
           last == Len(log)
<1>1. Len(log) \in Nat /\ \A k \in 1 .. Len(log) : log[k] \in Int \X Int
  BY DEF Records
<1>2. CASE Joins(log, <<a, b>>)
  <2>1. last \in 1 .. Len(log) /\ log[last][2] + 1 = a
    BY <1>1, <1>2, EmptySeq DEF Joins, Records
  <2>2. new = [log EXCEPT ![last] = <<log[last][1], b>>]
    BY <1>2 DEF Appended
  <2>a. <<log[last][1], b>> \in Int \X Int
    BY <1>1, <2>1
  <2>b. /\ new \in Records /\ Len(new) = Len(log)
        /\ \A k \in 1 .. Len(log) : new[k] = IF k = last THEN <<log[last][1], b>> ELSE log[k]
    <3> HIDE DEF new
    <3> DEFINE T == Int \X Int
    <3>1. log \in Seq(T) /\ last \in 1 .. Len(log) /\ <<log[last][1], b>> \in T
      BY <2>1, <2>a DEF Records
    <3> HIDE DEF T
    <3>2. new \in Seq(T) /\ Len(new) = Len(log) /\ \A k \in 1 .. Len(log) : new[k] = IF k = last THEN <<log[last][1], b>> ELSE log[k]
      BY <2>2, <3>1, ExceptSeq
    <3> QED
      BY <3>2 DEF Records, T
  <2>3. new \in Records /\ Len(new) = Len(log)
    BY <2>b
  <2>4. new[last] = <<log[last][1], b>> /\ \A k \in 1 .. Len(log) : k # last => new[k] = log[k]
    BY <2>1, <2>b
  <2>5. log[last][1] <= log[last][2] /\ log[last][1] \in Int /\ log[last][2] \in Int
    BY <1>1, <2>1 DEF LogOK
  <2>6. LogRun(new[last]) = LogRun(log[last]) \union LogRun(<<a, b>>)
    BY <2>1, <2>4, <2>5 DEF LogRun, Run
  <2>7. \A k \in 1 .. Len(log) : k # last => LogRun(new[k]) = LogRun(log[k])
    BY <2>4
  <2>8. \A x : x \in LogSet(new) <=> x \in LogSet(log) \/ x \in LogRun(<<a, b>>)
    BY <2>1, <2>3, <2>6, <2>7, LogElement
  <2>9. \A k \in 1 .. Len(log) : LogRun(log[k]) \intersect LogRun(<<a, b>>) = {}
    BY LogElement
  <2>10. \A k \in 1 .. Len(new) : new[k][1] <= new[k][2]
    <3> SUFFICES ASSUME NEW k \in 1 .. Len(log) PROVE new[k][1] <= new[k][2]
      BY <2>3
    <3>1. CASE k = last
      BY <2>1, <2>4, <2>5, <3>1
    <3>2. CASE k # last
      BY <2>4, <3>2 DEF LogOK
    <3> QED
      BY <3>1, <3>2
  <2>11. \A j, k \in 1 .. Len(new) : j # k => LogRun(new[j]) \intersect LogRun(new[k]) = {}
    <3> SUFFICES ASSUME NEW j \in 1 .. Len(log), NEW k \in 1 .. Len(log), j # k
                 PROVE  LogRun(new[j]) \intersect LogRun(new[k]) = {}
      BY <2>3
    <3>1. LogRun(log[j]) \intersect LogRun(log[k]) = {}
      BY DEF LogOK
    <3> QED
      BY <2>6, <2>7, <2>9, <3>1
  <2> QED
    BY <2>3, <2>8, <2>10, <2>11 DEF LogOK
<1>3. CASE ~Joins(log, <<a, b>>)
  <2>1. new = Append(log, <<a, b>>)
    BY <1>3 DEF Appended
  <2>a. /\ new \in Records /\ Len(new) = Len(log) + 1
        /\ new[Len(log) + 1] = <<a, b>> /\ \A k \in 1 .. Len(log) : new[k] = log[k]
    <3> DEFINE T == Int \X Int
    <3>1. log \in Seq(T) /\ <<a, b>> \in T
      BY DEF Records
    <3> HIDE DEF T, new
    <3> QED
      BY <2>1, <3>1, AppendProperties DEF Records, T
  <2>2. new \in Records /\ Len(new) = Len(log) + 1
    BY <2>a
  <2>3. new[Len(log) + 1] = <<a, b>> /\ \A k \in 1 .. Len(log) : new[k] = log[k]
    BY <2>a
  <2> HIDE DEF new
  <2>c. \A k \in 1 .. Len(new) : k \in 1 .. Len(log) \/ k = Len(log) + 1
    BY <1>1, <2>2
  <2>d. Len(log) + 1 \in 1 .. Len(new) /\ \A k \in 1 .. Len(log) : k \in 1 .. Len(new)
    BY <1>1, <2>2
  <2>4. \A x : x \in LogSet(new) <=> x \in LogSet(log) \/ x \in LogRun(<<a, b>>)
    BY <2>3, <2>c, <2>d, LogElement
  <2>5. \A k \in 1 .. Len(log) : LogRun(log[k]) \intersect LogRun(<<a, b>>) = {}
    BY LogElement
  <2>6. \A k \in 1 .. Len(new) : new[k][1] <= new[k][2]
    BY <2>3, <2>c DEF LogOK
  <2>7. \A j, k \in 1 .. Len(new) : j # k => LogRun(new[j]) \intersect LogRun(new[k]) = {}
    <3> SUFFICES ASSUME NEW j \in 1 .. Len(log) + 1, NEW k \in 1 .. Len(log) + 1, j # k
                 PROVE  LogRun(new[j]) \intersect LogRun(new[k]) = {}
      BY <2>2
    <3>1. j \in 1 .. Len(log) /\ k \in 1 .. Len(log) => LogRun(log[j]) \intersect LogRun(log[k]) = {}
      BY DEF LogOK
    <3>2. j \in 1 .. Len(log) \/ j = Len(log) + 1
      BY <1>1
    <3>3. k \in 1 .. Len(log) \/ k = Len(log) + 1
      BY <1>1
    <3> QED
      BY <2>3, <2>5, <3>1, <3>2, <3>3
  <2> QED
    BY <2>2, <2>4, <2>6, <2>7 DEF LogOK, new
<1> QED
  BY <1>2, <1>3

\* A log without one record has its other clusters left.
LEMMA LogShorter ==
  ASSUME NEW log \in Records, LogOK(log), log # << >>
  PROVE  /\ LogLess(log) \in Records /\ LogOK(LogLess(log))
         /\ LogRun(log[Len(log)]) \subseteq LogSet(log)
         /\ LogSet(LogLess(log)) = LogSet(log) \ LogRun(log[Len(log)])
<1> DEFINE new == LogLess(log)
           last == Len(log)
<1>1. last \in Nat \ {0} /\ \A k \in 1 .. Len(log) : log[k] \in Int \X Int
  BY EmptySeq DEF Records
<1>2. new \in Records /\ Len(new) = last - 1 /\ \A k \in 1 .. (last - 1) : new[k] = log[k]
  <2> DEFINE T == Int \X Int
  <2>1. log \in Seq(T) /\ \A k \in 1 .. last - 1 : log[k] \in T
    BY <1>1 DEF Records
  <2> HIDE DEF T
  <2>2. new = SubSeq(log, 1, last - 1) /\ last - 1 \in Int
    BY <1>1 DEF LogLess
  <2>3. new \in Seq(T) /\ Len(new) = (IF 1 <= last - 1 THEN (last - 1) - 1 + 1 ELSE 0)
        /\ \A k \in 1 .. (last - 1) - 1 + 1 : new[k] = log[1 + k - 1]
    BY <2>1, <2>2, SubSeqProperties
  <2>4. \A k \in 1 .. (last - 1) : k \in 1 .. (last - 1) - 1 + 1 /\ 1 + k - 1 = k
    BY <1>1
  <2> HIDE DEF new
  <2>5. Len(new) = last - 1
    <3>1. last \in Nat \ {0} /\ Len(new) = (IF 1 <= last - 1 THEN (last - 1) - 1 + 1 ELSE 0)
      BY <1>1, <2>3
    <3> HIDE DEF last
    <3> QED
      BY <3>1
  <2>6. \A k \in 1 .. (last - 1) : new[k] = log[k]
    BY <2>3, <2>4
  <2> QED
    BY <2>3, <2>5, <2>6 DEF Records, T
<1>3. \A k \in 1 .. (last - 1) : k \in 1 .. last /\ k # last
  BY <1>1
<1>4. \A k \in 1 .. last : k = last \/ k \in 1 .. (last - 1)
  BY <1>1
<1>5. \A x : x \in LogSet(new) <=> x \in LogSet(log) /\ x \notin LogRun(log[last])
  <2> TAKE x
  <2>1. ASSUME x \in LogSet(new) PROVE x \in LogSet(log) /\ x \notin LogRun(log[last])
    <3>1. PICK k \in 1 .. (last - 1) : x \in LogRun(log[k])
      BY <1>2, <2>1, LogElement
    <3>a. k \in 1 .. Len(log) /\ last \in 1 .. Len(log) /\ k # last
      BY <1>1, <1>3
    <3>2. LogRun(log[k]) \intersect LogRun(log[last]) = {}
      BY <3>a DEF LogOK
    <3> QED
      BY <1>3, <3>1, <3>2, LogElement
  <2>2. ASSUME x \in LogSet(log), x \notin LogRun(log[last]) PROVE x \in LogSet(new)
    BY <1>2, <1>4, <2>2, LogElement
  <2> QED
    BY <2>1, <2>2
<1>6. LogOK(new)
  <2>1. \A k \in 1 .. Len(new) : k \in 1 .. Len(log) /\ new[k] = log[k]
    BY <1>2, <1>3
  <2> HIDE DEF new
  <2> QED
    BY <2>1 DEF LogOK
<1>7. LogRun(log[last]) \subseteq LogSet(log)
  BY <1>1, LogElement
<1> QED
  BY <1>2, <1>5, <1>6, <1>7

\* So with its first record.
LEMMA LogTail ==
  ASSUME NEW log \in Records, LogOK(log), log # << >>
  PROVE  /\ Tail(log) \in Records /\ LogOK(Tail(log))
         /\ Head(log) \in Int \X Int /\ Head(log)[1] <= Head(log)[2]
         /\ LogRun(Head(log)) \subseteq LogSet(log)
         /\ LogSet(Tail(log)) = LogSet(log) \ LogRun(Head(log))
<1> DEFINE new == Tail(log)
           last == Len(log)
<1>1. last \in Nat \ {0} /\ \A k \in 1 .. Len(log) : log[k] \in Int \X Int
  BY EmptySeq DEF Records
<1>2. new \in Records /\ Len(new) = last - 1 /\ (\A k \in 1 .. (last - 1) : new[k] = log[k + 1]) /\ Head(log) = log[1]
  BY <1>1 DEF Records
<1>3. \A k \in 1 .. (last - 1) : k + 1 \in 1 .. last /\ k + 1 # 1
  BY <1>1
<1>4. \A k \in 1 .. last : k = 1 \/ (k - 1 \in 1 .. (last - 1) /\ (k - 1) + 1 = k)
  BY <1>1
<1>5. \A x : x \in LogSet(new) <=> x \in LogSet(log) /\ x \notin LogRun(log[1])
  <2> TAKE x
  <2>1. ASSUME x \in LogSet(new) PROVE x \in LogSet(log) /\ x \notin LogRun(log[1])
    <3>1. PICK k \in 1 .. (last - 1) : x \in LogRun(log[k + 1])
      BY <1>2, <2>1, LogElement
    <3>2. 1 \in 1 .. last
      BY <1>1
    <3>3. LogRun(log[k + 1]) \intersect LogRun(log[1]) = {}
      BY <1>3, <3>2 DEF LogOK
    <3> QED
      BY <1>3, <3>1, <3>3, LogElement
  <2>2. ASSUME x \in LogSet(log), x \notin LogRun(log[1]) PROVE x \in LogSet(new)
    <3>1. PICK k \in 1 .. last : x \in LogRun(log[k])
      BY <2>2, LogElement
    <3>2. k - 1 \in 1 .. (last - 1) /\ new[k - 1] = log[k]
      BY <1>2, <1>4, <2>2, <3>1
    <3> QED
      BY <1>2, <3>1, <3>2, LogElement
  <2> QED
    BY <2>1, <2>2
<1>6. LogOK(new)
  <2>1. \A k \in 1 .. Len(new) : new[k][1] <= new[k][2]
    BY <1>2, <1>3 DEF LogOK
  <2>2. \A j, k \in 1 .. Len(new) : j # k => LogRun(new[j]) \intersect LogRun(new[k]) = {}
    <3> SUFFICES ASSUME NEW j \in 1 .. (last - 1), NEW k \in 1 .. (last - 1), j # k
                 PROVE  LogRun(new[j]) \intersect LogRun(new[k]) = {}
      BY <1>2
    <3>1. j + 1 # k + 1
      OBVIOUS
    <3> QED
      BY <1>2, <1>3, <3>1 DEF LogOK
  <2> QED
    BY <2>1, <2>2 DEF LogOK
<1>7. 1 \in 1 .. last
  BY <1>1
<1> QED
  BY <1>1, <1>2, <1>5, <1>6, <1>7, LogElement DEF LogOK

\* An empty log has none.
LEMMA LogEmpty == LogSet(<< >>) = {} /\ LogOK(<< >>) /\ << >> \in Records
<1>1. Len(<< >>) = 0
  OBVIOUS
<1>2. \A x : x \notin LogSet(<< >>)
  BY <1>1, LogElement
<1> QED
  BY <1>1, <1>2 DEF LogOK, Records

----------------------------------------------------------------------------
(* What a step does to the clusters.                                       *)

\* The other nodes keep what they have.
Apart(n) ==
  \A m \in SNode \ {n} :
    /\ files'[m] = files[m] /\ la'[m] = la[m] /\ tl'[m] = tl[m]
    /\ disk'.files[m] = disk.files[m] /\ disk'.la[m] = disk.la[m] /\ disk'.tl[m] = disk.tl[m]
    /\ copies'[m].unused = copies[m].unused /\ copies'[m].log = copies[m].log

\* It knows of the same clusters, and is as it was.
Keeps(m) ==
  /\ Mem(m)' = Mem(m) /\ Copied(m)' = Copied(m) /\ Hold(m)' = Hold(m) /\ OnDisk(m)' = OnDisk(m)
  /\ NodeOK(m) => NodeOK(m)'
  /\ AtRest(m) => AtRest(m)'

LEMMA ApartKeeps ==
  ASSUME NEW n, Apart(n), NEW m \in SNode \ {n}
  PROVE  Keeps(m)
<1>1. /\ files'[m] = files[m] /\ la'[m] = la[m] /\ tl'[m] = tl[m]
      /\ disk'.files[m] = disk.files[m] /\ disk'.la[m] = disk.la[m] /\ disk'.tl[m] = disk.tl[m]
      /\ copies'[m].unused = copies[m].unused /\ copies'[m].log = copies[m].log
  BY DEF Apart
<1>2. Mem(m)' = Mem(m) /\ Copied(m)' = Copied(m) /\ OnDisk(m)' = OnDisk(m)
  BY <1>1 DEF Mem, Copied, OnDisk
<1>3. NodeOK(m) => NodeOK(m)'
  BY <1>1, <1>2 DEF NodeOK
<1> QED
  BY <1>1, <1>2, <1>3 DEF Keeps, Hold, AtRest

\* Clusters stay where they are.
LEMMA ClustersStay ==
  ASSUME Owned, Durable, UNCHANGED <<files, la, tl, disk, bm, bmDirty, lost, salive>>, helped \subseteq helped',
         \A m \in SNode : copies'[m].unused = copies[m].unused /\ copies'[m].log = copies[m].log
  PROVE  Owned' /\ Durable'
<1>1. \A m \in SNode : Keeps(m)
  <2>1. ASSUME NEW m \in SNode PROVE Keeps(m)
    <3>1. Mem(m)' = Mem(m) /\ Copied(m)' = Copied(m) /\ OnDisk(m)' = OnDisk(m)
      BY DEF Mem, Copied, OnDisk
    <3>2. NodeOK(m) => NodeOK(m)'
      BY <3>1 DEF NodeOK
    <3> QED
      BY <3>1, <3>2 DEF Keeps, Hold, AtRest
  <2> QED
    BY <2>1
<1>2. Owned'
  BY <1>1 DEF Owned, Keeps
<1>3. ASSUME NEW m \in SNode, Clean(m) PROVE Clean(m)'
  BY <1>1, <1>3 DEF Clean, Keeps
<1>4. ASSUME NEW m \in SNode, Dirty(m) PROVE Dirty(m)'
  BY <1>1, <1>4 DEF Dirty, Keeps
<1>5. Durable'
  BY <1>1, <1>3, <1>4 DEF Durable, Keeps
<1> QED
  BY <1>2, <1>5

\* Clusters go from one place of a node to another, and the bitmap stays.
LEMMA ClustersMove ==
  ASSUME Owned, Durable, UNCHANGED <<disk, bm, bmDirty, lost, salive, helped>>,
         NEW n \in SNode, n \in salive, Apart(n), NodeOK(n)',
         Hold(n)' = Hold(n), Mem(n) \subseteq Mem(n)',
         n \notin helped => Mem(n)' = Mem(n) /\ Copied(n)' = Copied(n)
  PROVE  Owned' /\ Durable'
<1>1. \A m \in SNode : m # n => Keeps(m)
  BY ApartKeeps
<1>2. OnDisk(n)' = OnDisk(n)
  BY DEF OnDisk
<1>3. \A m \in SNode : Hold(m)' = Hold(m) /\ NodeOK(m)' /\ OnDisk(m)' = OnDisk(m)
  BY <1>1, <1>2 DEF Keeps, Owned
<1>4. Owned'
  BY <1>3 DEF Owned
<1>5. ASSUME NEW m \in SNode, Clean(m) PROVE Clean(m)'
  <2>1. CASE m = n
    BY <1>2, <1>5, <2>1 DEF Clean
  <2>2. CASE m # n
    BY <1>1, <1>5, <2>2 DEF Clean, Keeps
  <2> QED
    BY <2>1, <2>2
<1>6. ASSUME NEW m \in SNode, Dirty(m) PROVE Dirty(m)'
  <2>1. m \notin helped => Copied(m)' = Copied(m)
    BY <1>1 DEF Keeps
  <2> QED
    BY <1>3, <1>6, <2>1 DEF Dirty
<1>7. ASSUME NEW m \in SNode, m \notin salive, AtRest(m) PROVE AtRest(m)'
  BY <1>1, <1>7 DEF Keeps
<1>8. Durable'
  BY <1>5, <1>6, <1>7 DEF Durable
<1> QED
  BY <1>4, <1>8

\* A node frees or claims clusters in the bitmap.
LEMMA ClustersChange ==
  ASSUME Owned, Durable, UNCHANGED <<disk, lost, salive, helped>>,
         NEW n \in SNode, n \in salive, n # 0, 0 \notin SNode, Apart(n), NodeOK(n)', Copied(n)' = Copied(n),
         bmDirty \in {0, n}, bmDirty' = n,
         \A x : x \in bm' <=> (x \in bm /\ x \notin Mem(n)) \/ x \in Mem(n)',
         \A x \in Mem(n)' : x \in bm => x \in Mem(n)
  PROVE  Owned' /\ Durable'
<1>1. \A m \in SNode : m # n => Keeps(m)
  BY ApartKeeps
<1>2. OnDisk(n)' = OnDisk(n)
  BY DEF OnDisk
<1>3. \A m \in SNode : m # n => Hold(m)' = Hold(m)
  BY <1>1 DEF Keeps
<1>4. \A x : x \in Hold(n)' <=> x \in Mem(n)' \/ x \in Copied(n)
  BY DEF Hold
<1>5. \A x : x \in Hold(n) <=> x \in Mem(n) \/ x \in Copied(n)
  BY DEF Hold
<1>6. Copied(n) \intersect Mem(n) = {} /\ Copied(n) \intersect Mem(n)' = {}
  BY DEF Owned, NodeOK
<1>7. \A m \in SNode : NodeOK(m)'
  BY <1>1 DEF Keeps, Owned
<1>8. \A m, k \in SNode : m # k => Hold(m)' \intersect Hold(k)' = {}
  <2>1. ASSUME NEW m \in SNode, m # n PROVE Hold(m)' \intersect Hold(n)' = {}
    BY <1>3, <1>4, <1>5, <2>1 DEF Owned
  <2> QED
    BY <1>3, <2>1 DEF Owned
<1>9. \A m \in SNode : Hold(m)' \subseteq bm' /\ Hold(m)' \intersect lost' = {}
  <2>1. Hold(n)' \subseteq bm' /\ Hold(n)' \intersect lost' = {}
    BY <1>4, <1>5, <1>6 DEF Owned
  <2>2. ASSUME NEW m \in SNode, m # n PROVE Hold(m)' \subseteq bm' /\ Hold(m)' \intersect lost' = {}
    BY <1>3, <1>5, <2>2 DEF Owned
  <2> QED
    BY <2>1, <2>2
<1>10. lost' \subseteq bm'
  BY <1>5 DEF Owned
<1>11. \A x \in bm' : x \in lost' \/ \E m \in SNode : x \in Hold(m)'
  <2> TAKE x \in bm'
  <2>1. CASE x \in Mem(n)'
    BY <1>4, <2>1
  <2>2. CASE x \in bm /\ x \notin Mem(n)
    <3>1. x \in lost \/ \E m \in SNode : x \in Hold(m)
      BY <2>2 DEF Owned
    <3>2. ASSUME NEW m \in SNode, x \in Hold(m) PROVE x \in Hold(m)'
      BY <1>3, <1>4, <1>5, <2>2, <3>2
    <3> QED
      BY <3>1, <3>2
  <2> QED
    BY <2>1, <2>2
<1>12. Owned'
  BY <1>7, <1>8, <1>9, <1>10, <1>11 DEF Owned
<1>13. Dirty(n)'
  <2>1. Dirty(n)
    <3>1. CASE bmDirty = n
      BY <3>1 DEF Durable
    <3>2. CASE bmDirty = 0
      <4>1. Clean(n) /\ disk.bm = bm
        BY <3>2 DEF Durable
      <4>2. OnDisk(n) \subseteq Hold(n)
        BY <4>1, <1>5 DEF Clean
      <4>3. ASSUME n \notin helped PROVE Copied(n) = {} /\ \A x : x \in Hold(n) => x \in OnDisk(n)
        BY <1>5, <4>1, <4>3 DEF Clean
      <4>4. \A m \in SNode \ {n} : Hold(m) \subseteq disk.bm /\ Hold(m) \intersect OnDisk(n) = {}
        BY <4>1, <4>2 DEF Owned
      <4>5. OnDisk(n) \subseteq disk.bm
        BY <4>1, <4>2 DEF Owned
      <4>6. ASSUME n \notin helped, NEW x \in disk.bm
            PROVE  x \in lost \/ x \in OnDisk(n) \/ \E m \in SNode \ {n} : x \in Hold(m)
        BY <4>1, <4>3, <4>6 DEF Owned
      <4> QED
        BY <4>3, <4>4, <4>5, <4>6 DEF Dirty
    <3> QED
      BY <3>1, <3>2
  <2> QED
    BY <1>2, <1>3, <2>1 DEF Dirty
<1>14. ASSUME NEW m \in SNode, m # n PROVE Clean(m)'
  <2>1. Clean(m)
    BY <1>14 DEF Durable
  <2> QED
    BY <1>1, <1>14, <2>1 DEF Clean, Keeps
<1>15. ASSUME NEW m \in SNode, m \notin salive PROVE AtRest(m)'
  BY <1>1, <1>15 DEF Durable, Keeps
<1>16. Durable'
  BY <1>13, <1>14, <1>15 DEF Durable
<1> QED
  BY <1>12, <1>16

\* What a node has is on disk now.
LEMMA ClustersCommit ==
  ASSUME Shape, Owned, Durable, 0 \notin SNode, NEW n \in SNode, Committed(n),
         UNCHANGED <<files, la, tl, copies, bm, lost, salive, helped>>
  PROVE  Owned' /\ Durable'
<1>1. /\ disk'.files = [disk.files EXCEPT ![n] = files[n]] /\ disk'.la = [disk.la EXCEPT ![n] = la[n]]
      /\ disk'.tl = [disk.tl EXCEPT ![n] = tl[n]] /\ disk'.bm = IF bmDirty = n THEN bm ELSE disk.bm
  BY DEF Committed, Shape, OnVolume
<1>2. bmDirty' = IF bmDirty = n THEN 0 ELSE bmDirty
  BY DEF Committed
<1>3. /\ disk'.files[n] = files[n] /\ disk'.la[n] = la[n] /\ disk'.tl[n] = tl[n]
      /\ \A m \in SNode : m # n => disk'.files[m] = disk.files[m] /\ disk'.la[m] = disk.la[m] /\ disk'.tl[m] = disk.tl[m]
  BY <1>1 DEF Shape, OnVolume
<1>4. \A m \in SNode : m # n => Keeps(m)
  BY <1>3, ApartKeeps DEF Apart
<1>5. Mem(n)' = Mem(n) /\ Copied(n)' = Copied(n) /\ Hold(n)' = Hold(n) /\ OnDisk(n)' = Mem(n) /\ AtRest(n)'
  BY <1>3 DEF Mem, Copied, OnDisk, Hold, AtRest
<1>6. NodeOK(n)'
  <2>1. NodeOK(n)
    BY DEF Owned
  <2> QED
    BY <1>3, <1>5, <2>1 DEF NodeOK
<1>7. \A m \in SNode : NodeOK(m)' /\ Hold(m)' = Hold(m) /\ Mem(m)' = Mem(m) /\ Copied(m)' = Copied(m)
  BY <1>4, <1>5, <1>6 DEF Keeps, Owned
<1>8. Owned'
  BY <1>7 DEF Owned
<1>9. Clean(n)'
  <2>1. n \notin helped => Copied(n) = {}
    BY DEF Durable, Clean, Dirty
  <2> QED
    BY <1>5, <2>1 DEF Clean
<1>10. ASSUME NEW m \in SNode, m # n, bmDirty # m PROVE Clean(m)'
  <2>1. Clean(m)
    BY <1>10 DEF Durable
  <2> QED
    BY <1>4, <1>10, <2>1 DEF Clean, Keeps
<1>11. ASSUME NEW m \in SNode, m # n, bmDirty = m PROVE Dirty(m)'
  <2>1. Dirty(m) /\ disk'.bm = disk.bm /\ OnDisk(m)' = OnDisk(m)
    BY <1>1, <1>4, <1>11 DEF Durable, Keeps
  <2> QED
    BY <1>7, <1>11, <2>1 DEF Dirty
<1>12. ASSUME NEW m \in SNode, m \notin salive PROVE AtRest(m)'
  BY <1>4, <1>5, <1>12 DEF Durable, Keeps
<1>13. bmDirty' = 0 => disk'.bm = bm
  BY <1>1, <1>2 DEF Durable
<1>14. Durable'
  BY <1>2, <1>9, <1>10, <1>11, <1>12, <1>13 DEF Durable
<1> QED
  BY <1>8, <1>14

----------------------------------------------------------------------------
(* Threads and the lock of the bitmap.                                     *)

\* Thread w of n goes on at p, the others stay where they are.
Goes(n, w, p) ==
  /\ task' \in AllTasks
  /\ task'[n][w].pc = p
  /\ \A m \in SNode, v \in Who : m # n \/ v # w => task'[m][v] = task[m][v]

LEMMA TaskSet ==
  ASSUME Shape, NEW n \in SNode, NEW w \in Who, NEW t \in Tasks, task' = [task EXCEPT ![n][w] = t]
  PROVE  Goes(n, w, t.pc)
<1>1. task \in [SNode -> [Who -> Tasks]]
  BY DEF Shape, AllTasks
<1> HIDE DEF Tasks, Who
<1>2. task' \in [SNode -> [Who -> Tasks]] /\ task'[n] = [task[n] EXCEPT ![w] = t] /\ \A m \in SNode : m # n => task'[m] = task[m]
  BY <1>1
<1>3. task'[n][w] = t /\ \A v \in Who : v # w => task'[n][v] = task[n][v]
  BY <1>1, <1>2
<1> QED
  BY <1>2, <1>3 DEF Goes, AllTasks

LEMMA TaskGoes ==
  ASSUME Shape, NEW n \in SNode, NEW w \in Who, NEW p \in Pcs, Go(n, w, p)
  PROVE  Goes(n, w, p)
<1>1. task \in [SNode -> [Who -> Tasks]] /\ task[n][w] \in Tasks
  BY DEF Shape, AllTasks
<1> DEFINE t == [task[n][w] EXCEPT !.pc = p]
<1>2. t \in Tasks /\ t.pc = p
  BY <1>1 DEF Tasks
<1>3. task' = [task EXCEPT ![n][w] = t]
  BY DEF Go
<1> HIDE DEF t
<1> QED
  BY <1>2, <1>3, TaskSet

LEMMA IdleIsTask == Idle \in Tasks
<1>1. "idle" \in Pcs
  BY DEF Pcs
<1>2. 0 \in Nat
  OBVIOUS
<1>3. FALSE \in BOOLEAN
  OBVIOUS
<1> QED
  BY <1>1, <1>2, <1>3, Zenon DEF Idle, Tasks

LEMMA TaskEnds ==
  ASSUME Shape, NEW n \in SNode, NEW w \in Who, End(n, w)
  PROVE  Goes(n, w, "idle")
<1>1. Idle.pc = "idle" /\ Idle.want = 0 /\ Idle.retried = FALSE
  BY DEF Idle
<1>2. Idle \in Tasks
  BY IdleIsTask
<1> QED
  BY <1>1, <1>2, TaskSet DEF End

\* A thread goes on: without a lock, or with the lock it has.
LEMMA LockKeeps ==
  ASSUME LockOK, NEW n \in SNode, NEW w \in Who, NEW p, Goes(n, w, p), UNCHANGED bmBy,
         p \in InBitmap => task[n][w].pc \in InBitmap,
         bmDirty' \in {0, bmDirty} \/ (bmDirty' = n /\ task[n][w].pc \in InBitmap)
  PROVE  LockOK'
<1>1. ASSUME NEW m \in SNode, NEW v \in Who, task'[m][v].pc \in InBitmap PROVE bmBy = <<m, v>>
  <2>1. task[m][v].pc \in InBitmap
    BY <1>1 DEF Goes
  <2> QED
    BY <2>1 DEF LockOK
<1>2. bmBy # NoOne => bmDirty' \in {0, bmBy[1]}
  <2>1. task[n][w].pc \in InBitmap => bmBy[1] = n
    BY DEF LockOK
  <2> QED
    BY <2>1 DEF LockOK
<1> QED
  BY <1>1, <1>2 DEF LockOK

LEMMA LockTaken ==
  ASSUME LockOK, NEW n \in SNode, NEW w \in Who, NEW p, Goes(n, w, p), BmFree(n),
         bmBy' = <<n, w>>, UNCHANGED bmDirty, 0 \notin SNode
  PROVE  LockOK'
<1>1. ASSUME NEW m \in SNode, NEW v \in Who, task'[m][v].pc \in InBitmap PROVE bmBy' = <<m, v>>
  <2>1. CASE m = n /\ v = w
    BY <2>1
  <2>2. CASE m # n \/ v # w
    <3>1. task[m][v].pc \in InBitmap
      BY <1>1, <2>2 DEF Goes
    <3>2. bmBy[1] = m /\ bmBy[1] = 0
      BY <3>1 DEF LockOK, BmFree, NoOne
    <3> QED
      BY <3>2
  <2> QED
    BY <2>1, <2>2
<1>2. bmDirty' \in {0, bmBy'[1]}
  BY DEF BmFree
<1> QED
  BY <1>1, <1>2 DEF LockOK

LEMMA LockFreed ==
  ASSUME LockOK, NEW n \in SNode, NEW w \in Who, NEW p, Goes(n, w, p), p \notin InBitmap,
         task[n][w].pc \in InBitmap, bmBy' = NoOne
  PROVE  LockOK'
<1>1. ASSUME NEW m \in SNode, NEW v \in Who, task'[m][v].pc \in InBitmap PROVE FALSE
  <2>1. m # n \/ v # w
    BY <1>1 DEF Goes
  <2>2. task[m][v].pc \in InBitmap
    BY <1>1, <2>1 DEF Goes
  <2>3. bmBy = <<m, v>> /\ bmBy = <<n, w>>
    BY <2>2 DEF LockOK
  <2> QED
    BY <2>1, <2>3
<1> QED
  BY <1>1 DEF LockOK

\* Recoveries go on as they were.
Recoveries == \A m \in SNode : RecOK(m)
LEMMA RecoveriesStay ==
  ASSUME Recoveries, UNCHANGED <<copies, salive>>, helped \subseteq helped', NEW n \in SNode, NEW w \in Who, NEW p, Goes(n, w, p),
         w = "rec" => /\ task[n][w].pc \in {"lock log", "flush", "lock bitmap", "records", "append"}
                      /\ p \in {"lock log", "flush", "lock bitmap", "records", "append"}
  PROVE  Recoveries'
<1> SUFFICES ASSUME NEW m \in SNode PROVE RecOK(m)'
  BY DEF Recoveries
<1>1. RecOK(m) /\ "rec" \in Who
  BY DEF Recoveries, Who
<1>2. CASE m # n \/ w # "rec"
  <2>1. task'[m]["rec"] = task[m]["rec"]
    BY <1>1, <1>2 DEF Goes
  <2> QED
    BY <1>1, <2>1 DEF RecOK
<1>3. CASE m = n /\ w = "rec"
  BY <1>1, <1>3 DEF RecOK, Goes
<1> QED
  BY <1>2, <1>3
LEMMA BitmapHeld ==
  ASSUME LockOK, NEW n \in SNode, NEW w \in Who, task[n][w].pc \in InBitmap, 0 \notin SNode
  PROVE  bmBy = <<n, w>> /\ bmDirty \in {0, n}
<1>0. bmBy = <<n, w>>
  BY DEF LockOK
<1>1. bmBy = <<n, w>> /\ bmBy[1] = n /\ NoOne[1] = 0
  BY <1>0 DEF NoOne
<1> QED
  BY <1>1 DEF LockOK

----------------------------------------------------------------------------
(* The steps of a write that leave the clusters where they are.            *)

ClusterVars == <<salive, size, bm, bmDirty, files, la, tl, disk, copies, helped, lost>>

\* A thread goes on, and no cluster is touched.
LEMMA OnlyGoes ==
  ASSUME SpaceInv, NEW n \in SNode, NEW w \in Who, NEW p, Goes(n, w, p), sstory' \in Stories,
         UNCHANGED ClusterVars, LockOK',
         w = "rec" => /\ task[n][w].pc \in {"lock log", "flush", "lock bitmap", "records", "append"}
                      /\ p \in {"lock log", "flush", "lock bitmap", "records", "append"}
  PROVE  SpaceInv'
<1>1. Shape'
  BY DEF SpaceInv, Shape, Goes, ClusterVars
<1>2. Owned' /\ Durable'
  BY ClustersStay DEF SpaceInv, ClusterVars
<1>3. Recoveries'
  BY RecoveriesStay DEF SpaceInv, Recoveries, ClusterVars
<1> QED
  BY <1>1, <1>2, <1>3 DEF SpaceInv, Recoveries

LEMMA WriteStartSafe == ASSUME SpaceInv, NEW n \in SNode, WriteStart(n) PROVE SpaceInv'
<1> DEFINE p == IF Enabled(n) /\ 2 * Head(sstory.writes[n]) <= laBits[n] THEN "local" ELSE "main"
           t == [pc |-> p, want |-> Head(sstory.writes[n]), retried |-> FALSE]
<1>1. sstory.writes \in [SNode -> Seq(Nat)] /\ sstory.writes[n] # << >> /\ "wr" \in Who
  BY DEF SpaceInv, Shape, Stories, WriteStart, Who
<1>2. Head(sstory.writes[n]) \in Nat /\ Tail(sstory.writes[n]) \in Seq(Nat)
  BY <1>1, HeadTailProperties
<1>3. p \in Pcs /\ p \notin InBitmap
  BY DEF Pcs, InBitmap
<1>4. t \in Tasks /\ t.pc = p
  <2>1. FALSE \in BOOLEAN
    OBVIOUS
  <2> HIDE DEF p
  <2> QED
    BY <1>2, <1>3, <2>1, Zenon DEF Tasks
<1>5. task' = [task EXCEPT ![n]["wr"] = t]
  BY DEF WriteStart
<1>6. Goes(n, "wr", p)
  <2> HIDE DEF t
  <2> QED
    BY <1>1, <1>4, <1>5, TaskSet DEF SpaceInv
<1>7. sstory' \in Stories
  <2>1. sstory' = [sstory EXCEPT !.writes = [sstory.writes EXCEPT ![n] = Tail(sstory.writes[n])]]
    BY DEF WriteStart
  <2>2. [sstory.writes EXCEPT ![n] = Tail(sstory.writes[n])] \in [SNode -> Seq(Nat)]
    BY <1>1, <1>2
  <2> QED
    BY <2>1, <2>2 DEF SpaceInv, Shape, Stories
<1>8. UNCHANGED <<ClusterVars, bmBy>>
  BY DEF WriteStart, ClusterVars
<1> HIDE DEF p, t
<1>9. LockOK'
  BY <1>1, <1>3, <1>6, <1>8, LockKeeps DEF SpaceInv, ClusterVars
<1> QED
  BY <1>1, <1>6, <1>7, <1>8, <1>9, OnlyGoes

\* A thread goes on without the lock of the bitmap.
LEMMA PlainStep ==
  ASSUME SpaceInv, NEW n \in SNode, NEW w \in Who, NEW p, Goes(n, w, p), p \notin InBitmap,
         UNCHANGED <<ClusterVars, bmBy, sstory>>,
         w = "rec" => /\ task[n][w].pc \in {"lock log", "flush", "lock bitmap", "records", "append"}
                      /\ p \in {"lock log", "flush", "lock bitmap", "records", "append"}
  PROVE  SpaceInv'
<1>1. LockOK'
  BY LockKeeps DEF SpaceInv, ClusterVars
<1> QED
  BY <1>1, OnlyGoes DEF SpaceInv, Shape

\* It takes that lock.
LEMMA TakingStep ==
  ASSUME SpaceInv, NEW n \in SNode, NEW w \in Who, NEW p, Goes(n, w, p), BmFree(n), bmBy' = <<n, w>>,
         UNCHANGED <<ClusterVars, sstory>>,
         w = "rec" => /\ task[n][w].pc \in {"lock log", "flush", "lock bitmap", "records", "append"}
                      /\ p \in {"lock log", "flush", "lock bitmap", "records", "append"}
  PROVE  SpaceInv'
<1>1. LockOK'
  BY SNodeAssumption, LockTaken DEF SpaceInv, ClusterVars
<1> QED
  BY <1>1, OnlyGoes DEF SpaceInv, Shape

LEMMA ReserveLocalSafe == ASSUME SpaceInv, NEW n \in SNode, ReserveLocal(n) PROVE SpaceInv'
<1>1. PICK p \in {"main", "claim local", "slide"} : Go(n, "wr", p)
  BY DEF ReserveLocal
<1>2. UNCHANGED <<ClusterVars, bmBy, sstory>>
  BY DEF ReserveLocal, ClusterVars
<1>3. Goes(n, "wr", p) /\ p \notin InBitmap /\ "wr" \in Who
  BY <1>1, TaskGoes DEF SpaceInv, Who, Pcs, InBitmap
<1> QED
  BY <1>2, <1>3, PlainStep

LEMMA SlideReserveSafe == ASSUME SpaceInv, NEW n \in SNode, SlideReserve(n) PROVE SpaceInv'
<1>1. UNCHANGED <<ClusterVars, sstory>> /\ BmFree(n) /\ "wr" \in Who
  BY DEF SlideReserve, ClusterVars, Who
<1>2. CASE bmBy' = <<n, "wr">> /\ Go(n, "wr", "window")
  <2>1. Goes(n, "wr", "window")
    BY <1>1, <1>2, TaskGoes DEF SpaceInv, Pcs
  <2> QED
    BY <1>1, <1>2, <2>1, TakingStep
<1>3. CASE UNCHANGED <<task, bmBy>>
  <2>1. Goes(n, "wr", task[n]["wr"].pc)
    BY <1>1, <1>3 DEF SpaceInv, Shape, Goes
  <2>2. task[n]["wr"].pc \notin InBitmap
    BY DEF SlideReserve, At, InBitmap
  <2> QED
    BY <1>1, <1>3, <2>1, <2>2, PlainStep
<1>4. CASE Go(n, "wr", "main") /\ UNCHANGED bmBy
  <2>1. Goes(n, "wr", "main") /\ "main" \notin InBitmap
    BY <1>1, <1>4, TaskGoes DEF SpaceInv, Pcs, InBitmap
  <2> QED
    BY <1>1, <1>4, <2>1, PlainStep
<1> QED
  BY <1>2, <1>3, <1>4 DEF SlideReserve

LEMMA ReserveMainSafe == ASSUME SpaceInv, NEW n \in SNode, ReserveMain(n) PROVE SpaceInv'
<1>1. UNCHANGED <<ClusterVars, sstory>> /\ BmFree(n) /\ "wr" \in Who
  BY DEF ReserveMain, ClusterVars, Who
<1>2. CASE bmBy' = <<n, "wr">> /\ Go(n, "wr", "claim main")
  <2>1. Goes(n, "wr", "claim main")
    BY <1>1, <1>2, TaskGoes DEF SpaceInv, Pcs
  <2> QED
    BY <1>1, <1>2, <2>1, TakingStep
<1>3. CASE task' = [task EXCEPT ![n]["wr"].pc = "try free", ![n]["wr"].retried = TRUE] /\ UNCHANGED bmBy
  <2>0. task \in [SNode -> [Who -> Tasks]] /\ task[n]["wr"] \in Tasks
    BY <1>1 DEF SpaceInv, Shape, AllTasks
  <2> DEFINE t == [task[n]["wr"] EXCEPT !.pc = "try free", !.retried = TRUE]
  <2>1. t \in Tasks /\ t.pc = "try free"
    <3>1. \A b \in BOOLEAN : [task[n]["wr"] EXCEPT !.pc = "try free", !.retried = b] \in Tasks
      BY <2>0 DEF Tasks, Pcs
    <3>2. TRUE \in BOOLEAN
      OBVIOUS
    <3>3. t \in Tasks
      BY <3>1, <3>2, Zenon
    <3>4. t.pc = "try free"
      BY <2>0 DEF Tasks
    <3> QED
      BY <3>3, <3>4
  <2>2. task' = [task EXCEPT ![n]["wr"] = t]
    BY <1>3, <2>0
  <2> HIDE DEF t
  <2>3. Goes(n, "wr", "try free") /\ "try free" \notin InBitmap
    BY <1>1, <2>1, <2>2, TaskSet DEF SpaceInv, InBitmap
  <2> QED
    BY <1>1, <1>3, <2>3, PlainStep
<1>4. CASE End(n, "wr") /\ UNCHANGED bmBy
  <2>1. Goes(n, "wr", "idle") /\ "idle" \notin InBitmap
    BY <1>1, <1>4, TaskEnds DEF SpaceInv, InBitmap
  <2> QED
    BY <1>1, <1>4, <2>1, PlainStep
<1> QED
  BY <1>2, <1>3, <1>4 DEF ReserveMain

LEMMA TryFreeSafe == ASSUME SpaceInv, NEW n \in SNode, TryFree(n) PROVE SpaceInv'
<1>1. UNCHANGED <<ClusterVars, bmBy, sstory>> /\ "wr" \in Who
  BY DEF TryFree, ClusterVars, Who
<1>2. Go(n, "wr", "lock log") \/ End(n, "wr")
  BY DEF TryFree
<1>3. Goes(n, "wr", "lock log") \/ Goes(n, "wr", "idle")
  BY <1>1, <1>2, TaskGoes, TaskEnds DEF SpaceInv, Pcs
<1>4. "lock log" \notin InBitmap /\ "idle" \notin InBitmap
  BY DEF InBitmap
<1> QED
  BY <1>1, <1>3, <1>4, PlainStep

LEMMA LaEnableSafe == ASSUME SpaceInv, NEW n \in SNode, LaEnable(n) PROVE SpaceInv'
<1>1. UNCHANGED <<ClusterVars, bmBy, sstory, task>> /\ "wr" \in Who
  BY DEF LaEnable, ClusterVars, Who
<1>2. Goes(n, "wr", task[n]["wr"].pc)
  BY <1>1 DEF SpaceInv, Shape, Goes
<1>3. LockOK'
  BY <1>1, <1>2, LockKeeps DEF SpaceInv, ClusterVars
<1> QED
  BY <1>1, <1>2, <1>3, OnlyGoes DEF SpaceInv, Shape

\* Where a thread is when its flush is done
LEMMA FlushLeads ==
  ASSUME NEW w \in Who
  PROVE  AfterFlush[w] \in Pcs /\ AfterFlush[w] \notin InBitmap /\ (w = "rec" => AfterFlush[w] = "append")
<1>1. CASE w = "wr"
  BY <1>1 DEF AfterFlush, Pcs, InBitmap
<1>2. CASE w = "tr"
  BY <1>2 DEF AfterFlush, Pcs, InBitmap
<1>3. CASE w = "wk"
  BY <1>3 DEF AfterFlush, Pcs, InBitmap
<1>4. CASE w = "rec"
  BY <1>4 DEF AfterFlush, Pcs, InBitmap
<1> QED
  BY <1>1, <1>2, <1>3, <1>4 DEF Who

LEMMA LockLogSafe == ASSUME SpaceInv, NEW n \in SNode, NEW w \in Who, LockLog(n, w) PROVE SpaceInv'
<1> DEFINE p == IF KeepsLog(w) /\ ~TlFull(n) THEN AfterFlush[w] ELSE "flush"
<1>1. UNCHANGED <<ClusterVars, bmBy>> /\ Go(n, w, p)
  BY DEF LockLog, ClusterVars
<1>2. p \in Pcs /\ p \notin InBitmap /\ (w = "rec" => p \in {"append", "flush"})
  <2>1. "flush" \in Pcs /\ "flush" \notin InBitmap
    BY DEF Pcs, InBitmap
  <2> QED
    BY <2>1, FlushLeads
<1>3. w = "rec" => task[n][w].pc = "lock log"
  BY DEF LockLog, At
<1> HIDE DEF p
<1>4. Goes(n, w, p)
  BY <1>1, <1>2, TaskGoes DEF SpaceInv
<1>5. sstory' \in Stories
  <2>1. CASE UNCHANGED sstory
    BY <2>1 DEF SpaceInv, Shape
  <2>2. CASE sstory.truncs[n] > 0 /\ sstory' = [sstory EXCEPT !.truncs[n] = @ - 1]
    <3>1. sstory.truncs \in [SNode -> Nat]
      BY DEF SpaceInv, Shape, Stories
    <3>2. [sstory.truncs EXCEPT ![n] = @ - 1] \in [SNode -> Nat]
      BY <2>2, <3>1
    <3>3. sstory' = [sstory EXCEPT !.truncs = [sstory.truncs EXCEPT ![n] = @ - 1]]
      BY <2>2 DEF SpaceInv, Shape, Stories
    <3> QED
      BY <3>2, <3>3 DEF SpaceInv, Shape, Stories
  <2> QED
    BY <2>1, <2>2 DEF LockLog
<1>6. LockOK'
  BY <1>1, <1>2, <1>4, LockKeeps DEF SpaceInv, ClusterVars
<1> QED
  BY <1>1, <1>2, <1>3, <1>4, <1>5, <1>6, OnlyGoes

LEMMA FlushLockSafe == ASSUME SpaceInv, NEW n \in SNode, NEW w \in Who, FlushLock(n, w) PROVE SpaceInv'
<1>1. UNCHANGED <<ClusterVars, sstory>> /\ BmFree(n) /\ bmBy' = <<n, w>> /\ Go(n, w, "records") /\ task[n][w].pc = "lock bitmap"
  BY DEF FlushLock, ClusterVars, At
<1>2. Goes(n, w, "records")
  BY <1>1, TaskGoes DEF SpaceInv, Pcs
<1> QED
  BY <1>1, <1>2, TakingStep

LEMMA FlushEndSafe == ASSUME SpaceInv, NEW n \in SNode, NEW w \in Who, FlushEnd(n, w) PROVE SpaceInv'
<1>1. UNCHANGED <<ClusterVars, sstory>> /\ bmBy' = NoOne /\ Go(n, w, AfterFlush[w]) /\ task[n][w].pc = "records"
  BY DEF FlushEnd, ClusterVars, At, Flushed
<1>2. AfterFlush[w] \in Pcs /\ AfterFlush[w] \notin InBitmap /\ (w = "rec" => AfterFlush[w] = "append")
  BY FlushLeads
<1>3. Goes(n, w, AfterFlush[w])
  BY <1>1, <1>2, TaskGoes DEF SpaceInv
<1>4. LockOK'
  BY <1>1, <1>2, <1>3, LockFreed DEF SpaceInv, InBitmap
<1> QED
  BY <1>1, <1>2, <1>3, <1>4, OnlyGoes DEF SpaceInv, Shape

----------------------------------------------------------------------------
(* The steps that commit.                                                  *)

\* A commit on its own, or of a thread that goes on
LEMMA CommitStep ==
  ASSUME SpaceInv, NEW n \in SNode, Committed(n), NEW w \in Who, NEW p, Goes(n, w, p), p \notin InBitmap \/ p = task[n][w].pc,
         UNCHANGED <<sstory, salive, size, bm, bmBy, files, la, tl, copies, helped, lost>>,
         \/ p = task[n][w].pc
         \/ w = "rec" => /\ task[n][w].pc \in {"lock log", "flush", "lock bitmap", "records", "append"}
                         /\ p \in {"lock log", "flush", "lock bitmap", "records", "append"}
  PROVE  SpaceInv'
<1>1. /\ disk' = [disk EXCEPT !.files[n] = files[n], !.la[n] = la[n], !.tl[n] = tl[n],
                              !.bm = IF bmDirty = n THEN bm ELSE @, !.size = IF bmDirty = n THEN size ELSE @]
      /\ bmDirty' \in {0, bmDirty}
  BY DEF Committed
<1>2. Shape'
  <2>1. disk' \in OnVolume
    BY <1>1 DEF SpaceInv, Shape, OnVolume
  <2> QED
    BY <1>1, <2>1 DEF SpaceInv, Shape, Goes
<1>3. Owned' /\ Durable'
  BY SNodeAssumption, ClustersCommit DEF SpaceInv
<1>4. LockOK'
  BY <1>1, LockKeeps DEF SpaceInv
<1>5. Recoveries'
  <2>1. CASE p = task[n][w].pc
    <3>1. \A m \in SNode : task'[m]["rec"].pc = task[m]["rec"].pc
      BY <2>1 DEF Goes, Who
    <3> QED
      BY <3>1 DEF SpaceInv, Recoveries, RecOK
  <2>2. CASE p # task[n][w].pc
    BY <2>2, RecoveriesStay DEF SpaceInv, Recoveries
  <2> QED
    BY <2>1, <2>2
<1> QED
  BY <1>2, <1>3, <1>4, <1>5 DEF SpaceInv, Recoveries

LEMMA CommitSafe == ASSUME SpaceInv, NEW n \in SNode, Commit(n) PROVE SpaceInv'
<1>1. Committed(n) /\ UNCHANGED <<sstory, salive, size, bm, bmBy, files, la, tl, copies, helped, lost, task>> /\ "wr" \in Who
  BY DEF Commit, Who
<1>2. Goes(n, "wr", task[n]["wr"].pc)
  BY <1>1 DEF SpaceInv, Shape, Goes
<1> QED
  BY <1>1, <1>2, CommitStep

LEMMA FreedSomeSafe == ASSUME SpaceInv, NEW n \in SNode, FreedSome(n) PROVE SpaceInv'
<1>1. UNCHANGED <<sstory, salive, size, bm, bmBy, files, la, tl, copies, helped, lost>> /\ "wr" \in Who
  BY DEF FreedSome, Who
<1>2. CASE Committed(n) /\ Go(n, "wr", "main")
  <2>1. Goes(n, "wr", "main") /\ "main" \notin InBitmap
    BY <1>1, <1>2, TaskGoes DEF SpaceInv, Pcs, InBitmap
  <2> QED
    BY <1>1, <1>2, <2>1, CommitStep
<1>3. CASE End(n, "wr") /\ UNCHANGED <<disk, undo, bmDirty>>
  <2>1. Goes(n, "wr", "idle") /\ "idle" \notin InBitmap
    BY <1>1, <1>3, TaskEnds DEF SpaceInv, InBitmap
  <2> QED
    BY <1>1, <1>3, <2>1, PlainStep DEF ClusterVars
<1> QED
  BY <1>2, <1>3 DEF FreedSome

LEMMA FlushJournalSafe == ASSUME SpaceInv, NEW n \in SNode, NEW w \in Who, FlushJournal(n, w) PROVE SpaceInv'
<1>1. UNCHANGED <<sstory, salive, size, bm, bmBy, files, la, copies, helped, lost, tl>> /\ task[n][w].pc = "flush"
  BY DEF FlushJournal, At
<1>2. CASE Go(n, w, AfterFlush[w]) /\ UNCHANGED <<disk, undo, bmDirty>>
  <2>1. AfterFlush[w] \in Pcs /\ AfterFlush[w] \notin InBitmap /\ (w = "rec" => AfterFlush[w] = "append")
    BY FlushLeads
  <2>2. Goes(n, w, AfterFlush[w])
    BY <1>2, <2>1, TaskGoes DEF SpaceInv
  <2> QED
    BY <1>1, <1>2, <2>1, <2>2, PlainStep DEF ClusterVars
<1>3. CASE Committed(n) /\ Go(n, w, "lock bitmap")
  <2>1. Goes(n, w, "lock bitmap") /\ "lock bitmap" \notin InBitmap
    BY <1>3, TaskGoes DEF SpaceInv, Pcs, InBitmap
  <2> QED
    BY <1>1, <1>3, <2>1, CommitStep
<1> QED
  BY <1>2, <1>3 DEF FlushJournal, Flushed

----------------------------------------------------------------------------
(* The steps that move clusters between a node's files, window and log.    *)

\* A run that is found is part of what is searched.
LEMMA RunsWithin ==
  ASSUME NEW S, NEW k
  PROVE  (\A r \in BestRuns(S, k) : r \subseteq S) /\ (\A r \in RunsOf(S, k) : r \subseteq S)
BY DEF BestRuns, RunsOf, Runs

LEMMA MoveStep ==
  ASSUME SpaceInv, NEW n \in SNode, n \in salive,
         UNCHANGED <<sstory, salive, size, bm, bmBy, bmDirty, disk, helped, lost>>,
         files' \in [SNode -> SUBSET Int], la' \in [SNode -> Windows], tl' \in [SNode -> Records],
         copies' \in [SNode -> Copies], task' \in AllTasks,
         Apart(n), NodeOK(n)', Hold(n)' = Hold(n), Mem(n) \subseteq Mem(n)',
         n \notin helped => Mem(n)' = Mem(n) /\ Copied(n)' = Copied(n),
         LockOK', Recoveries'
  PROVE  SpaceInv'
<1>1. Shape'
  BY DEF SpaceInv, Shape
<1>2. Owned' /\ Durable'
  BY ClustersMove DEF SpaceInv
<1> QED
  BY <1>1, <1>2 DEF SpaceInv, Recoveries

LEMMA ClaimLocalSafe == ASSUME SpaceInv, NEW n \in SNode, NEW ok, ClaimLocal(n, ok) PROVE SpaceInv'
<1>1. /\ UNCHANGED <<sstory, salive, size, bm, bmBy, bmDirty, tl, disk, copies, helped, lost>>
      /\ End(n, "wr") /\ "wr" \in Who /\ n \in salive
  BY DEF ClaimLocal, Who, At
<1>2. Goes(n, "wr", "idle") /\ "idle" \notin InBitmap
  BY <1>1, TaskEnds DEF SpaceInv, InBitmap
<1>3. CASE UNCHANGED <<la, files>>
  BY <1>1, <1>2, <1>3, PlainStep DEF ClusterVars
<1>4. CASE ~UNCHANGED <<la, files>>
  <2>1. PICK r \in BestRuns(Unused(la[n]), task[n]["wr"].want) :
              la' = [la EXCEPT ![n].used = @ \union r] /\ files' = [files EXCEPT ![n] = @ \union r]
    BY <1>4 DEF ClaimLocal
  <2>2. r \subseteq Unused(la[n])
    BY RunsWithin
  <2>3. /\ la \in [SNode -> Windows] /\ files \in [SNode -> SUBSET Int]
        /\ la[n] \in Windows /\ la[n].win \subseteq Int /\ la[n].used \subseteq Int
    BY DEF SpaceInv, Shape, Windows
  <2>4. r \subseteq Int
    BY <2>2, <2>3 DEF Unused
  <2> DEFINE w == [la[n] EXCEPT !.used = @ \union r]
  <2>5. w \in Windows /\ w.win = la[n].win /\ w.used = la[n].used \union r
    BY <2>3, <2>4 DEF Windows
  <2>6. la' = [la EXCEPT ![n] = w]
    BY <2>1
  <2> HIDE DEF w
  <2>7. la' \in [SNode -> Windows] /\ la'[n] = w /\ \A m \in SNode : m # n => la'[m] = la[m]
    BY <2>3, <2>5, <2>6
  <2>8. /\ files' \in [SNode -> SUBSET Int] /\ files'[n] = files[n] \union r
        /\ \A m \in SNode : m # n => files'[m] = files[m]
    BY <2>1, <2>3, <2>4
  <2>9. Unused(la'[n]) = Unused(la[n]) \ r
    BY <2>5, <2>7 DEF Unused
  <2>10. Apart(n)
    BY <1>1, <2>7, <2>8 DEF Apart
  <2>11. NodeOK(n)
    BY DEF SpaceInv, Owned
  <2>12. Mem(n)' = Mem(n) /\ Copied(n)' = Copied(n) /\ Hold(n)' = Hold(n)
    <3>1. Mem(n)' = Mem(n)
      BY <1>1, <2>2, <2>8, <2>9 DEF Mem, Share
    <3> QED
      BY <1>1, <3>1 DEF Copied, Hold
  <2>13. NodeOK(n)'
    <3>1. ShareOK(files'[n], la'[n], tl'[n])
      BY <1>1, <2>2, <2>8, <2>9, <2>11 DEF NodeOK, ShareOK
    <3> QED
      BY <1>1, <2>11, <2>12, <3>1 DEF NodeOK
  <2>14. LockOK'
    BY <1>1, <1>2, LockKeeps DEF SpaceInv
  <2>15. Recoveries'
    BY <1>1, <1>2, RecoveriesStay DEF SpaceInv, Recoveries
  <2>16. Shape /\ copies' \in [SNode -> Copies] /\ tl' \in [SNode -> Records] /\ task' \in AllTasks
    BY <1>1, <1>2 DEF SpaceInv, Shape, Goes
  <2> QED
    BY <1>1, <2>7, <2>8, <2>10, <2>12, <2>13, <2>14, <2>15, <2>16, MoveStep
<1> QED
  BY <1>3, <1>4

LEMMA RemoveExtentSafe == ASSUME SpaceInv, NEW n \in SNode, RemoveExtent(n) PROVE SpaceInv'
<1>1. /\ UNCHANGED <<sstory, salive, size, bm, bmBy, bmDirty, la, disk, copies, helped, lost>>
      /\ End(n, "tr") /\ "tr" \in Who /\ n \in salive
  BY DEF RemoveExtent, Who, At
<1>2. Goes(n, "tr", "idle") /\ "idle" \notin InBitmap
  BY <1>1, TaskEnds DEF SpaceInv, InBitmap
<1>3. CASE UNCHANGED <<files, tl>>
  BY <1>1, <1>2, <1>3, PlainStep DEF ClusterVars
<1>4. CASE ~UNCHANGED <<files, tl>>
  <2>1. PICK a, b \in files[n] :
              /\ a <= b /\ Run(a, b) \subseteq files[n]
              /\ files' = [files EXCEPT ![n] = @ \ Run(a, b)]
              /\ tl' = [tl EXCEPT ![n] = Appended(@, <<a, b>>)]
    BY <1>4 DEF RemoveExtent
  <2> DEFINE r == Run(a, b)
  <2>2. /\ files \in [SNode -> SUBSET Int] /\ tl \in [SNode -> Records] /\ tl[n] \in Records
        /\ a \in Int /\ b \in Int /\ r = LogRun(<<a, b>>)
    BY DEF SpaceInv, Shape, LogRun
  <2>3. NodeOK(n)
    BY DEF SpaceInv, Owned
  <2>4. LogOK(tl[n]) /\ r \intersect LogSet(tl[n]) = {}
    BY <2>1, <2>3 DEF NodeOK, ShareOK
  <2> DEFINE new == Appended(tl[n], <<a, b>>)
  <2>5. new \in Records /\ LogOK(new) /\ LogSet(new) = LogSet(tl[n]) \union r
    BY <2>1, <2>2, <2>4, LogLonger
  <2>6. tl' = [tl EXCEPT ![n] = new]
    BY <2>1
  <2>7. files' = [files EXCEPT ![n] = files[n] \ r] /\ r \subseteq files[n]
    BY <2>1
  <2> HIDE DEF new, r
  <2>8. tl' \in [SNode -> Records] /\ tl'[n] = new /\ \A m \in SNode : m # n => tl'[m] = tl[m]
    BY <2>2, <2>5, <2>6
  <2>9. /\ files' \in [SNode -> SUBSET Int] /\ files'[n] = files[n] \ r
        /\ \A m \in SNode : m # n => files'[m] = files[m]
    BY <2>2, <2>7
  <2>10. Apart(n)
    BY <1>1, <2>8, <2>9 DEF Apart
  <2>12. Mem(n)' = Mem(n) /\ Copied(n)' = Copied(n) /\ Hold(n)' = Hold(n)
    <3>1. Mem(n)' = Mem(n)
      BY <1>1, <2>5, <2>7, <2>8, <2>9 DEF Mem, Share
    <3> QED
      BY <1>1, <3>1 DEF Copied, Hold
  <2>13. NodeOK(n)'
    <3>1. ShareOK(files'[n], la'[n], tl'[n])
      BY <1>1, <2>3, <2>5, <2>7, <2>8, <2>9 DEF NodeOK, ShareOK
    <3> QED
      BY <1>1, <2>3, <2>12, <3>1 DEF NodeOK
  <2>14. LockOK'
    BY <1>1, <1>2, LockKeeps DEF SpaceInv
  <2>15. Recoveries'
    BY <1>1, <1>2, RecoveriesStay DEF SpaceInv, Recoveries
  <2>16. Shape /\ copies' \in [SNode -> Copies] /\ la' \in [SNode -> Windows] /\ task' \in AllTasks
    BY <1>1, <1>2 DEF SpaceInv, Shape, Goes
  <2> QED
    BY <1>1, <2>8, <2>9, <2>10, <2>12, <2>13, <2>14, <2>15, <2>16, MoveStep
<1> QED
  BY <1>3, <1>4 DEF RemoveExtent

LEMMA AppendRecordSafe == ASSUME SpaceInv, NEW m \in SNode, AppendRecord(m) PROVE SpaceInv'
<1>1. /\ UNCHANGED <<sstory, salive, size, bm, bmBy, bmDirty, files, la, disk, helped, lost>>
      /\ task[m]["rec"].pc = "append" /\ "rec" \in Who /\ m \in salive /\ copies[m].log # << >>
  BY DEF AppendRecord, Who, At
<1>2. CASE TlFull(m)
  <2>0. Go(m, "rec", "flush") /\ UNCHANGED <<tl, copies>>
    BY <1>2 DEF AppendRecord
  <2>1. Goes(m, "rec", "flush") /\ "flush" \notin InBitmap
    BY <1>1, <2>0, TaskGoes DEF SpaceInv, Pcs, InBitmap
  <2> QED
    BY <1>1, <2>0, <2>1, PlainStep DEF ClusterVars
<1>3. CASE ~TlFull(m)
  <2> DEFINE log == copies[m].log
             c == [copies[m] EXCEPT !.log = Tail(log)]
             new == Appended(tl[m], Head(log))
  <2>1. tl' = [tl EXCEPT ![m] = new] /\ copies' = [copies EXCEPT ![m] = c]
    BY <1>3 DEF AppendRecord
  <2>2. \/ Tail(log) = << >> /\ Go(m, "rec", "done")
        \/ Tail(log) # << >> /\ UNCHANGED task
    BY <1>3 DEF AppendRecord
  <2>3. copies \in [SNode -> Copies] /\ copies[m] \in Copies /\ tl \in [SNode -> Records] /\ tl[m] \in Records /\ log \in Records
    BY DEF SpaceInv, Shape, Copies
  <2>4. NodeOK(m) /\ m \in helped /\ copies[m].unused = {}
    BY <1>1 DEF SpaceInv, Owned, RecOK
  <2>5. LogOK(log)
    BY <2>4 DEF NodeOK
  <2> DEFINE r == LogRun(Head(log))
  <2>6. /\ Tail(log) \in Records /\ LogOK(Tail(log)) /\ Head(log) \in Int \X Int /\ Head(log)[1] <= Head(log)[2]
        /\ r \subseteq LogSet(log) /\ LogSet(Tail(log)) = LogSet(log) \ r
    <3> HIDE DEF log
    <3> QED
      BY <1>1, <2>3, <2>5, LogTail DEF log
  <2>7. LogOK(tl[m]) /\ r \intersect LogSet(tl[m]) = {}
    BY <2>4, <2>6 DEF NodeOK, ShareOK, Copied, Mem, Share
  <2>8. new \in Records /\ LogOK(new) /\ LogSet(new) = LogSet(tl[m]) \union r
    <3> HIDE DEF log
    <3>1. Head(log) = <<Head(log)[1], Head(log)[2]>> /\ Head(log)[1] \in Int /\ Head(log)[2] \in Int
      BY <2>6
    <3> DEFINE a == Head(log)[1]
               b == Head(log)[2]
    <3>2. Head(log) = <<a, b>> /\ a \in Int /\ b \in Int /\ a <= b
      BY <2>6, <3>1
    <3> HIDE DEF a, b
    <3>3. LogRun(<<a, b>>) \intersect LogSet(tl[m]) = {}
      BY <2>7, <3>2
    <3> QED
      BY <2>3, <2>7, <3>2, <3>3, LogLonger
  <2>9. c \in Copies /\ c.unused = {} /\ c.log = Tail(log) /\ c.slot = copies[m].slot
    BY <2>3, <2>4, <2>6 DEF Copies
  <2> HIDE DEF new, c, r, log
  <2>10. tl' \in [SNode -> Records] /\ tl'[m] = new /\ \A n \in SNode : n # m => tl'[n] = tl[n]
    BY <2>1, <2>3, <2>8
  <2>11. copies' \in [SNode -> Copies] /\ copies'[m] = c /\ \A n \in SNode : n # m => copies'[n] = copies[n]
    BY <2>1, <2>3, <2>9
  <2>12. Apart(m)
    BY <1>1, <2>10, <2>11 DEF Apart
  <2>13. /\ Mem(m)' = Mem(m) \union r
         /\ Copied(m) = LogSet(log) /\ Copied(m)' = LogSet(log) \ r
         /\ Hold(m)' = Hold(m)
    <3>1. Mem(m)' = Mem(m) \union r
      BY <1>1, <2>8, <2>10 DEF Mem, Share
    <3>2. Copied(m) = LogSet(log) /\ Copied(m)' = LogSet(log) \ r
      BY <2>4, <2>6, <2>9, <2>11 DEF Copied, log
    <3> QED
      BY <2>6, <3>1, <3>2 DEF Hold
  <2>14. NodeOK(m)'
    <3>1. ShareOK(files'[m], la'[m], tl'[m])
      <4>1. ShareOK(files[m], la[m], tl[m]) /\ r \intersect Mem(m) = {}
        BY <2>4, <2>6, <2>13 DEF NodeOK
      <4> QED
        BY <1>1, <2>8, <2>10, <4>1 DEF ShareOK, Mem, Share
    <3>2. Copied(m)' \intersect Mem(m)' = {}
      BY <2>4, <2>13 DEF NodeOK
    <3>3. copies'[m].unused = {} /\ LogOK(copies'[m].log)
      BY <2>6, <2>9, <2>11
    <3> QED
      BY <1>1, <2>4, <3>1, <3>2, <3>3 DEF NodeOK
  <2>15. \E p \in {"append", "done"} : Goes(m, "rec", p)
    <3>1. CASE Go(m, "rec", "done")
      BY <1>1, <3>1, TaskGoes DEF SpaceInv, Pcs
    <3>2. CASE UNCHANGED task
      <4>1. Goes(m, "rec", "append")
        BY <1>1, <3>2 DEF SpaceInv, Shape, Goes
      <4> QED
        BY <4>1
    <3> QED
      BY <2>2, <3>1, <3>2
  <2>16. PICK p \in {"append", "done"} : Goes(m, "rec", p)
    BY <2>15
  <2>17. p \notin InBitmap /\ task'[m]["rec"].pc = p /\ task' \in AllTasks
    BY <2>16 DEF InBitmap, Goes
  <2>18. LockOK'
    BY <1>1, <2>16, <2>17, LockKeeps DEF SpaceInv
  <2>19. p = "done" => Tail(log) = << >>
    BY <1>1, <2>2, <2>17
  <2>20. Recoveries'
    <3> SUFFICES ASSUME NEW n \in SNode PROVE RecOK(n)'
      BY DEF Recoveries
    <3>1. CASE n = m
      <4>1. copies'[m].unused = {} /\ (p = "done" => copies'[m].log = << >>) /\ m \in helped'
        BY <1>1, <2>4, <2>9, <2>11, <2>19
      <4> QED
        BY <2>16, <2>17, <3>1, <4>1 DEF RecOK
    <3>2. CASE n # m
      <4>1. RecOK(n) /\ task'[n]["rec"] = task[n]["rec"] /\ copies'[n] = copies[n]
        BY <1>1, <2>11, <2>16, <3>2 DEF SpaceInv, Goes
      <4> QED
        BY <1>1, <4>1 DEF RecOK
    <3> QED
      BY <3>1, <3>2
  <2>21. Shape /\ files' \in [SNode -> SUBSET Int] /\ la' \in [SNode -> Windows]
    BY <1>1 DEF SpaceInv, Shape
  <2>22. Mem(m) \subseteq Mem(m)' /\ m \in helped
    BY <2>4, <2>13
  <2> QED
    BY <1>1, <2>10, <2>11, <2>12, <2>13, <2>14, <2>17, <2>18, <2>20, <2>21,
       <2>22, MoveStep
<1> QED
  BY <1>2, <1>3

----------------------------------------------------------------------------
(* The steps that set or clear bits.                                       *)

LEMMA ChangeStep ==
  ASSUME SpaceInv, NEW n \in SNode, n \in salive,
         UNCHANGED <<salive, disk, copies, helped, lost>>, sstory' \in Stories, size' \in Nat, bm' \subseteq Int,
         files' \in [SNode -> SUBSET Int], la' \in [SNode -> Windows], tl' \in [SNode -> Records], task' \in AllTasks,
         \A m \in SNode : m # n => files'[m] = files[m] /\ la'[m] = la[m] /\ tl'[m] = tl[m],
         NodeOK(n)', bmDirty \in {0, n}, bmDirty' = n,
         \A x : x \in bm' <=> (x \in bm /\ x \notin Mem(n)) \/ x \in Mem(n)',
         \A x \in Mem(n)' : x \in bm => x \in Mem(n),
         LockOK', Recoveries'
  PROVE  SpaceInv'
<1>1. Shape'
  BY DEF SpaceInv, Shape
<1>2. Apart(n) /\ Copied(n)' = Copied(n) /\ n # 0 /\ 0 \notin SNode
  BY SNodeAssumption DEF Apart, Copied
<1>3. Owned' /\ Durable'
  BY <1>2, ClustersChange DEF SpaceInv
<1> QED
  BY <1>1, <1>3 DEF SpaceInv, Recoveries

\* What a node and others have when a step begins
LEMMA Before ==
  ASSUME SpaceInv, NEW n \in SNode
  PROVE  /\ NodeOK(n) /\ Mem(n) \subseteq bm /\ Copied(n) \subseteq bm /\ bm \subseteq Int
         /\ files \in [SNode -> SUBSET Int] /\ la \in [SNode -> Windows] /\ tl \in [SNode -> Records]
         /\ la[n] \in Windows /\ tl[n] \in Records /\ files[n] \subseteq Int
         /\ Shape /\ LockOK /\ size \in Nat /\ sstory \in Stories /\ task \in AllTasks
BY DEF SpaceInv, Shape, Owned, Hold

LEMMA ClaimMainSafe == ASSUME SpaceInv, NEW n \in SNode, NEW ok \in BOOLEAN, ClaimMain(n, ok) PROVE SpaceInv'
<1>1. /\ UNCHANGED <<sstory, salive, size, la, tl, disk, copies, helped, lost>>
      /\ End(n, "wr") /\ bmBy' = NoOne /\ task[n]["wr"].pc = "claim main" /\ "wr" \in Who /\ n \in salive
  BY DEF ClaimMain, Who, At
<1>2. Goes(n, "wr", "idle") /\ "idle" \notin InBitmap /\ "claim main" \in InBitmap
  BY <1>1, TaskEnds DEF SpaceInv, InBitmap
<1>3. LockOK'
  BY <1>1, <1>2, LockFreed DEF SpaceInv
<1>4. Recoveries'
  BY <1>1, <1>2, RecoveriesStay DEF SpaceInv, Recoveries
<1>5. bmDirty \in {0, n}
  BY <1>1, <1>2, BitmapHeld, SNodeAssumption DEF SpaceInv
<1>6. task' \in AllTasks
  BY <1>2 DEF Goes
<1>7. CASE UNCHANGED <<bm, bmDirty, files>>
  BY <1>1, <1>2, <1>3, <1>7, OnlyGoes DEF ClusterVars, SpaceInv, Shape
<1> DEFINE free == Allocatable(bm, undo)
<1>8. ASSUME NEW r \in BestRuns(free, task[n]["wr"].want), bmDirty' = n,
             bm' = bm \union r, files' = [files EXCEPT ![n] = @ \union r]
      PROVE  SpaceInv'
  <2>1. r \subseteq Int /\ r \intersect bm = {}
    BY RunsWithin DEF Allocatable
  <2> DEFINE new == files[n] \union r
  <2>2. files' = [files EXCEPT ![n] = new] /\ new \subseteq Int
    BY <1>8, <2>1, Before
  <2>3. files' \in [SNode -> SUBSET Int] /\ files'[n] = files[n] \union r /\ \A m \in SNode : m # n => files'[m] = files[m]
    BY <2>2, Before
  <2>4. Mem(n)' = Mem(n) \union r
    BY <1>1, <2>3 DEF Mem, Share
  <2>5. NodeOK(n)'
    <3>1. ShareOK(files'[n], la'[n], tl'[n])
      BY <1>1, <2>1, <2>3, Before DEF NodeOK, ShareOK, Mem, Share
    <3>2. Copied(n)' = Copied(n) /\ Copied(n) \intersect Mem(n)' = {}
      BY <1>1, <2>1, <2>4, Before DEF NodeOK, Copied
    <3> QED
      BY <1>1, <3>1, <3>2, Before DEF NodeOK
  <2>6. \A x : x \in bm' <=> (x \in bm /\ x \notin Mem(n)) \/ x \in Mem(n)'
    BY <1>8, <2>4, Before
  <2>7. \A x \in Mem(n)' : x \in bm => x \in Mem(n)
    BY <2>1, <2>4
  <2>8. /\ bm' \subseteq Int /\ la' \in [SNode -> Windows] /\ tl' \in [SNode -> Records]
        /\ size' \in Nat /\ sstory' \in Stories
    BY <1>1, <1>8, <2>1, Before
  <2> HIDE DEF new
  <2> QED
    BY <1>1, <1>3, <1>4, <1>5, <1>6, <1>8, <2>3, <2>5, <2>6, <2>7, <2>8,
       ChangeStep
<1>9. ASSUME bmDirty' = n, UNCHANGED <<bm, files>>
      PROVE  SpaceInv'
  <2>1. Mem(n)' = Mem(n) /\ Copied(n)' = Copied(n)
    BY <1>1, <1>9 DEF Mem, Copied
  <2>2. NodeOK(n)'
    BY <1>1, <1>9, <2>1, Before DEF NodeOK
  <2>3. \A x : x \in bm' <=> (x \in bm /\ x \notin Mem(n)) \/ x \in Mem(n)'
    BY <1>9, <2>1, Before
  <2>4. /\ bm' \subseteq Int /\ la' \in [SNode -> Windows] /\ tl' \in [SNode -> Records]
        /\ size' \in Nat /\ sstory' \in Stories /\ files' \in [SNode -> SUBSET Int]
    BY <1>1, <1>9, Before
  <2> QED
    BY <1>1, <1>3, <1>4, <1>5, <1>6, <1>9, <2>1, <2>2, <2>3, <2>4, ChangeStep
<1> QED
  BY <1>7, <1>8, <1>9 DEF ClaimMain

LEMMA FlushRecordSafe == ASSUME SpaceInv, NEW n \in SNode, NEW w \in Who, FlushRecord(n, w) PROVE SpaceInv'
<1> DEFINE r == LogRun(tl[n][Len(tl[n])])
           new == LogLess(tl[n])
<1>1. /\ UNCHANGED <<sstory, salive, size, bmBy, files, la, disk, task, copies, helped, lost>>
      /\ task[n][w].pc = "records" /\ n \in salive /\ tl[n] # << >>
      /\ bm' = bm \ r /\ tl' = [tl EXCEPT ![n] = new] /\ bmDirty' = n
  BY DEF FlushRecord, At
<1>2. "records" \in InBitmap
  BY DEF InBitmap
<1>3. Goes(n, w, "records")
  BY <1>1, Before DEF Goes
<1>4. bmDirty \in {0, n}
  BY <1>1, <1>2, BitmapHeld, SNodeAssumption, Before
<1>5. LockOK'
  BY <1>1, <1>2, <1>3, <1>4, LockKeeps, Before
<1>6. Recoveries'
  BY <1>1 DEF SpaceInv, Recoveries, RecOK
<1>7. LogOK(tl[n])
  BY Before DEF NodeOK, ShareOK
<1>8. new \in Records /\ LogOK(new) /\ r \subseteq LogSet(tl[n]) /\ LogSet(new) = LogSet(tl[n]) \ r
  BY <1>1, <1>7, Before, LogShorter
<1> HIDE DEF r, new
<1>9. tl' \in [SNode -> Records] /\ tl'[n] = new /\ \A m \in SNode : m # n => tl'[m] = tl[m]
  BY <1>1, <1>8, Before
<1>10. Mem(n)' = Mem(n) \ r /\ r \subseteq Mem(n)
  BY <1>1, <1>8, <1>9, Before DEF NodeOK, ShareOK, Mem, Share
<1>11. NodeOK(n)'
  <2>1. ShareOK(files'[n], la'[n], tl'[n])
    BY <1>1, <1>8, <1>9, Before DEF NodeOK, ShareOK
  <2>2. Copied(n)' = Copied(n) /\ Copied(n) \intersect Mem(n)' = {}
    BY <1>1, <1>10, Before DEF NodeOK, Copied
  <2> QED
    BY <1>1, <2>1, <2>2, Before DEF NodeOK
<1>12. \A x : x \in bm' <=> (x \in bm /\ x \notin Mem(n)) \/ x \in Mem(n)'
  BY <1>1, <1>10, Before
<1>13. \A x \in Mem(n)' : x \in bm => x \in Mem(n)
  BY <1>10
<1>14. /\ bm' \subseteq Int /\ la' \in [SNode -> Windows] /\ files' \in [SNode -> SUBSET Int]
       /\ size' \in Nat /\ sstory' \in Stories /\ task' \in AllTasks
  BY <1>1, Before
<1> QED
  BY <1>1, <1>4, <1>5, <1>6, <1>9, <1>11, <1>12, <1>13, <1>14, ChangeStep

LEMMA SlideWindowSafe == ASSUME SpaceInv, NEW n \in SNode, SlideWindow(n) PROVE SpaceInv'
<1> DEFINE old == Unused(la[n])
           b == bm \ old
           free == Allocatable(b, undo \ old)
           bits == Fitting(free, laBits[n])
<1>1. /\ UNCHANGED <<sstory, salive, size, files, tl, disk, copies, helped, lost>>
      /\ bmBy' = NoOne /\ bmDirty' = n /\ task[n]["wr"].pc = "window" /\ "wr" \in Who /\ n \in salive
      /\ Go(n, "wr", "claim local") \/ Go(n, "wr", "main")
  BY DEF SlideWindow, Who, At
<1>2. \E w \in Windows : /\ la' = [la EXCEPT ![n] = w] /\ w.used = {} /\ w.win \subseteq Int /\ w.win \intersect b = {}
                          /\ bm' = b \union w.win
  <2>1. CASE bits = 0
    <3>1. NoWin \in Windows /\ NoWin.used = {} /\ NoWin.win = {}
      BY DEF NoWin, Windows
    <3>2. bm' = b /\ la' = [la EXCEPT ![n] = NoWin]
      BY <2>1 DEF SlideWindow, GivenBack
    <3> HIDE DEF b
    <3> QED
      BY <3>1, <3>2
  <2>2. CASE bits # 0
    <3>1. PICK r \in RunsOf(free, bits) : bm' = b \union r /\ la' = [la EXCEPT ![n] = [win |-> r, used |-> {}]]
      BY <2>2 DEF SlideWindow, GivenBack
    <3>2. r \subseteq Int /\ r \intersect b = {}
      BY RunsWithin DEF Allocatable
    <3> DEFINE w == [win |-> r, used |-> {}]
    <3>3. w \in Windows /\ w.used = {} /\ w.win = r
      BY <3>2 DEF Windows
    <3> HIDE DEF b, w
    <3> QED
      BY <3>1, <3>2, <3>3 DEF w
  <2> QED
    BY <2>1, <2>2
<1>3. PICK w \in Windows : /\ la' = [la EXCEPT ![n] = w] /\ w.used = {} /\ w.win \subseteq Int /\ w.win \intersect b = {}
                           /\ bm' = b \union w.win
  BY <1>2
<1>4. \E p \in {"claim local", "main"} : Goes(n, "wr", p)
  BY <1>1, TaskGoes, Before DEF Pcs
<1>5. PICK p \in {"claim local", "main"} : Goes(n, "wr", p)
  BY <1>4
<1>6. p \notin InBitmap /\ "window" \in InBitmap /\ task' \in AllTasks
  BY <1>5 DEF InBitmap, Goes
<1>7. bmDirty \in {0, n}
  BY <1>1, <1>6, BitmapHeld, SNodeAssumption, Before
<1>8. LockOK'
  BY <1>1, <1>5, <1>6, LockFreed, Before
<1>9. Recoveries'
  BY <1>1, <1>5, RecoveriesStay DEF SpaceInv, Recoveries
<1>10. la' \in [SNode -> Windows] /\ la'[n] = w /\ \A m \in SNode : m # n => la'[m] = la[m]
  BY <1>3, Before
<1>11. Unused(la'[n]) = w.win
  BY <1>3, <1>10 DEF Unused
<1>12. Mem(n)' = (Mem(n) \ old) \union w.win
  BY <1>1, <1>11, Before DEF Mem, Share, NodeOK, ShareOK
<1>13. old \subseteq Mem(n) /\ \A x \in w.win : x \in bm => x \in old
  BY <1>3 DEF Mem, Share
<1>14. NodeOK(n)'
  <2>1. ShareOK(files'[n], la'[n], tl'[n])
    <3>1. ShareOK(files[n], la[n], tl[n])
      BY Before DEF NodeOK
    <3>2. files[n] \subseteq b /\ LogSet(tl[n]) \subseteq b
      BY <3>1, Before DEF ShareOK, Mem, Share
    <3>3. files[n] \intersect w.win = {} /\ LogSet(tl[n]) \intersect w.win = {}
      BY <1>3, <3>2
    <3> QED
      BY <1>1, <1>11, <3>1, <3>3 DEF ShareOK
  <2>2. Copied(n)' = Copied(n) /\ Copied(n) \intersect Mem(n)' = {}
    BY <1>1, <1>3, <1>12, <1>13, Before DEF NodeOK, Copied
  <2> QED
    BY <1>1, <2>1, <2>2, Before DEF NodeOK
<1>15. \A x : x \in bm' <=> (x \in bm /\ x \notin Mem(n)) \/ x \in Mem(n)'
  BY <1>3, <1>12, <1>13, Before
<1>16. \A x \in Mem(n)' : x \in bm => x \in Mem(n)
  BY <1>12, <1>13
<1>17. /\ bm' \subseteq Int /\ tl' \in [SNode -> Records] /\ files' \in [SNode -> SUBSET Int]
       /\ size' \in Nat /\ sstory' \in Stories
  BY <1>1, <1>3, Before
<1> QED
  BY <1>1, <1>6, <1>7, <1>8, <1>9, <1>10, <1>14, <1>15, <1>16, <1>17, ChangeStep

LEMMA GrowSafe == ASSUME SpaceInv, NEW n \in SNode, Grow(n) PROVE SpaceInv'
<1>1. /\ UNCHANGED <<salive, bm, bmBy, files, la, tl, disk, task, copies, helped, lost>>
      /\ n \in salive /\ BmFree(n) /\ bmDirty' = n /\ size' = size + 1
      /\ sstory.grows > 0 /\ sstory' = [sstory EXCEPT !.grows = @ - 1]
  BY DEF Grow
<1>2. Mem(n)' = Mem(n) /\ Copied(n)' = Copied(n)
  BY <1>1 DEF Mem, Copied
<1>3. NodeOK(n)'
  BY <1>1, <1>2, Before DEF NodeOK
<1>4. \A x : x \in bm' <=> (x \in bm /\ x \notin Mem(n)) \/ x \in Mem(n)'
  BY <1>1, <1>2, Before
<1>5. LockOK'
  BY <1>1, Before DEF LockOK, BmFree
<1>6. Recoveries'
  BY <1>1 DEF SpaceInv, Recoveries, RecOK
<1>7. sstory' \in Stories
  <2>1. sstory \in Stories /\ sstory.grows \in Nat
    BY Before DEF Stories
  <2>2. sstory.grows - 1 \in Nat
    BY <1>1, <2>1
  <2>3. sstory' = [sstory EXCEPT !.grows = sstory.grows - 1]
    BY <1>1
  <2> QED
    BY <2>1, <2>2, <2>3 DEF Stories
<1>8. /\ bm' \subseteq Int /\ la' \in [SNode -> Windows] /\ files' \in [SNode -> SUBSET Int] /\ tl' \in [SNode -> Records]
      /\ size' \in Nat /\ task' \in AllTasks /\ bmDirty \in {0, n}
  BY <1>1, Before DEF BmFree
<1> QED
  BY <1>1, <1>2, <1>3, <1>4, <1>5, <1>6, <1>7, <1>8, ChangeStep

----------------------------------------------------------------------------
(* Unmounts and recoveries.                                                *)

\* All that a node has is committed, and the bits of what it gives up are cleared.
LEMMA ClustersFlushed ==
  ASSUME Owned, Durable, UNCHANGED <<lost, helped>>, NEW n \in SNode,
         salive' = salive \/ salive' = salive \ {n},
         Apart(n), NodeOK(n)', AtRest(n)', OnDisk(n)' = Mem(n)', Hold(n)' \subseteq Hold(n),
         n \notin helped => Copied(n)' = {},
         bm' = bm \ (Hold(n) \ Hold(n)'), bmDirty \in {0, n}, bmDirty' = 0, disk'.bm = bm', 0 \notin SNode
  PROVE  Owned' /\ Durable'
<1>1. \A m \in SNode : m # n => Keeps(m)
  BY ApartKeeps
<1>2. \A m \in SNode : m # n => Hold(m)' = Hold(m) /\ NodeOK(m)'
  BY <1>1 DEF Keeps, Owned
<1>3. \A m, k \in SNode : m # k => Hold(m)' \intersect Hold(k)' = {}
  BY <1>2 DEF Owned
<1>4. \A m \in SNode : Hold(m)' \subseteq bm' /\ Hold(m)' \intersect lost' = {}
  <2>1. Hold(n)' \subseteq bm' /\ Hold(n)' \intersect lost' = {}
    BY DEF Owned
  <2>2. ASSUME NEW m \in SNode, m # n PROVE Hold(m)' \subseteq bm' /\ Hold(m)' \intersect lost' = {}
    BY <1>2, <2>2 DEF Owned
  <2> QED
    BY <2>1, <2>2
<1>5. lost' \subseteq bm' /\ \A x \in bm' : x \in lost' \/ \E m \in SNode : x \in Hold(m)'
  BY <1>2 DEF Owned
<1>6. lost' # {} => \E m \in helped' : m \notin salive'
  BY DEF Owned
<1>7. Owned'
  BY <1>2, <1>3, <1>4, <1>5, <1>6 DEF Owned
<1>8. ASSUME NEW m \in SNode PROVE Clean(m)'
  <2>1. CASE m = n
    BY <2>1 DEF Clean
  <2>2. CASE m # n
    <3>1. Clean(m)
      BY <2>2 DEF Durable
    <3> QED
      BY <1>1, <2>2, <3>1 DEF Clean, Keeps
  <2> QED
    BY <2>1, <2>2
<1>9. ASSUME NEW m \in SNode, m \notin salive' PROVE AtRest(m)'
  BY <1>1, <1>9 DEF Durable, Keeps
<1>10. Durable'
  BY <1>8, <1>9 DEF Durable
<1> QED
  BY <1>7, <1>10

\* A node takes over what a dead one has.
LEMMA ClustersTaken ==
  ASSUME Owned, Durable, UNCHANGED <<files, bm, bmDirty, lost, salive, helped>>, disk'.bm = disk.bm,
         NEW n \in SNode, NEW s \in SNode, n \in helped, n # s, s \notin salive,
         bmDirty \in {0} \union salive, 0 \notin SNode,
         \A m \in SNode : m \notin {n, s} => Keeps(m),
         NodeOK(n)', NodeOK(s)', Mem(n)' = Mem(n), OnDisk(n)' = OnDisk(n),
         AtRest(n) => AtRest(n)', AtRest(s)', OnDisk(s)' = Mem(s)', Copied(s)' = Copied(s), Hold(s)' \subseteq Hold(s),
         \A x : x \in Hold(n)' <=> x \in Hold(n) \/ (x \in Hold(s) /\ x \notin Hold(s)')
  PROVE  Owned' /\ Durable'
<1>1. \A m \in SNode : NodeOK(m)'
  BY DEF Keeps, Owned
<1>2. \A m \in SNode : m \notin {n, s} => Hold(m)' = Hold(m)
  BY DEF Keeps
<1>3. \A m, k \in SNode : m # k => Hold(m) \intersect Hold(k) = {}
  BY DEF Owned
<1>4. \A m, k \in SNode : m # k => Hold(m)' \intersect Hold(k)' = {}
  <2>1. Hold(n)' \intersect Hold(s)' = {}
    BY <1>3
  <2>2. ASSUME NEW m \in SNode, m \notin {n, s}
        PROVE  Hold(m)' \intersect Hold(n)' = {} /\ Hold(m)' \intersect Hold(s)' = {}
    BY <1>2, <1>3, <2>2
  <2>3. ASSUME NEW m \in SNode, NEW k \in SNode, m \notin {n, s}, k \notin {n, s}, m # k
        PROVE  Hold(m)' \intersect Hold(k)' = {}
    BY <1>2, <1>3, <2>3
  <2> QED
    BY <2>1, <2>2, <2>3
<1>5. \A m \in SNode : \A x \in Hold(m)' : \E k \in SNode : x \in Hold(k)
  BY <1>2
<1>6. \A m \in SNode : Hold(m)' \subseteq bm' /\ Hold(m)' \intersect lost' = {}
  BY <1>5 DEF Owned
<1>7. \A m \in SNode : \A x \in Hold(m) : \E k \in SNode : x \in Hold(k)'
  BY <1>2
<1>8. lost' \subseteq bm' /\ (\A x \in bm' : x \in lost' \/ \E m \in SNode : x \in Hold(m)')
  BY <1>7 DEF Owned
<1>9. lost' # {} => \E m \in helped' : m \notin salive'
  BY DEF Owned
<1>10. Owned'
  BY <1>1, <1>4, <1>6, <1>8, <1>9 DEF Owned
<1>11. bmDirty # s /\ bmDirty' # s
  OBVIOUS
<1>12. ASSUME NEW m \in SNode, bmDirty # m PROVE Clean(m)'
  <2>1. Clean(m)
    BY <1>12 DEF Durable
  <2>2. CASE m = n
    BY <2>1, <2>2 DEF Clean
  <2>3. CASE m = s
    BY <2>1, <2>3 DEF Clean
  <2>4. CASE m \notin {n, s}
    BY <2>1, <2>4 DEF Clean, Keeps
  <2> QED
    BY <2>2, <2>3, <2>4
<1>13. ASSUME NEW m \in SNode, bmDirty = m PROVE Dirty(m)'
  <2>1. Dirty(m) /\ m # s
    BY <1>11, <1>13 DEF Durable
  <2>2. OnDisk(m)' = OnDisk(m)
    BY <2>1 DEF Keeps
  <2>3. CASE m = n
    <3>1. ASSUME NEW k \in SNode, k # n PROVE Hold(k)' \subseteq Hold(k)
      BY <1>2, <3>1
    <3> QED
      BY <2>1, <2>2, <2>3, <3>1 DEF Dirty
  <2>4. CASE m # n
    <3>1. ASSUME NEW k \in SNode, k # m, NEW x \in Hold(k)' PROVE \E j \in SNode \ {m} : x \in Hold(j)
      <4>1. CASE k = n
        BY <2>1, <2>4, <3>1, <4>1
      <4>2. CASE k = s
        BY <2>1, <3>1, <4>2
      <4>3. CASE k \notin {n, s}
        BY <1>2, <3>1, <4>3
      <4> QED
        BY <4>1, <4>2, <4>3
    <3>2. ASSUME NEW k \in SNode, k # m, NEW x \in Hold(k) PROVE \E j \in SNode \ {m} : x \in Hold(j)'
      <4>1. CASE k = n
        BY <3>2, <4>1
      <4>2. CASE k = s
        BY <2>1, <2>4, <3>2, <4>2
      <4>3. CASE k \notin {n, s}
        BY <1>2, <3>2, <4>3
      <4> QED
        BY <4>1, <4>2, <4>3
    <3>3. Copied(m)' = Copied(m)
      BY <2>1, <2>4 DEF Keeps
    <3>4. \A k \in SNode \ {m} : Hold(k)' \subseteq disk'.bm /\ Hold(k)' \intersect OnDisk(m)' = {}
      BY <2>1, <2>2, <3>1 DEF Dirty
    <3>5. ASSUME m \notin helped, NEW x \in disk.bm
          PROVE  x \in lost \/ x \in OnDisk(m) \/ \E k \in SNode \ {m} : x \in Hold(k)'
      BY <2>1, <3>2, <3>5 DEF Dirty
    <3> QED
      BY <2>1, <2>2, <3>3, <3>4, <3>5 DEF Dirty
  <2> QED
    BY <2>3, <2>4
<1>14. ASSUME NEW m \in SNode, m \notin salive PROVE AtRest(m)'
  BY <1>14 DEF Durable, Keeps
<1>15. Durable'
  BY <1>12, <1>13, <1>14 DEF Durable
<1> QED
  BY <1>10, <1>15

\* A node that no step touches keeps what it has.
LEMMA SameKeeps ==
  ASSUME NEW m, files'[m] = files[m], la'[m] = la[m], tl'[m] = tl[m],
         disk'.files[m] = disk.files[m], disk'.la[m] = disk.la[m], disk'.tl[m] = disk.tl[m],
         copies'[m].unused = copies[m].unused, copies'[m].log = copies[m].log
  PROVE  Keeps(m)
<1>2. Mem(m)' = Mem(m) /\ Copied(m)' = Copied(m) /\ OnDisk(m)' = OnDisk(m)
  BY DEF Mem, Copied, OnDisk
<1>3. NodeOK(m) => NodeOK(m)'
  BY <1>2 DEF NodeOK
<1> QED
  BY <1>2, <1>3 DEF Keeps, Hold, AtRest

\* The recoverer goes on at p; what its copy must be there, it is.
LEMMA RecoveryGoes ==
  ASSUME SpaceInv, NEW m \in SNode, NEW p, Goes(m, "rec", p), salive' = salive, helped \subseteq helped',
         \A n \in SNode : n # m => copies'[n] = copies[n],
         p \in {"begin", "begin log"} => copies'[m].slot \in SNode \ salive,
         p \in {"begin", "lock log", "flush", "lock bitmap", "records", "append", "done"} => copies'[m].unused = {},
         p \in {"begin", "begin log", "done"} => copies'[m].log = << >>,
         p # "idle" => m \in helped'
  PROVE  Recoveries'
<1> SUFFICES ASSUME NEW n \in SNode PROVE RecOK(n)'
  BY DEF Recoveries
<1>1. CASE n = m
  BY <1>1 DEF RecOK, Goes
<1>2. CASE n # m
  <2>1. RecOK(n) /\ task'[n]["rec"] = task[n]["rec"] /\ copies'[n] = copies[n]
    BY <1>2 DEF SpaceInv, Goes, Who
  <2> QED
    BY <2>1 DEF RecOK
<1> QED
  BY <1>1, <1>2

LEMMA ReplayJournalSafe ==
  ASSUME SpaceInv, NEW m \in SNode, NEW n \in SNode, n \notin salive, ReplayJournal(m, n)
  PROVE  SpaceInv'
<1>1. /\ UNCHANGED <<sstory, salive, size, bm, bmBy, bmDirty, files, la, tl, disk, lost>>
      /\ helped' = helped \union {m} /\ Go(m, "rec", "begin") /\ "rec" \in Who
      /\ copies[m] = NoCopy /\ copies' = [copies EXCEPT ![m].slot = n]
  BY DEF ReplayJournal, Who
<1>2. Goes(m, "rec", "begin") /\ "begin" \notin InBitmap
  BY <1>1, TaskGoes DEF SpaceInv, Pcs, InBitmap
<1> DEFINE c == [copies[m] EXCEPT !.slot = n]
<1>3. copies \in [SNode -> Copies] /\ copies[m] \in Copies
  BY DEF SpaceInv, Shape
<1>4. c \in Copies /\ c.slot = n /\ c.unused = {} /\ c.log = << >>
  BY <1>1, <1>3 DEF Copies, NoCopy
<1>5. copies' = [copies EXCEPT ![m] = c]
  BY <1>1
<1> HIDE DEF c
<1>6. copies' \in [SNode -> Copies] /\ copies'[m] = c /\ \A k \in SNode : k # m => copies'[k] = copies[k]
  BY <1>3, <1>4, <1>5
<1>7. \A k \in SNode : copies'[k].unused = copies[k].unused /\ copies'[k].log = copies[k].log
  BY <1>1, <1>4, <1>6 DEF NoCopy
<1>8. Owned' /\ Durable'
  BY <1>1, <1>7, ClustersStay DEF SpaceInv
<1>9. LockOK'
  BY <1>1, <1>2, LockKeeps DEF SpaceInv
<1>10. Recoveries'
  BY <1>1, <1>2, <1>4, <1>6, RecoveryGoes
<1>11. Shape'
  BY <1>1, <1>2, <1>6 DEF SpaceInv, Shape, Goes
<1> QED
  BY <1>8, <1>9, <1>10, <1>11 DEF SpaceInv, Recoveries

LEMMA RecoveryDoneSafe == ASSUME SpaceInv, NEW m \in SNode, RecoveryDone(m) PROVE SpaceInv'
<1>1. /\ UNCHANGED <<sstory, salive, size, bm, bmBy, bmDirty, files, la, tl, disk, lost, helped>>
      /\ End(m, "rec") /\ "rec" \in Who /\ task[m]["rec"].pc = "done" /\ copies' = [copies EXCEPT ![m] = NoCopy]
  BY DEF RecoveryDone, Who, At
<1>2. Goes(m, "rec", "idle") /\ "idle" \notin InBitmap
  BY <1>1, TaskEnds DEF SpaceInv, InBitmap
<1>3. copies \in [SNode -> Copies] /\ copies[m].unused = {} /\ copies[m].log = << >>
  BY <1>1 DEF SpaceInv, Shape, RecOK
<1>4. NoCopy \in Copies /\ NoCopy.unused = {} /\ NoCopy.log = << >>
  BY LogEmpty DEF Copies, NoCopy
<1>6. copies' \in [SNode -> Copies] /\ copies'[m] = NoCopy /\ \A k \in SNode : k # m => copies'[k] = copies[k]
  <2> HIDE DEF NoCopy
  <2> QED
    BY <1>1, <1>3, <1>4
<1>7. \A k \in SNode : copies'[k].unused = copies[k].unused /\ copies'[k].log = copies[k].log
  BY <1>3, <1>4, <1>6
<1>8. Owned' /\ Durable'
  BY <1>1, <1>7, ClustersStay DEF SpaceInv
<1>9. LockOK'
  BY <1>1, <1>2, LockKeeps DEF SpaceInv
<1>10. Recoveries'
  BY <1>1, <1>2, <1>6, RecoveryGoes
<1>11. Shape'
  BY <1>1, <1>2, <1>6 DEF SpaceInv, Shape, Goes
<1> QED
  BY <1>8, <1>9, <1>10, <1>11 DEF SpaceInv, Recoveries

\* What a recoverer reads of a slot, it has in the place of the dead node.
LEMMA TakeStep ==
  ASSUME SpaceInv, NEW m \in SNode, NEW s \in SNode, m \in salive, s \notin salive, m \in helped,
         UNCHANGED <<sstory, salive, size, bm, bmBy, bmDirty, files, lost, helped>>,
         \A n \in SNode : n # s => /\ la'[n] = la[n] /\ tl'[n] = tl[n]
                                  /\ disk'.la[n] = disk.la[n] /\ disk'.tl[n] = disk.tl[n],
         \A n \in SNode : n # m => copies'[n] = copies[n],
         disk'.files = disk.files, disk'.bm = disk.bm,
         la' \in [SNode -> Windows], tl' \in [SNode -> Records], disk' \in OnVolume, copies' \in [SNode -> Copies],
         NodeOK(m)', ShareOK(files[s], la'[s], tl'[s]), AtRest(s)', Mem(s)' \subseteq Mem(s),
         \A x : x \in Hold(m)' <=> x \in Hold(m) \/ (x \in Mem(s) /\ x \notin Mem(s)'),
         task' \in AllTasks, LockOK', Recoveries'
  PROVE  SpaceInv'
<1>1. m # s /\ 0 \notin SNode
  BY SNodeAssumption
<1>2. ASSUME NEW n \in SNode, n \notin {m, s} PROVE Keeps(n)
  BY <1>2, SameKeeps
<1>3. NodeOK(m) /\ NodeOK(s)
  BY DEF SpaceInv, Owned
<1>4. Mem(m)' = Mem(m) /\ OnDisk(m)' = OnDisk(m) /\ Copied(s)' = Copied(s)
  BY <1>1 DEF Mem, OnDisk, Copied
<1>5. OnDisk(s)' = Mem(s)' /\ (AtRest(m) => AtRest(m)')
  BY <1>1 DEF AtRest, OnDisk, Mem
<1>6. NodeOK(s)'
  <2>1. ShareOK(disk'.files[s], disk'.la[s], disk'.tl[s]) /\ files'[s] = files[s]
    BY DEF AtRest
  <2>2. Copied(s)' \intersect Mem(s)' = {}
    BY <1>3, <1>4 DEF NodeOK
  <2>3. copies'[s] = copies[s]
    BY <1>1
  <2> QED
    BY <1>3, <2>1, <2>2, <2>3 DEF NodeOK
<1>7. Hold(s)' \subseteq Hold(s)
  BY <1>4 DEF Hold
<1>8. \A x : x \in Hold(m)' <=> x \in Hold(m) \/ (x \in Hold(s) /\ x \notin Hold(s)')
  <2>1. \A x : x \in Hold(s) <=> x \in Mem(s) \/ x \in Copied(s)
    BY DEF Hold
  <2>2. \A x : x \in Hold(s)' <=> x \in Mem(s)' \/ x \in Copied(s)
    BY <1>4 DEF Hold
  <2>3. Copied(s) \intersect Mem(s) = {}
    BY <1>3 DEF NodeOK
  <2> QED
    BY <2>1, <2>2, <2>3
<1>9. Owned' /\ Durable'
  BY <1>1, <1>2, <1>4, <1>5, <1>6, <1>7, <1>8, ClustersTaken DEF SpaceInv, Shape
<1>10. Shape'
  BY DEF SpaceInv, Shape
<1> QED
  BY <1>9, <1>10 DEF SpaceInv, Recoveries

LEMMA BeginLaSafe == ASSUME SpaceInv, NEW m \in SNode, BeginLa(m) PROVE SpaceInv'
<1>0. PICK s \in SNode \ salive : s = copies[m].slot
  BY DEF BeginLa, At, SpaceInv, RecOK
<1> DEFINE old == Unused(la[s])
           c == [copies[m] EXCEPT !.unused = old]
<1>1. /\ UNCHANGED <<sstory, salive, size, bm, bmBy, bmDirty, files, tl, lost, helped>>
      /\ Go(m, "rec", "begin log") /\ "rec" \in Who /\ task[m]["rec"].pc = "begin" /\ m \in salive
      /\ la' = [la EXCEPT ![s] = NoWin] /\ copies' = [copies EXCEPT ![m] = c]
      /\ disk' = [disk EXCEPT !.la[s] = la'[s]]
  BY <1>0 DEF BeginLa, Who, At, StampedLa, GivenBack
<1>2. Goes(m, "rec", "begin log") /\ "begin log" \notin InBitmap
  BY <1>1, TaskGoes DEF SpaceInv, Pcs, InBitmap
<1>3. /\ s \in SNode \ salive /\ copies[m].unused = {} /\ copies[m].log = << >> /\ m \in helped
      /\ copies \in [SNode -> Copies] /\ copies[m] \in Copies
  BY <1>1 DEF SpaceInv, Shape, RecOK
<1>4. /\ la[s] \in Windows /\ old \subseteq Int
      /\ old \subseteq Mem(s) /\ Mem(s) \intersect Mem(m) = {} /\ NodeOK(s) /\ NodeOK(m) /\ AtRest(s)
  BY <1>1, <1>3
  DEF SpaceInv, Shape, Windows, Unused, Mem, Share, Owned, Hold, Durable
<1>5. NoWin \in Windows /\ Unused(NoWin) = {}
  BY DEF NoWin, Windows, Unused
<1>6. c \in Copies /\ c.unused = old /\ c.log = << >> /\ c.slot = s
  BY <1>0, <1>3, <1>4 DEF Copies
<1>b. old = Unused(la[s])
  OBVIOUS
<1> HIDE DEF NoWin, c, old
<1>7. la' \in [SNode -> Windows] /\ la'[s] = NoWin /\ \A n \in SNode : n # s => la'[n] = la[n]
  BY <1>1, <1>3, <1>5, Before
<1>8. copies' \in [SNode -> Copies] /\ copies'[m] = c /\ \A n \in SNode : n # m => copies'[n] = copies[n]
  BY <1>1, <1>3, <1>6
<1>9. /\ disk' \in OnVolume /\ disk'.files = disk.files /\ disk'.bm = disk.bm /\ disk'.tl = disk.tl
      /\ disk'.la[s] = NoWin /\ \A n \in SNode : n # s => disk'.la[n] = disk.la[n]
  <2>1. disk \in OnVolume /\ disk.la \in [SNode -> Windows]
    BY Before DEF Shape, OnVolume
  <2> DEFINE new == [disk.la EXCEPT ![s] = NoWin]
  <2>2. disk' = [disk EXCEPT !.la = new]
    BY <1>1, <1>7
  <2>3. new \in [SNode -> Windows] /\ new[s] = NoWin /\ \A n \in SNode : n # s => new[n] = disk.la[n]
    BY <1>3, <1>5, <2>1
  <2> HIDE DEF new
  <2> QED
    BY <2>1, <2>2, <2>3 DEF OnVolume
<1>10. Mem(s)' = Mem(s) \ old
  <2>1. ShareOK(files[s], la[s], tl[s])
    BY <1>4 DEF NodeOK
  <2>2. Unused(la'[s]) = {} /\ files'[s] = files[s] /\ tl'[s] = tl[s]
    BY <1>1, <1>5, <1>7
  <2>3. old \intersect files[s] = {} /\ old \intersect LogSet(tl[s]) = {}
    BY <1>b, <2>1 DEF ShareOK
  <2> QED
    BY <1>b, <2>2, <2>3 DEF Mem, Share
<1>11. ShareOK(files[s], la'[s], tl'[s])
  BY <1>1, <1>4, <1>5, <1>7 DEF NodeOK, ShareOK
<1>12. AtRest(s)'
  BY <1>1, <1>4, <1>7, <1>9 DEF AtRest
<1>13. m # s
  BY <1>1, <1>3
<1>14. Mem(m)' = Mem(m) /\ OnDisk(m)' = OnDisk(m)
  BY <1>1, <1>7, <1>9, <1>13 DEF Mem, OnDisk
<1>15. Copied(m) = {} /\ Copied(m)' = old
  BY <1>3, <1>6, <1>8, LogEmpty DEF Copied
<1>16. NodeOK(m)'
  <2>1. copies'[m].unused \intersect LogSet(copies'[m].log) = {} /\ LogOK(copies'[m].log)
    BY <1>6, <1>8, LogEmpty
  <2>2. Copied(m)' \intersect Mem(m)' = {}
    BY <1>4, <1>14, <1>15
  <2>3. ShareOK(files'[m], la'[m], tl'[m]) /\ ShareOK(disk'.files[m], disk'.la[m], disk'.tl[m])
    BY <1>1, <1>4, <1>7, <1>9, <1>13 DEF NodeOK
  <2> QED
    BY <2>1, <2>2, <2>3 DEF NodeOK
<1>17. \A x : x \in Hold(m)' <=> x \in Hold(m) \/ (x \in Mem(s) /\ x \notin Mem(s)')
  BY <1>4, <1>10, <1>14, <1>15 DEF Hold
<1>18. LockOK'
  BY <1>1, <1>2, LockKeeps DEF SpaceInv
<1>19. Recoveries'
  BY <1>1, <1>2, <1>3, <1>6, <1>8, RecoveryGoes
<1>20. tl' \in [SNode -> Records] /\ task' \in AllTasks /\ s \in SNode
  BY <1>1, <1>2, <1>3, Before DEF Goes
<1> QED
  BY <1>1, <1>3, <1>7, <1>8, <1>9, <1>10, <1>11, <1>12, <1>16, <1>17, <1>18,
     <1>19, <1>20, TakeStep

LEMMA BeginTlSafe == ASSUME SpaceInv, NEW m \in SNode, BeginTl(m) PROVE SpaceInv'
<1>0. PICK s \in SNode \ salive : s = copies[m].slot
  BY DEF BeginTl, At, SpaceInv, RecOK
<1> DEFINE old == LogSet(tl[s])
           c == [copies[m] EXCEPT !.log = tl[s]]
<1>1. /\ UNCHANGED <<sstory, salive, size, bm, bmBy, bmDirty, files, la, lost, helped>>
      /\ Go(m, "rec", "complete") /\ "rec" \in Who /\ task[m]["rec"].pc = "begin log" /\ m \in salive
      /\ tl' = [tl EXCEPT ![s] = << >>] /\ copies' = [copies EXCEPT ![m] = c]
      /\ disk' = [disk EXCEPT !.tl[s] = << >>]
  BY <1>0 DEF BeginTl, Who, At
<1>2. Goes(m, "rec", "complete") /\ "complete" \notin InBitmap
  BY <1>1, TaskGoes DEF SpaceInv, Pcs, InBitmap
<1>3. /\ s \in SNode \ salive /\ copies[m].log = << >> /\ m \in helped
      /\ copies \in [SNode -> Copies] /\ copies[m] \in Copies
  BY <1>1 DEF SpaceInv, Shape, RecOK
<1>4. /\ tl[s] \in Records
      /\ old \subseteq Mem(s) /\ Mem(s) \intersect Hold(m) = {} /\ NodeOK(s) /\ NodeOK(m) /\ AtRest(s)
  BY <1>1, <1>3 DEF SpaceInv, Shape, Mem, Share, Owned, Hold, Durable
<1>6. c \in Copies /\ c.unused = copies[m].unused /\ c.log = tl[s] /\ c.slot = s
  BY <1>0, <1>3, <1>4 DEF Copies
<1>b. old = LogSet(tl[s])
  OBVIOUS
<1> HIDE DEF c, old
<1>7. tl' \in [SNode -> Records] /\ tl'[s] = << >> /\ \A n \in SNode : n # s => tl'[n] = tl[n]
  <2> DEFINE none == << >>
  <2>1. none \in Records /\ tl' = [tl EXCEPT ![s] = none]
    BY <1>1, LogEmpty
  <2> HIDE DEF none
  <2>2. tl' \in [SNode -> Records] /\ tl'[s] = none /\ \A n \in SNode : n # s => tl'[n] = tl[n]
    BY <1>3, <2>1, Before
  <2> QED
    BY <2>2 DEF none
<1>8. copies' \in [SNode -> Copies] /\ copies'[m] = c /\ \A n \in SNode : n # m => copies'[n] = copies[n]
  BY <1>1, <1>3, <1>6
<1>9. /\ disk' \in OnVolume /\ disk'.files = disk.files /\ disk'.bm = disk.bm /\ disk'.la = disk.la
      /\ disk'.tl[s] = << >> /\ \A n \in SNode : n # s => disk'.tl[n] = disk.tl[n]
  <2>1. disk \in OnVolume /\ disk.tl \in [SNode -> Records]
    BY Before DEF Shape, OnVolume
  <2> DEFINE none == << >>
             new == [disk.tl EXCEPT ![s] = none]
  <2>2. disk' = [disk EXCEPT !.tl = new] /\ none \in Records
    BY <1>1, LogEmpty
  <2> HIDE DEF none
  <2>3. new \in [SNode -> Records] /\ new[s] = none /\ \A n \in SNode : n # s => new[n] = disk.tl[n]
    BY <1>3, <2>1, <2>2
  <2> HIDE DEF new
  <2>4. disk'.tl = new /\ disk' \in OnVolume /\ disk'.files = disk.files /\ disk'.bm = disk.bm /\ disk'.la = disk.la
    BY <2>1, <2>2, <2>3 DEF OnVolume
  <2> QED
    BY <2>3, <2>4 DEF none
<1>10. Mem(s)' = Mem(s) \ old
  <2>1. ShareOK(files[s], la[s], tl[s])
    BY <1>4 DEF NodeOK
  <2>2. LogSet(tl'[s]) = {} /\ files'[s] = files[s] /\ la'[s] = la[s]
    BY <1>1, <1>7, LogEmpty
  <2>3. old \intersect files[s] = {} /\ old \intersect Unused(la[s]) = {}
    BY <1>b, <2>1 DEF ShareOK
  <2> QED
    BY <1>b, <2>2, <2>3 DEF Mem, Share
<1>11. ShareOK(files[s], la'[s], tl'[s])
  BY <1>1, <1>4, <1>7, LogEmpty DEF NodeOK, ShareOK
<1>12. AtRest(s)'
  BY <1>1, <1>4, <1>7, <1>9 DEF AtRest
<1>13. m # s
  BY <1>1, <1>3
<1>14. Mem(m)' = Mem(m) /\ OnDisk(m)' = OnDisk(m)
  BY <1>1, <1>7, <1>9, <1>13 DEF Mem, OnDisk
<1>15. Copied(m) = copies[m].unused /\ Copied(m)' = copies[m].unused \union old
  BY <1>b, <1>3, <1>6, <1>8, LogEmpty DEF Copied
<1>a. Mem(s) \intersect copies[m].unused = {} /\ Mem(s) \intersect Mem(m) = {}
  BY <1>4, <1>15 DEF Hold
<1>16. NodeOK(m)'
  <2>1. copies'[m].unused \intersect LogSet(copies'[m].log) = {} /\ LogOK(copies'[m].log)
    <3>1. LogSet(tl[s]) \subseteq Mem(s)
      BY <1>4, <1>b
    <3>2. copies'[m].unused = copies[m].unused /\ copies'[m].log = tl[s]
      BY <1>6, <1>8
    <3> QED
      BY <1>4, <1>a, <3>1, <3>2 DEF NodeOK, ShareOK
  <2>2. Copied(m)' \intersect Mem(m)' = {}
    BY <1>4, <1>14, <1>15, <1>a DEF NodeOK
  <2>3. ShareOK(files'[m], la'[m], tl'[m]) /\ ShareOK(disk'.files[m], disk'.la[m], disk'.tl[m])
    BY <1>1, <1>4, <1>7, <1>9, <1>13 DEF NodeOK
  <2> QED
    BY <2>1, <2>2, <2>3 DEF NodeOK
<1>17. \A x : x \in Hold(m)' <=> x \in Hold(m) \/ (x \in Mem(s) /\ x \notin Mem(s)')
  BY <1>4, <1>10, <1>14, <1>15 DEF Hold
<1>18. LockOK'
  BY <1>1, <1>2, LockKeeps DEF SpaceInv
<1>19. Recoveries'
  BY <1>1, <1>2, <1>3, <1>6, <1>8, RecoveryGoes
<1>20. la' \in [SNode -> Windows] /\ task' \in AllTasks /\ s \in SNode
  BY <1>1, <1>2, <1>3, Before DEF Goes
<1> QED
  BY <1>1, <1>3, <1>7, <1>8, <1>9, <1>10, <1>11, <1>12, <1>16, <1>17, <1>18,
     <1>19, <1>20, TakeStep

LEMMA CompleteLaSafe == ASSUME SpaceInv, NEW m \in SNode, CompleteLa(m) PROVE SpaceInv'
<1> DEFINE old == copies[m].unused
           c == [copies[m] EXCEPT !.unused = {}]
           p == IF copies[m].log = << >> THEN "done" ELSE "lock log"
<1>1. /\ UNCHANGED <<sstory, salive, size, bmBy, files, la, tl, lost, helped>>
      /\ Go(m, "rec", p) /\ "rec" \in Who /\ task[m]["rec"].pc = "complete" /\ m \in salive /\ BmFree(m)
      /\ bm' = bm \ old /\ bmDirty' = 0 /\ copies' = [copies EXCEPT ![m] = c]
      /\ disk' = [disk EXCEPT !.files[m] = files[m], !.la[m] = la[m], !.tl[m] = tl[m], !.bm = bm', !.size = size]
  BY DEF CompleteLa, Who, At
<1>2. p \in {"done", "lock log"} /\ (p = "done" => copies[m].log = << >>)
  OBVIOUS
<1> HIDE DEF p
<1>3. Goes(m, "rec", p) /\ p \notin InBitmap
  BY <1>1, <1>2, TaskGoes DEF SpaceInv, Pcs, InBitmap
<1>4. copies \in [SNode -> Copies] /\ copies[m] \in Copies /\ m \in helped /\ NodeOK(m) /\ bm \subseteq Int
  BY <1>1 DEF SpaceInv, Shape, RecOK, Owned
<1>5. c \in Copies /\ c.unused = {} /\ c.log = copies[m].log
  BY <1>4 DEF Copies
<1> HIDE DEF c
<1>6. copies' \in [SNode -> Copies] /\ copies'[m] = c /\ \A n \in SNode : n # m => copies'[n] = copies[n]
  BY <1>1, <1>4, <1>5
<1>7. /\ disk' \in OnVolume /\ disk'.bm = bm'
      /\ disk'.files[m] = files[m] /\ disk'.la[m] = la[m] /\ disk'.tl[m] = tl[m]
      /\ \A n \in SNode : n # m => /\ disk'.files[n] = disk.files[n] /\ disk'.la[n] = disk.la[n]
                                  /\ disk'.tl[n] = disk.tl[n]
  <2>1. bm' \subseteq Int /\ la[m] \in Windows /\ tl[m] \in Records
    BY <1>1, <1>4, Before
  <2>2. /\ disk \in OnVolume /\ disk.files \in [SNode -> SUBSET Int] /\ disk.la \in [SNode -> Windows]
        /\ disk.tl \in [SNode -> Records] /\ files[m] \in SUBSET Int /\ size \in Nat
    BY Before DEF Shape, OnVolume
  <2> DEFINE log == tl[m]
             f == [disk.files EXCEPT ![m] = files[m]]
             l == [disk.la EXCEPT ![m] = la[m]]
             t == [disk.tl EXCEPT ![m] = log]
  <2>3. disk' = [disk EXCEPT !.files = f, !.la = l, !.tl = t, !.bm = bm', !.size = size]
    BY <1>1
  <2>4. f \in [SNode -> SUBSET Int] /\ f[m] = files[m] /\ \A k \in SNode : k # m => f[k] = disk.files[k]
    BY <2>2
  <2>5. l \in [SNode -> Windows] /\ l[m] = la[m] /\ \A k \in SNode : k # m => l[k] = disk.la[k]
    BY <2>1, <2>2
  <2>6. log \in Records
    BY <2>1
  <2> HIDE DEF log
  <2>7. t \in [SNode -> Records] /\ t[m] = log /\ \A k \in SNode : k # m => t[k] = disk.tl[k]
    BY <2>2, <2>6
  <2> HIDE DEF f, l, t
  <2>8. disk' \in OnVolume /\ disk'.files = f /\ disk'.la = l /\ disk'.tl = t /\ disk'.bm = bm'
    BY <2>1, <2>2, <2>3, <2>4, <2>5, <2>7 DEF OnVolume
  <2> QED
    BY <2>4, <2>5, <2>7, <2>8 DEF log
<1>8. Apart(m)
  BY <1>1, <1>6, <1>7 DEF Apart
<1>9. AtRest(m)' /\ Mem(m)' = Mem(m) /\ OnDisk(m)' = Mem(m)'
  BY <1>1, <1>7 DEF AtRest, Mem, OnDisk
<1>10. Copied(m)' = LogSet(copies[m].log)
  BY <1>5, <1>6 DEF Copied
<1>11. old \intersect LogSet(copies[m].log) = {} /\ old \intersect Mem(m) = {}
  BY <1>4 DEF NodeOK, Copied
<1>12. NodeOK(m)'
  <2>1. ShareOK(files'[m], la'[m], tl'[m]) /\ ShareOK(disk'.files[m], disk'.la[m], disk'.tl[m])
    BY <1>1, <1>4, <1>7 DEF NodeOK
  <2>2. Copied(m)' \intersect Mem(m)' = {}
    BY <1>4, <1>9, <1>10 DEF NodeOK, Copied
  <2> QED
    BY <1>4, <1>5, <1>6, <2>1, <2>2 DEF NodeOK
<1>13. Hold(m)' = Hold(m) \ old
  BY <1>9, <1>10, <1>11 DEF Hold, Copied
<1>14. old \subseteq Hold(m)
  BY DEF Hold, Copied
<1>15. bm' = bm \ (Hold(m) \ Hold(m)')
  BY <1>1, <1>13, <1>14
<1>16. Owned' /\ Durable'
  BY <1>1, <1>4, <1>7, <1>8, <1>9, <1>12, <1>13, <1>15, SNodeAssumption,
     ClustersFlushed
  DEF SpaceInv, BmFree
<1>17. LockOK'
  BY <1>1, <1>3, LockKeeps DEF SpaceInv
<1>18. Recoveries'
  BY <1>1, <1>2, <1>3, <1>4, <1>5, <1>6, RecoveryGoes
<1>19. Shape'
  BY <1>1, <1>3, <1>4, <1>6, <1>7 DEF SpaceInv, Shape, Goes
<1> QED
  BY <1>16, <1>17, <1>18, <1>19 DEF SpaceInv, Recoveries

LEMMA UmountSafe == ASSUME SpaceInv, NEW n \in SNode, Umount(n) PROVE SpaceInv'
<1> DEFINE old == Unused(la[n])
<1>1. /\ UNCHANGED <<sstory, size, bmBy, files, tl, lost, helped, task, copies>>
      /\ n \in salive /\ BmFree(n) /\ tl[n] = << >> /\ copies[n] = NoCopy
      /\ salive' = salive \ {n} /\ la' = [la EXCEPT ![n] = NoWin]
      /\ bm' = bm \ old /\ bmDirty' = 0
      /\ disk' = [disk EXCEPT !.files[n] = files[n], !.la[n] = NoWin, !.tl[n] = << >>, !.bm = bm', !.size = size]
  BY DEF Umount, GivenBack
<1>2. NoWin \in Windows /\ Unused(NoWin) = {}
  BY DEF NoWin, Windows, Unused
<1>3. << >> \in Records /\ LogSet(<< >>) = {} /\ LogOK(<< >>)
  BY LogEmpty
<1> HIDE DEF NoWin
<1>4. la' \in [SNode -> Windows] /\ la'[n] = NoWin /\ \A m \in SNode : m # n => la'[m] = la[m]
  BY <1>1, <1>2, Before
<1>5. bm' \subseteq Int
  BY <1>1, Before
<1>6. /\ disk' \in OnVolume /\ disk'.bm = bm'
      /\ disk'.files[n] = files[n] /\ disk'.la[n] = NoWin /\ disk'.tl[n] = << >>
      /\ \A m \in SNode : m # n => /\ disk'.files[m] = disk.files[m] /\ disk'.la[m] = disk.la[m]
                                  /\ disk'.tl[m] = disk.tl[m]
  <2>1. bm' \subseteq Int /\ NoWin \in Windows /\ << >> \in Records
    BY <1>2, <1>3, <1>5
  <2>2. /\ disk \in OnVolume /\ disk.files \in [SNode -> SUBSET Int] /\ disk.la \in [SNode -> Windows]
        /\ disk.tl \in [SNode -> Records] /\ files[n] \in SUBSET Int /\ size \in Nat
    BY Before DEF Shape, OnVolume
  <2> DEFINE log == << >>
             f == [disk.files EXCEPT ![n] = files[n]]
             l == [disk.la EXCEPT ![n] = NoWin]
             t == [disk.tl EXCEPT ![n] = log]
  <2>3. disk' = [disk EXCEPT !.files = f, !.la = l, !.tl = t, !.bm = bm', !.size = size]
    BY <1>1
  <2>4. f \in [SNode -> SUBSET Int] /\ f[n] = files[n] /\ \A k \in SNode : k # n => f[k] = disk.files[k]
    BY <2>2
  <2>5. l \in [SNode -> Windows] /\ l[n] = NoWin /\ \A k \in SNode : k # n => l[k] = disk.la[k]
    BY <2>1, <2>2
  <2>6. log \in Records
    BY <2>1
  <2> HIDE DEF log
  <2>7. t \in [SNode -> Records] /\ t[n] = log /\ \A k \in SNode : k # n => t[k] = disk.tl[k]
    BY <2>2, <2>6
  <2> HIDE DEF f, l, t
  <2>8. disk' \in OnVolume /\ disk'.files = f /\ disk'.la = l /\ disk'.tl = t /\ disk'.bm = bm'
    BY <2>1, <2>2, <2>3, <2>4, <2>5, <2>7 DEF OnVolume
  <2> QED
    BY <2>4, <2>5, <2>7, <2>8 DEF log
<1>7. Apart(n)
  BY <1>1, <1>4, <1>6 DEF Apart
<1>8. AtRest(n)' /\ OnDisk(n)' = Mem(n)'
  BY <1>1, <1>4, <1>6 DEF AtRest, Mem, OnDisk
<1>9. Mem(n)' = Mem(n) \ old /\ old \subseteq Mem(n)
  <2>1. ShareOK(files[n], la[n], tl[n])
    BY Before DEF NodeOK
  <2>2. Unused(la'[n]) = {} /\ files'[n] = files[n] /\ tl'[n] = tl[n]
    BY <1>1, <1>2, <1>4
  <2>3. old \intersect files[n] = {} /\ old \intersect LogSet(tl[n]) = {}
    BY <2>1 DEF ShareOK
  <2> QED
    BY <2>2, <2>3 DEF Mem, Share
<1>10. Copied(n)' = {} /\ Copied(n) = {}
  BY <1>1, <1>3 DEF Copied, NoCopy
<1>11. NodeOK(n)'
  <2>1. ShareOK(files'[n], la'[n], tl'[n]) /\ ShareOK(disk'.files[n], disk'.la[n], disk'.tl[n])
    BY <1>1, <1>2, <1>3, <1>4, <1>6 DEF ShareOK
  <2> QED
    BY <1>1, <1>10, <2>1, Before DEF NodeOK
<1>12. Hold(n)' = Hold(n) \ old /\ old \subseteq Hold(n)
  BY <1>9, <1>10 DEF Hold
<1>13. bm' = bm \ (Hold(n) \ Hold(n)')
  BY <1>1, <1>12
<1>14. Owned' /\ Durable'
  BY <1>1, <1>6, <1>7, <1>8, <1>10, <1>11, <1>12, <1>13, SNodeAssumption,
     ClustersFlushed
  DEF SpaceInv, BmFree
<1>15. LockOK'
  BY <1>1 DEF SpaceInv, LockOK
<1>16. Recoveries'
  BY <1>1 DEF SpaceInv, Recoveries, RecOK
<1>17. Shape'
  BY <1>1, <1>4, <1>5, <1>6 DEF SpaceInv, Shape
<1> QED
  BY <1>14, <1>15, <1>16, <1>17 DEF SpaceInv, Recoveries

----------------------------------------------------------------------------
(* Death.                                                                  *)

\* What a node had not committed is gone: its clusters are those of the volume, and what
\* nobody has of the bitmap is what it had taken from a dead one.
LEMMA ClustersDie ==
  ASSUME Owned, Durable, bmDirty \in {0} \union salive, 0 \notin SNode, NEW n \in SNode, n \in salive,
         salive' = salive \ {n}, UNCHANGED <<disk, helped>>, Apart(n), AtRest(n)',
         Copied(n)' = {}, copies'[n].unused = {}, copies'[n].log = << >>,
         bm' = IF bmDirty = n THEN disk.bm ELSE bm,
         bmDirty' = IF bmDirty = n THEN 0 ELSE bmDirty,
         \A x : x \in lost' <=> x \in bm' /\ \A m \in SNode : x \notin Hold(m)'
  PROVE  Owned' /\ Durable'
<1>1. \A m \in SNode : m # n => Keeps(m)
  BY ApartKeeps
<1>2. \A m \in SNode : m # n => Hold(m)' = Hold(m) /\ NodeOK(m)' /\ OnDisk(m)' = OnDisk(m)
  BY <1>1 DEF Keeps, Owned
<1>3. OnDisk(n)' = OnDisk(n) /\ Mem(n)' = OnDisk(n) /\ Hold(n)' = OnDisk(n)
  BY DEF OnDisk, Mem, AtRest, Hold
<1>4. NodeOK(n)'
  <2>1. ShareOK(disk'.files[n], disk'.la[n], disk'.tl[n])
    BY DEF Owned, NodeOK
  <2>2. ShareOK(files'[n], la'[n], tl'[n])
    BY <2>1 DEF AtRest
  <2> QED
    BY <2>1, <2>2, LogEmpty DEF NodeOK
<1>5. \A m \in SNode : m # n => Hold(m) \subseteq bm' /\ Hold(m) \intersect OnDisk(n) = {}
  <2>1. CASE bmDirty = n
    BY <2>1 DEF Durable, Dirty
  <2>2. CASE bmDirty # n
    <3>1. OnDisk(n) \subseteq Hold(n)
      BY <2>2 DEF Durable, Clean, Hold
    <3> QED
      BY <2>2, <3>1 DEF Owned
  <2> QED
    BY <2>1, <2>2
<1>6. OnDisk(n) \subseteq bm'
  <2>1. CASE bmDirty = n
    BY <2>1 DEF Durable, Dirty
  <2>2. CASE bmDirty # n
    BY <2>2 DEF Durable, Clean, Hold, Owned
  <2> QED
    BY <2>1, <2>2
<1>7. \A m, k \in SNode : m # k => Hold(m)' \intersect Hold(k)' = {}
  <2>1. ASSUME NEW m \in SNode, m # n PROVE Hold(m)' \intersect Hold(n)' = {}
    BY <1>2, <1>3, <1>5, <2>1
  <2>2. ASSUME NEW m \in SNode, NEW k \in SNode, m # n, k # n, m # k PROVE Hold(m)' \intersect Hold(k)' = {}
    BY <1>2, <2>2 DEF Owned
  <2> QED
    BY <2>1, <2>2
<1>8. \A m \in SNode : Hold(m)' \subseteq bm' /\ Hold(m)' \intersect lost' = {}
  <2>1. \A m \in SNode : Hold(m)' \subseteq bm'
    BY <1>2, <1>3, <1>5, <1>6
  <2> QED
    BY <2>1
<1>9. ASSUME n \notin helped, NEW x \in lost' PROVE x \in lost
  <2>1. x \in bm' /\ x \notin OnDisk(n) /\ \A m \in SNode : m # n => x \notin Hold(m)
    BY <1>2, <1>3, <1>9
  <2>2. CASE bmDirty = n
    BY <1>9, <2>1, <2>2 DEF Durable, Dirty
  <2>3. CASE bmDirty # n
    <3>1. \A y \in Hold(n) : y \in OnDisk(n)
      BY <1>9, <2>3 DEF Durable, Clean, Hold
    <3> QED
      BY <2>1, <2>3, <3>1 DEF Owned
  <2> QED
    BY <2>2, <2>3
<1>10. lost' # {} => \E m \in helped' : m \notin salive'
  <2>1. CASE n \in helped
    BY <2>1
  <2>2. CASE n \notin helped
    <3>1. lost' # {} => lost # {}
      BY <1>9, <2>2
    <3> QED
      BY <3>1 DEF Owned
  <2> QED
    BY <2>1, <2>2
<1>11. Owned'
  BY <1>2, <1>4, <1>7, <1>8, <1>10 DEF Owned
<1>12. Clean(n)' /\ n # 0 /\ bmDirty' # n
  BY <1>3 DEF Clean
<1>13. ASSUME NEW m \in SNode, m # n, bmDirty # m PROVE Clean(m)'
  <2>1. Clean(m)
    BY <1>13 DEF Durable
  <2> QED
    BY <1>1, <1>13, <2>1 DEF Clean, Keeps
<1>14. ASSUME NEW m \in SNode, m # n, bmDirty = m PROVE Dirty(m)'
  <2>1. Dirty(m) /\ Copied(m)' = Copied(m) /\ OnDisk(m)' = OnDisk(m) /\ bm' = bm
    BY <1>1, <1>14 DEF Durable, Keeps
  <2>2. OnDisk(n) \subseteq Hold(n)
    BY <1>14 DEF Durable, Clean, Hold
  <2>3. \A k \in SNode : Hold(k)' \subseteq Hold(k)
    BY <1>2, <1>3, <2>2
  <2>4. \A k \in SNode \ {m} : Hold(k)' \subseteq disk'.bm /\ Hold(k)' \intersect OnDisk(m)' = {}
    BY <2>1, <2>3 DEF Dirty
  <2>5. ASSUME m \notin helped, NEW x \in disk.bm
        PROVE  x \in lost' \/ x \in OnDisk(m) \/ \E k \in SNode \ {m} : x \in Hold(k)'
    <3>1. x \in lost \/ x \in OnDisk(m) \/ \E k \in SNode \ {m} : x \in Hold(k)
      BY <2>1, <2>5 DEF Dirty
    <3>2. CASE x \in lost
      <4>1. x \in bm' /\ \A k \in SNode : x \notin Hold(k)
        BY <2>1, <3>2 DEF Owned
      <4> QED
        BY <2>3, <4>1
    <3>3. ASSUME NEW k \in SNode \ {m}, k # n, x \in Hold(k) PROVE x \in Hold(k)'
      BY <1>2, <3>3
    <3>4. ASSUME x \in Hold(n) PROVE x \in Hold(n)' \/ x \in lost'
      <4>1. x \in bm' /\ \A k \in SNode : k # n => x \notin Hold(k)
        BY <2>1, <3>4 DEF Owned
      <4> QED
        BY <2>3, <4>1
    <3> QED
      BY <1>14, <3>1, <3>2, <3>3, <3>4
  <2> QED
    BY <2>1, <2>4, <2>5 DEF Dirty
<1>15. ASSUME NEW m \in SNode, m \notin salive' PROVE AtRest(m)'
  <2>1. CASE m # n
    BY <1>1, <1>15, <2>1 DEF Durable, Keeps
  <2> QED
    BY <2>1
<1>16. bmDirty' = 0 => disk'.bm = bm'
  BY DEF Durable
<1>17. Durable'
  <2>1. \A m \in SNode : bmDirty' # m => Clean(m)'
    BY <1>12, <1>13
  <2>2. \A m \in SNode : bmDirty' = m => Dirty(m)'
    BY <1>12, <1>14
  <2> QED
    BY <1>15, <1>16, <2>1, <2>2 DEF Durable
<1> QED
  BY <1>11, <1>17

LEMMA SDiesSafe == ASSUME SpaceInv, NEW n \in SNode, SDies(n) PROVE SpaceInv'
<1>1. /\ UNCHANGED <<sstory, disk, helped>> /\ n \in salive /\ salive' = salive \ {n}
      /\ files' = [files EXCEPT ![n] = disk.files[n]] /\ la' = [la EXCEPT ![n] = disk.la[n]]
      /\ tl' = [tl EXCEPT ![n] = disk.tl[n]] /\ copies' = [copies EXCEPT ![n] = NoCopy]
      /\ bm' = IF bmDirty = n THEN disk.bm ELSE bm
      /\ size' = IF bmDirty = n THEN disk.size ELSE size
      /\ bmDirty' = IF bmDirty = n THEN 0 ELSE bmDirty
      /\ bmBy' = IF bmBy[1] = n THEN NoOne ELSE bmBy
      /\ task' = [task EXCEPT ![n] = [v \in Who |-> Idle]]
  BY DEF SDies
<1>2. lost' = bm' \ UNION {Known(m, files', la', tl', copies') : m \in SNode}
  BY DEF SDies
<1>3. /\ disk \in OnVolume /\ disk.files[n] \in SUBSET Int /\ disk.la[n] \in Windows /\ disk.tl[n] \in Records
      /\ disk.bm \subseteq Int /\ disk.size \in Nat /\ copies \in [SNode -> Copies]
      /\ bmDirty \in {0} \union salive
  BY Before DEF Shape, OnVolume
<1>4. NoCopy \in Copies /\ NoCopy.unused = {} /\ NoCopy.log = << >>
  BY LogEmpty DEF Copies, NoCopy
<1>5. /\ files' \in [SNode -> SUBSET Int] /\ files'[n] = disk.files[n]
      /\ \A m \in SNode : m # n => files'[m] = files[m]
  BY <1>1, <1>3, Before
<1>6. /\ la' \in [SNode -> Windows] /\ la'[n] = disk.la[n]
      /\ \A m \in SNode : m # n => la'[m] = la[m]
  BY <1>1, <1>3, Before
<1>7. /\ tl' \in [SNode -> Records] /\ tl'[n] = disk.tl[n]
      /\ \A m \in SNode : m # n => tl'[m] = tl[m]
  BY <1>1, <1>3, Before
<1>8. copies' \in [SNode -> Copies] /\ copies'[n] = NoCopy /\ \A m \in SNode : m # n => copies'[m] = copies[m]
  <2> HIDE DEF NoCopy
  <2> QED
    BY <1>1, <1>3, <1>4
<1>9. /\ task' \in AllTasks /\ (\A v \in Who : task'[n][v] = Idle)
      /\ \A m \in SNode : m # n => task'[m] = task[m]
  <2> DEFINE none == [v \in Who |-> Idle]
  <2>1. Idle \in Tasks
    BY IdleIsTask
  <2> HIDE DEF Idle, Tasks, Who
  <2>2. none \in [Who -> Tasks] /\ \A v \in Who : none[v] = Idle
    BY <2>1
  <2>3. task' = [task EXCEPT ![n] = none] /\ task \in [SNode -> [Who -> Tasks]]
    BY <1>1, Before DEF AllTasks
  <2> HIDE DEF none
  <2>4. task' \in [SNode -> [Who -> Tasks]] /\ task'[n] = none /\ \A m \in SNode : m # n => task'[m] = task[m]
    BY <2>2, <2>3
  <2> QED
    BY <2>2, <2>4 DEF AllTasks
<1>a. Idle.pc = "idle"
  BY DEF Idle
<1>10. Apart(n) /\ AtRest(n)'
  BY <1>1, <1>5, <1>6, <1>7, <1>8 DEF Apart, AtRest
<1>11. Copied(n)' = {}
  BY <1>4, <1>8, LogEmpty DEF Copied
<1>12. \A x : x \in lost' <=> x \in bm' /\ \A m \in SNode : x \notin Hold(m)'
  <2>1. \A m \in SNode : Known(m, files', la', tl', copies') = Hold(m)'
    BY DEF Known, Hold, Mem, Share, Copied
  <2>2. \A x : x \in UNION {Known(m, files', la', tl', copies') : m \in SNode} <=> \E m \in SNode : x \in Hold(m)'
    BY <2>1
  <2> QED
    BY <1>2, <2>2
<1>13. Owned' /\ Durable'
  BY <1>1, <1>3, <1>4, <1>8, <1>10, <1>11, <1>12, SNodeAssumption, ClustersDie
  DEF SpaceInv
<1>14. Shape'
  <2>1. bm' \subseteq Int /\ lost' \subseteq Int /\ size' \in Nat /\ bmDirty' \in {0} \union salive'
    BY <1>1, <1>2, <1>3, Before
  <2>2. sstory' \in Stories /\ salive' \subseteq SNode /\ disk' \in OnVolume
    BY <1>1, <1>3, Before DEF Shape
  <2> QED
    BY <1>5, <1>6, <1>7, <1>8, <1>9, <2>1, <2>2 DEF Shape
<1>15. LockOK'
  <2>1. ASSUME NEW m \in SNode, NEW v \in Who, task'[m][v].pc \in InBitmap PROVE bmBy' = <<m, v>>
    <3>1. m # n
      BY <1>9, <1>a, <2>1 DEF InBitmap
    <3>2. task[m][v].pc \in InBitmap
      BY <1>9, <2>1, <3>1
    <3>3. bmBy = <<m, v>>
      BY <3>2, Before DEF LockOK
    <3> QED
      BY <1>1, <3>1, <3>3
  <2>2. bmBy' # NoOne => bmDirty' \in {0, bmBy'[1]}
    BY <1>1, Before DEF LockOK
  <2> QED
    BY <2>1, <2>2 DEF LockOK
<1>16. ASSUME NEW m \in SNode PROVE RecOK(m)'
  <2>1. "rec" \in Who
    BY DEF Who
  <2>2. CASE m = n
    <3>1. task'[m]["rec"].pc = "idle"
      BY <1>9, <1>a, <2>1, <2>2
    <3> QED
      BY <3>1 DEF RecOK
  <2>3. CASE m # n
    <3>1. RecOK(m) /\ task'[m] = task[m] /\ copies'[m] = copies[m]
      BY <1>8, <1>9, <2>3 DEF SpaceInv
    <3>2. helped' = helped /\ SNode \ salive \subseteq SNode \ salive'
      BY <1>1
    <3> QED
      BY <3>1, <3>2 DEF RecOK
  <2> QED
    BY <2>2, <2>3
<1> QED
  BY <1>13, <1>14, <1>15, <1>16 DEF SpaceInv

----------------------------------------------------------------------------
(* The invariant holds.                                                    *)

\* Who is to be recovered does not run.
Listed == toRecover \intersect salive = {}

\* No step puts a node that runs on the list.
LEMMA ListedStays ==
  ASSUME Listed, SpNext
  PROVE  Listed'
<1>1. CASE \E n \in SNode : SDies(n)
  BY <1>1 DEF Listed, SDies
<1>2. CASE \E n \in SNode : WriteStart(n) \/ LaEnable(n) \/ Grow(n) \/ Umount(n)
  BY <1>2 DEF Listed, WriteStart, LaEnable, Grow, Umount
<1>3. CASE SpWork
  <2>1. PICK n \in salive :
          \/ Commit(n) \/ ReserveLocal(n) \/ SlideReserve(n) \/ SlideWindow(n) \/ ReserveMain(n) \/ TryFree(n) \/ FreedSome(n)
          \/ \E ok \in BOOLEAN : ClaimLocal(n, ok) \/ ClaimMain(n, ok)
          \/ \E w \in Who : LockLog(n, w) \/ FlushJournal(n, w) \/ FlushLock(n, w) \/ FlushRecord(n, w) \/ FlushEnd(n, w)
          \/ RemoveExtent(n)
          \/ \E d \in SNode : ReplayJournal(n, d)
          \/ BeginLa(n) \/ BeginTl(n) \/ CompleteLa(n) \/ AppendRecord(n) \/ RecoveryDone(n)
    BY <1>3 DEF SpWork
  <2>2. salive' = salive /\ toRecover' \subseteq toRecover
    <3>1. CASE \E d \in SNode : ReplayJournal(n, d)
      BY <3>1 DEF ReplayJournal
    <3>2. CASE \E ok \in BOOLEAN : ClaimLocal(n, ok) \/ ClaimMain(n, ok)
      BY <3>2 DEF ClaimLocal, ClaimMain
    <3>3. CASE \E w \in Who : LockLog(n, w) \/ FlushJournal(n, w) \/ FlushLock(n, w) \/ FlushRecord(n, w) \/ FlushEnd(n, w)
      BY <3>3 DEF LockLog, FlushJournal, FlushLock, FlushRecord, FlushEnd
    <3>4. CASE Commit(n) \/ ReserveLocal(n) \/ SlideReserve(n) \/ SlideWindow(n) \/ ReserveMain(n) \/ TryFree(n) \/ FreedSome(n)
      BY <3>4
      DEF Commit, ReserveLocal, SlideReserve, SlideWindow, ReserveMain, TryFree,
          FreedSome
    <3>5. CASE RemoveExtent(n) \/ BeginLa(n) \/ BeginTl(n) \/ CompleteLa(n) \/ AppendRecord(n) \/ RecoveryDone(n)
      BY <3>5
      DEF RemoveExtent, BeginLa, BeginTl, CompleteLa, AppendRecord, RecoveryDone
    <3> QED
      BY <2>1, <3>1, <3>2, <3>3, <3>4, <3>5
  <2> QED
    BY <2>2 DEF Listed
<1> QED
  BY <1>1, <1>2, <1>3 DEF SpNext

LEMMA SpaceInit == SpInit => SpaceInv /\ Listed
<1> SUFFICES ASSUME SpInit PROVE SpaceInv /\ Listed
  OBVIOUS
<1>1. \A n \in SNode : /\ files[n] = {} /\ la[n] = NoWin /\ tl[n] = << >> /\ copies[n] = NoCopy
                      /\ disk.files[n] = {} /\ disk.la[n] = NoWin /\ disk.tl[n] = << >>
  BY DEF SpInit
<1>2. NoWin \in Windows /\ Unused(NoWin) = {}
  BY DEF NoWin, Windows, Unused
<1>3. << >> \in Records /\ LogSet(<< >>) = {} /\ LogOK(<< >>)
  BY LogEmpty
<1>4. NoCopy \in Copies /\ NoCopy.unused = {} /\ NoCopy.log = << >>
  BY LogEmpty DEF Copies, NoCopy
<1>5. Idle \in Tasks /\ Idle.pc = "idle"
  BY IdleIsTask DEF Idle
<1>6. salive = SNode /\ bm = {} /\ bmDirty = 0 /\ bmBy = NoOne /\ lost = {} /\ helped = {} /\ toRecover = {} /\ disk.bm = {}
  BY DEF SpInit
<1>7. Shape
  <2>1. sstory \in Stories
    BY StoriesAssumption DEF SpInit, Stories
  <2>2. \A x \in Windows : [n \in SNode |-> x] \in [SNode -> Windows]
    OBVIOUS
  <2>3. \A x \in Records : [n \in SNode |-> x] \in [SNode -> Records]
    OBVIOUS
  <2>4. \A x \in Copies : [n \in SNode |-> x] \in [SNode -> Copies]
    OBVIOUS
  <2>5. [n \in SNode |-> {}] \in [SNode -> SUBSET Int]
    OBVIOUS
  <2>6. \A x \in Tasks : [n \in SNode |-> [w \in Who |-> x]] \in AllTasks
    BY DEF AllTasks
  <2>7. files \in [SNode -> SUBSET Int] /\ la \in [SNode -> Windows] /\ tl \in [SNode -> Records]
    BY <1>2, <1>3, <2>2, <2>3, <2>5 DEF SpInit
  <2>8. copies \in [SNode -> Copies] /\ task \in AllTasks
    BY <1>4, <1>5, <2>4, <2>6 DEF SpInit
  <2>9. disk \in OnVolume
    <3>1. disk = [size |-> size, bm |-> bm, files |-> files, la |-> la, tl |-> tl] /\ size \in Nat /\ bm \in SUBSET Int
      BY ClustersAssumption DEF SpInit
    <3> QED
      BY <2>7, <3>1 DEF OnVolume
  <2> QED
    BY <1>6, <2>1, <2>7, <2>8, <2>9, ClustersAssumption DEF SpInit, Shape
<1>8. \A n \in SNode : Mem(n) = {} /\ Copied(n) = {} /\ OnDisk(n) = {} /\ Hold(n) = {} /\ NodeOK(n) /\ AtRest(n)
  <2> SUFFICES ASSUME NEW n \in SNode
               PROVE  Mem(n) = {} /\ Copied(n) = {} /\ OnDisk(n) = {} /\ Hold(n) = {} /\ NodeOK(n) /\ AtRest(n)
    OBVIOUS
  <2>1. Mem(n) = {} /\ Copied(n) = {} /\ OnDisk(n) = {}
    BY <1>1, <1>2, <1>3, <1>4 DEF Mem, Copied, OnDisk, Share
  <2>2. ShareOK(files[n], la[n], tl[n]) /\ ShareOK(disk.files[n], disk.la[n], disk.tl[n])
    BY <1>1, <1>2, <1>3 DEF ShareOK
  <2> QED
    BY <1>1, <1>3, <1>4, <2>1, <2>2 DEF NodeOK, Hold, AtRest
<1>9. Owned
  BY <1>6, <1>8 DEF Owned
<1>10. Durable
  BY <1>6, <1>8, SNodeAssumption DEF Durable, Clean
<1>11. \A n \in SNode, w \in Who : task[n][w].pc = "idle"
  BY <1>5 DEF SpInit
<1>12. LockOK
  BY <1>6, <1>11 DEF LockOK, InBitmap
<1>13. \A n \in SNode : RecOK(n)
  <2>1. "rec" \in Who
    BY DEF Who
  <2> QED
    BY <1>11, <2>1 DEF RecOK
<1> QED
  BY <1>6, <1>7, <1>9, <1>10, <1>12, <1>13 DEF SpaceInv, Listed

LEMMA SpaceStep ==
  ASSUME SpaceInv, Listed, SpNext
  PROVE  SpaceInv'
<1>1. ASSUME NEW n \in SNode, WriteStart(n) \/ LaEnable(n) \/ Grow(n) \/ Umount(n) \/ SDies(n) PROVE SpaceInv'
  BY <1>1, WriteStartSafe, LaEnableSafe, GrowSafe, UmountSafe, SDiesSafe
<1>2. ASSUME SpWork PROVE SpaceInv'
  <2>1. PICK n \in salive :
          \/ Commit(n) \/ ReserveLocal(n) \/ SlideReserve(n) \/ SlideWindow(n) \/ ReserveMain(n) \/ TryFree(n) \/ FreedSome(n)
          \/ \E ok \in BOOLEAN : ClaimLocal(n, ok) \/ ClaimMain(n, ok)
          \/ \E w \in Who : LockLog(n, w) \/ FlushJournal(n, w) \/ FlushLock(n, w) \/ FlushRecord(n, w) \/ FlushEnd(n, w)
          \/ RemoveExtent(n)
          \/ \E d \in SNode : ReplayJournal(n, d)
          \/ BeginLa(n) \/ BeginTl(n) \/ CompleteLa(n) \/ AppendRecord(n) \/ RecoveryDone(n)
    BY <1>2 DEF SpWork
  <2>2. n \in SNode
    BY Before, <2>1 DEF SpaceInv, Shape
  <2>3. CASE Commit(n) \/ ReserveLocal(n) \/ SlideReserve(n) \/ SlideWindow(n) \/ ReserveMain(n) \/ TryFree(n) \/ FreedSome(n)
    BY <2>2, <2>3, CommitSafe, ReserveLocalSafe, SlideReserveSafe,
       SlideWindowSafe, ReserveMainSafe, TryFreeSafe, FreedSomeSafe
  <2>4. CASE \E ok \in BOOLEAN : ClaimLocal(n, ok) \/ ClaimMain(n, ok)
    BY <2>2, <2>4, ClaimLocalSafe, ClaimMainSafe
  <2>5. CASE \E w \in Who : LockLog(n, w) \/ FlushJournal(n, w) \/ FlushLock(n, w) \/ FlushRecord(n, w) \/ FlushEnd(n, w)
    BY <2>2, <2>5, LockLogSafe, FlushJournalSafe, FlushLockSafe,
       FlushRecordSafe, FlushEndSafe
  <2>6. CASE RemoveExtent(n)
    BY <2>2, <2>6, RemoveExtentSafe
  <2>7. CASE \E d \in SNode : ReplayJournal(n, d)
    <3>1. PICK d \in SNode : ReplayJournal(n, d)
      BY <2>7
    <3>2. d \notin salive
      BY <3>1 DEF ReplayJournal, Listed
    <3> QED
      BY <2>2, <3>1, <3>2, ReplayJournalSafe
  <2>8. CASE BeginLa(n) \/ BeginTl(n) \/ CompleteLa(n) \/ AppendRecord(n) \/ RecoveryDone(n)
    BY <2>2, <2>8, BeginLaSafe, BeginTlSafe, CompleteLaSafe, AppendRecordSafe,
       RecoveryDoneSafe
  <2> QED
    BY <2>1, <2>3, <2>4, <2>5, <2>6, <2>7, <2>8
<1> QED
  BY <1>1, <1>2 DEF SpNext

LEMMA SpaceStutters ==
  ASSUME SpaceInv, Listed, UNCHANGED spvars
  PROVE  SpaceInv' /\ Listed'
<1>1. Shape' /\ LockOK' /\ Listed' /\ \A n \in SNode : RecOK(n)'
  BY DEF SpaceInv, Shape, LockOK, Listed, RecOK, spvars
<1>2. Owned' /\ Durable'
  BY ClustersStay DEF SpaceInv, spvars
<1> QED
  BY <1>1, <1>2 DEF SpaceInv

\* The invariant says what Accounted does.
LEMMA SpaceAccounted == SpaceInv => Accounted
<1> SUFFICES ASSUME SpaceInv PROVE Accounted
  OBVIOUS
<1>1. \A n \in SNode : Known(n, files, la, tl, copies) = Hold(n)
  BY DEF Known, Hold, Mem, Share, Copied
<1>2. \A n \in SNode : \A j \in 1 .. 5 : Holders(n)[j] \subseteq Hold(n)
  <2> SUFFICES ASSUME NEW n \in SNode, NEW j \in 1 .. 5 PROVE Holders(n)[j] \subseteq Hold(n)
    OBVIOUS
  <2>1. j = 1 \/ j = 2 \/ j = 3 \/ j = 4 \/ j = 5
    OBVIOUS
  <2> QED
    BY <2>1 DEF Holders, Hold, Mem, Share, Copied
<1>3. ASSUME NEW n \in SNode, NEW j \in 1 .. 5, NEW k \in 1 .. 5, j # k
      PROVE  Holders(n)[j] \intersect Holders(n)[k] = {}
  <2> DEFINE a == files[n]
             b == Unused(la[n])
             c == LogSet(tl[n])
             d == copies[n].unused
             e == LogSet(copies[n].log)
  <2>1. /\ a \intersect b = {} /\ a \intersect c = {} /\ b \intersect c = {} /\ d \intersect e = {}
        /\ (d \union e) \intersect (a \union b \union c) = {}
    BY DEF SpaceInv, Owned, NodeOK, ShareOK, Copied, Mem, Share
  <2>2. Holders(n) = <<a, b, c, d, e>>
    BY DEF Holders
  <2> HIDE DEF a, b, c, d, e
  <2>3. \A x, y \in {1, 2, 3, 4, 5} : x # y => <<a, b, c, d, e>>[x] \intersect <<a, b, c, d, e>>[y] = {}
    BY <2>1
  <2>4. j \in {1, 2, 3, 4, 5} /\ k \in {1, 2, 3, 4, 5}
    OBVIOUS
  <2> QED
    BY <1>3, <2>2, <2>3, <2>4
<1>4. \A n, m \in SNode : \A j, k \in 1 .. 5 : n # m \/ j # k => Holders(n)[j] \intersect Holders(m)[k] = {}
  <2> SUFFICES ASSUME NEW n \in SNode, NEW m \in SNode, NEW j \in 1 .. 5, NEW k \in 1 .. 5, n # m \/ j # k
               PROVE  Holders(n)[j] \intersect Holders(m)[k] = {}
    OBVIOUS
  <2>1. CASE n # m
    <3>1. Hold(n) \intersect Hold(m) = {}
      BY <2>1 DEF SpaceInv, Owned
    <3> QED
      BY <1>2, <3>1
  <2>2. CASE n = m
    BY <1>3, <2>2
  <2> QED
    BY <2>1, <2>2
<1>5. \A x : x \in UNION {Known(m, files, la, tl, copies) : m \in SNode} <=> \E m \in SNode : x \in Hold(m)
  BY <1>1
<1>6. bm = lost \union UNION {Known(m, files, la, tl, copies) : m \in SNode}
  BY <1>5 DEF SpaceInv, Owned
<1>7. \A n \in SNode : lost \intersect Known(n, files, la, tl, copies) = {}
  BY <1>1 DEF SpaceInv, Owned
<1>8. lost # {} => \E n \in helped : n \notin salive
  BY DEF SpaceInv, Owned
<1> QED
  BY <1>4, <1>6, <1>7, <1>8 DEF Accounted

\* Whatever nodes write, truncate, flush, slide their windows, die and recover each other:
\* a cluster whose bit is set is in one file, one window, one log or one copy of a dead node's
\* slot, or was lost with a node that recovered another; no cluster of any of them is free.
THEOREM ClustersAreAccounted == SpSpec => []Accounted
<1>1. SpInit => SpaceInv /\ Listed
  BY SpaceInit
<1>2. SpaceInv /\ Listed /\ [SpNext]_spvars => (SpaceInv /\ Listed)'
  BY SpaceStep, ListedStays, SpaceStutters
<1>3. SpaceInv => Accounted
  BY SpaceAccounted
<1> QED
  BY <1>1, <1>2, <1>3, PTL DEF SpSpec
===============================================================================
