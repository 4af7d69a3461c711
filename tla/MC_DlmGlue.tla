------------------------------ MODULE MC_DlmGlue ------------------------------
(* DlmGlue for TLC: who runs where, and who uses which type of lock how.   *)
EXTENDS DlmGlue, TLC

CONSTANTS n1, n2, n3, a, b, c, d

\* Two tasks on the first node, one on each of the others
Where == (a :> n1) @@ (c :> n1) @@ (b :> n2) @@ (d :> n3)
OneEach == (a :> n1) @@ (b :> n2)

Ask(levels, hows) == [level : levels, how : hows]
Users(f) == [t \in Task |-> IF t \in DOMAIN f THEN f[t] ELSE {}]
Alike(who, asks) == Users([t \in who |-> asks])

\* How each type is used
Uses ==
  [k \in Types |->
     CASE k = "nfs_sync" -> Users((a :> Ask({PR, EX}, {"wait"})) @@
                                  (b :> Ask({EX}, {"wait"})))
       [] k = "open" -> Alike({a, b}, Ask({EX}, {"wait", "noqueue"}))
       [] k = "rename" -> Alike({a, b, c}, Ask({EX}, {"wait"}))
       [] k = "rw" -> Alike({b, d}, Ask({EX}, {"wait"}))
       [] k = "dentry" -> Users((b :> Ask({PR}, {"wait"})) @@
                                (d :> Ask({EX}, {"wait"})))
       [] k = "meta" -> Users((a :> Ask({EX}, {"wait"})) @@
                              (b :> Ask({EX}, {"nonblock"})))]
\* One node writes, the other reads
WriterReader ==
  [k \in Types |-> Users((a :> Ask({EX}, {"wait"})) @@
                         (b :> Ask({PR}, {"wait"})))]
\* Two nodes write, one reads
WritersReader ==
  [k \in Types |-> Users((a :> Ask({EX}, {"wait"})) @@
                         (b :> Ask({PR}, {"wait"})) @@
                         (d :> Ask({EX}, {"wait"})))]

\* Who asks for it once
Rarely ==
  [k \in Types |->
     CASE k = "rename" -> {a, b, c}
       [] k \in {"dentry", "rw"} -> {b, d}
       [] k \in {"meta", "nfs_sync"} -> {b}
       [] k = "open" -> {a, b}
       [] OTHER -> {}]
WritesOnce == [k \in Types |-> {a}]
EachOnce == [k \in Types |-> Task]

Nobody == [k \in Types |-> {}]
EvictsRw == [k \in Types |-> IF k = "rw" THEN {n3} ELSE {}]

\* A later start, for three nodes: n1 has EX and is through with it, n2 had to
\* give its lock up, n3 has not asked yet.
At(x, y, z) == (n1 :> x) @@ (n2 :> y) @@ (n3 :> z)
Contended ==
  /\ type = At(EX, NL, IV)
  /\ convert = At(IV, IV, IV)
  /\ granted = {n1, n2}
  /\ converting = <<>> /\ blocked = <<>>
  /\ owed = At("none", "none", "none")
  /\ pendingAsts = {} /\ highestBlocked = At(IV, IV, IV) /\ inflight = NoBast
  /\ dirty = FALSE /\ thread = "lists"
  /\ level = type /\ requested = type /\ blocking = At(IV, NL, IV)
  /\ action = At("INVALID", "INVALID", "INVALID") /\ unlockAction = action
  /\ flags = At({"ATTACHED"}, {"ATTACHED"}, {})
  /\ pendingBy = At("none", "none", "none")
  /\ onList = At(FALSE, FALSE, FALSE) /\ wake = onList
  /\ dcPc = At("idle", "idle", "idle") /\ dcRequeue = onList
  /\ dcSaved = [n \in Node |-> [blocking |-> IV, level |-> IV]]
  /\ pc = [t \in Task |-> "idle"] /\ mw = [t \in Task |-> "none"]
  /\ want = [t \in Task |-> [level |-> PR, how |-> "wait"]]
  /\ tried = [t \in Task |-> FALSE] /\ locked = tried
  /\ evictPc = At("live", "live", "live")
  /\ current = {}

\* The dentry lock starts from there, the others from nothing.
MCInit == (Contended /\ ltype = "dentry") \/ (Init /\ ltype # "dentry")
MCSpec == MCInit /\ [][Next]_<<vars, ltype>>

\* A lock of any type starts from there.
ContendedSpec == Contended /\ ltype \in Types /\ [][Next]_<<vars, ltype>>

\* The two tasks of the first node are interchangeable.
Locals == Permutations({a, c})
=============================================================================
