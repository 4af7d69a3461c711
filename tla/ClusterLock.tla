----------------------------- MODULE ClusterLock -----------------------------
(***************************************************************************)
(* What ocfs2_inode_lock() and its kin promise to the file system: a lock  *)
(* with two modes, shared by the tasks of all nodes.  Tasks of different   *)
(* nodes never have it in incompatible modes; the tasks of one node sort   *)
(* that out among themselves (i_rwsem and the like), so between them the   *)
(* cluster lock promises nothing.                                          *)
(***************************************************************************)
EXTENDS LockModes

CONSTANTS Task, NodeOf

VARIABLE mode    \* mode[t]: the mode t has the lock in, NL for none

Init == mode = [t \in Task |-> NL]

Acquire(t, m) ==
  /\ mode[t] = NL
  /\ \A u \in Task : NodeOf[u] # NodeOf[t] => Compatible(mode[u], m)
  /\ mode' = [mode EXCEPT ![t] = m]

Release(t) ==
  /\ mode[t] # NL
  /\ mode' = [mode EXCEPT ![t] = NL]

Next == \E t \in Task : Release(t) \/ \E m \in {PR, EX} : Acquire(t, m)

Spec == Init /\ [][Next]_mode
=============================================================================
