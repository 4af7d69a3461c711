------------------------------ MODULE LockModes ------------------------------
(***************************************************************************)
(* The lock modes of the cluster locks and the two tables that relate      *)
(* them.  ocfs2 itself asks for NL, PR and EX only; IV stands for "no lock *)
(* at all".  The values are those of DLM_LOCK_* / LKM_*MODE, so that the   *)
(* comparisons of the code (level > l_level, type <= lock->ml.type) are    *)
(* comparisons of these numbers.                                           *)
(***************************************************************************)
EXTENDS Integers

IV == -1
NL == 0
PR == 3
EX == 5

Mode    == {NL, PR, EX}       \* the modes a granted lock can have
AnyMode == Mode \union {IV}

(***************************************************************************)
(* dlm_lock_compatible() of the o2dlm headers, as every caller in src/dlm  *)
(* uses it: NL goes with everything, PR with PR, EX with nothing else.  IV *)
(* is the mode of a lock that is on no list.                               *)
(***************************************************************************)
Compatible(existing, request) ==
  \/ existing <= NL
  \/ request <= NL
  \/ existing = PR /\ request = PR

(***************************************************************************)
(* The highest level that a node may keep while another node waits for     *)
(* level.                                                                  *)
(***************************************************************************)
HighestCompat(level) ==
  CASE level = EX -> NL
    [] level = PR -> PR
    [] OTHER      -> EX
=============================================================================
