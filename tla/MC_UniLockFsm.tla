--------------------------- MODULE MC_UniLockFsm ---------------------------
(* Model-checking instance of UniLockFsm: two UNI ports and the ONU-G. *)
EXTENDS UniLockFsm, TLC

CONSTANTS u1, u2, onug

MC_Unis == {u1, u2}
MC_OnuG == onug

\* The UNIs are interchangeable: the code visits uniEntityMap in random order.
MC_Symmetry == Permutations(MC_Unis)
=============================================================================
