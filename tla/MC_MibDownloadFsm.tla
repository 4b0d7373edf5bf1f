-------------------------- MODULE MC_MibDownloadFsm --------------------------
EXTENDS MibDownloadFsm, TLC

CONSTANTS u1, u2

MC_Unis == {u1, u2}

MC_Symmetry == Permutations(MC_Unis)
====
