-------------------------- MODULE MC_AniConfigFsm --------------------------
(* Model-checking instance of AniConfigFsm: two GEM ports. *)
EXTENDS AniConfigFsm, TLC

CONSTANTS g1, g2, q1, q2

MC_Gems == {g1, g2}
MC_Queues == {q1, q2}
MC_UpQueue == [g \in MC_Gems |-> IF g = g1 THEN q1 ELSE q2]
\* Both GEM ports claim pbit 0: the first one in map order wins it.
MC_PbitOf == [g \in MC_Gems |-> IF g = g1 THEN {0, 1} ELSE {0}]
=============================================================================
