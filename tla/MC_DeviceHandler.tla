-------------------------- MODULE MC_DeviceHandler --------------------------
(* Model-checking instance of DeviceHandler: an ONU with two UNI ports.    *)
EXTENDS DeviceHandler, TLC

CONSTANTS u1, u2

MC_Unis == {u1, u2}

\* The UNIs are interchangeable when every UNI has a persisted tech-profile
\* path and is in the port-state mask: uniEntityMap is visited in random order.
MC_Symmetry == Permutations(MC_Unis)

=============================================================================
