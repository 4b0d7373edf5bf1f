CONSTANTS
  u1 = u1
  u2 = u2
  onug = onug
  Unis <- MC_Unis
  OnuG <- MC_OnuG
  MaxReqs = 2
  MaxFaults = 1
  MaxForeign = 1
SPECIFICATION Spec
SYMMETRY MC_Symmetry
INVARIANT TypeOK
CHECK_DEADLOCK FALSE
INVARIANT AdminFsmsExclusive
PROPERTY PhaseRefinement
