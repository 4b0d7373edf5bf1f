CONSTANTS
  u1 = u1
  u2 = u2
  Unis <- MC_Unis
  MaxDowns = 1
  MaxFaults = 0
  QuickReturn = FALSE
SPECIFICATION Spec
SYMMETRY MC_Symmetry
CHECK_DEADLOCK FALSE
INVARIANT DownStopsDownload
