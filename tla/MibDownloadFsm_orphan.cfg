CONSTANTS
  u1 = u1
  u2 = u2
  Unis <- MC_Unis
  MaxDowns = 1
  MaxFaults = 0
  QuickReturn = TRUE
SPECIFICATION Spec
SYMMETRY MC_Symmetry
CHECK_DEADLOCK FALSE
PROPERTY DownloadDoneMeansBridged
