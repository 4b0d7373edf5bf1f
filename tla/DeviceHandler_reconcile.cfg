CONSTANTS
  u1 = u1
  u2 = u2
  Unis <- MC_Unis
  PersTp <- MC_Unis
  StateUnis <- MC_Unis
  MaxDowns = 1
SPECIFICATION Spec
CHECK_DEADLOCK FALSE
PROPERTY ReconcileEnds
