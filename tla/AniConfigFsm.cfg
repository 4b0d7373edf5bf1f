CONSTANTS
  g1 = g1
  g2 = g2
  q1 = q1
  q2 = q2
  Gems <- MC_Gems
  Queues <- MC_Queues
  UpQueue <- MC_UpQueue
  PbitOf <- MC_PbitOf
  MaxStarts = 1
  MaxDowns = 1
  MaxFaults = 1
  MaxForeign = 1
SPECIFICATION Spec
CHECK_DEADLOCK FALSE
INVARIANT TypeOK
PROPERTY CompletionMeansConfigured PhaseRefinement
