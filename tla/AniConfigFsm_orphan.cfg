CONSTANTS
  g1 = g1
  g2 = g2
  q1 = q1
  q2 = q2
  Gems <- MC_Gems
  Queues <- MC_Queues
  UpQueue <- MC_UpQueue
  PbitOf <- MC_PbitOf
  MaxStarts = 2
  MaxDowns = 1
  MaxFaults = 0
  MaxForeign = 0
SPECIFICATION Spec
CHECK_DEADLOCK FALSE
PROPERTY CompletionMeansConfigured
