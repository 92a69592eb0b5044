SPECIFICATION FairSpec
CONSTANTS
  c1 = c1
  r1 = r1
  r2 = r2
  u1 = u1
  n1 = n1
  w1 = w1
  w2 = w2
  e1 = e1
  k1 = k1
  NoUpload = NoUpload
PROPERTIES EverySubmissionSurfaces EveryPendingDecided EveryTripDebriefed EveryAnswerSurfaces
\* The uploads of the model run out, and then everything may be done.
CHECK_DEADLOCK FALSE
