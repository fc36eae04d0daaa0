SPECIFICATION Spec
CONSTANTS
  Wakes = {w1, w2}
  Agents = {a1, a2}
  Null = Null
  Registrations = {g1}
  Uploads = {k1, k2}
  Outputs <- MCOutputs
  Traffic <- MCTraffic
  MaxPosts = 3
  MaxWaiting = 1
CHECK_DEADLOCK FALSE
INVARIANT PostsSound
INVARIANT WakesSound
PROPERTY WakesSettle
