SPECIFICATION RelaySpec
CONSTANTS
  c1 = c1
  c2 = c2
  r1 = r1
  u1 = u1
  u2 = u2
  w1 = w1
  Conns = {c1, c2}
  Users = {u1, u2}
  Runs = {r1}
  Workspaces = {w1}
  Null = Null
  RunUser <- MCRunUser
  RunWorkspace <- MCRunWorkspace
  RetryAttempts = 1
  BatchSize = 2
  MaxEvents = 2
  MaxMessages = 2
  MaxFailures = 1
CONSTRAINT Scene
CHECK_DEADLOCK FALSE
INVARIANT DeliverySound
INVARIANT SubscribedStays
PROPERTY EventsArrive
