SPECIFICATION RealtimeSpec
CONSTANTS
  nobody = nobody
  Nobody = nobody
  Handlers = {h1}
  Attempts = 2
  Notification = {n1}
  Event = {e1}
  Process = {p1, p2}
  MaxAdds = 2
  MaxFaults = 2
INVARIANTS
  RepeatsAreAccountedFor
PROPERTIES
  EnqueuedIsAnnounced
CHECK_DEADLOCK FALSE
