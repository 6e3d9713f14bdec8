SPECIFICATION MCSpec
CONSTANTS
  p1 = p1
  p2 = p2
  p3 = p3
  c1 = c1
  None = None
  Missing = Missing
  Empty = Empty
  Pids = {p1, p2, p3}
  Cmds = {c1}
  Faults = {"interrupt", "kill", "entry", "stop"}
  w1 = w1
  w2 = w2
  w3 = w3
  w4 = w4
  tracker = tracker
  index = index
  Clients = {w1, w2, w3}
  Senders = {tracker, index}
  Parts = {"service", "group"}
INVARIANTS
  MCTypeOK
  OneService
PROPERTIES
  SignalledEnds
  HandlersEnd
