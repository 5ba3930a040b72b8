SPECIFICATION Spec
CONSTANTS
  NoNode = NoNode
  d1 = d1
  d2 = d2
  h1 = h1
  h2 = h2
  Dopplers = {d1, d2}
  Preferred = {d1}
  Hosts = {h1, h2}
  Protocols <- WebsocketOnly
  EventsCap = 2
  MaxChanges = 3
  MaxFaults = 1
SYMMETRY Symmetry
INVARIANTS
  SettledView
  StartNeverStuck
CHECK_DEADLOCK FALSE
