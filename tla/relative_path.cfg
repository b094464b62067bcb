SPECIFICATION ConnSpec
CONSTANTS
  p1 = p1
  p2 = p2
  none = none
  Procs = {p1, p2}
  NoProc = none
  Writes = {1, 2}
  MaxInodes = 2
  Relative = {p1, p2}
  Alone = TRUE
INVARIANT RegistryTracksOpen
