CONSTANTS
  Processes = {p1, p2}
  Legacy = {l1}
  Unreadable = {}
  New = {n1, n2}
  MaxStops = 1
SPECIFICATION StoreSpec
INVARIANT LockedByAnother
