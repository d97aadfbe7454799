SPECIFICATION Spec
CONSTANTS
  k1 = k1
  k2 = k2
  k3 = k3
  s1 = s1
  s2 = s2
  h1 = h1
  h2 = h2
  NoLease = NoLease
  Key <- MCKey
  Snapshot <- MCSnapshot
  SnapshotOf <- MCSnapshotOf
  Bytes <- MCBytes
  MaxCount = 2
  MaxBytes = 3
  Holder <- MCHolder
  MaxVersion = 4
INVARIANTS
  LeasedCodeStays
  KeptForCause
  BooksExact
CHECK_DEADLOCK FALSE
