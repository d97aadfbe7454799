SPECIFICATION FairSpec
CONSTANTS
  Thread = {t1, t2, t3}
  Initiator = {t1, t2}
  NoOne = NoOne
  MaxEpoch = 3
  MaxIds = 4
INVARIANTS
  TypeOK
  WorldStopped
  OneOperation
  PeersSeeTheStop
PROPERTIES
  LoneStopFinishes
  ParkedReleased
CHECK_DEADLOCK FALSE
